-------------------------------- MODULE Text --------------------------------
(***************************************************************************)
(* Numbers as text: the hexadecimal of the serial commands and of the      *)
(* screen (src/hexutil.rs), the decimals of the telemetry (src/net.rs,     *)
(* src/e1000.rs) and the numbers of a serial line (src/serial.rs).         *)
(*                                                                         *)
(* A character is a number: the digits 0..15, and the few others below.    *)
(* A word of 64 bits is Width hexadecimal digits; a float is a number of   *)
(* half units of the fourth decimal, and u32::MAX is UMax.                 *)
(***************************************************************************)
EXTENDS Integers, Sequences

CONSTANTS Width, UMax,
          Words,         \* words to write and read
          Floats2,       \* floats, in half units
          Lines,         \* hexadecimal arguments as they may arrive
          Rooms          \* how long a buffer may be

\* What n digits more multiply a number by.
Power(base, n) == LET p[k \in 0..n] == IF k = 0 THEN 1 ELSE base * p[k - 1] IN p[n]

ASSUME TextAssumption ==
  /\ Width \in Nat /\ Width >= 2 /\ UMax \in Nat /\ UMax >= 10000
  /\ Words \subseteq 0..(Power(16, Width) - 1)
  /\ Floats2 \subseteq Int /\ Lines \subseteq Seq(Nat) /\ Rooms \subseteq Nat

VARIABLE text            \* [word, float, line]

Blank == 32
X == 33
Dot == 34
Minus == 35
Noise == 36
Plus == 37

Texts == [word : Words, float : Floats2, line : Lines]

TextInit == text \in Texts
-----------------------------------------------------------------------------
\* Every write stops at the end of the buffer, one character at a time.
Within(room, s) == SubSeq(s, 1, IF Len(s) < room THEN Len(s) ELSE room)

\* write_u32_buf, write_u64_buf, write_dec_byte: no zeros in front.
Decimal(n) ==
  LET d[k \in 0..n] == IF k < 10 THEN <<k>> ELSE Append(d[k \div 10], k % 10) IN d[n]

Zeros(n) == [i \in 1..n |-> 0]

\* Slip: the zeros in front of the decimals are forgotten.
WriteF32_Bare(x) ==
  LET v == ((IF x < 0 THEN -x ELSE x) + 1) \div 2 IN
  (IF x < 0 THEN <<Minus>> ELSE <<>>) \o Decimal(v \div 10000) \o <<Dot>> \o Decimal(v % 10000)

(* write_f32_buf, the same in net.rs and e1000.rs: rounds to four decimals *)
(* and saturates as the cast to u32 does.                                  *)
WriteF32(x) ==
  LET a == ((IF x < 0 THEN -x ELSE x) + 1) \div 2
      v == IF a > UMax THEN UMax ELSE a
      frac == v % 10000
  IN (IF x < 0 THEN <<Minus>> ELSE <<>>) \o Decimal(v \div 10000) \o <<Dot>>
     \o Zeros(IF frac < 10 THEN 3 ELSE IF frac < 100 THEN 2 ELSE IF frac < 1000 THEN 1 ELSE 0)
     \o Decimal(frac)

\* The value of the digits of s from i on, in a base, and where they end.
RunFrom(s, i) ==
  CHOOSE j \in i..(Len(s) + 1) : /\ \A k \in i..(j - 1) : s[k] \in 0..9
                                 /\ j = Len(s) + 1 \/ s[j] \notin 0..9
Value(s, base) == LET v[k \in 0..Len(s)] == IF k = 0 THEN 0 ELSE base * v[k - 1] + s[k] IN v[Len(s)]

\* Sums and products of u32 wrap: the release profile has no overflow checks.
Wrapped(m) == m % (UMax + 1)

(* parse_f32, in units of the fourth decimal; nothing for an empty text.   *)
(* What follows the number is not read.                                    *)
ParseF32(s) ==
  LET neg   == s[1] = Minus
      start == IF s[1] \in {Minus, Plus} THEN 2 ELSE 1
      point == RunFrom(s, start)
      end   == IF point <= Len(s) /\ s[point] = Dot THEN RunFrom(s, point + 1) ELSE point
      frac  == SubSeq(s, point + 1, end - 1)
      val   == Wrapped(Value(SubSeq(s, start, point - 1), 10)) * 10000
               + (Wrapped(Value(frac, 10)) * 10000) \div Wrapped(Power(10, Len(frac)))
  IN IF neg THEN -val ELSE val

\* write_hex64_to, write_hex_digits: the low `digits` of v, the high one first.
HexDigits(v, digits, room) ==
  Within(room, [i \in 1..digits |-> (v \div Power(16, digits - i)) % 16])

WriteHex64(v) == HexDigits(v, Width, Width)

\* write_hex_min: the same without the zeros in front, but never nothing.
WriteHexMin(v) ==
  LET all == WriteHex64(v)
      first == CHOOSE i \in 1..Width : (all[i] # 0 \/ i = Width) /\ \A k \in 1..(i - 1) : all[k] = 0
  IN SubSeq(all, first, Width)

\* Slip: what does not fit loses its high digits.
ParseHex64_Wraps(args) ==
  LET digits == SelectSeq(args, LAMBDA c : c \in 0..15) IN
  IF \E i \in DOMAIN args : args[i] \notin 0..15 THEN -1 ELSE Value(digits, 16) % Power(16, Width)

(* parse_hex64: blanks, then 0x or not, then only digits, at least one, of *)
(* a number of no more than Width digits.  -1 is None.                     *)
ParseHex64(args) ==
  LET i == CHOOSE j \in 1..(Len(args) + 1) : /\ \A k \in 1..(j - 1) : args[k] = Blank
                                             /\ j = Len(args) + 1 \/ args[j] # Blank
      prefixed == Len(args) >= i + 1 /\ args[i] = 0 /\ args[i + 1] = X
      digits == SubSeq(args, IF prefixed THEN i + 2 ELSE i, Len(args))
  IN IF \/ digits = <<>>
        \/ \E k \in DOMAIN digits : digits[k] \notin 0..15
        \/ \E k \in DOMAIN digits : Value(SubSeq(digits, 1, k), 16) >= Power(16, Width)
     THEN -1 ELSE Value(digits, 16)

\* write_probe_digits: the four numbers of the probe, with nothing between.
WriteProbeDigits(p) == Decimal(p[1]) \o Decimal(p[2]) \o Decimal(p[3]) \o Decimal(p[4])
-----------------------------------------------------------------------------
Probes == (0..1) \X (0..1) \X (0..1) \X {0, 1, 10, 15}
ProbesDiffer == \A p, r \in Probes : WriteProbeDigits(p) = WriteProbeDigits(r) => p = r

(* hexutil.rs:12 "un comando di prova non deve mai mentire sul proprio     *)
(* argomento": what the body writes reads back as what it was, an argument *)
(* is understood only if it is a number that fits, and the screen's four   *)
(* numbers without separators cannot be taken for four others.             *)
TextComesBack ==
  LET a    == ParseHex64(text.line)
      told == WriteF32(text.float)
      half == 2 * ParseF32(told) - text.float
      full == WriteHex64(text.word)
  IN /\ ParseHex64(full) = text.word
     /\ ParseHex64(<<Blank, 0, X>> \o WriteHexMin(text.word)) = text.word
     /\ ParseHex64(<<1>> \o full) = -1
     /\ \A room \in Rooms : HexDigits(text.word, 2, room)
                              = Within(room, SubSeq(full, Width - 1, Width))
     /\ a # -1 => \A i \in DOMAIN text.line : text.line[i] \in (0..15) \cup {Blank, X}
     /\ Noise \in {text.line[i] : i \in DOMAIN text.line} => a = -1
     /\ IF text.float \in (-2 * UMax)..(2 * UMax) THEN half \in -1..1
        ELSE ParseF32(told) \in {UMax, -UMax}
     /\ ProbesDiffer
=============================================================================
