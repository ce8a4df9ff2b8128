----------------------------- MODULE SerialLine -----------------------------
(***************************************************************************)
(* The command line: src/serial.rs and the part of the main loop that      *)
(* feeds and empties it.  In every round of the loop at most MaxDrain      *)
(* bytes go from the UART to LineReader::push; only when the tick has      *)
(* advanced is a complete line executed and LineReader::consume called.    *)
(*                                                                         *)
(* A byte is <<line, position>>, position 0 being a terminator, so that    *)
(* what the reader hands out can be compared with what the host sent.      *)
(***************************************************************************)
EXTENDS Naturals, Sequences, FiniteSets

CONSTANTS LineCap,      \* the length of buf (64)
          MaxDrain,     \* bytes drained in a round (32)
          FifoSize,     \* the UART's receive FIFO
          Lengths,      \* the lengths of the lines the host may send
          MaxLines,     \* bound: lines sent in a behaviour
          Manners       \* the hosts: [paced, ends]

ASSUME SerialAssumption ==
  /\ LineCap \in Nat \ {0} /\ MaxDrain \in Nat \ {0} /\ FifoSize \in Nat \ {0}
  /\ Lengths \subseteq Nat /\ MaxLines \in Nat
  /\ Manners \subseteq [paced : BOOLEAN, ends : SUBSET {1, 2}]

VARIABLES fifo,         \* the UART's receive FIFO
          buf, hasLine, \* LineReader: buf[..len] and has_line
          linePc, left, \* the loop: "round", "drain" with bytes left, "work"
          due, ticked,  \* the TSC has passed next_tsc; TICK # LAST_TICK
          manner,       \* the host waits for the echo of each line (paced); it
                        \* ends lines with 1 byte, \n, or 2, \r\n
          sent,         \* lengths of the lines the host has begun
          todo,         \* bytes of the last line still to send
          overrun,      \* history: the UART has lost a byte
          executed      \* history: the lines executed

host == <<manner, sent, todo>>
clock == <<due, ticked>>
lineVars == <<fifo, buf, hasLine, linePc, left, clock, host, overrun, executed>>

LineInit == /\ fifo = <<>> /\ buf = <<>> /\ hasLine = FALSE
            /\ linePc = "round" /\ left = 0 /\ due = FALSE /\ ticked = FALSE
            /\ manner \in Manners /\ sent = <<>> /\ todo = <<>>
            /\ overrun = FALSE /\ executed = <<>>

IsEnd(b) == b[2] = 0
Whole(n) == [i \in 1..sent[n] |-> <<n, i>>]

\* The places of the commands among the lines executed: an empty line is none.
Commands == {i \in DOMAIN executed : executed[i] # <<>>}
-----------------------------------------------------------------------------
(* LineReader *)

\* Slips: the flag is not looked at; a terminator leaves the line open.
Push_NoFlag(b) == IF Len(buf) >= LineCap THEN UNCHANGED <<buf, hasLine>> ELSE
                  IF IsEnd(b) THEN hasLine' = TRUE /\ UNCHANGED buf
                              ELSE buf' = Append(buf, b) /\ UNCHANGED hasLine
Push_NoCap(b) == IF hasLine THEN UNCHANGED <<buf, hasLine>> ELSE
                 IF IsEnd(b) THEN hasLine' = TRUE /\ UNCHANGED buf
                             ELSE buf' = Append(buf, b) /\ UNCHANGED hasLine

Push(b) == IF hasLine \/ Len(buf) >= LineCap THEN UNCHANGED <<buf, hasLine>> ELSE
           IF IsEnd(b) THEN hasLine' = TRUE /\ UNCHANGED buf
                       ELSE buf' = Append(buf, b) /\ UNCHANGED hasLine

\* Slip: only the flag is cleared.
Consume_FlagOnly == buf' = buf /\ hasLine' = FALSE

Consume == buf' = <<>> /\ hasLine' = FALSE
-----------------------------------------------------------------------------
(* The loop. *)

\* Top of a round: inc_tick when the time has come.
Round == /\ linePc = "round" /\ linePc' = "drain" /\ left' = MaxDrain
         /\ ticked' = due /\ due' = FALSE
         /\ UNCHANGED <<fifo, buf, hasLine, host, overrun, executed>>

Drain == /\ linePc = "drain" /\ left > 0 /\ fifo # <<>>
         /\ Push(Head(fifo))
         /\ fifo' = Tail(fifo) /\ left' = left - 1
         /\ UNCHANGED <<linePc, clock, host, overrun, executed>>

\* tick_advanced: without a new tick the round ends here.
Drained == /\ linePc = "drain" /\ (left = 0 \/ fifo = <<>>)
           /\ linePc' = IF ticked THEN "work" ELSE "round"
           /\ ticked' = FALSE /\ left' = 0
           /\ UNCHANGED <<fifo, buf, hasLine, due, host, overrun, executed>>

Execute == IF hasLine THEN executed' = Append(executed, buf) /\ Consume
                      ELSE UNCHANGED <<executed, buf, hasLine>>

Work == /\ linePc = "work" /\ linePc' = "round"
        /\ Execute
        /\ UNCHANGED <<fifo, left, clock, host, overrun>>

Loop == Round \/ Drain \/ Drained \/ Work

TickDue == due' = TRUE /\ due = FALSE
           /\ UNCHANGED <<fifo, buf, hasLine, linePc, left, ticked, host, overrun, executed>>
-----------------------------------------------------------------------------
(* The host, and the UART between it and the loop. *)

BeginLine ==
  /\ todo = <<>> /\ Len(sent) < MaxLines
  /\ manner.paced => Cardinality(Commands) = Len(sent)
  /\ \E k \in Lengths, e \in manner.ends :
        LET n == Len(sent) + 1 IN
        /\ sent' = Append(sent, k)
        /\ todo' = [i \in 1..(k + e) |-> <<n, IF i > k THEN 0 ELSE i>>]
  /\ UNCHANGED <<fifo, buf, hasLine, linePc, left, clock, manner, overrun, executed>>

SendByte == /\ todo # <<>> /\ todo' = Tail(todo)
            /\ IF Len(fifo) < FifoSize
                 THEN fifo' = Append(fifo, Head(todo)) /\ UNCHANGED overrun
                 ELSE overrun' = TRUE /\ UNCHANGED fifo
            /\ UNCHANGED <<buf, hasLine, linePc, left, clock, manner, sent, executed>>

LineNext == Loop \/ TickDue \/ BeginLine \/ SendByte

\* The CPU runs, its time stamp counter advances, the wire delivers.
LineSpec == LineInit /\ [][LineNext]_lineVars
                     /\ WF_lineVars(Loop) /\ WF_lineVars(TickDue) /\ WF_lineVars(SendByte)
-----------------------------------------------------------------------------
SentByte(b) == b[1] \in 1..Len(sent) /\ b[2] \in 0..sent[b[1]]

LineTypeOK == /\ \A i \in 1..Len(fifo) : SentByte(fifo[i])
              /\ Len(fifo) <= FifoSize /\ Len(buf) <= LineCap
              /\ \A i \in 1..Len(buf) : SentByte(buf[i]) /\ ~IsEnd(buf[i])
              /\ hasLine \in BOOLEAN /\ due \in BOOLEAN /\ ticked \in BOOLEAN /\ overrun \in BOOLEAN
              /\ linePc \in {"round", "drain", "work"} /\ left \in 0..MaxDrain
              /\ \A i \in 1..Len(sent) : sent[i] \in Lengths
              /\ \A i \in 1..Len(executed) : Len(executed[i]) <= LineCap

IsTailOf(s, n) == \A i \in 1..Len(s) : s[i] = <<n, sent[n] - Len(s) + i>>

\* The commands are the lines that were sent, whole and in order.
Exact == \A i \in Commands :
           LET k == Cardinality({j \in Commands : j <= i}) IN k <= Len(sent) /\ executed[i] = Whole(k)

Patient == manner.paced /\ manner.ends = {1}

(* However fast the host is, a line that is executed never mixes bytes of  *)
(* two lines: it is the end of one line, cut at the front when bytes were  *)
(* dropped because the previous line was still waiting.  A host that ends  *)
(* its lines with \n and waits for the echo is understood, whatever the    *)
(* tick and the drain do: no command is cut, joined, repeated or out of    *)
(* order.                                                                  *)
LinesAreKept == ~overrun =>
  /\ \A i \in 1..Len(executed) :
        \E n \in 1..Len(sent) : Len(executed[i]) <= sent[n] /\ IsTailOf(executed[i], n)
  /\ Patient => Exact

(* Liveness: every line a host that waits for the echo sends is executed.  *)
PacedIsHeard == Patient =>
  \A n \in 1..MaxLines :
     (Len(sent) >= n) ~> (Cardinality(Commands) >= n \/ overrun)

(* serial.rs:2 "Accumulates serial bytes until '\n', then provides the     *)
(* line for parsing": the terminator of a line completes it.               *)
EndCompletes == [][Drain /\ IsEnd(Head(fifo)) => hasLine']_lineVars
=============================================================================
