-------------------------------- MODULE Nics --------------------------------
(***************************************************************************)
(* The network card of the machine: the Intel e1000 (in QEMU), both halves *)
(* of it, or the transmitter of the Realtek (on the metal; its receiver is *)
(* RtlRx).  Every call in the loop goes to the card that is present.       *)
(*                                                                         *)
(* The two halves of the e1000 are driven by one CPU: init waits in        *)
(* test_tx before the loopback and the first poll, the ARP reply is sent   *)
(* between the poll and the take, the telemetry at the end of the tick.    *)
(* Their chips run concurrently with it and with each other.               *)
(***************************************************************************)
EXTENDS E1000Rx, E1000Tx, RtlTx

VARIABLE card

nicsVars == <<rxVars, txVars, rtlVars, card>>

NicsInit == RxInit /\ TxInit /\ RtlInit /\ card \in {"e1000", "rtl"}

\* tx_frame of the e1000, until the bound on the calls is reached.
Send == TxRefuse \/ TxFrame \/ (offered = MaxFrames /\ UNCHANGED txVars)

\* init: test_tx, and what follows its return.
BootTestTx == TestTx /\ UNCHANGED rxVars
BootTested == TestTxEnd /\ TestTxReturns

\* The ARP responder answers a request that is in the port.
AnswerArp == TickArp /\ IF ArpRequester # {} THEN Send ELSE UNCHANGED txVars

\* The telemetry is due in some ticks.
Telemetry == TickEnds /\ (Send \/ UNCHANGED txVars)

RxAlone == \/ LoopbackTest \/ Poll \/ ScanSkip \/ ScanFeed \/ ScanClear
           \/ PollDone \/ TickTake

E1000 == \/ BootTestTx \/ BootTested \/ AnswerArp \/ Telemetry
         \/ RxAlone /\ UNCHANGED txVars
         \/ Chip /\ UNCHANGED txVars
         \/ ChipSend /\ UNCHANGED rxVars

Realtek == RtlNext

NicsNext == /\ UNCHANGED card
            /\ \/ card = "e1000" /\ E1000 /\ UNCHANGED rtlVars
               \/ card = "rtl" /\ Realtek /\ UNCHANGED <<rxVars, txVars>>

NicsTypeOK == RxTypeOK /\ TxTypeOK /\ RtlTypeOK
=============================================================================
