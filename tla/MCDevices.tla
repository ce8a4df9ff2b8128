----------------------------- MODULE MCDevices ------------------------------
(* TLC instance of Devices.                                                *)
(*   nic    e1000 rings of four and three descriptors, frames that exhaust *)
(*          those lent to the chip, calls that bring TX_NEXT back to       *)
(*          descriptor 0, where they are refused for ever, one ARP         *)
(*          request; five calls of the tx_frame of the Realtek;            *)
(*   disk   two sectors, two memories, three calls after IDENTIFY;         *)
(*   codec  rings of four entries, six verbs, so that both wrap;           *)
(*   ear    the machines of MCUdito;                                       *)
(*   boot   the two machines of the tests (QEMU, Lenovo), a machine with   *)
(*          devices above 4 GB and below 3 GB or on a far bus, one that    *)
(*          shares a zone, one whose audio is not in the class it should.  *)
EXTENDS Devices, MCUdito, TLC

MCRequests == {2}

LOCAL Absent == [io |-> FALSE, wide |-> FALSE, page |-> 0]
LOCAL Mem(p)  == [io |-> FALSE, wide |-> FALSE, page |-> p]
LOCAL Wide(p) == [io |-> FALSE, wide |-> TRUE, page |-> p]
LOCAL Port(p) == [io |-> TRUE, wide |-> FALSE, page |-> p]
LOCAL Function(bus, id, class, bars) ==
  [bus |-> bus, id |-> id, class |-> class,
   bars |-> [i \in 0..5 |-> IF i \in DOMAIN bars THEN bars[i] ELSE Absent]]

LOCAL Intel(p)   == Function(0, "8086:100e", "02:00", 0 :> Mem(p))
LOCAL Ich(c, p)  == Function(0, "8086:2668", c, 0 :> Mem(p))
LOCAL Audio(b, upper) == Function(0, "1022:157a", "04:03", 0 :> b @@ 1 :> Mem(upper))
LOCAL Sata(p)    == Function(0, "1022:7801", "01:06", 5 :> Mem(p))
LOCAL Realtek8136(bus, p) == Function(bus, "10ec:8136", "02:00", 0 :> Port(1600) @@ 2 :> Wide(p))

MCBoards == {<<Intel(2037), Ich("04:03", 2038), Sata(2037)>>,
             <<Audio(Wide(2030), 0), Audio(Mem(2031), 0), Sata(2031), Realtek8136(2, 2028)>>,
             <<Audio(Wide(2030), 1), Sata(5), Realtek8136(6, 2028)>>,
             <<Sata(1544), Realtek8136(1, 1544)>>,
             <<Ich("0c:03", 1700)>>}
=============================================================================
