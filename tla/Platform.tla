------------------------------ MODULE Platform ------------------------------
(***************************************************************************)
(* How the drivers come to the registers of their devices at boot: the     *)
(* scans of PCI (src/pci.rs), the window of the third gigabyte that        *)
(* src/paging.rs maps in pages of 2 MB, and the first steps of each driver *)
(* in the order of main.                                                   *)
(*                                                                         *)
(* Physical addresses are counted in pages of 2 MB.  A machine is the      *)
(* sequence of its functions in the order of the scan (bus, slot, func);   *)
(* a BAR is the dword that holds it: [io, wide, page], wide if the next    *)
(* BAR is its upper half, an upper half being a BAR like any other to who  *)
(* reads it alone.                                                         *)
(***************************************************************************)
EXTENDS Integers, Sequences, FiniteSetsExt

CONSTANT Boards          \* the machines

\* What the drivers take for granted of their devices: where the registers
\* are a memory BAR is, the only one of the Intel card, not the upper half of
\* another; those of the Realtek lie below 4 GB.
ASSUME PlatformAssumption ==
  \A m \in Boards :
    /\ DOMAIN m \subseteq Nat
    /\ \A f \in DOMAIN m : LET b == m[f].bars IN
         /\ DOMAIN b = 0..5 /\ \A i \in 0..5 : b[i].page \in Nat
         /\ m[f].id = "8086:100e" =>
              ~b[0].wide /\ \A i \in 1..5 : b[i].io \/ b[i].page = 0
         /\ m[f].class = "04:03" \/ m[f].id = "8086:2668" => ~b[0].io
         /\ m[f].class = "01:06" => ~b[5].io /\ ~b[5].wide /\ ~b[4].wide
         /\ m[f].id = "10ec:8136" => \A i \in 0..2 : b[i].wide => b[i + 1].page = 0

VARIABLES board,
          window,        \* PML2_MMIO: index -> page, where an entry is present
          master,        \* functions made bus masters
          base,          \* the MMIO base of each driver: {} or {index of the window}
          of,            \* history: the function each driver has taken
          bootPc         \* next step of the boot

bootVars == <<board, window, master, base, of, bootPc>>

Drivers == {"e1000", "hda", "ahci", "rtl", "apic", "ioapic"}
Entries2M == 512
Low  == 3 * Entries2M          \* 3 GB
High == 4 * Entries2M - 1
\* The zones of paging::init: NIC, frame buffer, MSI, IO-APIC, local APIC.
Fixed == {1544, 2024, 2037, 2038, 2039}

BootInit == /\ board \in Boards
            /\ window = <<>>
            /\ master = {} /\ base = [d \in Drivers |-> {}] /\ of = [d \in Drivers |-> 0]
            /\ bootPc = "paging"
-----------------------------------------------------------------------------
PagingInit ==
  /\ bootPc = "paging" /\ bootPc' = "e1000"
  /\ window' = [i \in {p - Low : p \in Fixed} |-> Low + i]
  /\ UNCHANGED <<board, master, base, of>>

\* mmio_virt_addr: the offset in the gigabyte of the window.
MmioVirtAddr(page) == page % Entries2M

\* The window with an entry more, or another.
WithEntry(i, page) ==
  [k \in DOMAIN window \cup {i} |-> IF k = i THEN page ELSE window[k]]

\* Slip: the window begins at the page, not at its gigabyte.
MapMmioPage_Absolute(page) ==
  IF page \notin Low..High THEN {} ELSE {WithEntry((page - Low + 1) % Entries2M, page)}

\* map_mmio_page: {} if refused.
MapMmioPage(page) ==
  IF page \notin Low..High THEN {} ELSE {WithEntry(page % Entries2M, page)}

\* read_bars, for BAR 0.
ReadBars(f) == LET b == board[f].bars IN
               IF b[0].wide THEN b[0].page + b[1].page * 2048 ELSE b[0].page

\* pci_find_device looks at five buses, find_class and find_class_all at eight.
PciFindDevice(id) ==
  LET hits == {f \in DOMAIN board : board[f].id = id /\ board[f].bus < 5}
  IN IF hits = {} THEN {} ELSE {Min(hits)}
FindClassAll(c) == {f \in DOMAIN board : board[f].class = c /\ board[f].bus < 8}
FindClass(c) == IF FindClassAll(c) = {} THEN {} ELSE {Min(FindClassAll(c))}

Takes(d, f, page) == /\ base' = [base EXCEPT ![d] = {MmioVirtAddr(page)}]
                     /\ of' = [of EXCEPT ![d] = f]

\* A driver that maps the page before it takes it.
MapsAndTakes(d, f, page) ==
  IF MapMmioPage(page) = {} THEN UNCHANGED <<window, base, of>>
  ELSE window' \in MapMmioPage(page) /\ Takes(d, f, page)

\* main: the Intel card, in one of the zones that are already mapped.
E1000Boot ==
  /\ bootPc = "e1000" /\ bootPc' = "hda"
  /\ master' = master \cup PciFindDevice("8086:100e")
  /\ IF PciFindDevice("8086:100e") = {} THEN UNCHANGED <<base, of>>
     ELSE \E f \in PciFindDevice("8086:100e") : Takes("e1000", f, ReadBars(f))
  /\ UNCHANGED <<board, window>>

\* hda::init: each controller of the class in turn, then the chosen (Udito).
HdaControllers == IF FindClassAll("04:03") # {} THEN FindClassAll("04:03")
                  ELSE PciFindDevice("8086:2668")
HdaProbe ==
  /\ bootPc = "hda" /\ HdaControllers \ master # {}
  /\ LET f == Min(HdaControllers \ master) IN
       master' = master \cup {f} /\ MapsAndTakes("hda", f, ReadBars(f))
  /\ UNCHANGED <<board, bootPc>>
HdaAgain ==
  /\ bootPc = "hda" /\ HdaControllers \subseteq master /\ bootPc' = "ahci"
  /\ \/ \E f \in HdaControllers : MapsAndTakes("hda", f, ReadBars(f))
     \/ UNCHANGED <<window, base, of>>
  /\ UNCHANGED <<board, master>>

\* ahci::init: ABAR is BAR 5, 32 bits.
AhciBoot ==
  /\ bootPc = "ahci" /\ bootPc' = "rtl"
  /\ master' = master \cup FindClass("01:06")
  /\ IF FindClass("01:06") = {} THEN UNCHANGED <<window, base, of>>
     ELSE \E f \in FindClass("01:06") : MapsAndTakes("ahci", f, board[f].bars[5].page)
  /\ UNCHANGED board

\* Slip: the BARs from the first on, whatever they decode.
RtlBar_First(f) == LET some == {i \in 0..2 : board[f].bars[i].page # 0}
                   IN IF some = {} THEN {} ELSE {Min(some)}

\* Rtl::probe: of BAR 2, 1, 0 the first that is memory and not zero.
RtlBar(f) == LET memory == {i \in 0..2 : ~board[f].bars[i].io /\ board[f].bars[i].page # 0}
             IN IF memory = {} THEN {} ELSE {Max(memory)}

RtlBoot ==
  /\ bootPc = "rtl" /\ bootPc' = "apic"
  /\ master' = master \cup PciFindDevice("10ec:8136")
  /\ LET choice == {c \in PciFindDevice("10ec:8136") \X (0..2) : c[2] \in RtlBar(c[1])} IN
     IF choice = {} THEN UNCHANGED <<window, base, of>>
     ELSE \E c \in choice : MapsAndTakes("rtl", c[1], board[c[1]].bars[c[2]].page)
  /\ UNCHANGED board

ApicBoot == /\ bootPc = "apic" /\ bootPc' = "loop"
            /\ base' = [base EXCEPT !["apic"] = {MmioVirtAddr(2039)},
                                    !["ioapic"] = {MmioVirtAddr(2038)}]
            /\ UNCHANGED <<board, window, master, of>>

BootNext == \/ PagingInit \/ E1000Boot \/ HdaProbe \/ HdaAgain
            \/ AhciBoot \/ RtlBoot \/ ApicBoot
BootSpec == BootInit /\ [][BootNext]_bootVars
-----------------------------------------------------------------------------
BootTypeOK == /\ \A i \in DOMAIN window : window[i] \in Low..High
              /\ master \subseteq DOMAIN board
              /\ \A d \in Drivers : base[d] \subseteq 0..(Entries2M - 1)

\* The pages of the memory BARs of a function: what it decodes.
Decodes(f) == LET b == board[f].bars IN
  {IF b[i].wide THEN b[i].page + b[i + 1].page * 2048 ELSE b[i].page :
     i \in {j \in DOMAIN b : ~b[j].io /\ b[j].page # 0
                             /\ (j = 0 \/ ~b[j - 1].wide)}}

(* Where a driver reads and writes its registers, the window leads to a    *)
(* page that its own device decodes, whatever was mapped before and since, *)
(* and the device can answer by DMA.  The Intel card is trusted to be in a *)
(* zone that paging::init maps (main.rs:1083 maps nothing).                *)
TouchesItsOwn ==
  \A d \in {"e1000", "hda", "ahci", "rtl"} : \A i \in base[d] :
     /\ of[d] \in master
     /\ \/ i \in DOMAIN window /\ window[i] \in Decodes(of[d])
        \/ d = "e1000" /\ Decodes(of[d]) \cap Fixed = {}
=============================================================================
