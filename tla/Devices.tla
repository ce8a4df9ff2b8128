------------------------------ MODULE Devices ------------------------------
(***************************************************************************)
(* The devices of the machine and the boot that brings the drivers to      *)
(* them: the network card (Nics), the disk, the command link of the audio  *)
(* controller, the choice of the microphone and the windows on registers.  *)
(*                                                                         *)
(* One CPU drives them one after another and none reads what another       *)
(* keeps: what a part takes from another (that its registers are mapped,   *)
(* that its codec answers) it lets be anything.  An interleaving of two is *)
(* two behaviours side by side: `device` says whose is followed.           *)
(***************************************************************************)
EXTENDS Nics, Ahci, Hda, Udito, Platform

VARIABLE device

devicesVars == <<nicsVars, diskVars, linkOwn, earVars, bootVars, device>>

Init == /\ device \in {"nic", "disk", "codec", "ear", "boot"}
        /\ NicsInit /\ (device # "nic" => card = "rtl")
        /\ DiskInit
        /\ LinkInit /\ (device # "codec" => ~halts)
        /\ EarInit /\ (device # "ear" => machine = CHOOSE m \in Hardware : TRUE)
        /\ BootInit /\ (device # "boot" => board = CHOOSE b \in Boards : TRUE)

Next ==
  /\ UNCHANGED device
  /\ \/ /\ device = "nic" /\ NicsNext
        /\ UNCHANGED <<diskVars, linkOwn, earVars, bootVars>>
     \/ /\ device = "disk" /\ DiskNext
        /\ UNCHANGED <<nicsVars, linkOwn, earVars, bootVars>>
     \/ /\ device = "codec" /\ LinkNext
        /\ UNCHANGED <<nicsVars, diskVars, earVars, bootVars>>
     \/ /\ device = "ear" /\ EarNext
        /\ UNCHANGED <<nicsVars, diskVars, linkOwn, bootVars>>
     \/ /\ device = "boot" /\ BootNext
        /\ UNCHANGED <<nicsVars, diskVars, linkOwn, earVars>>

\* The CPU goes on in the tx_frame of the Realtek; chips and callers owe no step.
Spec == Init /\ [][Next]_devicesVars /\ WF_rtlVars(device = "nic" /\ card = "rtl" /\ RtlCpu)

(* Types and ranges of every device: no index leaves its ring, no register *)
(* names a descriptor that does not exist, no driver a window beyond the   *)
(* gigabyte.                                                               *)
TypeOK == NicsTypeOK /\ DiskTypeOK /\ LinkTypeOK /\ EarTypeOK /\ BootTypeOK
=============================================================================
