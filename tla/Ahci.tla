-------------------------------- MODULE Ahci --------------------------------
(***************************************************************************)
(* The SATA disk (src/ahci.rs): one port, one command slot, polled.  init  *)
(* identifies the disk; read_sector, write_sector and flush_cache_ext      *)
(* rewrite the one command list and table, look at ST and BSY, clear IS,   *)
(* set CI and wait a bounded time for the answer in IS.                    *)
(*                                                                         *)
(* The controller fetches the command when it sees CI and takes the        *)
(* address of the memory from the table when the data moves, which after a *)
(* call that gave up may be the table of a later call.  After an error it  *)
(* stops, and no code restarts the port.  A content is the number of the   *)
(* call that wrote it; memories are those of the callers and of IDENTIFY.  *)
(***************************************************************************)
EXTENDS Integers

CONSTANTS Lbas, Memories,
          MaxRequests    \* bound: calls in a behaviour

ASSUME AhciAssumption == Memories \cap {"IDB", "none"} = {} /\ MaxRequests \in Nat

VARIABLES table,         \* CL and CT: [op, lba, mem]
          ci, bsy, is,   \* PxCI, PxTFD.BSY, PxIS
          running,       \* the command in the disk: {} or {[op, lba]}
          stopped,       \* the port after an error
          cached, platter, \* the sectors, in the cache and for good
          memory,
          present,       \* DISCO_PRESENTE and DISCO_LEGGIBILE
          request,       \* the call in progress, or the last
          diskPc,        \* "free", "issue", "wait"
          requests,
          gaveUp,        \* history: a call has given up
          done           \* history: what the last call returned

diskChip == <<ci, bsy, is, running, stopped, cached, platter>>
diskOwn  == <<table, diskChip, memory, present, request, diskPc, requests, gaveUp, done>>

Identify == [op |-> "identify", lba |-> 0, mem |-> "IDB"]
Flush    == [op |-> "flush", lba |-> 0, mem |-> "none"]
Places   == Memories \cup {"IDB", "none"}

\* init has found the port, stopped and started it, and goes on to IDENTIFY.
DiskInit == /\ table = Identify /\ ci = FALSE /\ bsy = FALSE /\ is = {}
            /\ running = {} /\ stopped = FALSE
            /\ cached = [l \in Lbas |-> 0] /\ platter = [l \in Lbas |-> 0]
            /\ memory = [b \in Places |-> 0]
            /\ present = FALSE
            /\ request = Identify /\ diskPc = "issue"
            /\ requests = 0 /\ gaveUp = FALSE /\ done = "none"
-----------------------------------------------------------------------------
\* The controller and the disk (external).
DiskFetch ==
  /\ ci /\ ~bsy /\ ~stopped
  /\ running' = {[op |-> table.op, lba |-> table.lba]} /\ bsy' = TRUE
  /\ UNCHANGED <<table, ci, is, stopped, cached, platter, memory>>

Moves(c) ==
  CASE c.op = "read"     -> memory' = [memory EXCEPT ![table.mem] = cached[c.lba]]
                            /\ UNCHANGED <<cached, platter>>
    [] c.op = "write"    -> cached' = [cached EXCEPT ![c.lba] = memory[table.mem]]
                            /\ UNCHANGED <<memory, platter>>
    [] c.op = "flush"    -> platter' = cached /\ UNCHANGED <<memory, cached>>
    [] c.op = "identify" -> UNCHANGED <<memory, cached, platter>>

DiskDone ==
  /\ \E c \in running : Moves(c)
  /\ running' = {} /\ bsy' = FALSE /\ ci' = FALSE /\ is' = is \cup {"DHRS"}
  /\ UNCHANGED <<table, stopped>>

DiskError ==
  /\ running # {}
  /\ running' = {} /\ bsy' = FALSE /\ is' = is \cup {"TFES"} /\ stopped' = TRUE
  /\ UNCHANGED <<table, ci, cached, platter, memory>>

DiskWritesBack ==
  /\ \E l \in Lbas : platter[l] # cached[l] /\ platter' = [platter EXCEPT ![l] = cached[l]]
  /\ UNCHANGED <<table, ci, bsy, is, running, stopped, cached, memory>>

DiskChip == /\ DiskFetch \/ DiskDone \/ DiskError \/ DiskWritesBack
            /\ UNCHANGED <<present, request, diskPc, requests, gaveUp, done>>
-----------------------------------------------------------------------------
\* A caller puts what it writes in its memory; list and table are rewritten.
Request ==
  /\ diskPc = "free" /\ present /\ requests < MaxRequests
  /\ requests' = requests + 1
  /\ \/ \E l \in Lbas, b \in Memories :
          \/ request' = [op |-> "read", lba |-> l, mem |-> b] /\ UNCHANGED memory
          \/ /\ request' = [op |-> "write", lba |-> l, mem |-> b]
             /\ memory' = [memory EXCEPT ![b] = requests']
     \/ request' = Flush /\ UNCHANGED memory
  /\ table' = request'
  /\ diskPc' = "issue"
  /\ UNCHANGED <<diskChip, present, gaveUp, done>>

Returns(ok, late) ==
  /\ diskPc' = "free" /\ done' = IF ok THEN "true" ELSE "false"
  /\ gaveUp' = (gaveUp \/ late)

\* Slip: the interrupts of the command before are left.
Cleared_Nothing == is

Cleared == {}

\* ST and BSY, IS, CI.
Issue ==
  /\ diskPc = "issue"
  /\ IF bsy
       THEN Returns(FALSE, FALSE) /\ UNCHANGED <<ci, is>>
       ELSE /\ is' = Cleared /\ ci' = TRUE
            /\ diskPc' = "wait" /\ UNCHANGED <<gaveUp, done>>
  /\ UNCHANGED <<table, bsy, running, stopped, cached, platter, memory, present, request, requests>>

Failed   == "TFES" \in is
Answered == ~Failed /\ "DHRS" \in is

\* The wait; init takes the disk only if IDENTIFY answered and told a size.
Await ==
  /\ diskPc = "wait"
  /\ \/ Failed /\ Returns(FALSE, FALSE) /\ UNCHANGED present
     \/ /\ Answered /\ Returns(TRUE, FALSE)
        /\ IF request.op = "identify" THEN present' \in BOOLEAN ELSE UNCHANGED present
     \/ is = {} /\ Returns(FALSE, TRUE) /\ UNCHANGED present
  /\ UNCHANGED <<table, diskChip, memory, request, requests>>

DiskNext == DiskChip \/ Request \/ Issue \/ Await

diskVars == diskOwn
DiskSpec == DiskInit /\ [][DiskNext]_diskVars
-----------------------------------------------------------------------------
DiskTypeOK ==
  /\ table.lba \in Lbas \cup {0} /\ table.mem \in Places
  /\ ci \in BOOLEAN /\ bsy \in BOOLEAN /\ is \subseteq {"DHRS", "TFES"}
  /\ bsy = (running # {}) /\ (bsy => ci)
  /\ cached \in [Lbas -> 0..MaxRequests] /\ platter \in [Lbas -> 0..MaxRequests]
  /\ memory \in [Places -> 0..MaxRequests]
  /\ diskPc \in {"free", "issue", "wait"} /\ requests \in 0..MaxRequests

(* As long as no call has given up, the answer true is the truth: what was *)
(* read is what the disk holds, what was written is in the disk, and after *)
(* a flush all of it is there for good (ahci.rs:361 "Garantisce che i      *)
(* settori scritti siano fisicamente consolidati").                        *)
TrueIsDone ==
  diskPc = "free" /\ done = "true" /\ ~gaveUp =>
    CASE request.op = "read"  -> memory[request.mem] = cached[request.lba]
      [] request.op = "write" -> cached[request.lba] = requests
      [] request.op = "flush" -> platter = cached
      [] OTHER -> TRUE
=============================================================================
