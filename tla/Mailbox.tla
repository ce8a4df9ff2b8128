------------------------------ MODULE Mailbox -------------------------------
(***************************************************************************)
(* What the network entrance promises the body: a slot holding at most one *)
(* frame.  A frame that has arrived on the wire may be posted, replacing   *)
(* the one in the slot; nothing is posted that never arrived, and nothing  *)
(* is posted twice, so no stimulus is ever felt again.  The body may       *)
(* answer the request in the slot, once, and takes the frame out of it.    *)
(* The frames that arrive may also be lost.                                *)
(***************************************************************************)
EXTENDS Integers

CONSTANTS MaxPackets,  \* bound: frames that arrive in a behaviour
          Requests     \* the frames that ask for an answer

VARIABLES arrived,   \* frames 1..arrived have been on the wire
          posted,    \* the frames that have been in the slot
          inbox,     \* the frame in the slot, 0 when it is empty
          replies    \* how often each frame was answered

mailVars == <<arrived, posted, inbox, replies>>

MailInit == /\ arrived = 0 /\ posted = {} /\ inbox = 0
            /\ replies = [p \in 1..MaxPackets |-> 0]

Arrive == /\ arrived' \in 0..MaxPackets
          /\ arrived' = arrived + 1
          /\ UNCHANGED <<posted, inbox, replies>>

Post == \E p \in (1..arrived) \ posted :
          /\ posted' = posted \cup {p}
          /\ inbox' = p
          /\ UNCHANGED <<arrived, replies>>

Answer == /\ inbox \in Requests /\ replies[inbox] = 0
          /\ replies' = [replies EXCEPT ![inbox] = 1]
          /\ UNCHANGED <<arrived, posted, inbox>>

TakeOut == /\ inbox # 0
           /\ inbox' = 0
           /\ UNCHANGED <<arrived, posted, replies>>

MailNext == Arrive \/ Post \/ Answer \/ TakeOut

MailSpec == MailInit /\ [][MailNext]_mailVars
=============================================================================
