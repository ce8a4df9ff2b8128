------------------------------- MODULE Recent -------------------------------
(***************************************************************************)
(* What an associative memory of Cap patterns promises: it recollects the  *)
(* last Cap patterns stored since it was last cleared, oldest first.       *)
(***************************************************************************)
EXTENDS Naturals, Sequences

CONSTANTS Cap, Items

VARIABLE recent

RecentInit == recent = <<>>

Remember == \E x \in Items :
  recent' = Append(IF Len(recent) < Cap THEN recent ELSE Tail(recent), x)

Forget == recent' = <<>>

RecentNext == Remember \/ Forget

RecentSpec == RecentInit /\ [][RecentNext]_recent
=============================================================================
