------------------------------ MODULE MCRtlRx -------------------------------
(* TLC instance of RtlRx: a ring of three descriptors, seven frames, so    *)
(* that the chip goes round the ring twice.                                *)
EXTENDS RtlRx

MCRequests == {2, 5}
MCEmpties == {3}
=============================================================================
