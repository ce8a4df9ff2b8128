---------------------------- MODULE MCSerialLine ----------------------------
(* TLC instance of SerialLine: one line as long as the buffer, of a host   *)
(* that waits for the echo.                                                *)
EXTENDS SerialLine

MCManners == {[paced |-> TRUE, ends |-> {1}]}
=============================================================================
