------------------------------ MODULE MCSerial ------------------------------
(***************************************************************************)
(* Queues of two bytes, so that a string of three overflows one that is    *)
(* not waited for; a peer that sends up to three bytes at any moment, the  *)
(* test byte among them.                                                   *)
(***************************************************************************)
EXTENDS Serial

MCPeerBytes == {80, TestByte}
MCStrings == {<<65>>, <<65, 66, 67>>}

=============================================================================
