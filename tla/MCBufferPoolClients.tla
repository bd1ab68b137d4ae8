------------------------ MODULE MCBufferPoolClients ------------------------
(***************************************************************************)
(* Instance of the buffer pool with callers for TLC.  Callers are          *)
(* interchangeable: nothing orders or compares them.                       *)
(***************************************************************************)
EXTENDS BufferPoolClients, TLC

ClientSymmetry == Permutations(Clients)

=============================================================================
