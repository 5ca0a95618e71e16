--------------------------- MODULE MCProdConHora ---------------------------
(***************************************************************************)
(* ProdConHora for model checking: two consumers, so that one can enter    *)
(* where the other one has lost the mutex.                                 *)
(***************************************************************************)
EXTENDS ProdConHora
=============================================================================
