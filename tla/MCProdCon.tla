----------------------------- MODULE MCProdCon -----------------------------
(***************************************************************************)
(* ProdCon for model checking: up to two threads on either side, so that   *)
(* both sides can be asleep at once, and fewer slots than items.           *)
(***************************************************************************)
EXTENDS ProdCon
=============================================================================
