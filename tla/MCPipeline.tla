----------------------------- MODULE MCPipeline -----------------------------
(***************************************************************************)
(* Inputs for model-checking Pipeline on its own.                          *)
(***************************************************************************)
EXTENDS Pipeline

\* Level 2: the windows of each record enter together.
OneFileLevel2 == << <<2, 0, 3>> >>

\* Level 1: two files of one packet each.
TwoFiles == << <<1>>, <<1>> >>
=============================================================================
