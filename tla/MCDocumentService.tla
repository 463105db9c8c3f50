--------------------------- MODULE MCDocumentService --------------------------
(***************************************************************************)
(* An instance of DocumentService for TLC: the workload of the run that     *)
(* shows a first save overtaken by the close of its room.                   *)
(***************************************************************************)
EXTENDS DocumentService

\* The pair of operations whose meeting breaks what the registry says.
SaveAndClose == {"create", "save", "roomDelete"}
=============================================================================
