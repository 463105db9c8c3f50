--------------------------- MODULE MCDocumentHistory --------------------------
(***************************************************************************)
(* Instances of DocumentHistory for TLC.                                    *)
(***************************************************************************)
EXTENDS DocumentHistory, TLC

\* Everything that makes, opens, binds, closes and deletes.
Documentary == {"create", "legacyCreate", "open", "save", "roomDelete",
                "sceneDelete", "restart"}

\* Everything but the deletion of documents.
WithoutSceneDelete == Operations \ {"sceneDelete"}

\* Rooms, versions and documents are interchangeable, but those stored at
\* the start are not like the others.
Symmetry == Permutations(Rooms) \cup Permutations(Versions)
                \cup Permutations(Scenes \ Stored)
=============================================================================
