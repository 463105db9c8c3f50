----------------------------- MODULE MCCanvasSync -----------------------------
(***************************************************************************)
(* Instances of CanvasSync for TLC.                                         *)
(***************************************************************************)
EXTENDS CanvasSync

DrawnBySeeder == [id \in Ids |-> Seeder]

\* Two admins who edit anything; two who keep changing one element; one who
\* draws before two others, of whom one loses the connection; and one who draws,
\* changes and deletes before another who loses it.
TwoEdit == [part |-> <<"edits", "edits", "away">>, edits |-> 3, ids |-> Ids,
            nonces |-> {1, 2}]
TwoInsist == [part |-> <<"draws", "draws", "away">>, edits |-> 4, ids |-> Saved,
              nonces |-> {1, 2}]
OneDraws == [part |-> <<"draws", "watches", "reconnects">>, edits |-> 1,
             ids |-> Ids, nonces |-> {1}]
OneReturns == [part |-> <<"draws", "reconnects", "away">>, edits |-> 3,
               ids |-> Ids, nonces |-> {1}]
Performances == {TwoEdit, TwoInsist, OneDraws, OneReturns}
=============================================================================
