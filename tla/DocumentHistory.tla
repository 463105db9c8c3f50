---------------------------- MODULE DocumentHistory ---------------------------
(***************************************************************************)
(* DocumentService with three history variables.  They record where the     *)
(* requests met in one of the few ways that the handlers do not guard       *)
(* against, so that what holds everywhere else can be said of every         *)
(* interleaving.  They are functions of the step taken and restrict         *)
(* nothing.                                                                 *)
(***************************************************************************)
EXTENDS DocumentService

VARIABLES
    torn,    \* rooms of which a first save met another one, or the room's close
    split,   \* documents for which a room was created while their first save
             \* was under way, or by the deprecated creation
    served   \* for each rename of a document, the rooms that have been open
             \* for it ever since the store was changed

historyVars == <<torn, split, served>>
hvars == <<vars, historyVars>>

HistoryTypeOK ==
    /\ torn \subseteq Rooms
    /\ split \subseteq Scenes
    /\ served \in [Requests -> SUBSET Rooms]

\* A save that found its room without a scene id.
FirstSave(q, r) == req[q].pc \in {"name", "create", "setScene", "bind"} /\ req[q].room = r

\* A first save has made the document and has not been answered.
Pending(q, s) == req[q].pc \in {"setScene", "bind"} /\ req[q].scene = s
Fresh(s) == \E q \in Requests : Pending(q, s)

Deleting(q, s) ==
    /\ req[q].pc \in {"delGet", "delList", "delVersions", "delDoc"}
    /\ req[q].scene = s

\* The rooms a rename must reach: those of its document, except one whose
\* first save is not answered yet.
Serving(q) == {r \in RoomsOf(req[q].scene) : \A p \in Requests : ~FirstSave(p, r)}

Renaming(q) == req[q].op = "sceneRename" /\ req[q].pc # "idle"

Crossed(r) ==
    \/ r \notin live /\ \E q \in Requests : FirstSave(q, r)
    \/ \E p, q \in Requests : p # q /\ FirstSave(p, r) /\ FirstSave(q, r)

\* The documents that get another live room in this step.
Opened == {s \in Scenes : \E r \in live' \ live : roomScene'[r] = s}

\* A room stays torn while anything refers to it, a document stays split
\* while it has a room or its first save is under way.
Record(loosened) ==
    /\ torn' = {r \in Rooms : Crossed(r)' \/ (r \in torn /\ ~Unreferenced(r)')}
    /\ split' = {s \in Scenes :
                   /\ s \in split \/ s \in loosened
                   /\ RoomsOf(s)' # {} \/ Fresh(s)'}
    /\ served' = [q \in Requests |->
                   {r \in Rooms :
                      /\ Renaming(q)' /\ r \in Serving(q)'
                      /\ Renaming(q) => r \in served[q]}]

HInit ==
    /\ Init
    /\ torn = {}
    /\ split = {}
    /\ served = [q \in Requests |-> {}]

HNext ==
    \/ /\ Restart \/ \E q \in Requests : Issue(q) \/ Proceed(q)
       /\ Record({s \in Opened : Fresh(s)})
    \/ /\ \E q \in Requests : LegacyCreateRoom(q)
       /\ Record(Opened)

HSpec == HInit /\ [][HNext]_hvars
-----------------------------------------------------------------------------
(***************************************************************************)
(* FR-2.1, FR-2.2: a document has at most one live room, however requests   *)
(* interleave, unless it was opened during its first save or by the         *)
(* deprecated creation; and again when all its rooms are closed.            *)
(***************************************************************************)
OneRoomUnlessSplit ==
    \A s \in Scenes \ split : \A r1, r2 \in RoomsOf(s) : r1 = r2

(***************************************************************************)
(* RoomForScene "returns the currently-live room for sceneID, if any": an   *)
(* index entry names a live room of that document, unless the first save    *)
(* that made the entry met the room's close or another first save.          *)
(***************************************************************************)
IndexedUnlessTorn ==
    \A s \in Scenes : bySceneID[s] \in Rooms \ torn => bySceneID[s] \in RoomsOf(s)

(***************************************************************************)
(* A room's sceneID is "empty until first save, then fixed": it never       *)
(* changes while the room is open, unless two first saves of the room meet, *)
(* and even then not once these are over.                                   *)
(***************************************************************************)
SceneIDFixedUnlessTorn ==
    [][\A r \in live \cap live' :
         /\ roomScene[r] # NoScene
         /\ r \in torn => \A q \in Requests : ~FirstSave(q, r)
         => roomScene'[r] = roomScene[r]]_hvars

(***************************************************************************)
(* FR-2.8: when the rename of a document is answered with success, every    *)
(* room that has been open for the document since the store was changed     *)
(* shows the name asked for, whatever other renames, opens, closes and      *)
(* saves have met it.                                                       *)
(***************************************************************************)
RenameReachesRoom ==
    [][\A q \in Requests, s \in Scenes \ split :
         Renaming(q) /\ ~Renaming(q)' /\ req[q].scene = s
         => \A r \in served[q] \cap RoomsOf(s)' : roomName'[r] = req[q].name]_hvars

Sessions == INSTANCE DocumentSessions
                WITH sessions <- [s \in Scenes |-> RoomsOf(s)],
                     fresh <- {s \in Scenes : Fresh(s)},
                     doomed <- {s \in Scenes : \E q \in Requests : Deleting(q, s)},
                     loose <- split

(***************************************************************************)
(* The handlers, their interleavings and the index implement the sessions   *)
(* of documents: what a step does to the rooms of documents is what that    *)
(* specification allows.                                                    *)
(***************************************************************************)
ImplementsSessions == Sessions!Spec
=============================================================================
