--------------------------- MODULE DocumentService ----------------------------
(***************************************************************************)
(* The admin endpoints of the backend (backend/internal/httpapi) over the   *)
(* room registry and the scene store.  net/http runs every request in its   *)
(* own goroutine, so a handler is a sequence of atomic steps, one for each  *)
(* critical section and each call to the store, and the steps of different  *)
(* requests interleave.  req[q] holds the local variables of the request in *)
(* slot q; an answered request frees its slot.                              *)
(*                                                                         *)
(* A request refused before its first effect (403, 400, 404, 409) changes   *)
(* nothing and is a stuttering step.  Crashing and restarting loses rooms   *)
(* and requests and keeps the store.                                        *)
(***************************************************************************)
EXTENDS Registry, SceneStore, Naturals, FiniteSets

CONSTANTS
    Requests,   \* concurrent request slots
    NoVersion,  \* absence of a version
    Workload    \* the operations that clients issue

Operations == {"create", "legacyCreate", "open", "save", "publish", "roomRename",
               "roomDelete", "sceneRename", "sceneDelete", "restart"}

ASSUME ServiceAssumption ==
    /\ Workload \subseteq Operations
    /\ NoVersion \notin Versions

VARIABLES
    req,        \* the local state of each request
    acked       \* history: the scene a version was reported saved to, or NoScene

vars == <<registryVars, storeVars, req, acked>>

Idle == [pc |-> "idle", op |-> "none", room |-> NoRoom, scene |-> NoScene,
         name |-> Blank, files |-> {}, todo |-> {}, refs |-> {}, ver |-> NoVersion]

Labels == {"idle", "upload", "name", "create", "setScene", "bind", "append",
           "lookup", "setName", "closeRoom", "delGet", "delList",
           "delVersions", "delDoc"}

Request ==
    [pc : Labels, op : Operations \cup {"none"}, room : Rooms \cup {NoRoom},
     scene : Scenes \cup {NoScene}, name : Names \cup {Blank},
     files : SUBSET Files, todo : SUBSET Files, refs : SUBSET Versions,
     ver : Versions \cup {NoVersion}]

\* What each label promises of the locals it uses.
WellFormed(c, made) ==
    /\ c.pc \in {"upload", "name", "create", "setScene", "bind", "append",
                 "setName", "closeRoom"} => c.room \in Rooms
    /\ c.pc \in {"setScene", "bind", "append", "lookup", "delGet", "delList",
                 "delVersions", "delDoc"} => c.scene \in made
    /\ c.pc \in {"create", "lookup", "setName"} => c.name \in Names
    /\ c.pc \in {"setScene", "bind"} => c.ver \in Versions

RequestsTypeOK ==
    /\ req \in [Requests -> Request]
    /\ \A q \in Requests : WellFormed(req[q], scenesMade)

TypeOK ==
    /\ RegistryTypeOK
    /\ StoreTypeOK
    /\ RequestsTypeOK
    /\ acked \in [Versions -> Scenes \cup {NoScene}]
    /\ \A r \in Rooms : roomScene[r] \in scenesMade \cup {NoScene}

Init ==
    /\ NewRegistry
    /\ StoreInit
    /\ req = [q \in Requests |-> Idle]
    /\ acked = [v \in Versions |-> NoScene]

Begin(q, op, locals) ==
    /\ op \in Workload
    /\ req[q].pc = "idle"
    /\ req' = [req EXCEPT ![q] = locals]

At(q, label) == req[q].pc = label
Continue(q, locals) == req' = [req EXCEPT ![q] = locals]
Answer(q) == req' = [req EXCEPT ![q] = Idle]

\* A room object that neither the registry nor a handler refers to.
Unreferenced(r) ==
    /\ r \notin live
    /\ \A s \in Scenes : bySceneID[s] # r
    /\ \A q \in Requests : req[q].room # r

-----------------------------------------------------------------------------
(* POST /rooms and POST /scenes/{id}/open: one critical section each.       *)

CreateRoom(q) ==
    \E r \in Rooms, n \in Names \cup {Blank} :
        /\ Begin(q, "create", Idle)
        /\ Unreferenced(r)
        /\ Create(r, n, NoScene)
        /\ UNCHANGED <<storeVars, acked>>

\* The deprecated {sceneId} of POST /rooms.
LegacyCreateRoom(q) ==
    \E r \in Rooms, n \in Names \cup {Blank}, s \in scenesMade :
        /\ Begin(q, "legacyCreate", Idle)
        /\ Unreferenced(r)
        /\ Create(r, n, s)
        /\ UNCHANGED <<storeVars, acked>>

\* Open does not look at the store: the scene may be gone and n out of date.
OpenScene(q) ==
    \E r \in Rooms, n \in Names \cup {Blank}, s \in scenesMade :
        /\ Begin(q, "open", Idle)
        /\ Unreferenced(r)
        /\ GetOrCreateForScene(r, n, s)
        /\ UNCHANGED <<storeVars, acked>>

-----------------------------------------------------------------------------
(* POST /rooms/{id}/save and /publish.                                      *)

\* Identifiers left for the saves in flight and one more (a bound).
SpareIds ==
    LET saves == {q \in Requests : req[q].op = "save"} IN
    /\ Cardinality(Versions \ versMade) > Cardinality(saves)
    /\ Cardinality(Scenes \ scenesMade) > Cardinality(saves)

Upload(r, F, op) == [Idle EXCEPT !.pc = "upload", !.op = op, !.room = r,
                                 !.files = F, !.todo = F]

SaveStart(q) ==
    \E r \in live, F \in SUBSET Files :
        /\ SpareIds
        /\ Begin(q, "save", Upload(r, F, "save"))
        /\ UNCHANGED <<registryVars, storeVars, acked>>

PublishStart(q) ==
    \E r \in live, F \in SUBSET Files :
        /\ Begin(q, "publish", Upload(r, F, "publish"))
        /\ UNCHANGED <<registryVars, storeVars, acked>>

\* Fault: a file that could not be stored is skipped.
UploadFileIgnoresError(q) ==
    \E f \in req[q].todo, out \in Outcomes :
        /\ At(q, "upload")
        /\ IF f \in blobs THEN UNCHANGED storeVars ELSE PutFile(f, out)
        /\ Continue(q, [req[q] EXCEPT !.todo = req[q].todo \ {f}])
        /\ UNCHANGED <<registryVars, acked>>

\* One round of uploadFiles: a file that exists is skipped, an error aborts
\* the request.  The order of the files is not relevant.
UploadFile(q) ==
    \E f \in req[q].todo, out \in Outcomes :
        /\ At(q, "upload")
        /\ IF f \in blobs THEN UNCHANGED storeVars ELSE PutFile(f, out)
        /\ IF out = "ok"
           THEN Continue(q, [req[q] EXCEPT !.todo = req[q].todo \ {f}])
           ELSE Answer(q)
        /\ UNCHANGED <<registryVars, acked>>

\* Fault: every save is taken for the first one.
SaveAlwaysFirst(q) ==
    /\ At(q, "upload")
    /\ req[q].todo = {}
    /\ req[q].op = "save"
    /\ Continue(q, [req[q] EXCEPT !.pc = "name"])
    /\ UNCHANGED <<registryVars, storeVars, acked>>

\* sceneID := room.SceneID()
SaveReadScene(q) ==
    /\ At(q, "upload")
    /\ req[q].todo = {}
    /\ req[q].op = "save"
    /\ LET s == roomScene[req[q].room] IN
       IF s = NoScene
       THEN Continue(q, [req[q] EXCEPT !.pc = "name"])
       ELSE Continue(q, [req[q] EXCEPT !.pc = "append", !.scene = s])
    /\ UNCHANGED <<registryVars, storeVars, acked>>

\* room.Name(), read before the call to CreateScene
SaveReadName(q) ==
    /\ At(q, "name")
    /\ Continue(q, [req[q] EXCEPT !.pc = "create", !.name = roomName[req[q].room]])
    /\ UNCHANGED <<registryVars, storeVars, acked>>

SaveCreate(q) ==
    \E s \in Scenes, v \in Versions, out \in Outcomes :
        /\ At(q, "create")
        /\ CreateScene(s, v, req[q].name, req[q].files, out)
        /\ IF out = "ok"
           THEN Continue(q, [req[q] EXCEPT !.pc = "setScene", !.scene = s, !.ver = v])
           ELSE Answer(q)
        /\ UNCHANGED <<registryVars, acked>>

SaveSetScene(q) ==
    /\ At(q, "setScene")
    /\ SetSceneID(req[q].room, req[q].scene)
    /\ Continue(q, [req[q] EXCEPT !.pc = "bind"])
    /\ UNCHANGED <<storeVars, acked>>

SaveBind(q) ==
    /\ At(q, "bind")
    /\ BindScene(req[q].room, req[q].scene)
    /\ acked' = [acked EXCEPT ![req[q].ver] = req[q].scene]
    /\ Answer(q)
    /\ UNCHANGED storeVars

\* Fault: the error of AddVersion is not looked at.
SaveAppendIgnoresError(q) ==
    \E v \in Versions, out \in Outcomes :
        /\ At(q, "append")
        /\ AddVersion(req[q].scene, v, req[q].files, out)
        /\ acked' = [acked EXCEPT ![v] = req[q].scene]
        /\ Answer(q)
        /\ UNCHANGED registryVars

SaveAppend(q) ==
    \E v \in Versions, out \in Outcomes :
        /\ At(q, "append")
        /\ AddVersion(req[q].scene, v, req[q].files, out)
        /\ acked' = IF out = "ok" THEN [acked EXCEPT ![v] = req[q].scene] ELSE acked
        /\ Answer(q)
        /\ UNCHANGED registryVars

PublishPut(q) ==
    \E out \in Outcomes :
        /\ At(q, "upload")
        /\ req[q].todo = {}
        /\ req[q].op = "publish"
        /\ PutPublished(req[q].files, out)
        /\ Answer(q)
        /\ UNCHANGED <<registryVars, acked>>

-----------------------------------------------------------------------------
(* PATCH /rooms/{id}/name, PATCH /scenes/{id}.                              *)

RoomRenameStart(q) ==
    \E r \in live, n \in Names :
        /\ Begin(q, "roomRename", [Idle EXCEPT !.pc = "setName", !.op = "roomRename",
                                               !.room = r, !.name = n])
        /\ UNCHANGED <<registryVars, storeVars, acked>>

SceneRenameStore(q) ==
    \E s \in scenesMade, n \in Names, out \in Outcomes :
        /\ Begin(q, "sceneRename",
                 IF s \in docs /\ out = "ok"
                 THEN [Idle EXCEPT !.pc = "lookup", !.op = "sceneRename",
                                   !.scene = s, !.name = n]
                 ELSE Idle)
        /\ RenameScene(s, n, out)
        /\ UNCHANGED <<registryVars, acked>>

\* Fault: the live room's title is left alone.
SceneRenameStoreOnly(q) ==
    /\ At(q, "lookup")
    /\ Answer(q)
    /\ UNCHANGED <<registryVars, storeVars, acked>>

\* RoomForScene
SceneRenameLookup(q) ==
    /\ At(q, "lookup")
    /\ LET r == bySceneID[req[q].scene] IN
       IF r = NoRoom THEN Answer(q)
       ELSE Continue(q, [req[q] EXCEPT !.pc = "setName", !.room = r])
    /\ UNCHANGED <<registryVars, storeVars, acked>>

RenameSet(q) ==
    /\ At(q, "setName")
    /\ SetName(req[q].room, req[q].name)
    /\ Answer(q)
    /\ UNCHANGED <<storeVars, acked>>

-----------------------------------------------------------------------------
(* DELETE /rooms/{id}, DELETE /scenes/{id}.                                 *)

\* Get, then CloseAll (module Relay), then the removal.
RoomDeleteStart(q) ==
    \E r \in live :
        /\ Begin(q, "roomDelete", [Idle EXCEPT !.pc = "closeRoom", !.op = "roomDelete",
                                               !.room = r])
        /\ UNCHANGED <<registryVars, storeVars, acked>>

RoomDeleteFinish(q) ==
    /\ At(q, "closeRoom")
    /\ Delete(req[q].room)
    /\ Answer(q)
    /\ UNCHANGED <<storeVars, acked>>

\* Fault: no check for a live room.
SceneDeleteUnchecked(q) ==
    \E s \in scenesMade :
        /\ Begin(q, "sceneDelete", [Idle EXCEPT !.pc = "delGet", !.op = "sceneDelete",
                                                !.scene = s])
        /\ UNCHANGED <<registryVars, storeVars, acked>>

\* The check that no room is live for the scene.
SceneDeleteCheck(q) ==
    \E s \in scenesMade :
        /\ bySceneID[s] = NoRoom
        /\ Begin(q, "sceneDelete", [Idle EXCEPT !.pc = "delGet", !.op = "sceneDelete",
                                                !.scene = s])
        /\ UNCHANGED <<registryVars, storeVars, acked>>

SceneDeleteGet(q) ==
    \E out \in Outcomes :
        /\ At(q, "delGet")
        /\ IF req[q].scene \in docs /\ out = "ok"
           THEN Continue(q, [req[q] EXCEPT !.pc = "delList"])
           ELSE Answer(q)
        /\ UNCHANGED <<registryVars, storeVars, acked>>

SceneDeleteList(q) ==
    /\ At(q, "delList")
    /\ Continue(q, [req[q] EXCEPT !.pc = "delVersions", !.refs = VersionsOf(req[q].scene)])
    /\ UNCHANGED <<registryVars, storeVars, acked>>

\* An error of the iterator returns with some of the deletes already sent.
SceneDeleteVersions(q) ==
    \E kept \in SUBSET req[q].refs, out \in Outcomes :
        /\ At(q, "delVersions")
        /\ StoreMayFail \/ kept = {}
        /\ DeleteVersions(req[q].refs, kept)
        /\ IF out = "ok"
           THEN Continue(q, [req[q] EXCEPT !.pc = "delDoc", !.refs = {}])
           ELSE Answer(q)
        /\ UNCHANGED <<registryVars, acked>>

SceneDeleteDoc(q) ==
    \E out \in Outcomes :
        /\ At(q, "delDoc")
        /\ DeleteDoc(req[q].scene, out)
        /\ Answer(q)
        /\ UNCHANGED <<registryVars, acked>>

-----------------------------------------------------------------------------
Restart ==
    /\ "restart" \in Workload
    /\ LoseRegistry
    /\ req' = [q \in Requests |-> Idle]
    /\ UNCHANGED <<storeVars, acked>>

\* The requests that the frontend and the documents know.
Issue(q) ==
    \/ CreateRoom(q) \/ OpenScene(q)
    \/ SaveStart(q) \/ PublishStart(q)
    \/ RoomRenameStart(q) \/ SceneRenameStore(q)
    \/ RoomDeleteStart(q) \/ SceneDeleteCheck(q)

Arrive(q) == Issue(q) \/ LegacyCreateRoom(q)

Proceed(q) ==
    \/ UploadFile(q) \/ PublishPut(q)
    \/ SaveReadScene(q) \/ SaveReadName(q) \/ SaveCreate(q)
    \/ SaveSetScene(q) \/ SaveBind(q) \/ SaveAppend(q)
    \/ SceneRenameLookup(q) \/ RenameSet(q)
    \/ RoomDeleteFinish(q)
    \/ SceneDeleteGet(q) \/ SceneDeleteList(q)
    \/ SceneDeleteVersions(q) \/ SceneDeleteDoc(q)

Next == Restart \/ \E q \in Requests : Arrive(q) \/ Proceed(q)

Spec == Init /\ [][Next]_vars
-----------------------------------------------------------------------------
(***************************************************************************)
(* Delete of a room takes only the room's own entry out of the index: while *)
(* the room a document is indexed to stays open, so does the entry, also    *)
(* when a creation with a scene id has taken it over from another room.     *)
(***************************************************************************)
IndexKeepsLive ==
    [][\A s \in Scenes :
         bySceneID[s] \in live \cap live' => bySceneID'[s] # NoRoom]_vars

(***************************************************************************)
(* FR-4.3: a version reported as saved stays in the document it was         *)
(* reported saved to, through failures and restarts, as long as nobody      *)
(* deletes documents.                                                       *)
(***************************************************************************)
AckedVersionsKept ==
    \A v \in Versions : acked[v] # NoScene =>
        /\ verScene[v] = acked[v]
        /\ acked[v] \in docs
=============================================================================
