------------------------- MODULE DocumentHistoryProofs ------------------------
(***************************************************************************)
(* Theorems about the registry, the documents and their renames, for every  *)
(* set of requests, rooms, documents and names, every workload, and every   *)
(* interleaving.                                                            *)
(***************************************************************************)
EXTENDS DocumentHistory, DocumentServiceProofs

-----------------------------------------------------------------------------
(* What the steps of the handlers do to the rooms of documents.  Each step  *)
(* is of one of the following kinds, whatever request takes it.             *)

FirstLabels == {"name", "create", "setScene", "bind"}
DelLabels == {"delGet", "delList", "delVersions", "delDoc"}

From(q, a, b) == req[q].pc = a /\ req'[q].pc = b /\ req'[q].room = req[q].room
Quiet(q) == req[q].pc \notin FirstLabels \cup DelLabels
            /\ req'[q].pc \notin FirstLabels \cup DelLabels
SameRooms == UNCHANGED <<live, roomScene, bySceneID>>
SameDocs == UNCHANGED <<scenesMade, docs>>

\* A step that is no part of a first save and leaves all rooms alone.
Plain(q) ==
    /\ SameRooms
    /\ scenesMade' = scenesMade
    /\ req[q].pc \notin FirstLabels /\ req'[q].pc \notin FirstLabels
    /\ req'[q].pc \in DelLabels =>
         IF req[q].pc \in DelLabels THEN req'[q].scene = req[q].scene
         ELSE bySceneID[req'[q].scene] = NoRoom
    /\ \/ docs' = docs
       \/ req[q].pc \in DelLabels /\ docs' = docs \ {req[q].scene}

\* The steps of a first save.
Begun(q) ==
    /\ SameRooms /\ SameDocs
    /\ From(q, "upload", "name")
    /\ req[q].room \in Rooms /\ roomScene[req[q].room] = NoScene

Named(q) == SameRooms /\ SameDocs /\ From(q, "name", "create")

Made(q) ==
    \E s \in Scenes \ scenesMade :
        /\ SameRooms
        /\ From(q, "create", "setScene") /\ req'[q].scene = s
        /\ scenesMade' = scenesMade \cup {s} /\ docs' = docs \cup {s}

Unmade(q) ==
    /\ SameRooms
    /\ req[q].pc = "create" /\ req'[q] = Idle
    /\ \/ SameDocs
       \/ \E s \in Scenes \ scenesMade :
             scenesMade' = scenesMade \cup {s} /\ docs' = docs \cup {s}

Set(q) ==
    /\ SameDocs
    /\ From(q, "setScene", "bind") /\ req'[q].scene = req[q].scene
    /\ UNCHANGED <<live, bySceneID>>
    /\ roomScene' = [roomScene EXCEPT ![req[q].room] = req[q].scene]

Bound(q) ==
    /\ SameDocs
    /\ req[q].pc = "bind" /\ req'[q] = Idle
    /\ UNCHANGED <<live, roomScene>>
    /\ bySceneID' = [bySceneID EXCEPT ![req[q].scene] = req[q].room]

\* A new room for the scene s, or a blank one.
Opens(q, s) ==
    \E r \in Rooms :
        /\ SameDocs /\ Quiet(q)
        /\ Unreferenced(r)
        /\ live' = live \cup {r}
        /\ roomScene' = [roomScene EXCEPT ![r] = s]
        /\ bySceneID' = IF s = NoScene THEN bySceneID ELSE [bySceneID EXCEPT ![s] = r]

Closes(q) ==
    \E r \in Rooms :
        /\ SameDocs /\ Quiet(q)
        /\ live' = live \ {r}
        /\ roomScene' = roomScene
        /\ bySceneID' = [s \in Scenes |->
                          IF r \in live /\ s = roomScene[r] /\ bySceneID[s] = r
                          THEN NoRoom ELSE bySceneID[s]]

Kind(q) ==
    \/ Plain(q) \/ Begun(q) \/ Named(q) \/ Made(q) \/ Unmade(q) \/ Set(q) \/ Bound(q)
    \/ Closes(q) \/ Opens(q, NoScene)
    \/ \E s \in scenesMade : bySceneID[s] = NoRoom /\ Opens(q, s)

Others(q) == \A p \in Requests \ {q} : req'[p] = req[p]

\* A request that begins with x leaves the others alone.
LEMMA Beginning ==
  ASSUME TypeOK, NEW q \in Requests, NEW op, NEW x, Begin(q, op, x)
  PROVE  req[q].pc = "idle" /\ req'[q] = x /\ Others(q)
  BY DEF Begin, TypeOK, RequestsTypeOK, Others

\* The requests of the frontend open a room, a document's when the index has
\* none, or are plain.
LEMMA IssueKind ==
  ASSUME TypeOK, NEW q \in Requests, Issue(q)
  PROVE  Kind(q) /\ Others(q)
  <1> USE DocumentsAssumption
  <1>0. Idle.pc = "idle"
    BY DEF Idle
  <1>1. CASE CreateRoom(q)
    <2>1. PICK r \in Rooms, n \in Names \cup {Blank} : CreateRoom(q)!(r, n)
      BY <1>1 DEF CreateRoom
    <2>2. Opens(q, NoScene) /\ Others(q)
      BY <1>0, <2>1, Beginning DEF Opens, Quiet, SameDocs, Create, createLocked, storeVars,
         FirstLabels, DelLabels
    <2> QED
      BY <2>2 DEF Kind
  <1>2. CASE OpenScene(q)
    <2>1. PICK r \in Rooms, n \in Names \cup {Blank}, s \in scenesMade :
               OpenScene(q)!(r, n, s)
      BY <1>2 DEF OpenScene
    <2>2. /\ req[q].pc = "idle" /\ req'[q] = Idle /\ Others(q) /\ UNCHANGED storeVars
          /\ s # NoScene
      BY <2>1, Beginning DEF TypeOK, StoreTypeOK
    <2>3. CASE UNCHANGED registryVars
      <3>1. Plain(q)
        BY <1>0, <2>2, <2>3 DEF Plain, SameRooms, registryVars, storeVars, FirstLabels,
           DelLabels
      <3> QED
        BY <2>2, <3>1 DEF Kind
    <2>4. CASE bySceneID[s] = NoRoom /\ createLocked(r, n, s)
               /\ bySceneID' = [bySceneID EXCEPT ![s] = r]
      <3>1. Opens(q, s)
        BY <1>0, <2>1, <2>2, <2>4 DEF Opens, Quiet, SameDocs, createLocked, storeVars,
           FirstLabels, DelLabels
      <3> QED
        BY <2>2, <2>4, <3>1 DEF Kind
    <2> QED
      BY <2>1, <2>3, <2>4 DEF GetOrCreateForScene
  <1>3. ASSUME NEW op, NEW x, Begin(q, op, x), x.pc \notin FirstLabels \cup DelLabels,
               UNCHANGED <<registryVars, scenesMade, docs>>
        PROVE  Kind(q) /\ Others(q)
    <2>1. Plain(q) /\ Others(q)
      BY <1>3, Beginning DEF Plain, SameRooms, registryVars, FirstLabels, DelLabels
    <2> QED
      BY <2>1 DEF Kind
  <1>4. CASE SaveStart(q) \/ PublishStart(q)
    <2>1. \A r, F, op : Upload(r, F, op).pc \notin FirstLabels \cup DelLabels
      BY DEF Upload, Idle, FirstLabels, DelLabels
    <2> QED
      BY <1>3, <1>4, <2>1 DEF SaveStart, PublishStart, storeVars
  <1>5. CASE RoomRenameStart(q)
    <2>1. \A r, n : [Idle EXCEPT !.pc = "setName", !.op = "roomRename",
                                 !.room = r, !.name = n].pc \notin FirstLabels \cup DelLabels
      BY DEF Idle, FirstLabels, DelLabels
    <2> QED
      BY <1>3, <1>5, <2>1 DEF RoomRenameStart, storeVars
  <1>6. CASE SceneRenameStore(q)
    <2>1. /\ Idle.pc \notin FirstLabels \cup DelLabels
          /\ \A s, n : [Idle EXCEPT !.pc = "lookup", !.op = "sceneRename",
                                    !.scene = s, !.name = n].pc \notin FirstLabels \cup DelLabels
      BY DEF Idle, FirstLabels, DelLabels
    <2> QED
      BY <1>3, <1>6, <2>1 DEF SceneRenameStore, RenameScene
  <1>7. CASE RoomDeleteStart(q)
    <2>1. \A r : [Idle EXCEPT !.pc = "closeRoom", !.op = "roomDelete",
                              !.room = r].pc \notin FirstLabels \cup DelLabels
      BY DEF Idle, FirstLabels, DelLabels
    <2> QED
      BY <1>3, <1>7, <2>1 DEF RoomDeleteStart, storeVars
  <1>8. CASE SceneDeleteCheck(q)
    <2>1. PICK s \in scenesMade : SceneDeleteCheck(q)!(s)
      BY <1>8 DEF SceneDeleteCheck
    <2> DEFINE x == [Idle EXCEPT !.pc = "delGet", !.op = "sceneDelete", !.scene = s]
    <2>2. x.pc = "delGet" /\ x.scene = s
      BY DEF Idle
    <2>3. req[q].pc = "idle" /\ req'[q] = x /\ Others(q)
      BY <2>1, Beginning
    <2> HIDE DEF x
    <2>4. Plain(q)
      BY <2>1, <2>2, <2>3 DEF Plain, SameRooms, registryVars, storeVars, FirstLabels, DelLabels
    <2> QED
      BY <2>3, <2>4 DEF Kind
  <1> QED
    BY <1>1, <1>2, <1>4, <1>5, <1>6, <1>7, <1>8 DEF Issue

\* The deprecated creation opens a room for any document.
LEMMA LegacyKind ==
  ASSUME TypeOK, NEW q \in Requests, LegacyCreateRoom(q)
  PROVE  Others(q) /\ \E s \in scenesMade : Opens(q, s)
  <1>1. PICK r \in Rooms, n \in Names \cup {Blank}, s \in scenesMade :
             LegacyCreateRoom(q)!(r, n, s)
    BY DEF LegacyCreateRoom
  <1>2. s # NoScene /\ Idle.pc = "idle"
    BY DocumentsAssumption DEF TypeOK, StoreTypeOK, Idle
  <1> QED
    BY <1>1, <1>2, Beginning DEF Opens, Quiet, SameDocs, Create, createLocked, storeVars,
       FirstLabels, DelLabels

\* The steps of a handler: those of a first save, a close, and plain ones.
LEMMA ProceedKind ==
  ASSUME TypeOK, NEW q \in Requests, Proceed(q)
  PROVE  Kind(q) /\ Others(q)
  <1> USE DocumentsAssumption DEF FirstLabels, DelLabels
  <1> DEFINE c == req[q]
  <1>0. /\ c \in Request /\ WellFormed(c, scenesMade)
        /\ scenesMade \subseteq Scenes /\ Idle.pc = "idle"
    BY DEF TypeOK, RequestsTypeOK, StoreTypeOK, Idle
  <1>a. /\ Answer(q) => req'[q] = Idle /\ Others(q)
        /\ \A x : Continue(q, x) => req'[q] = x /\ Others(q)
    BY DEF Answer, Continue, Others, TypeOK, RequestsTypeOK
  <1>1. CASE UploadFile(q) \/ PublishPut(q)
    <2>1. \A f : [c EXCEPT !.todo = c.todo \ {f}].pc = c.pc
      BY <1>0 DEF Request
    <2>2. Plain(q) /\ Others(q)
      BY <1>0, <1>a, <1>1, <2>1 DEF UploadFile, PublishPut, PutFile, PutPublished, At, Plain,
         SameRooms, registryVars, storeVars
    <2> QED
      BY <2>2 DEF Kind
  <1>2. CASE SaveReadScene(q)
    <2>1. /\ [c EXCEPT !.pc = "name"].pc = "name" /\ [c EXCEPT !.pc = "name"].room = c.room
          /\ \A s : [c EXCEPT !.pc = "append", !.scene = s].pc = "append"
      BY <1>0 DEF Request
    <2>2. c.pc = "upload" /\ c.room \in Rooms /\ SameRooms /\ SameDocs
      BY <1>0, <1>2 DEF SaveReadScene, At, WellFormed, SameRooms, SameDocs, registryVars,
         storeVars
    <2>3. CASE roomScene[c.room] = NoScene
      <3>1. Begun(q) /\ Others(q)
        BY <1>a, <1>2, <2>1, <2>2, <2>3 DEF SaveReadScene, Begun, From
      <3> QED
        BY <3>1 DEF Kind
    <2>4. CASE roomScene[c.room] # NoScene
      <3>1. Plain(q) /\ Others(q)
        BY <1>a, <1>2, <2>1, <2>2, <2>4 DEF SaveReadScene, Plain, SameDocs
      <3> QED
        BY <3>1 DEF Kind
    <2> QED
      BY <2>3, <2>4
  <1>3. CASE SaveReadName(q)
    <2>1. \A n : /\ [c EXCEPT !.pc = "create", !.name = n].pc = "create"
                 /\ [c EXCEPT !.pc = "create", !.name = n].room = c.room
      BY <1>0 DEF Request
    <2>2. Named(q) /\ Others(q)
      BY <1>a, <1>3, <2>1 DEF SaveReadName, Named, At, From, SameRooms, SameDocs,
         registryVars, storeVars
    <2> QED
      BY <2>2 DEF Kind
  <1>4. CASE SaveCreate(q)
    <2>1. PICK s \in Scenes, v \in Versions, out \in Outcomes : SaveCreate(q)!(s, v, out)
      BY <1>4 DEF SaveCreate
    <2> DEFINE x == [c EXCEPT !.pc = "setScene", !.scene = s, !.ver = v]
    <2>2. x.pc = "setScene" /\ x.scene = s /\ x.room = c.room
      BY <1>0 DEF Request
    <2>3. /\ SameRooms /\ s \in Scenes \ scenesMade
          /\ \/ SameDocs /\ out # "ok"
             \/ scenesMade' = scenesMade \cup {s} /\ docs' = docs \cup {s}
      BY <2>1 DEF CreateScene, Applied, sceneVars, SameRooms, SameDocs, registryVars
    <2>4. c.pc = "create" /\ Others(q) /\ req'[q] = IF out = "ok" THEN x ELSE Idle
      BY <1>a, <2>1 DEF At
    <2> HIDE DEF x
    <2>5. CASE out = "ok"
      <3>1. Made(q)
        BY <2>2, <2>3, <2>4, <2>5 DEF Made, From
      <3> QED
        BY <2>4, <3>1 DEF Kind
    <2>6. CASE out # "ok"
      <3>1. Unmade(q)
        BY <2>3, <2>4, <2>6 DEF Unmade
      <3> QED
        BY <2>4, <3>1 DEF Kind
    <2> QED
      BY <2>5, <2>6
  <1>5. CASE SaveSetScene(q)
    <2>1. /\ [c EXCEPT !.pc = "bind"].pc = "bind" /\ [c EXCEPT !.pc = "bind"].room = c.room
          /\ [c EXCEPT !.pc = "bind"].scene = c.scene
      BY <1>0 DEF Request
    <2>2. Set(q) /\ Others(q)
      BY <1>a, <1>5, <2>1 DEF SaveSetScene, SetSceneID, Set, From, At, SameDocs, storeVars
    <2> QED
      BY <2>2 DEF Kind
  <1>6. CASE SaveBind(q)
    <2>1. Bound(q) /\ Others(q)
      BY <1>a, <1>6 DEF SaveBind, BindScene, Bound, At, SameDocs, storeVars
    <2> QED
      BY <2>1 DEF Kind
  <1>7. CASE SaveAppend(q) \/ RenameSet(q)
    <2>1. Plain(q) /\ Others(q)
      BY <1>0, <1>a, <1>7 DEF SaveAppend, AddVersion, RenameSet, SetName, Plain, At,
         SameRooms, registryVars, storeVars
    <2> QED
      BY <2>1 DEF Kind
  <1>8. CASE SceneRenameLookup(q)
    <2>1. \A r : [c EXCEPT !.pc = "setName", !.room = r].pc = "setName"
      BY <1>0 DEF Request
    <2>2. Plain(q) /\ Others(q)
      BY <1>0, <1>a, <1>8, <2>1 DEF SceneRenameLookup, Plain, At, SameRooms, registryVars,
         storeVars
    <2> QED
      BY <2>2 DEF Kind
  <1>9. CASE RoomDeleteFinish(q)
    <2>1. c.room \in Rooms
      BY <1>0, <1>9 DEF RoomDeleteFinish, At, WellFormed
    <2>2. Closes(q) /\ Others(q)
      BY <1>0, <1>a, <1>9, <2>1 DEF RoomDeleteFinish, Delete, Closes, Quiet, At, SameDocs,
         storeVars
    <2> QED
      BY <2>2 DEF Kind
  <1>10. CASE SceneDeleteGet(q) \/ SceneDeleteList(q)
    <2> DEFINE x == [c EXCEPT !.pc = "delList"]
               y == [c EXCEPT !.pc = "delVersions", !.refs = VersionsOf(c.scene)]
    <2>1. x.pc = "delList" /\ x.scene = c.scene /\ y.pc = "delVersions" /\ y.scene = c.scene
      BY <1>0 DEF Request
    <2>2. /\ c.pc \in {"delGet", "delList"}
          /\ req'[q] \in {Idle, x, y} /\ Others(q)
          /\ SameRooms /\ UNCHANGED <<scenesMade, docs>>
      BY <1>a, <1>10 DEF SceneDeleteGet, SceneDeleteList, At, SameRooms, registryVars,
         storeVars
    <2> HIDE DEF x, y
    <2>3. Plain(q)
      BY <1>0, <2>1, <2>2 DEF Plain
    <2> QED
      BY <2>2, <2>3 DEF Kind
  <1>11. CASE SceneDeleteVersions(q) \/ SceneDeleteDoc(q)
    <2>1. /\ [c EXCEPT !.pc = "delDoc", !.refs = {}].pc = "delDoc"
          /\ [c EXCEPT !.pc = "delDoc", !.refs = {}].scene = c.scene
      BY <1>0 DEF Request
    <2>2. Plain(q) /\ Others(q)
      BY <1>0, <1>a, <1>11, <2>1 DEF SceneDeleteVersions, DeleteVersions, SceneDeleteDoc,
         DeleteDoc, Plain, At, SameRooms, registryVars
    <2> QED
      BY <2>2 DEF Kind
  <1> QED
    BY <1>1, <1>2, <1>3, <1>4, <1>5, <1>6, <1>7, <1>8, <1>9, <1>10, <1>11 DEF Proceed

-----------------------------------------------------------------------------
(* The history variables.                                                   *)

\* What a step of the specification is: a restart, or a step of one of the
\* kinds by one request; new rooms are recorded.
HistoryStep ==
    \/ Restart /\ Record({})
    \/ \E q \in Requests : Kind(q) /\ Others(q) /\ Record({s \in Opened : Fresh(s)})
    \/ \E q \in Requests, s \in scenesMade : Opens(q, s) /\ Others(q) /\ Record(Opened)

LEMMA HistorySteps ==
  ASSUME TypeOK, HNext
  PROVE  HistoryStep
  <1>1. ASSUME Restart PROVE {s \in Opened : Fresh(s)} = {}
    BY <1>1 DEF Restart, LoseRegistry, Opened
  <1> QED
    BY <1>1, IssueKind, LegacyKind, ProceedKind DEF HNext, HistoryStep

\* The history variables restrict nothing: every step is one of the service.
LEMMA HistoryNext == [HNext]_hvars => [Next]_vars
  BY DEF HNext, Next, Arrive, hvars

\* The history variables are typed.
LEMMA HistoryTyped == [HNext]_hvars /\ HistoryTypeOK => HistoryTypeOK'
  <1> SUFFICES ASSUME [HNext]_hvars, HistoryTypeOK PROVE HistoryTypeOK'
    OBVIOUS
  <1>1. CASE HNext
    <2>1. \E S : Record(S)
      BY <1>1 DEF HNext
    <2> QED
      BY <2>1 DEF Record, HistoryTypeOK
  <1>2. CASE UNCHANGED hvars
    BY <1>2 DEF hvars, historyVars, HistoryTypeOK
  <1> QED
    BY <1>1, <1>2

\* The service is typed along its history, too.
LEMMA HistoryTypes == HSpec => [](TypeOK /\ HistoryTypeOK)
  <1>1. HInit => TypeOK /\ HistoryTypeOK
    BY TypeInit DEF HInit, HistoryTypeOK
  <1>2. TypeOK /\ HistoryTypeOK /\ [HNext]_hvars => (TypeOK /\ HistoryTypeOK)'
    BY TypeStep, HistoryNext, HistoryTyped
  <1> QED
    BY <1>1, <1>2, PTL DEF HSpec

-----------------------------------------------------------------------------
(* Rooms, their scene ids, and the index.                                   *)

\* What holds of a room that is not torn: index entries that name it are its
\* document's, and a first save finds it without a scene id until it sets it.
RoomInv(r) ==
    /\ \A s \in Scenes : bySceneID[s] = r => r \in live /\ roomScene[r] = s
    /\ \A q \in Requests : FirstSave(q, r) =>
          roomScene[r] = IF req[q].pc = "bind" THEN req[q].scene ELSE NoScene

TornInv ==
    /\ \A r \in torn : ~Unreferenced(r)
    /\ \A r \in Rooms : Crossed(r) => r \in torn
    /\ \A r \in Rooms \ torn : RoomInv(r)

\* Recording keeps the first two conjuncts.
LEMMA TornRecorded ==
  ASSUME NEW S, Record(S)
  PROVE  /\ \A r \in torn' : ~Unreferenced(r)'
         /\ \A r \in Rooms : Crossed(r)' => r \in torn'
  <1>1. \A r \in Rooms : Crossed(r)' => ~Unreferenced(r)'
    BY DEF Crossed, FirstSave, Unreferenced
  <1> QED
    BY <1>1 DEF Record

\* A room that nothing refers to any more is as if new.
LEMMA UnreferencedRoom ==
  ASSUME NEW r \in Rooms, Unreferenced(r)'
  PROVE  RoomInv(r)'
  BY DEF Unreferenced, RoomInv, FirstSave

\* A step of one request keeps what holds of a room that is not torn.
LEMMA RoomKept ==
  ASSUME TypeOK, TornInv, NEW q \in Requests, Others(q),
         Kind(q) \/ \E s \in scenesMade : Opens(q, s),
         NEW r \in Rooms, r \notin torn, ~Crossed(r)'
  PROVE  RoomInv(r)'
  <1> USE DocumentsAssumption
  <1>0. /\ RoomInv(r) /\ scenesMade \subseteq Scenes
        /\ \A p \in Requests : req[p] \in Request /\ WellFormed(req[p], scenesMade)
        /\ Idle.pc = "idle" /\ ~Crossed(r)
    BY DEF TornInv, TypeOK, StoreTypeOK, RequestsTypeOK, Idle
  <1>1. CASE Plain(q) \/ Begun(q) \/ Named(q) \/ Made(q) \/ Unmade(q)
    <2>1. SameRooms
      BY <1>1 DEF Plain, Begun, Named, Made, Unmade
    <2>2. \A p \in Requests \ {q} : FirstSave(p, r)' = FirstSave(p, r)
      BY DEF Others, FirstSave
    <2>3. FirstSave(q, r)' => roomScene[r] = NoScene /\ req'[q].pc # "bind"
      BY <1>0, <1>1 DEF Plain, Begun, Named, Made, Unmade, From, FirstSave, RoomInv,
         FirstLabels
    <2> QED
      BY <1>0, <2>1, <2>2, <2>3 DEF RoomInv, SameRooms, Others
  <1>2. CASE Set(q)
    <2>1. CASE req[q].room = r
      <3>1. FirstSave(q, r) /\ FirstSave(q, r)'
        BY <1>2, <2>1 DEF Set, From, FirstSave
      <3>2. \A p \in Requests \ {q} : ~FirstSave(p, r)'
        BY <3>1, <1>2 DEF Crossed
      <3>3. roomScene[r] = NoScene /\ \A s \in Scenes : bySceneID[s] # r
        BY <1>0, <1>2, <3>1 DEF Set, From, RoomInv
      <3>4. roomScene'[r] = req'[q].scene /\ req'[q].pc = "bind" /\ bySceneID' = bySceneID
        BY <1>2, <2>1 DEF Set, From, TypeOK, RegistryTypeOK
      <3> QED
        BY <3>2, <3>3, <3>4 DEF RoomInv
    <2>2. CASE req[q].room # r
      <3>1. /\ roomScene'[r] = roomScene[r] /\ UNCHANGED <<live, bySceneID>>
            /\ ~FirstSave(q, r)' /\ \A p \in Requests \ {q} : FirstSave(p, r)' = FirstSave(p, r)
        BY <1>2, <2>2 DEF Set, From, FirstSave, Others, TypeOK, RegistryTypeOK
      <3> QED
        BY <1>0, <3>1 DEF RoomInv, Others
    <2> QED
      BY <2>1, <2>2
  <1>3. CASE Bound(q)
    <2>1. /\ UNCHANGED <<live, roomScene>> /\ ~FirstSave(q, r)'
          /\ bySceneID' = [bySceneID EXCEPT ![req[q].scene] = req[q].room]
          /\ \A p \in Requests \ {q} : FirstSave(p, r)' = FirstSave(p, r)
      BY <1>0, <1>3 DEF Bound, FirstSave, Others
    <2>2. req[q].room = r => r \in live /\ roomScene[r] = req[q].scene
      BY <1>0, <1>3 DEF Bound, FirstSave, RoomInv, Crossed
    <2> QED
      BY <1>0, <2>1, <2>2 DEF RoomInv, Others, TypeOK, RegistryTypeOK
  <1>4. CASE Closes(q)
    <2>1. PICK t \in Rooms : Closes(q)!(t)
      BY <1>4 DEF Closes
    <2>2. /\ ~FirstSave(q, r)' /\ \A p \in Requests \ {q} : FirstSave(p, r)' = FirstSave(p, r)
          /\ UNCHANGED roomScene
      BY <2>1 DEF Quiet, FirstSave, Others, FirstLabels
    <2>3. \A s \in Scenes : bySceneID'[s] = r => r \in live' /\ roomScene[r] = s
      BY <1>0, <2>1 DEF RoomInv
    <2> QED
      BY <1>0, <2>2, <2>3 DEF RoomInv, Others
  <1>5. CASE Opens(q, NoScene) \/ \E s \in scenesMade : Opens(q, s)
    <2>0. PICK s \in scenesMade \cup {NoScene} : Opens(q, s)
      BY <1>5
    <2>1. PICK t \in Rooms : Opens(q, s)!(t)
      BY <2>0 DEF Opens
    <2>2. ~FirstSave(q, r)' /\ \A p \in Requests \ {q} : FirstSave(p, r)' = FirstSave(p, r)
      BY <2>1 DEF Quiet, FirstSave, Others, FirstLabels
    <2>3. t = r => \A p \in Requests : ~FirstSave(p, r)
      BY <2>1 DEF Unreferenced, FirstSave
    <2>4. \A u \in Scenes : bySceneID'[u] = r => r \in live' /\ roomScene'[r] = u
      BY <1>0, <2>1 DEF RoomInv, Unreferenced, TypeOK, RegistryTypeOK
    <2> QED
      BY <1>0, <2>1, <2>2, <2>3, <2>4 DEF RoomInv, Others, TypeOK, RegistryTypeOK
  <1> QED
    BY <1>1, <1>2, <1>3, <1>4, <1>5 DEF Kind

\* The invariant holds along every history.
LEMMA TornNext ==
  ASSUME TypeOK, HistoryTypeOK, TornInv, [HNext]_hvars
  PROVE  TornInv'
  <1>1. CASE UNCHANGED hvars
    BY <1>1 DEF hvars, vars, historyVars, registryVars, storeVars, TornInv, RoomInv, Crossed,
       FirstSave, Unreferenced
  <1>2. ASSUME HNext, NEW r \in Rooms, r \notin torn' PROVE RoomInv(r)'
    <2>1. CASE Unreferenced(r)'
      BY <2>1, UnreferencedRoom
    <2>2. CASE ~Unreferenced(r)'
      <3>1. PICK S : Record(S)
        BY <1>2 DEF HNext
      <3>2. r \notin torn /\ ~Crossed(r)'
        BY <1>2, <2>2, <3>1 DEF Record
      <3>3. CASE Restart
        BY <3>3, DocumentsAssumption DEF Restart, LoseRegistry, RoomInv, FirstSave, Idle
      <3>4. CASE ~Restart
        <4>1. PICK q \in Requests : Others(q) /\ (Kind(q) \/ \E s \in scenesMade : Opens(q, s))
          BY <1>2, <3>4, HistorySteps DEF HistoryStep
        <4> QED
          BY <3>2, <4>1, RoomKept
      <3> QED
        BY <3>3, <3>4
    <2> QED
      BY <2>1, <2>2
  <1>3. ASSUME HNext PROVE /\ \A r \in torn' : ~Unreferenced(r)'
                           /\ \A r \in Rooms : Crossed(r)' => r \in torn'
    BY <1>3, TornRecorded DEF HNext
  <1> QED
    BY <1>1, <1>2, <1>3 DEF TornInv

LEMMA TornInvariant == HSpec => []TornInv
  <1>1. HInit => TornInv
    BY DocumentsAssumption
    DEF HInit, Init, NewRegistry, TornInv, RoomInv, Crossed, FirstSave, Idle
  <1> QED
    BY <1>1, TornNext, HistoryTypes, PTL DEF HSpec

(***************************************************************************)
(* RoomForScene: in every interleaving, an index entry names a live room of *)
(* its document, unless the first save that made the entry met the room's   *)
(* close or another first save of the room.                                 *)
(***************************************************************************)
THEOREM IndexNamesLiveRooms == HSpec => []IndexedUnlessTorn
  <1>1. TornInv => IndexedUnlessTorn
    BY DEF TornInv, RoomInv, IndexedUnlessTorn, RoomsOf
  <1> QED
    BY <1>1, TornInvariant, PTL

(***************************************************************************)
(* Room.sceneID is "empty until first save, then fixed": in every           *)
(* interleaving no step changes the sceneID of a live room that has one,    *)
(* but where two first saves of the room met and are not over.              *)
(***************************************************************************)
THEOREM SceneIDNeverChanges == HSpec => SceneIDFixedUnlessTorn
  <1> DEFINE Fixed == \A r \in live \cap live' :
                        /\ roomScene[r] # NoScene
                        /\ r \in torn => \A q \in Requests : ~FirstSave(q, r)
                        => roomScene'[r] = roomScene[r]
  <1>1. ASSUME TypeOK, TornInv, HNext PROVE Fixed
    <2>1. CASE Restart
      BY <2>1 DEF Restart, LoseRegistry
    <2>2. ASSUME NEW q \in Requests, Set(q) PROVE Fixed
      <3>1. FirstSave(q, req[q].room)
        BY <2>2 DEF Set, From, FirstSave
      <3>2. \A r \in live : r # req[q].room => roomScene'[r] = roomScene[r]
        BY <1>1, <2>2 DEF Set, TypeOK, RegistryTypeOK
      <3>3. ASSUME req[q].room \in live, req[q].room \notin torn
            PROVE  roomScene[req[q].room] = NoScene
        BY <1>1, <2>2, <3>1, <3>3 DEF TornInv, RoomInv, Set, From, TypeOK, RegistryTypeOK
      <3> QED
        BY <3>1, <3>2, <3>3
    <2>3. ASSUME NEW q \in Requests, NEW s, Opens(q, s) PROVE Fixed
      BY <1>1, <2>3 DEF Opens, Unreferenced, TypeOK, RegistryTypeOK
    <2>4. ASSUME NEW q \in Requests, Kind(q), ~Set(q) PROVE Fixed
      <3>1. CASE Opens(q, NoScene) \/ \E s \in scenesMade : Opens(q, s)
        BY <2>3, <3>1
      <3>2. CASE ~(Opens(q, NoScene) \/ \E s \in scenesMade : Opens(q, s))
        <4>1. roomScene' = roomScene
          BY <2>4, <3>2 DEF Kind, Plain, Begun, Named, Made, Unmade, Bound, Closes, SameRooms
        <4> QED
          BY <4>1
      <3> QED
        BY <3>1, <3>2
    <2> HIDE DEF Fixed
    <2> QED
      BY <1>1, <2>1, <2>2, <2>3, <2>4, HistorySteps DEF HistoryStep
  <1> QED
    BY <1>1, HistoryTypes, TornInvariant, PTL DEF HSpec, SceneIDFixedUnlessTorn

-----------------------------------------------------------------------------
(* Documents and their rooms.                                               *)

\* What holds of a document that is not split: its rooms are in the index,
\* but the one that its first save is about to bind, and while that save is
\* under way the index has no room.
DocInv(s) ==
    /\ \A r \in RoomsOf(s) :
          bySceneID[s] = r \/ \E q \in Requests : Pending(q, s) /\ req[q].pc = "bind"
    /\ \A q \in Requests : Pending(q, s) =>
          /\ bySceneID[s] = NoRoom
          /\ \A r \in RoomsOf(s) : req[q].pc = "bind" /\ req[q].room = r

SplitInv ==
    /\ \A p, q \in Requests, s \in Scenes : Pending(p, s) /\ Pending(q, s) => p = q
    /\ \A s \in Scenes \ scenesMade : bySceneID[s] = NoRoom
    /\ \A s \in Scenes \ split : DocInv(s)

\* The requests that have a first save of s under way change only by Made,
\* Set and Bound.
LEMMA PendingSame ==
  ASSUME TypeOK, NEW q \in Requests, Others(q), NEW s \in Scenes,
         \/ Plain(q) \/ Begun(q) \/ Named(q) \/ Unmade(q) \/ Closes(q)
         \/ \E t : Opens(q, t)
  PROVE  \A p \in Requests : ~(p = q /\ (Pending(q, s) \/ Pending(q, s)'))
                             /\ Pending(p, s)' = Pending(p, s)
  <1>1. req[q].pc \notin {"setScene", "bind"} /\ req'[q].pc \notin {"setScene", "bind"}
    BY DEF Plain, Begun, Named, Unmade, Closes, Opens, From, Quiet, FirstLabels, Idle
  <1> QED
    BY <1>1 DEF Pending, Others

\* A step of one request keeps what holds of a document, but for a new room.
LEMMA DocKept ==
  ASSUME TypeOK, SplitInv, NEW q \in Requests, Others(q), Kind(q),
         NEW s \in Scenes, s \notin split, Opens(q, s) => ~Fresh(s)
  PROVE  DocInv(s)'
  <1> USE DocumentsAssumption
  <1>0. /\ DocInv(s) /\ scenesMade \subseteq Scenes
        /\ \A p \in Requests : req[p] \in Request /\ WellFormed(req[p], scenesMade)
        /\ \A p \in Requests : Pending(p, s) /\ Pending(q, s) => p = q
    BY DEF SplitInv, TypeOK, StoreTypeOK, RequestsTypeOK
  <1>1. CASE Plain(q) \/ Begun(q) \/ Named(q) \/ Unmade(q)
    <2>1. SameRooms /\ RoomsOf(s)' = RoomsOf(s)
      BY <1>1 DEF Plain, Begun, Named, Unmade, SameRooms, RoomsOf
    <2> QED
      BY <1>0, <1>1, <2>1, PendingSame DEF DocInv, SameRooms, Others
  <1>2. CASE Made(q)
    <2>1. PICK t \in Scenes \ scenesMade : Made(q)!(t)
      BY <1>2 DEF Made
    <2>2. /\ UNCHANGED bySceneID /\ RoomsOf(s)' = RoomsOf(s)
          /\ \A p \in Requests \ {q} : Pending(p, s)' = Pending(p, s)
          /\ ~Pending(q, s) /\ (Pending(q, s)' => t = s)
      BY <2>1 DEF SameRooms, RoomsOf, Pending, Others, From
    <2>3. t = s => /\ bySceneID[s] = NoRoom /\ RoomsOf(s) = {}
                   /\ \A p \in Requests : ~Pending(p, s)
      BY <1>0, <2>1 DEF SplitInv, RoomsOf, TypeOK, Pending, WellFormed, RegistryTypeOK
    <2> QED
      BY <1>0, <2>2, <2>3 DEF DocInv, Others
  <1>3. CASE Set(q)
    <2>1. /\ UNCHANGED <<live, bySceneID>>
          /\ req[q].pc = "setScene" /\ req'[q].pc = "bind"
          /\ req'[q].scene = req[q].scene /\ req'[q].room = req[q].room
          /\ \A r \in Rooms : roomScene'[r] = IF r = req[q].room THEN req[q].scene
                                              ELSE roomScene[r]
          /\ live \subseteq Rooms
      BY <1>3 DEF Set, From, TypeOK, RegistryTypeOK
    <2>2. \A p \in Requests : Pending(p, s)' = Pending(p, s)
      BY <2>1 DEF Pending, Others
    <2>3. CASE req[q].scene = s
      <3>1. Pending(q, s)
        BY <2>1, <2>3 DEF Pending
      <3>2. RoomsOf(s) = {} /\ bySceneID[s] = NoRoom
        BY <1>0, <2>1, <3>1 DEF DocInv
      <3>3. \A r \in RoomsOf(s)' : r = req[q].room
        BY <2>1, <3>2 DEF RoomsOf
      <3> QED
        BY <1>0, <2>1, <2>2, <3>1, <3>2, <3>3 DEF DocInv
    <2>4. CASE req[q].scene # s
      <3>1. RoomsOf(s)' \subseteq RoomsOf(s) /\ ~Pending(q, s)
        BY <2>1, <2>4 DEF RoomsOf, Pending
      <3> QED
        BY <1>0, <2>1, <2>2, <3>1 DEF DocInv, Others
    <2> QED
      BY <2>3, <2>4
  <1>4. CASE Bound(q)
    <2>1. /\ req[q].pc = "bind" /\ req'[q].pc = "idle" /\ RoomsOf(s)' = RoomsOf(s)
          /\ bySceneID' = [bySceneID EXCEPT ![req[q].scene] = req[q].room]
          /\ req[q].scene \in Scenes /\ bySceneID \in [Scenes -> Rooms \cup {NoRoom}]
      BY <1>0, <1>4 DEF Bound, Idle, RoomsOf, WellFormed, TypeOK, RegistryTypeOK
    <2>2. ~Pending(q, s)' /\ \A p \in Requests \ {q} : Pending(p, s)' = Pending(p, s)
      BY <2>1 DEF Pending, Others
    <2>3. CASE req[q].scene = s
      <3>1. Pending(q, s)
        BY <2>1, <2>3 DEF Pending
      <3>2. bySceneID'[s] = req[q].room /\ \A r \in RoomsOf(s)' : r = req[q].room
        BY <1>0, <2>1, <2>3, <3>1 DEF DocInv
      <3> QED
        BY <1>0, <2>2, <3>1, <3>2 DEF DocInv
    <2>4. CASE req[q].scene # s
      <3>1. ~Pending(q, s) /\ bySceneID'[s] = bySceneID[s]
        BY <2>1, <2>4 DEF Pending
      <3> QED
        BY <1>0, <2>1, <2>2, <3>1 DEF DocInv, Others
    <2> QED
      BY <2>3, <2>4
  <1>5. CASE Closes(q)
    <2>1. PICK t \in Rooms : Closes(q)!(t)
      BY <1>5 DEF Closes
    <2>2. RoomsOf(s)' = RoomsOf(s) \ {t} /\ bySceneID'[s] \in {bySceneID[s], NoRoom}
      BY <2>1 DEF RoomsOf
    <2>3. bySceneID'[s] # bySceneID[s] => bySceneID[s] = t
      BY <2>1
    <2>4. \A p \in Requests : Pending(p, s)' = Pending(p, s) /\ (Pending(p, s) => p # q)
      BY <1>5, PendingSame
    <2>5. bySceneID[s] = t => \A p \in Requests : ~Pending(p, s)
      BY <1>0 DEF DocInv
    <2> QED
      BY <1>0, <2>2, <2>3, <2>4, <2>5 DEF DocInv, Others
  <1>6. ASSUME NEW t \in scenesMade \cup {NoScene}, Opens(q, t),
               t = NoScene \/ bySceneID[t] = NoRoom
        PROVE  DocInv(s)'
    <2>1. PICK r \in Rooms : Opens(q, t)!(r)
      BY <1>6 DEF Opens
    <2>2. \A p \in Requests : Pending(p, s)' = Pending(p, s) /\ (Pending(p, s) => p # q)
      BY <1>6, PendingSame
    <2>3. /\ RoomsOf(s)' = IF t = s THEN RoomsOf(s) \cup {r} ELSE RoomsOf(s)
          /\ bySceneID'[s] = IF t = s THEN r ELSE bySceneID[s]
      BY <2>1 DEF RoomsOf, Unreferenced, TypeOK, RegistryTypeOK
    <2>4. CASE t = s
      <3>1. \A p \in Requests : ~Pending(p, s)
        BY <1>6, <2>4 DEF Fresh
      <3>2. RoomsOf(s) = {}
        BY <1>0, <1>6, <2>4, <3>1 DEF DocInv, RoomsOf, TypeOK, RegistryTypeOK
      <3> QED
        BY <2>2, <2>3, <2>4, <3>1, <3>2 DEF DocInv
    <2>5. CASE t # s
      BY <1>0, <2>2, <2>3, <2>5 DEF DocInv, Others
    <2> QED
      BY <2>4, <2>5
  <1> QED
    BY <1>1, <1>2, <1>3, <1>4, <1>5, <1>6 DEF Kind

\* At most one first save makes a document, and an unmade document is not in
\* the index.
LEMMA OneSave ==
  ASSUME TypeOK, SplitInv, NEW q \in Requests, Others(q),
         Kind(q) \/ \E s \in scenesMade : Opens(q, s)
  PROVE  /\ \A p1, p2 \in Requests, s \in Scenes :
               Pending(p1, s)' /\ Pending(p2, s)' => p1 = p2
         /\ \A s \in Scenes \ scenesMade' : bySceneID'[s] = NoRoom
  <1> USE DocumentsAssumption
  <1>0. /\ \A p \in Requests : WellFormed(req[p], scenesMade)
        /\ \A p1, p2 \in Requests, s \in Scenes : Pending(p1, s) /\ Pending(p2, s) => p1 = p2
        /\ \A s \in Scenes \ scenesMade : bySceneID[s] = NoRoom
        /\ bySceneID \in [Scenes -> Rooms \cup {NoRoom}]
    BY DEF SplitInv, TypeOK, RequestsTypeOK, RegistryTypeOK
  <1>1. CASE Made(q)
    <2>1. PICK t \in Scenes \ scenesMade : Made(q)!(t)
      BY <1>1 DEF Made
    <2>2. \A p \in Requests : ~Pending(p, t)
      BY <1>0, <2>1 DEF Pending, WellFormed
    <2>3. /\ \A s : Pending(q, s)' => s = t
          /\ \A p \in Requests \ {q}, s \in Scenes : Pending(p, s)' = Pending(p, s)
      BY <2>1 DEF Pending, Others, From
    <2> QED
      BY <1>0, <2>1, <2>2, <2>3 DEF SameRooms
  <1>2. ASSUME \A p \in Requests, s \in Scenes : Pending(p, s)' => Pending(p, s),
               \A s \in Scenes \ scenesMade : bySceneID'[s] = NoRoom,
               scenesMade \subseteq scenesMade'
        PROVE  /\ \A p1, p2 \in Requests, s \in Scenes :
                     Pending(p1, s)' /\ Pending(p2, s)' => p1 = p2
               /\ \A s \in Scenes \ scenesMade' : bySceneID'[s] = NoRoom
    BY <1>0, <1>2
  <1>3. CASE Plain(q) \/ Begun(q) \/ Named(q) \/ Unmade(q)
    <2>1. bySceneID' = bySceneID /\ scenesMade \subseteq scenesMade'
      BY <1>3 DEF Plain, Begun, Named, Unmade, SameRooms, SameDocs
    <2> QED
      BY <1>0, <1>2, <1>3, <2>1, PendingSame
  <1>4. CASE Set(q)
    BY <1>0, <1>2, <1>4 DEF Set, From, SameDocs, Pending, Others
  <1>5. CASE Bound(q)
    <2>1. req[q].scene \in scenesMade /\ req'[q].pc = "idle"
      BY <1>0, <1>5 DEF Bound, WellFormed, Idle
    <2> QED
      BY <1>0, <1>2, <1>5, <2>1 DEF Bound, SameDocs, Pending, Others
  <1>6. CASE Closes(q)
    BY <1>0, <1>2, <1>6, PendingSame DEF Closes, SameDocs
  <1>7. ASSUME NEW t \in scenesMade \cup {NoScene}, Opens(q, t)
        PROVE  /\ \A p1, p2 \in Requests, s \in Scenes :
                     Pending(p1, s)' /\ Pending(p2, s)' => p1 = p2
               /\ \A s \in Scenes \ scenesMade' : bySceneID'[s] = NoRoom
    BY <1>0, <1>2, <1>7, PendingSame DEF Opens, SameDocs
  <1> QED
    BY <1>1, <1>3, <1>4, <1>5, <1>6, <1>7 DEF Kind

\* The invariant holds along every history.
LEMMA SplitNext ==
  ASSUME TypeOK, HistoryTypeOK, SplitInv, [HNext]_hvars
  PROVE  SplitInv'
  <1> USE DocumentsAssumption
  <1>1. CASE UNCHANGED hvars
    BY <1>1 DEF hvars, vars, historyVars, registryVars, storeVars, SplitInv, DocInv, Pending,
       RoomsOf
  <1>2. ASSUME Restart, Record({}) PROVE SplitInv'
    <2>1. /\ \A p \in Requests, s \in Scenes : ~Pending(p, s)'
          /\ \A s \in Scenes : bySceneID'[s] = NoRoom /\ RoomsOf(s)' = {}
      BY <1>2 DEF Restart, LoseRegistry, Pending, RoomsOf, Idle
    <2> QED
      BY <2>1 DEF SplitInv, DocInv
  <1>3. ASSUME NEW q \in Requests, Others(q), NEW S, Record(S),
               \/ Kind(q) /\ S = {s \in Opened : Fresh(s)}
               \/ S = Opened /\ \E s \in scenesMade : Opens(q, s)
        PROVE  SplitInv'
    <2>1. ASSUME NEW s \in Scenes, s \notin split' PROVE DocInv(s)'
      <3>1. CASE RoomsOf(s)' = {} /\ ~Fresh(s)'
        BY <3>1 DEF DocInv, Fresh
      <3>2. CASE RoomsOf(s)' # {} \/ Fresh(s)'
        <4>1. s \notin split /\ s \notin S
          BY <1>3, <2>1, <3>2 DEF Record
        <4>2. ASSUME NEW t, Opens(q, t) PROVE t = s => s \in Opened
          BY <4>2 DEF Opens, Opened, Unreferenced, TypeOK, RegistryTypeOK
        <4>3. CASE Kind(q) /\ S = {t \in Opened : Fresh(t)}
          BY <1>3, <4>1, <4>2, <4>3, DocKept
        <4>4. ASSUME S = Opened, NEW t \in scenesMade, Opens(q, t) PROVE DocInv(s)'
          <5>1. t # s
            BY <4>1, <4>2, <4>4
          <5>2. PICK r \in Rooms : Opens(q, t)!(r)
            BY <4>4 DEF Opens
          <5>3. DocInv(s) /\ t \in Scenes
            BY <4>1 DEF SplitInv, TypeOK, StoreTypeOK
          <5>4. RoomsOf(s)' = RoomsOf(s) /\ bySceneID'[s] = bySceneID[s]
            BY <5>1, <5>2, <5>3 DEF RoomsOf, Unreferenced, TypeOK, RegistryTypeOK
          <5>5. \A p \in Requests : Pending(p, s)' = Pending(p, s) /\ (Pending(p, s) => p # q)
            BY <1>3, <4>4, PendingSame
          <5> QED
            BY <1>3, <5>3, <5>4, <5>5 DEF DocInv, Others
        <4> QED
          BY <1>3, <4>3, <4>4
      <3> QED
        BY <3>1, <3>2
    <2> QED
      BY <1>3, <2>1, OneSave DEF SplitInv
  <1> QED
    BY <1>1, <1>2, <1>3, HistorySteps DEF HistoryStep

LEMMA SplitInvariant == HSpec => []SplitInv
  <1>1. HInit => SplitInv
    BY DocumentsAssumption
    DEF HInit, Init, NewRegistry, SplitInv, DocInv, Pending, RoomsOf, Idle
  <1> QED
    BY <1>1, SplitNext, HistoryTypes, PTL DEF HSpec

(***************************************************************************)
(* FR-2.1, FR-2.2: in every interleaving, a document that was not opened    *)
(* during its first save or by the deprecated creation has at most one live *)
(* room.                                                                    *)
(***************************************************************************)
THEOREM OneRoomPerDocument == HSpec => []OneRoomUnlessSplit
  <1>1. SplitInv => OneRoomUnlessSplit
    <2>1. SUFFICES ASSUME SplitInv, NEW s \in Scenes \ split,
                          NEW r1 \in RoomsOf(s), NEW r2 \in RoomsOf(s)
                   PROVE  r1 = r2
      BY DEF OneRoomUnlessSplit
    <2>2. DocInv(s)
      BY <2>1 DEF SplitInv
    <2> QED
      BY <2>2 DEF DocInv
  <1> QED
    BY <1>1, SplitInvariant, PTL

-----------------------------------------------------------------------------
(* The refinement.                                                          *)

\* A split document has a room or a first save under way.
LooseInv == \A s \in split : RoomsOf(s) # {} \/ Fresh(s)

LEMMA LooseNext == LooseInv /\ [HNext]_hvars => LooseInv'
  <1> SUFFICES ASSUME LooseInv, [HNext]_hvars PROVE LooseInv'
    OBVIOUS
  <1>1. CASE UNCHANGED hvars
    BY <1>1 DEF hvars, vars, historyVars, registryVars, LooseInv, RoomsOf, Fresh, Pending
  <1>2. CASE HNext
    <2>1. \E S : Record(S)
      BY <1>2 DEF HNext
    <2> QED
      BY <2>1 DEF Record, LooseInv
  <1> QED
    BY <1>1, <1>2

\* Recording is what the sessions call Loosen.
LEMMA RecordLoosens ==
  ASSUME HistoryTypeOK, NEW S \in SUBSET Scenes, Record(S)
  PROVE  Sessions!Loosen(S)
  BY DEF HistoryTypeOK, Record, Sessions!Loosen

\* Nothing is loosened or settled by a step that leaves rooms and first
\* saves alone.
LEMMA StaysLoose ==
  ASSUME HistoryTypeOK, LooseInv, Record({}),
         \A s \in Scenes : RoomsOf(s)' = RoomsOf(s) /\ Fresh(s)' = Fresh(s)
  PROVE  split' = split
  BY DEF HistoryTypeOK, LooseInv, Record

\* Without rooms or a first save under way in the index, a document has none.
LEMMA NoSession ==
  ASSUME TypeOK, SplitInv, NEW s \in Scenes, bySceneID[s] = NoRoom
  PROVE  RoomsOf(s) = {} \/ Fresh(s) \/ s \in split
  BY DocumentsAssumption DEF SplitInv, DocInv, Fresh, RoomsOf, TypeOK, RegistryTypeOK

\* Deletions are those of the other requests and the stepping one.
LEMMA SameDeletions ==
  ASSUME NEW q \in Requests, Others(q),
         \/ req[q].pc \notin DelLabels /\ req'[q].pc \notin DelLabels
         \/ /\ req[q].pc \in DelLabels /\ req'[q].pc \in DelLabels
            /\ req'[q].scene = req[q].scene
  PROVE  {s \in Scenes : \E p \in Requests : Deleting(p, s)}'
           = {s \in Scenes : \E p \in Requests : Deleting(p, s)}
  <1>1. \A p \in Requests, s \in Scenes : Deleting(p, s)' = Deleting(p, s)
    BY DEF Deleting, Others, DelLabels
  <1> QED
    BY <1>1

\* A plain step admits a deletion, carries it out, gives it up, or stutters.
LEMMA PlainImplements ==
  ASSUME TypeOK, HistoryTypeOK, SplitInv, LooseInv, NEW q \in Requests, Others(q),
         Plain(q), Record({})
  PROVE  [Sessions!Next]_(Sessions!vars)
  <1> DEFINE doom == {s \in Scenes : \E p \in Requests : Deleting(p, s)}
             c == req[q]
             u == req'[q].scene
  <1>1. \A s \in Scenes : RoomsOf(s)' = RoomsOf(s) /\ Fresh(s)' = Fresh(s)
    BY PendingSame DEF Plain, SameRooms, RoomsOf, Fresh
  <1>2. split' = split
    BY <1>1, StaysLoose
  <1>3. c.pc \in DelLabels => c.scene \in Scenes
    BY DEF TypeOK, RequestsTypeOK, StoreTypeOK, WellFormed, DelLabels
  <1>4. ASSUME docs' = docs, doom' = doom PROVE UNCHANGED Sessions!vars
    BY <1>1, <1>2, <1>4 DEF Sessions!vars
  <1>5. ASSUME c.pc \in DelLabels, docs' = docs \ {c.scene},
               doom' \in {doom, doom \ {c.scene}}
        PROVE  Sessions!Next
    <2>1. Deleting(q, c.scene)
      BY <1>5 DEF Deleting, DelLabels
    <2>2. Sessions!Erase(c.scene)
      BY <1>1, <1>2, <1>3, <1>5, <2>1 DEF Sessions!Erase
    <2> QED
      BY <1>3, <1>5, <2>2 DEF Sessions!Next
  <1>6. CASE c.pc \notin DelLabels /\ req'[q].pc \notin DelLabels
    BY <1>4, <1>6, SameDeletions DEF Plain
  <1>7. CASE c.pc \in DelLabels /\ req'[q].pc \in DelLabels
    BY <1>4, <1>5, <1>7, SameDeletions DEF Plain
  <1>8. CASE c.pc \notin DelLabels /\ req'[q].pc \in DelLabels
    <2>1. bySceneID[u] = NoRoom /\ docs' = docs
      BY <1>8 DEF Plain
    <2>2. /\ \A p \in Requests \ {q}, s \in Scenes : Deleting(p, s)' = Deleting(p, s)
          /\ \A s \in Scenes : ~Deleting(q, s) /\ (Deleting(q, s)' <=> s = u)
      BY <1>8 DEF Deleting, Others, DelLabels
    <2>3. CASE u \in Scenes
      <3>1. doom' = doom \cup {u}
        BY <2>2, <2>3
      <3>2. Sessions!Admit(u)
        BY <1>1, <1>2, <2>1, <2>3, <3>1, NoSession DEF Sessions!Admit
      <3> QED
        BY <2>3, <3>2 DEF Sessions!Next
    <2>4. CASE u \notin Scenes
      <3>1. doom' = doom
        BY <2>2, <2>4
      <3> QED
        BY <1>4, <2>1, <3>1
    <2> QED
      BY <2>3, <2>4
  <1>9. CASE c.pc \in DelLabels /\ req'[q].pc \notin DelLabels
    <2>1. doom' \in {doom, doom \ {c.scene}}
      <3>1. \A p \in Requests \ {q}, s \in Scenes : Deleting(p, s)' = Deleting(p, s)
        BY DEF Deleting, Others
      <3>2. \A s \in Scenes : ~Deleting(q, s)' /\ (Deleting(q, s) => s = c.scene)
        BY <1>9 DEF Deleting, DelLabels
      <3> QED
        BY <3>1, <3>2
    <2>2. CASE docs' = docs \ {c.scene}
      BY <1>5, <1>9, <2>1, <2>2
    <2>3. CASE docs' = docs /\ doom' = doom \ {c.scene}
      <3>1. Sessions!Dismiss(c.scene)
        BY <1>1, <1>2, <1>3, <1>9, <2>3 DEF Sessions!Dismiss
      <3> QED
        BY <1>3, <1>9, <3>1 DEF Sessions!Next
    <2> QED
      BY <1>4, <1>9, <2>1, <2>2, <2>3 DEF Plain
  <1> QED
    BY <1>6, <1>7, <1>8, <1>9

\* A step of a first save makes the document, attaches its room, settles, or
\* stutters.
LEMMA SaveImplements ==
  ASSUME TypeOK, HistoryTypeOK, SplitInv, LooseInv, NEW q \in Requests, Others(q),
         Begun(q) \/ Named(q) \/ Made(q) \/ Unmade(q) \/ Set(q) \/ Bound(q),
         Record({})
  PROVE  [Sessions!Next]_(Sessions!vars)
  <1> DEFINE doom == {s \in Scenes : \E p \in Requests : Deleting(p, s)}
             new == {s \in Scenes : Fresh(s)}
             c == req[q]
  <1>0. /\ c.pc \in {"setScene", "bind"} => c.scene \in Scenes
        /\ c.pc \in {"name", "create", "setScene", "bind"} => c.room \in Rooms
    BY DEF TypeOK, RequestsTypeOK, StoreTypeOK, WellFormed
  <1>1. doom' = doom
    <2>1. c.pc \notin DelLabels /\ req'[q].pc \notin DelLabels
      BY DEF Begun, Named, Made, Unmade, Set, Bound, From, Idle, DelLabels
    <2> QED
      BY <2>1, SameDeletions
  <1>2. Sessions!Loosen({})
    BY RecordLoosens
  <1>3. ASSUME SameRooms, \A s \in Scenes : Fresh(s)' = Fresh(s), docs' = docs
        PROVE  UNCHANGED Sessions!vars
    <2>1. \A s \in Scenes : RoomsOf(s)' = RoomsOf(s)
      BY <1>3 DEF SameRooms, RoomsOf
    <2> QED
      BY <1>1, <1>3, <2>1, StaysLoose DEF Sessions!vars
  <1>4. ASSUME SameRooms, NEW s \in Scenes, s \notin scenesMade, docs' = docs \cup {s},
               new' \in {new, new \cup {s}}
        PROVE  Sessions!Next
    <2>1. s \notin docs /\ RoomsOf(s) = {}
      BY <1>4, DocumentsAssumption DEF TypeOK, StoreTypeOK, RoomsOf, RegistryTypeOK
    <2>2. \A t \in Scenes : RoomsOf(t)' = RoomsOf(t)
      BY <1>4 DEF SameRooms, RoomsOf
    <2>3. Sessions!Persist(s)
      BY <1>1, <1>2, <1>4, <2>1, <2>2 DEF Sessions!Persist
    <2> QED
      BY <2>3 DEF Sessions!Next
  <1>5. CASE Begun(q) \/ Named(q) \/ Unmade(q)
    <2>1. \A s \in Scenes : Fresh(s)' = Fresh(s)
      BY <1>5, PendingSame DEF Fresh
    <2>2. new' = new
      BY <2>1
    <2> QED
      BY <1>3, <1>4, <1>5, <2>1, <2>2 DEF Begun, Named, Unmade, SameDocs
  <1>6. CASE Made(q)
    <2>1. PICK s \in Scenes \ scenesMade : Made(q)!(s)
      BY <1>6 DEF Made
    <2>2. /\ \A t \in Scenes : ~Pending(q, t) /\ (Pending(q, t)' <=> t = s)
          /\ \A p \in Requests \ {q}, t \in Scenes : Pending(p, t)' = Pending(p, t)
      BY <2>1 DEF Pending, Others, From
    <2>3. new' = new \cup {s}
      BY <2>2 DEF Fresh
    <2> QED
      BY <1>4, <2>1, <2>3
  <1>7. CASE Set(q)
    <2>1. /\ c.pc = "setScene" /\ c.scene \in Scenes /\ c.room \in Rooms
          /\ live' = live /\ roomScene' = [roomScene EXCEPT ![c.room] = c.scene]
      BY <1>0, <1>7 DEF Set, From
    <2>2. \A t \in Scenes : Fresh(t)' = Fresh(t)
      BY <1>7 DEF Set, From, Fresh, Pending, Others
    <2>3. CASE c.room \notin live
      <3>1. \A t \in Scenes : RoomsOf(t)' = RoomsOf(t)
        BY <2>1, <2>3 DEF RoomsOf, TypeOK, RegistryTypeOK
      <3> QED
        BY <1>1, <1>7, <2>2, <3>1, StaysLoose DEF Sessions!vars, Set, SameDocs
    <2>4. CASE c.room \in live
      <3>1. \A t \in Scenes : RoomsOf(t)' = IF t = c.scene THEN RoomsOf(t) \cup {c.room}
                                            ELSE RoomsOf(t) \ {c.room}
        BY <2>1, <2>4 DEF RoomsOf, TypeOK, RegistryTypeOK
      <3>2. Pending(q, c.scene)
        BY <2>1 DEF Pending
      <3>3. RoomsOf(c.scene) = {} \/ c.scene \in split
        BY <2>1, <3>2 DEF SplitInv, DocInv
      <3>4. Sessions!Attach(c.scene, c.room)
        BY <1>1, <1>2, <1>7, <2>1, <2>2, <3>1, <3>2, <3>3
        DEF Sessions!Attach, Set, SameDocs, Fresh
      <3> QED
        BY <2>1, <3>4 DEF Sessions!Next
    <2> QED
      BY <2>3, <2>4
  <1>8. CASE Bound(q)
    <2>1. c.pc = "bind" /\ c.scene \in Scenes /\ req'[q].pc = "idle"
      BY <1>0, <1>8 DEF Bound, Idle
    <2>2. /\ \A t \in Scenes : ~Pending(q, t)' /\ (Pending(q, t) <=> t = c.scene)
          /\ \A p \in Requests \ {q}, t \in Scenes : Pending(p, t)' = Pending(p, t)
      BY <2>1 DEF Pending, Others
    <2>3. new' = new \ {c.scene}
      BY <2>1, <2>2 DEF Fresh, SplitInv
    <2>4. \A t \in Scenes : RoomsOf(t)' = RoomsOf(t)
      BY <1>8 DEF Bound, RoomsOf
    <2>5. Sessions!Settle(c.scene)
      BY <1>1, <1>2, <1>8, <2>3, <2>4 DEF Sessions!Settle, Bound, SameDocs
    <2> QED
      BY <2>1, <2>5 DEF Sessions!Next
  <1> QED
    BY <1>5, <1>6, <1>7, <1>8

\* A room that opens or closes is a session that starts or ends, or no
\* document's.
LEMMA RoomsImplement ==
  ASSUME TypeOK, HistoryTypeOK, SplitInv, LooseInv, NEW q \in Requests, Others(q),
         \/ Closes(q) /\ Record({})
         \/ Opens(q, NoScene) /\ Record({})
         \/ \E s \in scenesMade : /\ Opens(q, s)
                                  /\ \/ /\ bySceneID[s] = NoRoom
                                        /\ Record({s} \cap {t \in Scenes : Fresh(t)})
                                     \/ Record({s})
  PROVE  [Sessions!Next]_(Sessions!vars)
  <1> DEFINE doom == {s \in Scenes : \E p \in Requests : Deleting(p, s)}
             new == {s \in Scenes : Fresh(s)}
  <1>1. doom' = doom
    <2>1. req[q].pc \notin DelLabels /\ req'[q].pc \notin DelLabels
      BY DEF Closes, Opens, Quiet
    <2> QED
      BY <2>1, SameDeletions
  <1>2. \A s \in Scenes : Fresh(s)' = Fresh(s)
    BY PendingSame DEF Fresh
  <1>3. docs' = docs
    BY DEF Closes, Opens, SameDocs
  <1>4. CASE Closes(q) /\ Record({})
    <2>1. PICK r \in Rooms : Closes(q)!(r)
      BY <1>4 DEF Closes
    <2>2. \A s \in Scenes : RoomsOf(s)' = RoomsOf(s) \ {r}
      BY <2>1 DEF RoomsOf
    <2>3. Sessions!End(r)
      BY <1>1, <1>2, <1>3, <1>4, <2>2, RecordLoosens DEF Sessions!End
    <2> QED
      BY <2>3 DEF Sessions!Next
  <1>5. CASE Opens(q, NoScene) /\ Record({})
    <2>1. \A s \in Scenes : RoomsOf(s)' = RoomsOf(s)
      BY <1>5, DocumentsAssumption DEF Opens, Unreferenced, RoomsOf, TypeOK, RegistryTypeOK
    <2> QED
      BY <1>1, <1>2, <1>3, <1>5, <2>1, StaysLoose DEF Sessions!vars
  <1>6. ASSUME NEW s \in scenesMade, Opens(q, s),
               \/ bySceneID[s] = NoRoom /\ Record({s} \cap new)
               \/ Record({s})
        PROVE  Sessions!Next
    <2>1. PICK r \in Rooms : Opens(q, s)!(r)
      BY <1>6 DEF Opens
    <2>2. s \in Scenes
      BY DEF TypeOK, StoreTypeOK
    <2>3. /\ \A t \in Scenes : r \notin RoomsOf(t)
          /\ \A t \in Scenes : RoomsOf(t)' = IF t = s THEN RoomsOf(t) \cup {r} ELSE RoomsOf(t)
      BY <2>1, <2>2 DEF RoomsOf, Unreferenced, TypeOK, RegistryTypeOK
    <2>4. CASE bySceneID[s] = NoRoom /\ Record({s} \cap new)
      <3>1. RoomsOf(s) = {} \/ s \in new \cup split
        BY <2>2, <2>4, NoSession
      <3>2. Sessions!Loosen({s} \cap new)
        BY <2>4, RecordLoosens
      <3>3. Sessions!Start(s, r)
        BY <1>1, <1>2, <1>3, <2>2, <2>3, <3>1, <3>2 DEF Sessions!Start
      <3> QED
        BY <2>2, <3>3 DEF Sessions!Next
    <2>5. CASE Record({s})
      <3>1. Sessions!Loosen({s})
        BY <2>2, <2>5, RecordLoosens
      <3>2. Sessions!Override(s, r)
        BY <1>1, <1>2, <1>3, <2>2, <2>3, <3>1 DEF Sessions!Override
      <3> QED
        BY <2>2, <3>2 DEF Sessions!Next
    <2> QED
      BY <1>6, <2>4, <2>5
  <1> QED
    BY <1>4, <1>5, <1>6

\* The documents a step opens.
LEMMA OpenedBy ==
  ASSUME TypeOK, NEW q \in Requests
  PROVE  /\ Kind(q) => (Opened # {} => \E s \in scenesMade :
                                         bySceneID[s] = NoRoom /\ Opens(q, s))
         /\ \A s \in scenesMade : Opens(q, s) => Opened = {s}
  <1>1. \A s \in scenesMade : Opens(q, s) => Opened = {s}
    BY DEF Opens, Opened, Unreferenced, TypeOK, RegistryTypeOK, StoreTypeOK
  <1>2. Opens(q, NoScene) => Opened = {}
    BY DocumentsAssumption DEF Opens, Opened, Unreferenced, TypeOK, RegistryTypeOK
  <1>3. \/ Plain(q) \/ Begun(q) \/ Named(q) \/ Made(q) \/ Unmade(q) \/ Set(q) \/ Bound(q)
        \/ Closes(q)
        => Opened = {}
    BY DEF Opened, Plain, Begun, Named, Made, Unmade, Set, Bound, Closes, SameRooms
  <1> QED
    BY <1>1, <1>2, <1>3 DEF Kind

(***************************************************************************)
(* FR-2.1, FR-2.2, FR-2.9: the handlers implement the sessions of           *)
(* documents in every interleaving, with failures of the store, restarts    *)
(* and the deprecated creation: a session starts, ends and is shared, and a *)
(* document is made and erased, only as that specification allows.          *)
(***************************************************************************)
THEOREM SessionsImplemented == HSpec => ImplementsSessions
  <1>1. HInit => Sessions!Init
    BY DEF HInit, Init, StoreInit, NewRegistry, Sessions!Init, RoomsOf, Fresh, Pending,
       Deleting, Idle
  <1>2. ASSUME TypeOK, HistoryTypeOK, SplitInv, LooseInv, [HNext]_hvars
        PROVE  [Sessions!Next]_(Sessions!vars)
    <2>1. CASE UNCHANGED hvars
      BY <1>2, <2>1 DEF hvars, vars, historyVars, registryVars, storeVars, RoomsOf, Fresh,
         Pending, Deleting, Sessions!vars
    <2>2. ASSUME Restart, Record({}) PROVE Sessions!Lose
      <3>1. \A s \in Scenes : /\ RoomsOf(s)' = {} /\ ~Fresh(s)'
                              /\ ~\E q \in Requests : Deleting(q, s)'
        BY <2>2 DEF Restart, LoseRegistry, RoomsOf, Fresh, Pending, Deleting, Idle
      <3>2. split' = {}
        BY <2>2, <3>1 DEF Record
      <3> QED
        BY <2>2, <3>1, <3>2 DEF Sessions!Lose, Restart, storeVars
    <2>3. ASSUME NEW q \in Requests, Kind(q), Others(q), Record({s \in Opened : Fresh(s)})
          PROVE  [Sessions!Next]_(Sessions!vars)
      <3>1. CASE Opened = {}
        <4>1. Record({})
          BY <2>3, <3>1
        <4>2. ~\E s \in scenesMade : Opens(q, s)
          BY <1>2, <3>1, OpenedBy
        <4> QED
          BY <1>2, <2>3, <4>1, <4>2, PlainImplements, SaveImplements, RoomsImplement DEF Kind
      <3>2. CASE Opened # {}
        <4>1. PICK s \in scenesMade : bySceneID[s] = NoRoom /\ Opens(q, s)
          BY <1>2, <2>3, <3>2, OpenedBy
        <4>2. Opened = {s} /\ s \in Scenes
          BY <1>2, <4>1, OpenedBy DEF TypeOK, StoreTypeOK
        <4>3. {t \in Opened : Fresh(t)} = {s} \cap {t \in Scenes : Fresh(t)}
          BY <4>2
        <4> QED
          BY <1>2, <2>3, <4>1, <4>3, RoomsImplement
      <3> QED
        BY <3>1, <3>2
    <2>4. ASSUME NEW q \in Requests, NEW s \in scenesMade, Opens(q, s), Others(q), Record(Opened)
          PROVE  [Sessions!Next]_(Sessions!vars)
      <3>1. Opened = {s}
        BY <1>2, <2>4, OpenedBy
      <3> QED
        BY <1>2, <2>4, <3>1, RoomsImplement
    <2> QED
      BY <1>2, <2>1, <2>2, <2>3, <2>4, HistorySteps DEF HistoryStep, Sessions!Next
  <1>3. HInit => LooseInv
    BY DEF HInit, LooseInv
  <1> QED
    BY <1>1, <1>2, <1>3, LooseNext, SplitInvariant, HistoryTypes, PTL
    DEF HSpec, ImplementsSessions, Sessions!Spec

-----------------------------------------------------------------------------
(* Renames of documents.                                                    *)

\* The rooms a rename must reach are its document's, and no first save's.
ServedInv == \A q \in Requests : \A r \in served[q] : Renaming(q) /\ r \in Serving(q)

\* A rename looks the room up and then names it, and it found the room it
\* must reach.
RenInv ==
    \A q \in Requests : Renaming(q) =>
        /\ req[q].pc \in {"lookup", "setName"}
        /\ req[q].scene \in Scenes
        /\ req[q].pc = "setName" /\ req[q].scene \notin split =>
              \A r \in served[q] : req[q].room = r

LEMMA ServedNext == ServedInv /\ [HNext]_hvars => ServedInv'
  <1> SUFFICES ASSUME ServedInv, [HNext]_hvars PROVE ServedInv'
    OBVIOUS
  <1>1. CASE UNCHANGED hvars
    BY <1>1 DEF hvars, vars, historyVars, registryVars, ServedInv, Renaming, Serving, RoomsOf,
       FirstSave
  <1>2. CASE HNext
    <2>1. \E S : Record(S)
      BY <1>2 DEF HNext
    <2> QED
      BY <2>1 DEF Record, ServedInv
  <1> QED
    BY <1>1, <1>2

\* The room that a rename must reach is the one in the index.
LEMMA ServedIndexed ==
  ASSUME SplitInv, ServedInv, RenInv, NEW q \in Requests, NEW r \in served[q],
         req[q].scene \notin split
  PROVE  bySceneID[req[q].scene] = r
  <1>1. /\ req[q].scene \in Scenes /\ r \in RoomsOf(req[q].scene)
        /\ \A p \in Requests : ~FirstSave(p, r)
    BY DEF ServedInv, RenInv, Serving
  <1>2. DocInv(req[q].scene)
    BY <1>1 DEF SplitInv
  <1> QED
    BY <1>1, <1>2 DEF DocInv, FirstSave

\* Every other step of the service is one request's.
LEMMA StepBy ==
  ASSUME TypeOK, HNext, ~Restart
  PROVE  \E q \in Requests : Others(q) /\ (Issue(q) \/ LegacyCreateRoom(q) \/ Proceed(q))
  BY IssueKind, LegacyKind, ProceedKind DEF HNext

\* A rename begins with the store's, and is then about to look up.
LEMMA RenameBegins ==
  ASSUME TypeOK, NEW q \in Requests, Issue(q) \/ LegacyCreateRoom(q)
  PROVE  /\ ~Renaming(q)
         /\ Renaming(q)' => req'[q].pc = "lookup" /\ req'[q].scene \in Scenes
  <1>0. Idle.pc = "idle"
    BY DEF Idle
  <1>1. ASSUME NEW op, NEW x, Begin(q, op, x),
               \/ x.pc = "idle" \/ x.op # "sceneRename"
               \/ x.pc = "lookup" /\ x.scene \in Scenes
        PROVE  /\ ~Renaming(q)
               /\ Renaming(q)' => req'[q].pc = "lookup" /\ req'[q].scene \in Scenes
    BY <1>1, Beginning DEF Renaming
  <1>2. CASE CreateRoom(q) \/ LegacyCreateRoom(q) \/ OpenScene(q)
    BY <1>0, <1>1, <1>2 DEF CreateRoom, LegacyCreateRoom, OpenScene
  <1>3. CASE SaveStart(q) \/ PublishStart(q)
    <2>1. \A r, F, op : Upload(r, F, op).op = op
      BY DEF Upload, Idle
    <2> QED
      BY <1>1, <1>3, <2>1 DEF SaveStart, PublishStart
  <1>4. CASE RoomRenameStart(q)
    <2>1. \A r, n : [Idle EXCEPT !.pc = "setName", !.op = "roomRename",
                                 !.room = r, !.name = n].op = "roomRename"
      BY DEF Idle
    <2> QED
      BY <1>1, <1>4, <2>1 DEF RoomRenameStart
  <1>5. CASE SceneRenameStore(q)
    <2>1. PICK s \in scenesMade, n \in Names, out \in Outcomes :
               SceneRenameStore(q)!(s, n, out)
      BY <1>5 DEF SceneRenameStore
    <2> DEFINE x == [Idle EXCEPT !.pc = "lookup", !.op = "sceneRename",
                                 !.scene = s, !.name = n]
    <2>2. x.pc = "lookup" /\ x.scene \in Scenes
      BY DEF Idle, TypeOK, StoreTypeOK
    <2>3. Begin(q, "sceneRename", x) \/ Begin(q, "sceneRename", Idle)
      BY <2>1
    <2> HIDE DEF x
    <2> QED
      BY <1>0, <1>1, <2>2, <2>3
  <1>6. CASE RoomDeleteStart(q)
    <2>1. \A r : [Idle EXCEPT !.pc = "closeRoom", !.op = "roomDelete", !.room = r].op
                     = "roomDelete"
      BY DEF Idle
    <2> QED
      BY <1>1, <1>6, <2>1 DEF RoomDeleteStart
  <1>7. CASE SceneDeleteCheck(q)
    <2>1. \A s : [Idle EXCEPT !.pc = "delGet", !.op = "sceneDelete", !.scene = s].op
                     = "sceneDelete"
      BY DEF Idle
    <2> QED
      BY <1>1, <1>7, <2>1 DEF SceneDeleteCheck
  <1> QED
    BY <1>2, <1>3, <1>4, <1>5, <1>6, <1>7 DEF Issue

\* A rename goes on by looking the room up, or by naming it.
LEMMA RenameGoesOn ==
  ASSUME RenInv, NEW q \in Requests, Renaming(q), Proceed(q)
  PROVE  SceneRenameLookup(q) \/ RenameSet(q)
  BY DEF RenInv, Renaming, Proceed, At, UploadFile, PublishPut, SaveReadScene,
     SaveReadName, SaveCreate, SaveSetScene, SaveBind, SaveAppend, RoomDeleteFinish,
     SceneDeleteGet, SceneDeleteList, SceneDeleteVersions, SceneDeleteDoc

\* No other request goes on as a rename.
LEMMA RenameIsIssued ==
  ASSUME TypeOK, NEW q \in Requests, Proceed(q), ~Renaming(q)
  PROVE  ~Renaming(q)'
  <1> DEFINE c == req[q]
  <1>0. /\ c \in Request /\ Idle.pc = "idle"
        /\ Answer(q) => req'[q] = Idle
        /\ \A x : Continue(q, x) => req'[q] = x
    BY DEF TypeOK, RequestsTypeOK, Idle, Answer, Continue
  <1>1. CASE UploadFile(q)
    <2>1. \A f : [c EXCEPT !.todo = c.todo \ {f}].op = c.op
      BY <1>0 DEF Request
    <2> QED
      BY <1>0, <1>1, <2>1 DEF UploadFile, At, Renaming
  <1>2. CASE PublishPut(q) \/ SaveBind(q) \/ SaveAppend(q) \/ RenameSet(q)
             \/ RoomDeleteFinish(q) \/ SceneDeleteDoc(q)
    BY <1>0, <1>2 DEF PublishPut, SaveBind, SaveAppend, RenameSet, RoomDeleteFinish,
       SceneDeleteDoc, Renaming
  <1>3. CASE SaveReadScene(q) \/ SaveReadName(q) \/ SaveSetScene(q)
    <2>1. /\ [c EXCEPT !.pc = "name"].op = c.op
          /\ \A s : [c EXCEPT !.pc = "append", !.scene = s].op = c.op
          /\ \A n : [c EXCEPT !.pc = "create", !.name = n].op = c.op
          /\ [c EXCEPT !.pc = "bind"].op = c.op
      BY <1>0 DEF Request
    <2>2. \E x : Continue(q, x) /\ x.op = c.op
      BY <1>3, <2>1 DEF SaveReadScene, SaveReadName, SaveSetScene
    <2>3. c.pc # "idle"
      BY <1>3 DEF SaveReadScene, SaveReadName, SaveSetScene, At
    <2> QED
      BY <1>0, <2>2, <2>3 DEF Renaming
  <1>4. CASE SaveCreate(q)
    <2>1. PICK s \in Scenes, v \in Versions, out \in Outcomes : SaveCreate(q)!(s, v, out)
      BY <1>4 DEF SaveCreate
    <2> DEFINE x == [c EXCEPT !.pc = "setScene", !.scene = s, !.ver = v]
    <2>2. x.op = c.op
      BY <1>0 DEF Request
    <2>3. c.pc = "create" /\ req'[q] \in {x, Idle}
      BY <1>0, <2>1 DEF At
    <2> HIDE DEF x
    <2> QED
      BY <1>0, <2>2, <2>3 DEF Renaming
  <1>5. CASE SceneRenameLookup(q)
    <2>1. \A r : [c EXCEPT !.pc = "setName", !.room = r].op = c.op
      BY <1>0 DEF Request
    <2> QED
      BY <1>0, <1>5, <2>1 DEF SceneRenameLookup, At, Renaming
  <1>6. CASE SceneDeleteGet(q) \/ SceneDeleteList(q) \/ SceneDeleteVersions(q)
    <2>1. /\ [c EXCEPT !.pc = "delList"].op = c.op
          /\ \A vs : [c EXCEPT !.pc = "delVersions", !.refs = vs].op = c.op
          /\ [c EXCEPT !.pc = "delDoc", !.refs = {}].op = c.op
      BY <1>0 DEF Request
    <2> QED
      BY <1>0, <1>6, <2>1 DEF SceneDeleteGet, SceneDeleteList, SceneDeleteVersions, At, Renaming
  <1> QED
    BY <1>1, <1>2, <1>3, <1>4, <1>5, <1>6 DEF Proceed

\* What the lookup and the naming of a rename do.
LEMMA RenameSteps ==
  ASSUME TypeOK, RenInv, NEW q \in Requests, Renaming(q)
  PROVE  /\ SceneRenameLookup(q) =>
              \/ bySceneID[req[q].scene] = NoRoom /\ ~Renaming(q)'
              \/ /\ Renaming(q)' /\ req'[q].pc = "setName"
                 /\ req'[q].scene = req[q].scene
                 /\ req'[q].room = bySceneID[req[q].scene]
         /\ RenameSet(q) =>
              /\ ~Renaming(q)' /\ req[q].pc = "setName"
              /\ roomName' = [roomName EXCEPT ![req[q].room] = req[q].name]
  <1> DEFINE c == req[q]
             x == [c EXCEPT !.pc = "setName", !.room = bySceneID[c.scene]]
  <1>1. /\ x.pc = "setName" /\ x.scene = c.scene /\ x.op = c.op
        /\ x.room = bySceneID[c.scene] /\ Idle.pc = "idle"
    BY DEF TypeOK, RequestsTypeOK, Request, Idle
  <1>2. /\ Answer(q) => req'[q] = Idle
        /\ \A y : Continue(q, y) => req'[q] = y
    BY DEF TypeOK, RequestsTypeOK, Answer, Continue
  <1>3. CASE SceneRenameLookup(q)
    <2>1. \/ bySceneID[c.scene] = NoRoom /\ req'[q] = Idle
          \/ bySceneID[c.scene] # NoRoom /\ req'[q] = x
      BY <1>2, <1>3 DEF SceneRenameLookup
    <2>2. ~RenameSet(q)
      BY <1>3 DEF SceneRenameLookup, RenameSet, At
    <2> HIDE DEF x
    <2> QED
      BY <1>1, <2>1, <2>2 DEF Renaming
  <1>4. CASE RenameSet(q)
    BY <1>1, <1>2, <1>4 DEF RenameSet, SceneRenameLookup, At, SetName, Renaming
  <1> QED
    BY <1>3, <1>4

\* The room a rename found stays the one it must reach.
LEMMA RenNext ==
  ASSUME TypeOK, SplitInv, ServedInv, RenInv, [HNext]_hvars
  PROVE  RenInv'
  <1>1. CASE UNCHANGED hvars
    BY <1>1 DEF hvars, vars, historyVars, RenInv, Renaming
  <1>2. ASSUME HNext, Restart PROVE RenInv'
    BY <1>2 DEF Restart, RenInv, Renaming, Idle
  <1>3. ASSUME HNext, ~Restart, NEW q \in Requests, Renaming(q)'
        PROVE  /\ req'[q].pc \in {"lookup", "setName"}
               /\ req'[q].scene \in Scenes
               /\ req'[q].pc = "setName" /\ req'[q].scene \notin split' =>
                     \A r \in served'[q] : req'[q].room = r
    <2>1. PICK p \in Requests :
               Others(p) /\ (Issue(p) \/ LegacyCreateRoom(p) \/ Proceed(p))
      BY <1>3, StepBy
    <2>2. PICK S : Record(S)
      BY <1>3 DEF HNext
    <2>3. CASE ~Renaming(q)
      <3>1. p = q
        BY <1>3, <2>1, <2>3 DEF Others, Renaming
      <3> QED
        BY <1>3, <2>1, <2>3, <3>1, RenameBegins, RenameIsIssued
    <2>4. CASE Renaming(q)
      <3>1. ASSUME NEW r \in served'[q], req'[q].scene = req[q].scene,
                   req'[q].scene \notin split'
            PROVE  r \in served[q] /\ req[q].scene \notin split
                   /\ bySceneID[req[q].scene] = r
        <4>1. r \in served[q] /\ r \in RoomsOf(req[q].scene)'
          BY <2>2, <2>4, <3>1 DEF Record, Serving
        <4>2. req[q].scene \notin split
          BY <2>2, <2>4, <3>1, <4>1 DEF Record, RenInv
        <4> QED
          BY <4>1, <4>2, ServedIndexed
      <3>2. CASE p # q
        <4>1. req'[q] = req[q]
          BY <2>1, <3>2 DEF Others
        <4> QED
          BY <2>4, <3>1, <4>1 DEF RenInv
      <3>3. CASE p = q
        <4>1. SceneRenameLookup(q) \/ RenameSet(q)
          BY <2>1, <2>4, <3>3, RenameBegins, RenameGoesOn
        <4>2. /\ req'[q].pc = "setName" /\ req'[q].scene = req[q].scene
              /\ req'[q].room = bySceneID[req[q].scene]
          BY <1>3, <2>4, <4>1, RenameSteps
        <4> QED
          BY <2>4, <3>1, <4>2 DEF RenInv
      <3> QED
        BY <3>2, <3>3
    <2> QED
      BY <2>3, <2>4
  <1> QED
    BY <1>1, <1>2, <1>3 DEF RenInv

(***************************************************************************)
(* FR-2.8: in every interleaving, a rename of a document that is answered   *)
(* with success has named every room that has been open for the document    *)
(* since the store was changed, unless the document was opened during its   *)
(* first save or by the deprecated creation.                                *)
(***************************************************************************)
THEOREM RenamesReachRooms == HSpec => RenameReachesRoom
  <1> DEFINE Reached(q, s) ==
        Renaming(q) /\ ~Renaming(q)' /\ req[q].scene = s
        => \A r \in served[q] \cap RoomsOf(s)' : roomName'[r] = req[q].name
  <1>1. ASSUME TypeOK, HistoryTypeOK, SplitInv, ServedInv, RenInv, HNext,
               NEW q \in Requests, NEW s \in Scenes \ split,
               Renaming(q), ~Renaming(q)', req[q].scene = s,
               NEW r \in served[q], r \in RoomsOf(s)'
        PROVE  roomName'[r] = req[q].name
    <2>1. ~Restart
      BY <1>1 DEF Restart, LoseRegistry, RoomsOf
    <2>2. PICK p \in Requests :
               Others(p) /\ (Issue(p) \/ LegacyCreateRoom(p) \/ Proceed(p))
      BY <1>1, <2>1, StepBy
    <2>3. p = q
      BY <1>1, <2>2 DEF Others, Renaming
    <2>4. SceneRenameLookup(q) \/ RenameSet(q)
      BY <1>1, <2>2, <2>3, RenameBegins, RenameGoesOn
    <2>5. bySceneID[s] = r /\ r \in Rooms
      BY <1>1, ServedIndexed DEF HistoryTypeOK
    <2>6. RenameSet(q)
      BY <1>1, <2>4, <2>5, RenameSteps, DocumentsAssumption
    <2>7. req[q].room = r /\ roomName' = [roomName EXCEPT ![r] = req[q].name]
      BY <1>1, <2>6, RenameSteps DEF RenInv
    <2> QED
      BY <1>1, <2>5, <2>7 DEF TypeOK, RegistryTypeOK
  <1>2. ASSUME TypeOK, HistoryTypeOK, SplitInv, ServedInv, RenInv, [HNext]_hvars
        PROVE  [\A q \in Requests, s \in Scenes \ split : Reached(q, s)]_hvars
    BY <1>1, <1>2
  <1>3. HInit => ServedInv /\ RenInv
    BY DEF HInit, Init, ServedInv, RenInv, Renaming, Idle
  <1> QED
    BY <1>2, <1>3, ServedNext, RenNext, SplitInvariant, HistoryTypes, PTL
    DEF HSpec, RenameReachesRoom

(***************************************************************************)
(* Registry.Delete leaves the index entry of another room alone: in every   *)
(* interleaving, while the room a document is indexed to stays open, the    *)
(* document stays indexed.                                                  *)
(***************************************************************************)
THEOREM IndexEntriesStay == Spec => IndexKeepsLive
  <1> DEFINE Kept == \A s \in Scenes :
                       bySceneID[s] \in live \cap live' => bySceneID'[s] # NoRoom
  <1>1. ASSUME TypeOK, NEW q \in Requests, Kind(q) \/ \E s \in scenesMade : Opens(q, s)
        PROVE  Kept
    <2> USE DocumentsAssumption DEF TypeOK, RegistryTypeOK
    <2>1. CASE Bound(q)
      <3>1. req[q].room \in Rooms
        BY <1>1, <2>1 DEF Bound, RequestsTypeOK, WellFormed
      <3> QED
        BY <1>1, <2>1, <3>1 DEF Bound
    <2>2. CASE Closes(q)
      BY <1>1, <2>2 DEF Closes
    <2>3. ASSUME NEW s, Opens(q, s) PROVE Kept
      BY <1>1, <2>3 DEF Opens
    <2>4. CASE Plain(q) \/ Begun(q) \/ Named(q) \/ Made(q) \/ Unmade(q) \/ Set(q)
      BY <1>1, <2>4 DEF Plain, Begun, Named, Made, Unmade, Set, SameRooms
    <2> HIDE DEF Kept
    <2> QED
      BY <1>1, <2>1, <2>2, <2>3, <2>4 DEF Kind
  <1>2. TypeOK /\ Next => Kept
    <2>1. Restart => Kept
      BY DEF Restart, LoseRegistry
    <2> HIDE DEF Kept
    <2> QED
      BY <1>1, <2>1, IssueKind, LegacyKind, ProceedKind DEF Next, Arrive
  <1> QED
    BY <1>2, TypeCorrect, PTL DEF Spec, IndexKeepsLive
=============================================================================
