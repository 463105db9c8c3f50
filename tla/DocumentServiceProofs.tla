------------------------ MODULE DocumentServiceProofs -------------------------
(***************************************************************************)
(* Theorems about DocumentService, for every set of requests, rooms,        *)
(* scenes, versions and files.                                              *)
(***************************************************************************)
EXTENDS DocumentService, TLAPS

-----------------------------------------------------------------------------
(* Types.                                                                   *)

\* A free slot holds well-formed locals, whatever scenes exist.
LEMMA IdleIsRequest ==
  /\ Idle \in Request
  /\ \A made : WellFormed(Idle, made)
  BY DocumentsAssumption, ServiceAssumption
  DEF Idle, Request, WellFormed, Labels, Operations

\* A step that gives one request new well-formed locals and forgets no scene
\* keeps the requests typed.
LEMMA RequestUpdate ==
  ASSUME RequestsTypeOK, NEW q \in Requests, NEW x \in Request,
         WellFormed(x, scenesMade'), scenesMade \subseteq scenesMade',
         req' = [req EXCEPT ![q] = x]
  PROVE  RequestsTypeOK'
  BY DEF RequestsTypeOK, WellFormed

\* The initial state is typed.
LEMMA TypeInit == Init => TypeOK
  BY DocumentsAssumption, StoreAssumption, ServiceAssumption, IdleIsRequest
  DEF Init, NewRegistry, StoreInit, TypeOK, RegistryTypeOK, StoreTypeOK,
      RequestsTypeOK

\* An arriving request keeps the state typed.
LEMMA TypeArrive ==
  ASSUME TypeOK, NEW q \in Requests, Arrive(q)
  PROVE  TypeOK'
  <1> USE DocumentsAssumption, StoreAssumption, ServiceAssumption
  <1>1. CASE CreateRoom(q)
    <2>1. RequestsTypeOK'
      BY <1>1, RequestUpdate, IdleIsRequest DEF TypeOK, CreateRoom, Begin, storeVars
    <2> QED
      BY <1>1, <2>1 DEF TypeOK, RegistryTypeOK, StoreTypeOK, CreateRoom, Create,
         createLocked, storeVars
  <1>2. CASE LegacyCreateRoom(q)
    <2>1. RequestsTypeOK'
      BY <1>2, RequestUpdate, IdleIsRequest DEF TypeOK, LegacyCreateRoom, Begin, storeVars
    <2> QED
      BY <1>2, <2>1 DEF TypeOK, RegistryTypeOK, StoreTypeOK, LegacyCreateRoom, Create,
         createLocked, storeVars
  <1>3. CASE OpenScene(q)
    <2>1. RequestsTypeOK'
      BY <1>3, RequestUpdate, IdleIsRequest DEF TypeOK, OpenScene, Begin, storeVars
    <2> QED
      BY <1>3, <2>1 DEF TypeOK, RegistryTypeOK, StoreTypeOK, OpenScene,
         GetOrCreateForScene, createLocked, storeVars, registryVars
  <1>4. ASSUME NEW op \in {"save", "publish"}, NEW r \in live, NEW F \in SUBSET Files,
               Begin(q, op, Upload(r, F, op)), UNCHANGED <<registryVars, storeVars, acked>>
        PROVE  TypeOK'
    <2>1. /\ Upload(r, F, op) \in Request
          /\ WellFormed(Upload(r, F, op), scenesMade')
      BY DEF TypeOK, RegistryTypeOK, Upload, Idle, Request, WellFormed, Labels, Operations
    <2>2. RequestsTypeOK'
      BY <1>4, <2>1, RequestUpdate DEF TypeOK, Begin, storeVars
    <2> QED
      BY <1>4, <2>2 DEF TypeOK, RegistryTypeOK, StoreTypeOK, registryVars, storeVars
  <1>5. CASE RoomRenameStart(q)
    <2>1. PICK r \in live, n \in Names : RoomRenameStart(q)!(r, n)
      BY <1>5 DEF RoomRenameStart
    <2> DEFINE x == [Idle EXCEPT !.pc = "setName", !.op = "roomRename",
                                 !.room = r, !.name = n]
    <2>2. x \in Request /\ WellFormed(x, scenesMade')
      BY DEF TypeOK, RegistryTypeOK, Idle, Request, WellFormed, Labels, Operations
    <2>3. RequestsTypeOK'
      BY <2>1, <2>2, RequestUpdate DEF TypeOK, Begin, storeVars
    <2> QED
      BY <2>1, <2>3 DEF TypeOK, RegistryTypeOK, StoreTypeOK, registryVars, storeVars
  <1>6. CASE SceneRenameStore(q)
    <2>1. PICK s \in scenesMade, n \in Names, out \in Outcomes :
               SceneRenameStore(q)!(s, n, out)
      BY <1>6 DEF SceneRenameStore
    <2> DEFINE x == [Idle EXCEPT !.pc = "lookup", !.op = "sceneRename",
                                 !.scene = s, !.name = n]
    <2>2. s \in Scenes /\ scenesMade' = scenesMade
      BY <2>1 DEF TypeOK, StoreTypeOK, RenameScene
    <2>3. x \in Request /\ WellFormed(x, scenesMade')
      BY <2>2 DEF Idle, Request, WellFormed, Labels, Operations
    <2>4. RequestsTypeOK'
      BY <2>1, <2>2, <2>3, RequestUpdate, IdleIsRequest DEF TypeOK, Begin
    <2> QED
      BY <2>1, <2>2, <2>4 DEF TypeOK, RegistryTypeOK, StoreTypeOK, RenameScene, registryVars
  <1>7. CASE RoomDeleteStart(q)
    <2>1. PICK r \in live : RoomDeleteStart(q)!(r)
      BY <1>7 DEF RoomDeleteStart
    <2> DEFINE x == [Idle EXCEPT !.pc = "closeRoom", !.op = "roomDelete", !.room = r]
    <2>2. x \in Request /\ WellFormed(x, scenesMade')
      BY DEF TypeOK, RegistryTypeOK, Idle, Request, WellFormed, Labels, Operations
    <2>3. RequestsTypeOK'
      BY <2>1, <2>2, RequestUpdate DEF TypeOK, Begin, storeVars
    <2> QED
      BY <2>1, <2>3 DEF TypeOK, RegistryTypeOK, StoreTypeOK, registryVars, storeVars
  <1>8. CASE SceneDeleteCheck(q)
    <2>1. PICK s \in scenesMade : SceneDeleteCheck(q)!(s)
      BY <1>8 DEF SceneDeleteCheck
    <2> DEFINE x == [Idle EXCEPT !.pc = "delGet", !.op = "sceneDelete", !.scene = s]
    <2>2. x \in Request /\ WellFormed(x, scenesMade')
      BY <2>1 DEF TypeOK, StoreTypeOK, storeVars, Idle, Request, WellFormed, Labels,
         Operations
    <2>3. RequestsTypeOK'
      BY <2>1, <2>2, RequestUpdate DEF TypeOK, Begin, storeVars
    <2> QED
      BY <2>1, <2>3 DEF TypeOK, RegistryTypeOK, StoreTypeOK, registryVars, storeVars
  <1> QED
    BY <1>1, <1>2, <1>3, <1>4, <1>5, <1>6, <1>7, <1>8
    DEF Arrive, Issue, SaveStart, PublishStart

\* A step of a handler keeps the state typed.
LEMMA TypeProceed ==
  ASSUME TypeOK, NEW q \in Requests, Proceed(q)
  PROVE  TypeOK'
  <1> USE DocumentsAssumption, StoreAssumption, ServiceAssumption
  <1> DEFINE c == req[q]
  <1>0. c \in Request /\ WellFormed(c, scenesMade)
    BY DEF TypeOK, RequestsTypeOK
  <1>a. ASSUME Answer(q), scenesMade \subseteq scenesMade' PROVE RequestsTypeOK'
    BY <1>a, RequestUpdate, IdleIsRequest DEF TypeOK, Answer
  <1>c. ASSUME NEW x \in Request, WellFormed(x, scenesMade'), Continue(q, x),
               scenesMade \subseteq scenesMade'
        PROVE  RequestsTypeOK'
    BY <1>c, RequestUpdate DEF TypeOK, Continue
  <1>1. CASE UploadFile(q)
    <2>1. PICK f \in c.todo, out \in Outcomes : UploadFile(q)!(f, out)
      BY <1>1 DEF UploadFile
    <2> DEFINE x == [c EXCEPT !.todo = c.todo \ {f}]
    <2>2. scenesMade' = scenesMade
      BY <2>1 DEF PutFile, storeVars
    <2>3. x \in Request /\ WellFormed(x, scenesMade')
      BY <1>0, <2>2 DEF Request, WellFormed
    <2>4. RequestsTypeOK'
      BY <2>1, <2>2, <2>3, <1>a, <1>c
    <2> QED
      BY <1>0, <2>1, <2>4 DEF TypeOK, RegistryTypeOK, StoreTypeOK, Request, PutFile,
         registryVars, storeVars
  <1>2. CASE PublishPut(q)
    <2>1. RequestsTypeOK'
      BY <1>2, <1>a DEF PublishPut, PutPublished
    <2> QED
      BY <1>0, <1>2, <2>1 DEF TypeOK, RegistryTypeOK, StoreTypeOK, Request, PublishPut,
         PutPublished, registryVars
  <1>3. CASE SaveReadScene(q)
    <2> DEFINE s == roomScene[c.room]
               x == [c EXCEPT !.pc = "name"]
               y == [c EXCEPT !.pc = "append", !.scene = s]
    <2>1. c.room \in Rooms /\ s \in scenesMade \cup {NoScene} /\ scenesMade' = scenesMade
      BY <1>0, <1>3 DEF TypeOK, RequestsTypeOK, SaveReadScene, At, WellFormed, storeVars
    <2>2. x \in Request /\ WellFormed(x, scenesMade')
      BY <1>0, <2>1 DEF Request, WellFormed, Labels
    <2>3. s # NoScene => y \in Request /\ WellFormed(y, scenesMade')
      BY <1>0, <2>1 DEF TypeOK, StoreTypeOK, Request, WellFormed, Labels
    <2>4. RequestsTypeOK'
      BY <1>3, <2>1, <2>2, <2>3, <1>c DEF SaveReadScene
    <2> QED
      BY <1>3, <2>4 DEF TypeOK, RegistryTypeOK, StoreTypeOK, SaveReadScene,
         registryVars, storeVars
  <1>4. CASE SaveReadName(q)
    <2> DEFINE x == [c EXCEPT !.pc = "create", !.name = roomName[c.room]]
    <2>1. scenesMade' = scenesMade
      BY <1>4 DEF SaveReadName, storeVars
    <2>2. x \in Request /\ WellFormed(x, scenesMade')
      BY <1>0, <1>4, <2>1 DEF TypeOK, RegistryTypeOK, SaveReadName, At, Request,
         WellFormed, Labels
    <2>3. RequestsTypeOK'
      BY <1>4, <2>1, <2>2, <1>c DEF SaveReadName
    <2> QED
      BY <1>4, <2>3 DEF TypeOK, RegistryTypeOK, StoreTypeOK, SaveReadName,
         registryVars, storeVars
  <1>5. CASE SaveCreate(q)
    <2>1. PICK s \in Scenes, v \in Versions, out \in Outcomes : SaveCreate(q)!(s, v, out)
      BY <1>5 DEF SaveCreate
    <2> DEFINE x == [c EXCEPT !.pc = "setScene", !.scene = s, !.ver = v]
    <2>2. /\ scenesMade \subseteq scenesMade'
          /\ out = "ok" => s \in scenesMade'
      BY <2>1 DEF CreateScene, sceneVars, Applied
    <2>3. x \in Request
      BY <1>0 DEF Request, Labels
    <2>4. out = "ok" => WellFormed(x, scenesMade')
      BY <1>0, <2>1, <2>2 DEF Request, WellFormed, At
    <2>5. RequestsTypeOK'
      BY <2>1, <2>2, <2>3, <2>4, <1>a, <1>c
    <2> QED
      BY <1>0, <2>1, <2>5 DEF TypeOK, RegistryTypeOK, StoreTypeOK, CreateScene, Request,
         WellFormed, At, registryVars, sceneVars, blobVars
  <1>6. CASE SaveSetScene(q)
    <2> DEFINE x == [c EXCEPT !.pc = "bind"]
    <2>1. scenesMade' = scenesMade
      BY <1>6 DEF SaveSetScene, storeVars
    <2>2. x \in Request /\ WellFormed(x, scenesMade')
      BY <1>0, <1>6, <2>1 DEF SaveSetScene, At, Request, WellFormed, Labels
    <2>3. RequestsTypeOK'
      BY <1>6, <2>1, <2>2, <1>c DEF SaveSetScene
    <2> QED
      BY <1>0, <1>6, <2>3 DEF TypeOK, RegistryTypeOK, StoreTypeOK, SaveSetScene, At,
         SetSceneID, Request, WellFormed, storeVars
  <1>7. CASE SaveBind(q)
    <2>1. RequestsTypeOK'
      BY <1>7, <1>a DEF SaveBind, storeVars
    <2> QED
      BY <1>0, <1>7, <2>1 DEF TypeOK, RegistryTypeOK, StoreTypeOK, SaveBind, At,
         BindScene, Request, WellFormed, storeVars
  <1>8. CASE SaveAppend(q)
    <2>1. PICK v \in Versions, out \in Outcomes : SaveAppend(q)!(v, out)
      BY <1>8 DEF SaveAppend
    <2>2. RequestsTypeOK'
      BY <2>1, <1>a DEF AddVersion
    <2>3. c.scene \in scenesMade /\ c.scene \in Scenes
      BY <1>0, <2>1 DEF TypeOK, StoreTypeOK, At, WellFormed
    <2> QED
      BY <1>0, <2>1, <2>2, <2>3 DEF TypeOK, RegistryTypeOK, StoreTypeOK, AddVersion,
         Request, registryVars, blobVars
  <1>9. CASE SceneRenameLookup(q)
    <2> DEFINE r == bySceneID[c.scene]
               x == [c EXCEPT !.pc = "setName", !.room = r]
    <2>1. c.scene \in Scenes /\ scenesMade' = scenesMade
      BY <1>0, <1>9 DEF TypeOK, StoreTypeOK, SceneRenameLookup, At, WellFormed, storeVars
    <2>2. r # NoRoom => x \in Request /\ WellFormed(x, scenesMade')
      BY <1>0, <1>9, <2>1 DEF TypeOK, RegistryTypeOK, SceneRenameLookup, At, Request,
         WellFormed, Labels
    <2>3. RequestsTypeOK'
      BY <1>9, <2>1, <2>2, <1>a, <1>c DEF SceneRenameLookup
    <2> QED
      BY <1>9, <2>3 DEF TypeOK, RegistryTypeOK, StoreTypeOK, SceneRenameLookup,
         registryVars, storeVars
  <1>10. CASE RenameSet(q)
    <2>1. RequestsTypeOK'
      BY <1>10, <1>a DEF RenameSet, storeVars
    <2> QED
      BY <1>0, <1>10, <2>1 DEF TypeOK, RegistryTypeOK, StoreTypeOK, RenameSet, At,
         SetName, WellFormed, storeVars
  <1>11. CASE RoomDeleteFinish(q)
    <2>1. RequestsTypeOK'
      BY <1>11, <1>a DEF RoomDeleteFinish, storeVars
    <2> QED
      BY <1>11, <2>1 DEF TypeOK, RegistryTypeOK, StoreTypeOK, RoomDeleteFinish,
         Delete, storeVars
  <1>12. CASE SceneDeleteGet(q)
    <2> DEFINE x == [c EXCEPT !.pc = "delList"]
    <2>1. scenesMade' = scenesMade
      BY <1>12 DEF SceneDeleteGet, storeVars
    <2>2. x \in Request /\ WellFormed(x, scenesMade')
      BY <1>0, <1>12, <2>1 DEF SceneDeleteGet, At, Request, WellFormed, Labels
    <2>3. RequestsTypeOK'
      BY <1>12, <2>1, <2>2, <1>a, <1>c DEF SceneDeleteGet
    <2> QED
      BY <1>12, <2>3 DEF TypeOK, RegistryTypeOK, StoreTypeOK, SceneDeleteGet,
         registryVars, storeVars
  <1>13. CASE SceneDeleteList(q)
    <2> DEFINE x == [c EXCEPT !.pc = "delVersions", !.refs = VersionsOf(c.scene)]
    <2>1. scenesMade' = scenesMade
      BY <1>13 DEF SceneDeleteList, storeVars
    <2>2. x \in Request /\ WellFormed(x, scenesMade')
      BY <1>0, <1>13, <2>1 DEF SceneDeleteList, At, Request, WellFormed, Labels, VersionsOf
    <2>3. RequestsTypeOK'
      BY <1>13, <2>1, <2>2, <1>c DEF SceneDeleteList
    <2> QED
      BY <1>13, <2>3 DEF TypeOK, RegistryTypeOK, StoreTypeOK, SceneDeleteList,
         registryVars, storeVars
  <1>14. CASE SceneDeleteVersions(q)
    <2>1. PICK kept \in SUBSET c.refs, out \in Outcomes : SceneDeleteVersions(q)!(kept, out)
      BY <1>14 DEF SceneDeleteVersions
    <2> DEFINE x == [c EXCEPT !.pc = "delDoc", !.refs = {}]
    <2>2. scenesMade' = scenesMade
      BY <2>1 DEF DeleteVersions
    <2>3. x \in Request /\ WellFormed(x, scenesMade')
      BY <1>0, <2>1, <2>2 DEF At, Request, WellFormed, Labels
    <2>4. RequestsTypeOK'
      BY <2>1, <2>2, <2>3, <1>a, <1>c
    <2> QED
      BY <2>1, <2>4 DEF TypeOK, RegistryTypeOK, StoreTypeOK, DeleteVersions, registryVars
  <1>15. CASE SceneDeleteDoc(q)
    <2>1. RequestsTypeOK'
      BY <1>15, <1>a DEF SceneDeleteDoc, DeleteDoc
    <2> QED
      BY <1>15, <2>1 DEF TypeOK, RegistryTypeOK, StoreTypeOK, SceneDeleteDoc,
         DeleteDoc, registryVars
  <1> QED
    BY <1>1, <1>2, <1>3, <1>4, <1>5, <1>6, <1>7, <1>8, <1>9, <1>10, <1>11, <1>12,
       <1>13, <1>14, <1>15 DEF Proceed

\* Every step keeps the state typed.
LEMMA TypeStep == TypeOK /\ [Next]_vars => TypeOK'
  <1> SUFFICES ASSUME TypeOK, [Next]_vars PROVE TypeOK'
    OBVIOUS
  <1>1. CASE Restart
    BY <1>1, DocumentsAssumption, IdleIsRequest
    DEF Restart, LoseRegistry, TypeOK, RegistryTypeOK, StoreTypeOK, RequestsTypeOK, storeVars
  <1>2. CASE UNCHANGED vars
    BY <1>2 DEF vars, registryVars, storeVars, TypeOK, RegistryTypeOK, StoreTypeOK,
       RequestsTypeOK, WellFormed
  <1> QED
    BY <1>1, <1>2, TypeArrive, TypeProceed DEF Next

(***************************************************************************)
(* Every reachable state is typed: registry, store, acknowledgements, and   *)
(* at each label of a handler the locals its next step uses.                *)
(***************************************************************************)
THEOREM TypeCorrect == Spec => []TypeOK
  BY TypeInit, TypeStep, PTL DEF Spec

-----------------------------------------------------------------------------
(* Images are stored before they are referred to.                           *)

\* What a request has uploaded is in Storage: FilesPresent alone does not say
\* so of the versions about to be written.
Uploaded(c, stored) ==
    /\ c.pc = "upload" => c.files \ c.todo \subseteq stored
    /\ c.pc \in {"name", "create", "append"} => c.files \subseteq stored

FilesInv ==
    /\ FilesPresent
    /\ \A q \in Requests : Uploaded(req[q], blobs)

\* A step that only adds blobs, and gives one request locals whose uploads
\* are done, keeps the second half.
LEMMA UploadedUpdate ==
  ASSUME TypeOK, FilesInv, NEW q \in Requests, NEW x,
         Uploaded(x, blobs'), blobs \subseteq blobs',
         req' = [req EXCEPT ![q] = x]
  PROVE  \A p \in Requests : Uploaded(req'[p], blobs')
  BY DEF TypeOK, RequestsTypeOK, FilesInv, Uploaded

\* The arrival of a request keeps the invariant: it starts with nothing
\* uploaded and everything to do.
LEMMA FilesArrive ==
  ASSUME TypeOK, FilesInv, NEW q \in Requests, Arrive(q)
  PROVE  FilesInv'
  <1>1. UNCHANGED <<verScene, verFiles, blobs, published>>
    BY DEF Arrive, Issue, CreateRoom, LegacyCreateRoom, OpenScene, SaveStart, PublishStart,
       RoomRenameStart, SceneRenameStore, RenameScene, RoomDeleteStart,
       SceneDeleteCheck, storeVars
  <1>2. \A r \in live, F \in SUBSET Files, op \in {"save", "publish"} :
            Uploaded(Upload(r, F, op), blobs)
    BY DEF Upload, Idle, Uploaded
  <1>3. /\ Uploaded(Idle, blobs)
        /\ \A r \in live, n \in Names :
             Uploaded([Idle EXCEPT !.pc = "setName", !.op = "roomRename",
                                   !.room = r, !.name = n], blobs)
        /\ \A s \in scenesMade, n \in Names :
             Uploaded([Idle EXCEPT !.pc = "lookup", !.op = "sceneRename",
                                   !.scene = s, !.name = n], blobs)
        /\ \A r \in live :
             Uploaded([Idle EXCEPT !.pc = "closeRoom", !.op = "roomDelete",
                                   !.room = r], blobs)
        /\ \A s \in scenesMade :
             Uploaded([Idle EXCEPT !.pc = "delGet", !.op = "sceneDelete",
                                   !.scene = s], blobs)
    BY DEF Idle, Uploaded
  <1>4. \E x : Uploaded(x, blobs) /\ req' = [req EXCEPT ![q] = x]
    <2>1. CASE CreateRoom(q) \/ LegacyCreateRoom(q) \/ OpenScene(q)
      BY <1>3, <2>1 DEF CreateRoom, LegacyCreateRoom, OpenScene, Begin
    <2>2. CASE SaveStart(q) \/ PublishStart(q)
      BY <1>2, <2>2 DEF SaveStart, PublishStart, Begin
    <2>3. CASE RoomRenameStart(q)
      BY <1>3, <2>3 DEF RoomRenameStart, Begin
    <2>4. CASE SceneRenameStore(q)
      BY <1>3, <2>4 DEF SceneRenameStore, Begin
    <2>5. CASE RoomDeleteStart(q)
      BY <1>3, <2>5 DEF RoomDeleteStart, Begin
    <2>6. CASE SceneDeleteCheck(q)
      BY <1>3, <2>6 DEF SceneDeleteCheck, Begin
    <2> QED
      BY <2>1, <2>2, <2>3, <2>4, <2>5, <2>6 DEF Arrive, Issue
  <1>5. \A p \in Requests : Uploaded(req'[p], blobs')
    BY <1>1, <1>4, UploadedUpdate
  <1> QED
    BY <1>1, <1>5 DEF FilesInv, FilesPresent

\* A step of a handler keeps the invariant.
LEMMA FilesProceed ==
  ASSUME TypeOK, FilesInv, NEW q \in Requests, Proceed(q)
  PROVE  FilesInv'
  <1> DEFINE c == req[q]
  <1>0. c \in Request /\ Uploaded(c, blobs)
    BY DEF TypeOK, RequestsTypeOK, FilesInv
  <1>a. ASSUME Answer(q), blobs \subseteq blobs'
        PROVE  \A p \in Requests : Uploaded(req'[p], blobs')
    <2>1. Uploaded(Idle, blobs')
      BY DEF Idle, Uploaded
    <2> QED
      BY <1>a, <2>1, UploadedUpdate DEF Answer
  <1>c. ASSUME NEW x, Continue(q, x), Uploaded(x, blobs'), blobs \subseteq blobs'
        PROVE  \A p \in Requests : Uploaded(req'[p], blobs')
    BY <1>c, UploadedUpdate DEF Continue
  <1>1. CASE UploadFile(q)
    <2>1. PICK f \in c.todo, out \in Outcomes : UploadFile(q)!(f, out)
      BY <1>1 DEF UploadFile
    <2>2. /\ blobs \subseteq blobs'
          /\ out = "ok" => f \in blobs'
          /\ UNCHANGED <<verScene, verFiles, published>>
      BY <2>1 DEF PutFile, Applied, storeVars
    <2>3. out = "ok" => Uploaded([c EXCEPT !.todo = c.todo \ {f}], blobs')
      BY <1>0, <2>1, <2>2 DEF At, Request, Uploaded
    <2>4. \A p \in Requests : Uploaded(req'[p], blobs')
      BY <2>1, <2>2, <2>3, <1>a, <1>c
    <2> QED
      BY <2>2, <2>4 DEF FilesInv, FilesPresent
  <1>2. CASE PublishPut(q)
    <2>1. \A p \in Requests : Uploaded(req'[p], blobs')
      BY <1>2, <1>a DEF PublishPut, PutPublished
    <2> QED
      BY <1>0, <1>2, <2>1 DEF FilesInv, FilesPresent, Uploaded, PublishPut, PutPublished, At
  <1>3. CASE SaveReadScene(q) \/ SaveReadName(q)
    <2>1. UNCHANGED storeVars
      BY <1>3 DEF SaveReadScene, SaveReadName
    <2>2. /\ SaveReadScene(q) =>
               /\ Uploaded([c EXCEPT !.pc = "name"], blobs')
               /\ Uploaded([c EXCEPT !.pc = "append", !.scene = roomScene[c.room]], blobs')
          /\ SaveReadName(q) =>
               Uploaded([c EXCEPT !.pc = "create", !.name = roomName[c.room]], blobs')
      BY <1>0, <2>1 DEF Uploaded, Request, SaveReadScene, SaveReadName, At, storeVars
    <2>3. \A p \in Requests : Uploaded(req'[p], blobs')
      BY <1>3, <2>1, <2>2, <1>c DEF SaveReadScene, SaveReadName, storeVars
    <2> QED
      BY <2>1, <2>3 DEF FilesInv, FilesPresent, storeVars
  <1>4. CASE SaveCreate(q)
    <2>1. PICK s \in Scenes, v \in Versions, out \in Outcomes : SaveCreate(q)!(s, v, out)
      BY <1>4 DEF SaveCreate
    <2>2. UNCHANGED <<blobs, published>>
      BY <2>1 DEF CreateScene, blobVars
    <2>3. Uploaded([c EXCEPT !.pc = "setScene", !.scene = s, !.ver = v], blobs')
      BY <1>0 DEF Uploaded, Request
    <2>4. \A p \in Requests : Uploaded(req'[p], blobs')
      BY <2>1, <2>2, <2>3, <1>a, <1>c
    <2> QED
      BY <1>0, <2>1, <2>2, <2>4 DEF FilesInv, FilesPresent, Uploaded, CreateScene,
         TypeOK, StoreTypeOK, At, sceneVars
  <1>5. CASE SaveAppend(q)
    <2>1. PICK v \in Versions, out \in Outcomes : SaveAppend(q)!(v, out)
      BY <1>5 DEF SaveAppend
    <2>2. UNCHANGED <<blobs, published>>
      BY <2>1 DEF AddVersion, blobVars
    <2>3. \A p \in Requests : Uploaded(req'[p], blobs')
      BY <2>1, <2>2, <1>a
    <2> QED
      BY <1>0, <2>1, <2>2, <2>3 DEF FilesInv, FilesPresent, Uploaded, AddVersion,
         TypeOK, StoreTypeOK, At
  <1>6. CASE SceneDeleteVersions(q)
    <2>1. PICK kept \in SUBSET c.refs, out \in Outcomes : SceneDeleteVersions(q)!(kept, out)
      BY <1>6 DEF SceneDeleteVersions
    <2>2. Uploaded([c EXCEPT !.pc = "delDoc", !.refs = {}], blobs')
      BY <1>0 DEF Uploaded, Request
    <2>3. \A p \in Requests : Uploaded(req'[p], blobs')
      BY <2>1, <2>2, <1>a, <1>c DEF DeleteVersions
    <2> QED
      BY <2>1, <2>3 DEF FilesInv, FilesPresent, DeleteVersions
  <1>7. CASE SaveBind(q) \/ RenameSet(q) \/ RoomDeleteFinish(q) \/ SceneDeleteDoc(q)
    <2>1. UNCHANGED <<verScene, verFiles, blobs, published>> /\ Answer(q)
      BY <1>7 DEF SaveBind, RenameSet, RoomDeleteFinish, SceneDeleteDoc, DeleteDoc, storeVars
    <2> QED
      BY <2>1, <1>a DEF FilesInv, FilesPresent
  <1>8. CASE SaveSetScene(q) \/ SceneRenameLookup(q) \/ SceneDeleteGet(q) \/ SceneDeleteList(q)
    <2>1. UNCHANGED <<verScene, verFiles, blobs, published>>
      BY <1>8 DEF SaveSetScene, SceneRenameLookup, SceneDeleteGet, SceneDeleteList, storeVars
    <2>2. /\ Uploaded([c EXCEPT !.pc = "bind"], blobs')
          /\ Uploaded([c EXCEPT !.pc = "setName", !.room = bySceneID[c.scene]], blobs')
          /\ Uploaded([c EXCEPT !.pc = "delList"], blobs')
          /\ Uploaded([c EXCEPT !.pc = "delVersions", !.refs = VersionsOf(c.scene)], blobs')
      BY <1>0 DEF Uploaded, Request
    <2>3. \A p \in Requests : Uploaded(req'[p], blobs')
      BY <1>8, <2>1, <2>2, <1>a, <1>c
      DEF SaveSetScene, SceneRenameLookup, SceneDeleteGet, SceneDeleteList
    <2> QED
      BY <2>1, <2>3 DEF FilesInv, FilesPresent
  <1> QED
    BY <1>1, <1>2, <1>3, <1>4, <1>5, <1>6, <1>7, <1>8 DEF Proceed

(***************************************************************************)
(* FR-4.2, FR-4.4: whatever requests interleave, calls fail and restarts    *)
(* interrupt, every image of a stored version and of the published scene    *)
(* is in Storage (uploadFiles runs to the end before anything refers to its *)
(* files, and nothing deletes a blob).                                      *)
(***************************************************************************)
THEOREM FilesAlwaysPresent == Spec => []FilesPresent
  <1>1. Init => FilesInv
    BY DEF Init, StoreInit, FilesInv, FilesPresent, Uploaded, Idle
  <1>2. TypeOK /\ FilesInv /\ [Next]_vars => FilesInv'
    <2> SUFFICES ASSUME TypeOK, FilesInv, [Next]_vars PROVE FilesInv'
      OBVIOUS
    <2>1. CASE Restart
      BY <2>1 DEF Restart, FilesInv, FilesPresent, Uploaded, Idle, storeVars
    <2>2. CASE UNCHANGED vars
      BY <2>2 DEF vars, storeVars, FilesInv, FilesPresent
    <2> QED
      BY <2>1, <2>2, FilesArrive, FilesProceed DEF Next
  <1> QED
    <2>1. FilesInv => FilesPresent
      BY DEF FilesInv
    <2> QED
      BY <1>1, <1>2, <2>1, TypeCorrect, PTL DEF Spec

-----------------------------------------------------------------------------
(* Acknowledged saves.                                                      *)

\* No request is deleting, and the version of a save past its CreateScene is
\* where the answer will say.
SaveInFlight(c) ==
    /\ c.pc \notin {"delGet", "delList", "delVersions", "delDoc"}
    /\ c.pc \in {"setScene", "bind"} =>
          c.ver \in versMade /\ verScene[c.ver] = c.scene

AckInv ==
    /\ docs = scenesMade
    /\ \A q \in Requests : SaveInFlight(req[q])
    /\ \A v \in Versions : acked[v] # NoScene =>
          v \in versMade /\ verScene[v] = acked[v] /\ acked[v] \in scenesMade

\* Steps that write no version: the request's new locals are the only concern.
LEMMA AckUpdate ==
  ASSUME TypeOK, AckInv, NEW q \in Requests, NEW x,
         UNCHANGED <<docs, scenesMade, versMade, verScene, acked>>,
         SaveInFlight(x), req' = [req EXCEPT ![q] = x]
  PROVE  AckInv'
  BY DEF TypeOK, RequestsTypeOK, AckInv, SaveInFlight

\* The arrival of a request keeps the invariant.
LEMMA AckArrive ==
  ASSUME "sceneDelete" \notin Workload, TypeOK, AckInv, NEW q \in Requests, Arrive(q)
  PROVE  AckInv'
  <1>1. UNCHANGED <<docs, scenesMade, versMade, verScene, acked>>
    BY DEF Arrive, Issue, CreateRoom, LegacyCreateRoom, OpenScene, SaveStart, PublishStart,
       RoomRenameStart, SceneRenameStore, RenameScene, RoomDeleteStart,
       SceneDeleteCheck, storeVars
  <1>2. /\ SaveInFlight(Idle)
        /\ \A r \in live, F \in SUBSET Files, op \in {"save", "publish"} :
             SaveInFlight(Upload(r, F, op))
        /\ \A r \in live, n \in Names :
             SaveInFlight([Idle EXCEPT !.pc = "setName", !.op = "roomRename",
                                       !.room = r, !.name = n])
        /\ \A s \in scenesMade, n \in Names :
             SaveInFlight([Idle EXCEPT !.pc = "lookup", !.op = "sceneRename",
                                       !.scene = s, !.name = n])
        /\ \A r \in live :
             SaveInFlight([Idle EXCEPT !.pc = "closeRoom", !.op = "roomDelete",
                                       !.room = r])
    BY DEF Idle, Upload, SaveInFlight
  <1>3. \E x : SaveInFlight(x) /\ req' = [req EXCEPT ![q] = x]
    <2>1. CASE CreateRoom(q) \/ LegacyCreateRoom(q) \/ OpenScene(q)
      BY <1>2, <2>1 DEF CreateRoom, LegacyCreateRoom, OpenScene, Begin
    <2>2. CASE SaveStart(q) \/ PublishStart(q)
      BY <1>2, <2>2 DEF SaveStart, PublishStart, Begin
    <2>3. CASE RoomRenameStart(q)
      BY <1>2, <2>3 DEF RoomRenameStart, Begin
    <2>4. CASE SceneRenameStore(q)
      BY <1>2, <2>4 DEF SceneRenameStore, Begin
    <2>5. CASE RoomDeleteStart(q)
      BY <1>2, <2>5 DEF RoomDeleteStart, Begin
    <2>6. ~SceneDeleteCheck(q)
      BY DEF SceneDeleteCheck, Begin
    <2> QED
      BY <2>1, <2>2, <2>3, <2>4, <2>5, <2>6 DEF Arrive, Issue
  <1> QED
    BY <1>1, <1>3, AckUpdate

\* A step of a handler keeps the invariant.
LEMMA AckProceed ==
  ASSUME TypeOK, AckInv, NEW q \in Requests, Proceed(q)
  PROVE  AckInv'
  <1> USE DocumentsAssumption
  <1> DEFINE c == req[q]
  <1>0. c \in Request /\ WellFormed(c, scenesMade) /\ SaveInFlight(c)
    BY DEF TypeOK, RequestsTypeOK, AckInv
  <1>1. SaveInFlight(Idle)
    BY DEF Idle, SaveInFlight
  <1>2. CASE UploadFile(q) \/ PublishPut(q)
    <2>1. UNCHANGED <<docs, scenesMade, versMade, verScene, acked>>
      BY <1>2 DEF UploadFile, PublishPut, PutFile, PutPublished, storeVars
    <2>2. UploadFile(q) =>
            \A f \in c.todo : SaveInFlight([c EXCEPT !.todo = c.todo \ {f}])
      BY <1>0 DEF UploadFile, At, Request, SaveInFlight
    <2> QED
      BY <1>1, <1>2, <2>1, <2>2, AckUpdate DEF UploadFile, PublishPut, Continue, Answer
  <1>3. CASE SaveReadScene(q) \/ SaveReadName(q) \/ SceneRenameLookup(q)
    <2>1. UNCHANGED <<docs, scenesMade, versMade, verScene, acked>>
      BY <1>3 DEF SaveReadScene, SaveReadName, SceneRenameLookup, storeVars
    <2>2. /\ SaveInFlight([c EXCEPT !.pc = "name"])
          /\ SaveInFlight([c EXCEPT !.pc = "append", !.scene = roomScene[c.room]])
          /\ SaveInFlight([c EXCEPT !.pc = "create", !.name = roomName[c.room]])
          /\ SaveInFlight([c EXCEPT !.pc = "setName", !.room = bySceneID[c.scene]])
      BY <1>0 DEF Request, SaveInFlight
    <2> QED
      BY <1>1, <1>3, <2>1, <2>2, AckUpdate
      DEF SaveReadScene, SaveReadName, SceneRenameLookup, Continue, Answer
  <1>4. CASE SaveCreate(q)
    <2>1. PICK s \in Scenes, v \in Versions, out \in Outcomes : SaveCreate(q)!(s, v, out)
      BY <1>4 DEF SaveCreate
    <2>2. CASE ~Applied(out)
      BY <1>1, <2>1, <2>2, AckUpdate DEF CreateScene, Applied, Answer, sceneVars
    <2>3. CASE Applied(out)
      <3> DEFINE x == [c EXCEPT !.pc = "setScene", !.scene = s, !.ver = v]
      <3>1. /\ docs' = docs \cup {s} /\ scenesMade' = scenesMade \cup {s}
            /\ versMade' = versMade \cup {v} /\ v \notin versMade
            /\ verScene' = [verScene EXCEPT ![v] = s]
            /\ acked' = acked
        BY <2>1, <2>3 DEF CreateScene
      <3>2. x.pc = "setScene" /\ x.ver = v /\ x.scene = s
        BY <1>0 DEF Request
      <3>3. req' = [req EXCEPT ![q] = x] \/ req' = [req EXCEPT ![q] = Idle]
        BY <2>1 DEF Continue, Answer
      <3>4. \A p \in Requests : SaveInFlight(req[p])'
        <4> SUFFICES ASSUME NEW p \in Requests PROVE SaveInFlight(req[p])'
          OBVIOUS
        <4>1. SaveInFlight(req[p])
          BY DEF AckInv
        <4>2. CASE req'[p] = req[p]
          BY <3>1, <4>1, <4>2 DEF SaveInFlight, TypeOK, StoreTypeOK, RequestsTypeOK, WellFormed
        <4>3. CASE req'[p] = x
          <5> HIDE DEF x
          <5> QED
            BY <3>1, <3>2, <4>3 DEF SaveInFlight, TypeOK, StoreTypeOK
        <4>4. CASE req'[p] = Idle
          BY <4>4 DEF SaveInFlight, Idle
        <4> HIDE DEF x
        <4> QED
          BY <3>3, <4>2, <4>3, <4>4 DEF TypeOK, RequestsTypeOK
      <3> QED
        BY <3>1, <3>4 DEF AckInv, TypeOK, StoreTypeOK
    <2> QED
      BY <2>2, <2>3
  <1>5. CASE SaveSetScene(q)
    <2>1. UNCHANGED <<docs, scenesMade, versMade, verScene, acked>>
      BY <1>5 DEF SaveSetScene, storeVars
    <2>2. SaveInFlight([c EXCEPT !.pc = "bind"])
      BY <1>0, <1>5 DEF SaveSetScene, At, Request, SaveInFlight
    <2> QED
      BY <1>5, <2>1, <2>2, AckUpdate DEF SaveSetScene, Continue
  <1>6. CASE SaveBind(q)
    <2>1. /\ UNCHANGED <<docs, scenesMade, versMade, verScene>>
          /\ acked' = [acked EXCEPT ![c.ver] = c.scene]
          /\ c.ver \in versMade /\ verScene[c.ver] = c.scene /\ c.scene \in scenesMade
      BY <1>0, <1>6 DEF SaveBind, At, SaveInFlight, WellFormed, storeVars
    <2>2. \A p \in Requests : SaveInFlight(req[p])'
      BY <1>1, <1>6, <2>1 DEF SaveBind, Answer, AckInv, SaveInFlight, TypeOK, RequestsTypeOK
    <2> QED
      BY <2>1, <2>2 DEF AckInv, TypeOK
  <1>7. CASE SaveAppend(q)
    <2>1. PICK v \in Versions, out \in Outcomes : SaveAppend(q)!(v, out)
      BY <1>7 DEF SaveAppend
    <2>2. CASE ~Applied(out)
      BY <1>1, <2>1, <2>2, AckUpdate DEF AddVersion, Applied, Answer
    <2>3. CASE Applied(out)
      <3>1. /\ UNCHANGED <<docs, scenesMade>>
            /\ versMade' = versMade \cup {v} /\ v \notin versMade
            /\ verScene' = [verScene EXCEPT ![v] = c.scene]
            /\ acked' = [acked EXCEPT ![v] = c.scene] \/ acked' = acked
            /\ c.scene \in scenesMade
        BY <1>0, <2>1, <2>3 DEF AddVersion, At, WellFormed
      <3>2. \A p \in Requests : SaveInFlight(req[p])'
        BY <1>1, <2>1, <3>1 DEF Answer, AckInv, SaveInFlight, TypeOK, RequestsTypeOK,
           StoreTypeOK
      <3> QED
        BY <3>1, <3>2 DEF AckInv, TypeOK, StoreTypeOK
    <2> QED
      BY <2>2, <2>3
  <1>8. CASE RenameSet(q) \/ RoomDeleteFinish(q)
    <2>1. UNCHANGED <<docs, scenesMade, versMade, verScene, acked>> /\ Answer(q)
      BY <1>8 DEF RenameSet, RoomDeleteFinish, storeVars
    <2> QED
      BY <1>1, <2>1, AckUpdate DEF Answer
  <1>9. ~(SceneDeleteGet(q) \/ SceneDeleteList(q) \/ SceneDeleteVersions(q) \/ SceneDeleteDoc(q))
    BY <1>0 DEF SaveInFlight, SceneDeleteGet, SceneDeleteList, SceneDeleteVersions,
       SceneDeleteDoc, At
  <1> QED
    BY <1>2, <1>3, <1>4, <1>5, <1>6, <1>7, <1>8, <1>9 DEF Proceed

(***************************************************************************)
(* FR-4.3: while nobody deletes documents, a version that a save reported   *)
(* to its client stays in the document the answer named, under any          *)
(* interleaving of requests, failing calls and restarts.                    *)
(***************************************************************************)
THEOREM AckedSavesSurvive ==
  ASSUME "sceneDelete" \notin Workload
  PROVE  Spec => []AckedVersionsKept
  <1>1. Init => AckInv
    BY DEF Init, StoreInit, AckInv, SaveInFlight, Idle
  <1>2. TypeOK /\ AckInv /\ [Next]_vars => AckInv'
    <2> SUFFICES ASSUME TypeOK, AckInv, [Next]_vars PROVE AckInv'
      OBVIOUS
    <2>1. CASE Restart
      BY <2>1 DEF Restart, AckInv, SaveInFlight, Idle, storeVars
    <2>2. CASE UNCHANGED vars
      BY <2>2 DEF vars, storeVars, AckInv, SaveInFlight
    <2> QED
      BY <2>1, <2>2, AckArrive, AckProceed DEF Next
  <1>3. AckInv => AckedVersionsKept
    BY DEF AckInv, AckedVersionsKept
  <1> QED
    BY <1>1, <1>2, <1>3, TypeCorrect, PTL DEF Spec
=============================================================================
