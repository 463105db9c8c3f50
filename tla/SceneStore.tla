------------------------------ MODULE SceneStore ------------------------------
(***************************************************************************)
(* What the service keeps across restarts: the Firestore scene documents    *)
(* and their version sub-collections (backend/internal/scenes/firestore.go) *)
(* and the Storage objects (storage.go).  A version is abstracted to the    *)
(* set of image files it refers to, the published scene likewise.           *)
(*                                                                         *)
(* A call either succeeds, fails without effect, or takes effect although   *)
(* the caller is told it failed (a cancelled context, a lost answer).       *)
(***************************************************************************)
EXTENDS Documents

CONSTANTS
    Versions,      \* version document identifiers, random and never reused
    Files,         \* image files, content-addressed
    Stored,        \* scenes saved before this life of the service
    StoreMayFail   \* whether calls to the store may fail

ASSUME StoreAssumption ==
    /\ Stored \subseteq Scenes
    /\ StoreMayFail \in BOOLEAN

VARIABLES
    docs,        \* the scene documents that exist
    scenesMade,  \* scene identifiers ever allocated
    docName,     \* a scene document's name field
    verScene,    \* the scene whose sub-collection holds a version, or NoScene
    versMade,    \* version identifiers ever allocated
    verFiles,    \* a version's fileIds
    blobs,       \* the files present at public/files/{id}
    published    \* the fileIds of public/published-scene.json

storeVars == <<docs, scenesMade, docName, verScene, versMade, verFiles,
               blobs, published>>
sceneVars == <<docs, scenesMade, docName, verScene, versMade, verFiles>>
blobVars == <<blobs, published>>

StoreTypeOK ==
    /\ scenesMade \subseteq Scenes
    /\ docs \subseteq scenesMade
    /\ docName \in [Scenes -> Names]
    /\ versMade \subseteq Versions
    /\ verScene \in [Versions -> Scenes \cup {NoScene}]
    /\ verFiles \in [Versions -> SUBSET Files]
    /\ blobs \subseteq Files
    /\ published \subseteq Files

StoreInit ==
    /\ docs = Stored
    /\ scenesMade = Stored
    /\ docName = [s \in Scenes |-> Untitled]
    /\ versMade = {}
    /\ verScene = [v \in Versions |-> NoScene]
    /\ verFiles = [v \in Versions |-> {}]
    /\ blobs = {}
    /\ published = {}

\* What the caller sees of a call: "ok", or an error with ("lost") or
\* without ("failed") the effect.
Outcomes == IF StoreMayFail THEN {"ok", "lost", "failed"} ELSE {"ok"}
Applied(out) == out # "failed"

VersionsOf(s) == {v \in Versions : verScene[v] = s}

\* The document and its first version, in one transaction.
CreateScene(s, v, n, F, out) ==
    /\ s \notin scenesMade
    /\ v \notin versMade
    /\ IF Applied(out)
       THEN /\ docs' = docs \cup {s}
            /\ scenesMade' = scenesMade \cup {s}
            /\ docName' = [docName EXCEPT ![s] = n]
            /\ versMade' = versMade \cup {v}
            /\ verScene' = [verScene EXCEPT ![v] = s]
            /\ verFiles' = [verFiles EXCEPT ![v] = F]
       ELSE UNCHANGED sceneVars
    /\ UNCHANGED blobVars

\* A version document is written under the scene's path whether or not the
\* scene document exists.
AddVersion(s, v, F, out) ==
    /\ v \notin versMade
    /\ IF Applied(out)
       THEN /\ versMade' = versMade \cup {v}
            /\ verScene' = [verScene EXCEPT ![v] = s]
            /\ verFiles' = [verFiles EXCEPT ![v] = F]
       ELSE UNCHANGED <<versMade, verScene, verFiles>>
    /\ UNCHANGED <<docs, scenesMade, docName, blobVars>>

\* Update of an existing document; ErrNotFound leaves everything alone.
RenameScene(s, n, out) ==
    /\ docName' = IF s \in docs /\ Applied(out)
                  THEN [docName EXCEPT ![s] = n] ELSE docName
    /\ UNCHANGED <<docs, scenesMade, verScene, versMade, verFiles, blobs, published>>

\* The BulkWriter's deletes.  Their results are not read, so some of the
\* versions (kept) may survive without anyone being told.
DeleteVersions(refs, kept) ==
    /\ verScene' = [v \in Versions |-> IF v \in refs \ kept THEN NoScene ELSE verScene[v]]
    /\ UNCHANGED <<docs, scenesMade, docName, versMade, verFiles, blobs, published>>

\* The last step of DeleteScene.
DeleteDoc(s, out) ==
    /\ docs' = IF Applied(out) THEN docs \ {s} ELSE docs
    /\ UNCHANGED <<scenesMade, docName, verScene, versMade, verFiles, blobs, published>>

\* Put of an image file.
PutFile(f, out) ==
    /\ blobs' = IF Applied(out) THEN blobs \cup {f} ELSE blobs
    /\ UNCHANGED <<published, docs, scenesMade, docName, verScene, versMade, verFiles>>

\* Put of the published scene.
PutPublished(F, out) ==
    /\ published' = IF Applied(out) THEN F ELSE published
    /\ UNCHANGED <<blobs, docs, scenesMade, docName, verScene, versMade, verFiles>>

-----------------------------------------------------------------------------
(***************************************************************************)
(* FR-4.2, FR-4.4: every image a saved version or the published scene       *)
(* refers to is present in Storage, whatever failed on the way.             *)
(***************************************************************************)
FilesPresent ==
    /\ \A v \in Versions : verScene[v] # NoScene => verFiles[v] \subseteq blobs
    /\ published \subseteq blobs
=============================================================================
