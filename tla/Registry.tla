------------------------------- MODULE Registry -------------------------------
(***************************************************************************)
(* The in-memory room registry (backend/internal/rooms): the live rooms,    *)
(* and the index from a saved scene to its canonical live room.  Every      *)
(* operation below runs under the registry's or the room's mutex, so each   *)
(* is one atomic step of the handler that calls it.                         *)
(*                                                                         *)
(* A Room is a heap object: handlers keep pointers to it across steps, and  *)
(* it outlives its removal from the map.  Room identifiers are random, so   *)
(* object and identifier are one thing here (the members of Rooms).         *)
(***************************************************************************)
EXTENDS Documents

VARIABLES
    live,       \* the rooms in Registry.rooms
    roomName,   \* Room.name
    roomScene,  \* Room.sceneID
    bySceneID   \* Registry.bySceneID

registryVars == <<live, roomName, roomScene, bySceneID>>

RegistryTypeOK ==
    /\ live \subseteq Rooms
    /\ roomName \in [Rooms -> Names]
    /\ roomScene \in [Rooms -> Scenes \cup {NoScene}]
    /\ bySceneID \in [Scenes -> Rooms \cup {NoRoom}]

\* An empty registry: the state at start-up, and again after a restart.
NewRegistry ==
    /\ live = {}
    /\ roomName = [r \in Rooms |-> Untitled]
    /\ roomScene = [r \in Rooms |-> NoScene]
    /\ bySceneID = [s \in Scenes |-> NoRoom]

LoseRegistry ==
    /\ live' = {}
    /\ roomName' = [r \in Rooms |-> Untitled]
    /\ roomScene' = [r \in Rooms |-> NoScene]
    /\ bySceneID' = [s \in Scenes |-> NoRoom]

\* Fault: a blank title is stored as it is.
createLockedKeepsBlank(r, n, s) ==
    /\ r \notin live
    /\ live' = live \cup {r}
    /\ roomName' = [roomName EXCEPT ![r] = n]
    /\ roomScene' = [roomScene EXCEPT ![r] = s]

\* createLocked with the object r, which nothing refers to yet.
createLocked(r, n, s) ==
    /\ r \notin live
    /\ live' = live \cup {r}
    /\ roomName' = [roomName EXCEPT ![r] = IF n = Blank THEN Untitled ELSE n]
    /\ roomScene' = [roomScene EXCEPT ![r] = s]

\* Create: a blank room, or (deprecated) one bound to a scene by the caller.
Create(r, n, s) ==
    /\ createLocked(r, n, s)
    /\ bySceneID' = IF s = NoScene THEN bySceneID
                    ELSE [bySceneID EXCEPT ![s] = r]

\* Fault: every call creates a room.
AlwaysCreateForScene(r, n, s) ==
    /\ createLocked(r, n, s)
    /\ bySceneID' = [bySceneID EXCEPT ![s] = r]

\* GetOrCreateForScene, check and creation under one write lock.
GetOrCreateForScene(r, n, s) ==
    \/ /\ bySceneID[s] # NoRoom
       /\ UNCHANGED registryVars
    \/ /\ bySceneID[s] = NoRoom
       /\ createLocked(r, n, s)
       /\ bySceneID' = [bySceneID EXCEPT ![s] = r]

SetName(r, n) ==
    /\ roomName' = [roomName EXCEPT ![r] = n]
    /\ UNCHANGED <<live, roomScene, bySceneID>>

SetSceneID(r, s) ==
    /\ roomScene' = [roomScene EXCEPT ![r] = s]
    /\ UNCHANGED <<live, roomName, bySceneID>>

BindScene(r, s) ==
    /\ bySceneID' = [bySceneID EXCEPT ![s] = r]
    /\ UNCHANGED <<live, roomName, roomScene>>

\* Fault: the index entry stays.
DeleteKeepsIndex(r) ==
    /\ live' = live \ {r}
    /\ UNCHANGED <<roomName, roomScene, bySceneID>>

\* Fault: the room's scene loses its entry, whichever room that names.
DeleteAnyIndex(r) ==
    /\ live' = live \ {r}
    /\ bySceneID' = [s \in Scenes |->
                       IF r \in live /\ s = roomScene[r] THEN NoRoom ELSE bySceneID[s]]
    /\ UNCHANGED <<roomName, roomScene>>

\* Delete: a second Delete of the same room is a no-op; the index entry goes
\* only when it is the one of the room's current sceneID and names this room.
Delete(r) ==
    /\ live' = live \ {r}
    /\ bySceneID' = [s \in Scenes |->
                       IF r \in live /\ s = roomScene[r] /\ bySceneID[s] = r
                       THEN NoRoom ELSE bySceneID[s]]
    /\ UNCHANGED <<roomName, roomScene>>

-----------------------------------------------------------------------------
\* The room a scene is served by, seen from the rooms and not from the index.
RoomsOf(s) == {r \in live : roomScene[r] = s}

(***************************************************************************)
(* RoomForScene "returns the currently-live room for sceneID, if any": an   *)
(* index entry never outlives its room.                                     *)
(***************************************************************************)
IndexedRoomIsLive ==
    \A s \in Scenes : bySceneID[s] # NoRoom => bySceneID[s] \in live
=============================================================================
