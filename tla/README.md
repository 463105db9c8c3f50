# Verification of phil-canvas

phil-canvas is a whiteboard: admins keep a catalog of versioned documents, open
them as live rooms in which guests draw too, and publish one canvas as a public
page. A Go backend holds the rooms and relays WebSocket frames; documents are in
Firestore and images in Storage; the browsers run Excalidraw and synchronise it
through Yjs.

This directory has TLA+ modules for the parts of that system in which something
runs concurrently or fails halfway, TLC configurations that check them on small
instances, and TLAPS proofs for every size. `PROJECT.json` lists the components,
the source lines of each definition, the runs, the hazards and the findings.

To repeat: `tlc -config X.cfg M` for each run, `tlapm P.tla` for each module `P` whose
name ends in `Proofs` (eight, some minutes altogether; the largest are
`CanvasAgreementProofs` and `CanvasSyncProofs`).

## 1. Inventory

| Component (code) | State it keeps | Operations | Hard part |
|---|---|---|---|
| Room registry (`backend/internal/rooms`) | rooms by id, `bySceneID`, per room: title, scene id, clients | `Create`, `GetOrCreateForScene`, `BindScene`, `Delete`, `SetName`, `SetSceneID`, `AddClient`, `RemoveClient`, `Broadcast`, `CloseAll` | every operation is atomic, sequences of them are not |
| Scene store (`backend/internal/scenes`) | scene documents, versions, image blobs, the published scene | `CreateScene`, `AddVersion`, `RenameScene`, `DeleteScene`, `Put` | calls fail, or take effect and are reported failed; deletion takes several calls |
| Document endpoints (`backend/internal/httpapi`) | only locals of the handlers | create, open, save, publish, rename, close, delete | handlers interleave between critical sections and store calls; the process may die in between |
| Relay (`backend/internal/relay`) | per connection: socket, bounded send channel, `done` | handshake, read pump, write pump, broadcast, close | two goroutines per connection, full buffers, joins during a close |
| Canvas synchronisation (`frontend/src/collab`) | scene, Yjs document, socket | seed, receive, write back, restore | concurrent edits merged by two different rules, late joiners, reconnection |
| Session (`frontend/src/session`, `ui`) | signed-in admin, current room, busy flags of the panels, sockets of rooms left | sign in and out, create, open, join, save, leave, close, rename | state set after several awaits; one editor for one room after another |
| Landing page (`DocumentsPanel`, `DocumentCatalogModal`, `VersionHistory` in `frontend/src/ui`) | live list, catalog, selected entry, open form, history | poll, reload, select, open, rename, delete, restore | answers out of order, entries that vanish under a form |
| Auth (`backend/internal/auth`, `token`) | attempts per address; tokens are kept by their holders | admin login, guest login, token checks | sliding window, expiry, tokens that outlive rooms |
| Anchor, presence, API client, configuration, infrastructure | little or none | | see PROJECT.json |

How they interact. The handlers call the registry under its mutex and the store
over the network, never both at once. The relay finds its room in the registry
when a socket arrives and registers the connection after the handshake; the
close handler tells all registered connections and then takes the room out of the
registry. The browsers talk to each other only through the relay, which does not
look into frames, so a joiner learns the canvas from its peers. A browser learns
of a closed room by a text frame and a close code, and of saved documents through
the endpoints.

What makes each part correct:

* registry and endpoints: a document has at most one live room; the index names
  live rooms only; a room's document never changes once set; an acknowledged save
  is not lost; nothing stored refers to a missing image; a rename reaches the live room;
* relay: the frames of a sender reach each member in order, once, without holes;
  closing tells every member, in the right order; nothing blocks or leaks;
* canvas: browsers agree when all frames have arrived; nothing goes back to an
  older version; images arrive with the elements that show them; the exchange ends;
* session: a late answer never undoes a newer sign-in, nor describes a room other
  than its own; the editor holds its room's elements only; the page leaves its
  initial state;
* landing page: nothing read earlier replaces something read later; a confirmation
  is for the document it was asked about; the live list keeps up;
* auth: at most so many attempts per window; access only with a recent sign-in or
  the room's own code.

## 2. Modules

| Module | Models | Extends |
|---|---|---|
| `Documents` | the sets of rooms, scenes and titles | |
| `Registry` | `rooms.go`: live rooms, titles, scene ids, `bySceneID` | `Documents` |
| `SceneStore` | `firestore.go`, `storage.go`, with the outcomes of calls | `Documents` |
| `DocumentService` | the handlers of `httpapi` as interleaved steps, and restarts | `Registry`, `SceneStore` |
| `DocumentSessions` | abstract: the sessions of documents (SRS FR-2.1, 2.2, 2.9) | `Documents` |
| `DocumentHistory` | where requests met in a way the handlers do not guard against | `DocumentService` |
| `DocumentServiceProofs` | theorems about `DocumentService` | `DocumentService`, `TLAPS` |
| `DocumentHistoryProofs` | rooms, index, renames and the refinement of `DocumentSessions`, in every interleaving | `DocumentHistory`, `DocumentServiceProofs` |
| `Relay` | `client.go`, `handler.go`, `Broadcast` and `CloseAll` for one room | |
| `RelayProofs` | theorems about `Relay` | `Relay`, `TLAPS` |
| `CanvasSync` | `sync.ts`, `useCollaborativeSync.ts`, `restoreVersion.ts` | |
| `CanvasSyncProofs` | the order of writes, and what a single browser may rely on | `CanvasSync`, `FiniteSetTheorems`, `SequenceTheorems`, `TLAPS` |
| `CanvasAgreementProofs` | what all browsers agree on | `CanvasSyncProofs` |
| `Session` | `useSession.ts` and the views that use it, for one tab | |
| `SessionProofs` | theorems about `Session` | `Session`, `TLAPS` |
| `Panels` | `DocumentsPanel.tsx`, `DocumentCatalogModal.tsx`, `VersionHistory.tsx` | |
| `PanelsProofs` | theorems about `Panels` | `Panels`, `FiniteSetTheorems`, `TLAPS` |
| `Access` | `ratelimit.go`, `handlers.go`, `token.go`, `middleware.go` and their callers | |
| `AccessProofs` | theorems about `Access` | `Access`, `FiniteSetTheorems`, `TLAPS` |
| `MCDocumentService`, `MCDocumentHistory`, `MCCanvasSync`, `MCAccess` | workloads and values for TLC | |

Definitions whose comment starts with "Fault" are variants of the definition that
follows them, used to see that the properties notice a mistake in the code.

### Documents, registry, store, endpoints

`Registry` has one operator per method; each is one critical section of the
registry's mutex or the room's. A room object stays the same object after
`Delete`, so a handler that still holds it can write to it: `Rooms` are objects,
`live` those in the map. Room ids and codes are random strings and are identified
with the object. A room object is used again only when nothing refers to it.

`SceneStore` gives each call an outcome: `ok`, `failed` (nothing happened) or
`lost` (it took effect and the caller sees an error). `CreateScene` is one
transaction; `DeleteScene` reads the document, lists the versions, deletes them
in batches and deletes the document last, each a step of its own. Of a version
only the images it refers to are kept. `Exists` followed by `Put` of an image is
one step: images are content-addressed and never deleted, so another upload in
between changes nothing.

`DocumentService` gives every handler a program counter and its locals
(`req[q]`). A step is one critical section or one call of the store, as the
handler makes them: `Save` for example is lookup, uploads one by one, read of the
scene id, read of the title, `CreateScene`, `SetSceneID`, `BindScene`, answer.
A request that is refused before its first effect is a stuttering step. `Restart`
loses rooms and requests. `acked` is a history variable: the scene a version was
reported saved to.

The code lets any requests meet, and so does the model; `Workload` only says which
operations clients issue. `Issue` are the requests the frontend makes,
`LegacyCreateRoom` the deprecated creation of a room with a scene id.

Four of the properties one would want (one room per document, an index of live
rooms, a scene id set once, the same title in the catalog and in the room) are false
for the code in a few interleavings. Section 3 describes each of them; the one that
does the most lasting damage, `save_meets_close`, has a run. What the code does ensure is said with three history variables of `DocumentHistory`, which
restrict nothing:

* `torn`: rooms of which a first save met another first save, or the room's close.
  A room stays torn as long as anything refers to it;
* `split`: documents for which a room was created while their first save was under
  way (between `CreateScene` and `BindScene`), or by the deprecated creation. A
  document stops being split when all its rooms are closed and no first save of it
  is left;
* `served`: for each rename, the rooms that have been open for its document in every
  state since the store was changed, and are not in a first save.

`OneRoomUnlessSplit`, `IndexedUnlessTorn`, `SceneIDFixedUnlessTorn` and
`RenameReachesRoom` say that everything else holds in every interleaving, however many
requests there are. Meeting in these ways is the only exception: an open that meets an
open, a close that meets an open, a save that meets a save of a bound room, failures and
restarts are all covered.

`DocumentSessions` knows no handlers and no index. A document has a set of sessions, may
be in its first save (`fresh`), be about to be deleted (`doomed`), or `loose`. It says
what the code keeps to of the requirements: `Start` and `Attach` give a document that is
neither fresh nor loose its only session, `Admit` lets a deletion begin only for a
document that has none, `Erase` carries out only admitted deletions, `Lose` is a restart. It also
shows what the requirements have and the code has not: a session may start between
`Admit` and `Erase`, and while a first save is settled. The refinement
mapping takes the sessions of a document to be the rooms in the registry whose scene id
it is, `fresh` and `doomed` from the program counters, and `loose` to be `split`.

### Relay

The read pump, the write pump, `Broadcast` over a snapshot of the members and
`CloseAll` are separate actors. `Send` is a Go `select`: queue, or ignore when
`done` is closed (either, when both are possible), or close the connection when
the buffer is full; queueing and closing the socket are separate steps. A frame
counts as received when the write pump has written it to an open socket: TCP
delivers after that, or the connection breaks, which is `PeerGone`. A participant
who connects again is another connection.

### Canvas

An element is a version, a nonce and a deletion flag: that is all that decides
which copy is kept. Yjs, y-websocket and Excalidraw are external:

* concurrent writes of one map key: every replica keeps the write that comes last
  in the order of client ids along the chain of writes it stands on, whatever the
  versions in it; a transaction is pending until all it builds on is there;
* a provider sends step 1 when it connects, answers step 1 of others, and sends
  local updates only while connected; an empty answer changes nothing and is left
  out; the exchange between tabs of one browser is left out;
* `reconcileElements` keeps the higher version, at equal versions the smaller
  nonce; no element is in an open gesture;
* `onChange` runs after a render, so after the `updateScene` of a remote change
  has returned and `applyingRemote` is false again. The code is then protected
  from echoes by the version gate alone, and that is what is checked.

Image files are in a second, add-only map. Every element shows an image of its
own, named by the element's id. `writeElements` and `writeFiles` are two
transactions, sent in this order, so a peer has an element for a while without its
image; `ImagesArrive` says that this ends when the frames have arrived.

Frames wait in a box per sender (`inbox[c][s]`): those of one sender stay in order and
are without holes, which is what `FramesInOrder` and `NoHoles` prove of the relay.
Nothing is assumed about frames of different senders: `Broadcast` sends to a snapshot
of the members outside the room's mutex, so two frames may reach two browsers in
different orders, and an answer may overtake what it builds on. `NothingLost` says that
everybody nevertheless ends up with all that was written.

Who edits, who only watches and who loses the connection is a `play`, chosen in the
initial state from the constant `Plays`. Restoring is for admins (part `edits`).
Transactions are kept once, in `txns`; documents and frames hold their names.
Leaving a room is in `Session`.

The constant `PeersWait` is an assumption about people, not code: when true, peers
come after the browser that seeds the room has connected, and edit only while
connected. Section 3 says what happens without it.

### Session

A callback of `useSession` runs up to its next `await`, and what follows is an
action of its own. A call has two moments: the server does what was asked
(`RoomServed`, `SaveServed`, ...) and the tab handles the answer (`RoomAnswer`,
`SaveAnswer`, ...); anything may happen before, between and after. `CallFails` is
possible at each of them. `createDocument` and `openScene` make several calls in a
row; the ones for the seed change nothing and are part of waiting for the answer.

`busy` is the flag of `useAsyncAction` in the panel on the screen. Panels vanish
with their view: `Show` then forgets which calls they run (`here`). Create, sign-out
and save are disabled while busy; close, rename, join (by the Enter key) and
everything in the catalog are not. Auth events come from Firebase, also for what
other tabs do, and the lists the user chooses from may be out of date.

`RoomView` and `CollaborativeCanvas` are not keyed by the room, so a room that
replaces another one inherits the mounted editor with its scene: `canvas` is the
set of rooms whose elements it holds. When the user leaves, the cleanup destroys the
provider and the socket begins to close (`left`); until it has closed, a 4001 of the
relay that crosses the tab's own close still runs the handler, which clears whatever
room the user is in by then (`LateClose`). `terminate` is the same signal for the
current room, after which the handler is spent.

The server is what the tab sees of it: rooms, and the document each is bound to.
A title is represented by the room it was given to.

### Panels

`past` is the sequence of the server's states, and a list on the screen is
represented by the index it was read at. A read is served at some moment between its
start and its answer, so its answer carries any index since then. `selected` is
derived from two lists that change independently, as in the code; whenever it
changes, `Detail` gives the pane new state and starts to load a history, which is
what `key={selected.id}` does. A component that is unmounted has nothing to set;
`Forget` drops its reads. Entering a room leaves the landing page, which is later
mounted anew.

### Access

Time is a counter. `log` is the history of allowed attempts, `hits` what the
limiter remembers of it, as positions in the log, so that two attempts at one
reading of the clock stay two. `Allow` and `Deny` are the two ends of
`rateLimiter.Allow`, atomic under its mutex. A token is a record: signatures are
assumed to be unforgeable and Firebase's verification to be right. `proofs` and
`grant` are history variables: who signed in or gave which room's code when, and
what was granted last.

## 3. Runs

| Run | Instance | Checks | Result |
|---|---|---|---|
| `documents` | 2 requests, 2 rooms, 2 scenes, 2 versions, failures, restarts; create (also with a scene id), open, save, close and delete, all concurrent | `TypeOK`, `OneRoomUnlessSplit`, `IndexedUnlessTorn`, `SceneIDFixedUnlessTorn`, `IndexKeepsLive`, `ImplementsSessions` | holds |
| `saves_and_renames` | 2 requests, 1 room, 3 scenes, one of them saved before, 2 titles, 2 versions, 1 image, failures, restarts; every operation but the deletion of documents, all concurrent | `AckedVersionsKept`, `FilesPresent`, `RenameReachesRoom` | holds |
| `relay_streams` | 3 connections, 2 senders, 4 frames, buffer of 1 | `InOrder`, `NoGap` | holds |
| `relay_close` | 2 connections, a close, breaks, buffer of 1 | `TypeOK`, `CloseComesLast`, `MembersSignalled`, `ConnectionsCleanedUp`, `FanOutEnds`, `CloseEnds` | holds |
| `canvas` | a saved and a drawn element with their images; two browsers that edit, draw and restore (3 changes), two that keep changing one element (4), one that draws (1) before a viewer and one that reconnects, or one that draws, changes and deletes (3) before one that reconnects | `TypeOK`, `NothingLost`, `VersionsAgree`, `ImagesArrive`, `EchoesBounded`, `NeverBackwards` | holds |
| `session` | one tab, 2 users, 2 rooms, 2 scenes, 2 auth events, 3 calls | `TypeOK`, `LatestAuthWins`, `BecomesReady` | holds |
| `panels` | 2 documents, 1 room that is not there yet, a draft or a document's, 1 change by others or by the user, 2 polls, 2 actions | `TypeOK`, `PaneIsOwn`, `BusyIsTrue`, `NeverOlder`, `LiveListFresh` | holds |
| `access` | 2 addresses, 2 rooms, 2 codes, 1 of 2 users an admin; limit 2 in 2 units, tokens for 2, 3 ticks | `TypeOK`, `WindowBound`, `AccessWasProved` | holds |
| `save_meets_close` | 2 requests: create, save, close | `IndexedRoomIsLive` | violated |
| `join_meets_close` | 2 connections | `NoneLeftBehind` | violated |
| `late_save` | one tab, 4 calls | `RoomIsItself` | violated |
| `late_room` | one tab, 4 calls | `CanvasIsRooms` | violated |

Why the bounds are enough. The handlers know at most one room and one scene each
and never count, so two requests show every pair of steps that can
meet, and a second scene shows confusion between documents. Two versions are two first
saves, which can meet each other and everything else; `SpareIds` starts no save that
could not be finished. `saves_and_renames` gives up the second room for images and
titles: a rename works on the room of its document alone, and `documents` has the
meetings of two rooms. A buffer of one is
full after one frame; three frames of a sender are what it takes to lose the
middle one, and a fourth, of another sender, can fill the buffer first. On the canvas a displaced newer write needs one browser to be two
changes ahead of the other, so three changes; the fourth follows it up. A reconnection
needs something written before, while and after the connection is gone, so three
changes for one writer and one who returns; with a third browser one change is enough
for answers of two peers to cross. The
bound `MaxWrites` is above what `EchoesBounded` allows, so it hides nothing. One
nonce is enough where one browser edits. In `session` two users and two auth events
give an exchange that is superseded, and a sign-out a third event; three calls are a
create, a save and whatever races them. In `panels` one change makes an older and a
newer list, with the initial state anything it can be before; two polls are one
that is superseded and one that is not. In
`access` three attempts are one more than the limit, and three ticks pass both the
window and a token's lifetime by one; a sign-in and a code are the two proofs it
takes to make a room and enter it.

Symmetry over rooms, versions and the documents not stored at the start is used in
`documents` and `saves_and_renames`, over addresses, rooms and codes in `access`: all are unordered names there, and these
runs check no liveness property. `CHECK_DEADLOCK FALSE` is set for the relay, the
canvas, the session and `access`: a room in which all have left, a canvas on which
nobody draws, a tab whose user does nothing and a server nobody calls stop.

Fairness. The endpoints have none: no handler holds a lock across a call, so none
waits for another, and that each ends by itself is not worth a property. The relay's
liveness properties assume that the goroutines of the pumps and of the close
handler run when they can, and nothing of the peers:
that a stalled peer makes a write fail is left to `PeerGone`, which is not fair,
so a stalled write pump must not hold up anybody else. `BecomesReady` assumes that
Firebase reports the initial state once and that calls return or fail, as `fetch`
does; not that any of them succeeds. `LiveListFresh` assumes that the timer runs,
that polls return, and (strong fairness) that a poll that is current again and again
succeeds again and again: it need not beat the timer every time, but if every answer
took longer than the interval of five seconds, none would ever be shown.

### What the violated runs show

* `save_meets_close`: `Save` holds a room while it uploads; if the room is closed
  meanwhile, `BindScene` indexes the dead room. From then on `Open` returns the
  dead room and `Delete` answers 409 until the process restarts.
* `join_meets_close`: a connection that was let in before the close and registers
  after `CloseAll` took its snapshot stays in a room that no longer exists.
* `late_save`: `markSceneId` has no idea which room was saved. Close room is not
  disabled during a save, so the user can be in another new document when the
  answer comes; that one is then taken for the saved one, and its renames go there.
  `renameDocument` sets the shown title in the same way.
* `late_room`: a document that is created, opened or joined answers after the user
  has entered another room. `setRoom` replaces that room in place; the editor keeps
  its scene, the new room's seed is not painted, and the next `handleChange` writes
  the old room's elements into the new room's document. The title field keeps the
  old title in the same way.

Behaviours met while modelling that have no run of their own. The first four are what
`DocumentHistory` and `DocumentSessions` make room for; TLC finds each of the five
when the requirement is stated without that:

* two first saves: two saves of a blank room both read an empty scene id, both make
  a document, and the second `SetSceneID` moves the room ("set once, at first
  save", `rooms.go:96`). Both versions are kept; later saves go to one of the documents
  while the index names the room for both;
* an open during a first save: the document is in the catalog after `CreateScene` and
  its room is indexed only in `BindScene`; an `Open` in between makes a second room
  (SRS.md:57 allows one). `BindScene` then takes the index over, and the room that was
  opened is live without being found;
* an open during a deletion: the check for a live room comes before the store's calls;
  a room opened while they run is for a document that then vanishes, and what is saved
  into it is acknowledged and in no catalog;
* crossing renames: the store and the live room are renamed in separate steps. The
  first rename can be the last to name the room, and the catalog and the room
  show different titles until somebody renames again. A room created
  after the lookup, by an open that read the title before the store was changed, keeps the old one;
* a peer before the seeder: the effect writes the seed before it makes the provider,
  not after connecting (SRS.md:68). A peer in the room already has asked its question
  and is not told: it stays blank.

Others: creating a room with a scene id overwrites
the index (`EDD.md:190` calls `GetOrCreateForScene` the sole entry point); a save
into a deleted document is acknowledged, because `AddVersion` does not look for
its parent; a deletion that stops halfway leaves a document without versions,
the reverse of what `firestore.go:129` expects; a member whose buffer is full
when the room closes gets neither signal; a browser that is not connected when its
room is closed is answered 404 for ever and never leaves it; the late 4001 of a room
the user has left ends the room they are in (`LateClose`); Restore in the catalog
opens a live document without restoring anything (`client.ts:125` says so, against
SRS.md:148-150); reloads of the catalog can bring back an older list; the catalog's rename field
starts with the title the pane was mounted with, so saving it unchanged can undo
somebody else's rename; a draft that gets its first save is in neither of the
catalog's lists until it is read again; two browsers that change an element to the
same version at once agree on the version, and the map and the scenes choose its
content by different rules.

## 4. Theorems

Every safety property that a passing run checks is also a theorem; some of them
under conditions, which are explained below. The theorems hold for any sets of requests, rooms, connections,
browsers and so on, of any size, finite where the module says so, and for any bounds. The
assumptions on constants are those the modules state: "absent" values are not
members of the sets, limits are natural numbers.

| Theorem | States | Under |
|---|---|---|
| **`DocumentServiceProofs`** | | |
| `TypeCorrect` | `[]TypeOK` | |
| `FilesAlwaysPresent` | `[]FilesPresent` | |
| `AckedSavesSurvive` | `[]AckedVersionsKept` | documents are not deleted |
| **`DocumentHistoryProofs`** | | |
| `OneRoomPerDocument` | `[]OneRoomUnlessSplit` | |
| `IndexNamesLiveRooms` | `[]IndexedUnlessTorn` | |
| `SceneIDNeverChanges` | `SceneIDFixedUnlessTorn` | |
| `SessionsImplemented` | `ImplementsSessions` | |
| `RenamesReachRooms` | `RenameReachesRoom` | |
| `IndexEntriesStay` | `IndexKeepsLive` | |
| **`RelayProofs`** | | |
| `RelayTypeCorrect` | `[]TypeOK` | |
| `FramesInOrder` | `[]InOrder` | |
| `NoHoles` | `[]NoGap` | |
| `CloseIsLast` | `[]CloseComesLast` | |
| `EveryMemberSignalled` | `[]MembersSignalled` | |
| **`CanvasSyncProofs`** | | |
| `CanvasTypeCorrect` | `[]TypeOK` | |
| `ScenesNeverGoBack` | `NeverBackwards` | |
| **`CanvasAgreementProofs`** | | |
| `NothingWrittenIsLost` | `[]NothingLost` | `SeederStays` |
| `AllImagesArrive` | `[]ImagesArrive` | `SeederStays` |
| `NoEchoes` | `[](OnlySeederWrites(play) => EchoesBounded)` | `SeederStays` |
| `TogetherIfWritersStay` | `[](WritersStay => VersionsAgree)` | `SeederStays` |
| `AllVersionsAgree` | `[]VersionsAgree` | `SeederStays`; in each play nobody reconnects or only the seeder writes |
| **`SessionProofs`** | | |
| `SessionTypeCorrect` | `[]TypeOK` | |
| `LatestAuthAlwaysWins` | `[]LatestAuthWins` | |
| **`PanelsProofs`** | | |
| `PanelsTypeCorrect` | `[]TypeOK` | |
| `PaneIsAlwaysOwn` | `[]PaneIsOwn` | |
| `NothingOlder` | `NeverOlder` | |
| `BusyIsAlwaysTrue` | `[]BusyIsTrue` | |
| **`AccessProofs`** | | |
| `AccessTypeCorrect` | `[]TypeOK` | |
| `AttemptsAreLimited` | `[]WindowBound` | |
| `GrantsAreProved` | `[]AccessWasProved` | |

The theorems of `DocumentHistoryProofs` are about `HSpec`, which is `DocumentService` with
its history variables; they have no condition on the workload or on
what is concurrent, and their exceptions are the rooms in `torn` and the documents in
`split` (section 2). The condition of `AckedSavesSurvive` is needed: a save into a document that
is being deleted is acknowledged. `SeederStays` says that peers come after the seeder
(`PeersWait`) and that the seeder does not lose its connection; the run `canvas` meets
it, and section 3 says what happens without the first half.

### Endpoints

`TypeOK` is inductive because `WellFormed` says which locals a
program counter may rely on. `FilesPresent` is not inductive: a version about to
be written needs its images, so `FilesInv` adds that what a request has uploaded
is in Storage (`Uploaded`), and nothing removes images. `AckedVersionsKept` needs
`AckInv`: no request is deleting, every scene ever made is still a document, and
the version of a save past `CreateScene` is in the scene its answer will name.

The theorems about rooms and the index do not look at the handlers again. `IssueKind`,
`LegacyKind` and `ProceedKind` show that every step of a request is of one of a few
kinds, whatever handler it is of: a part of a first save (`Begun` to `Bound`), a room
that opens or closes (`Opens`, `Closes`), or `Plain`, which leaves rooms alone
and at most begins or ends a deletion. Then:

* `IndexedUnlessTorn` and `SceneIDFixedUnlessTorn` follow from `TornInv`: the index entries
  that name a room that is not torn are its document's, and its only first save finds it
  without a scene id until it sets it. It holds of a room that nothing refers to, so a room is
  as good as new when it is used again.
* `OneRoomUnlessSplit` follows from `SplitInv`: a document has at most one first save,
  and while that is under way and the document is not split, the index has no room for
  it and it has none but the one about to be bound (`DocInv`); otherwise its rooms are in the index.
* `ImplementsSessions` needs `SplitInv` too, for the guards of `Start`, `Attach` and `Admit`,
  and `LooseInv`, that a split document has a reason to be. Initial states map to
  initial states; the kinds of steps map to steps of `DocumentSessions` (`Made` to `Persist`, `Set`
  to `Attach`, `Bound` to `Settle`, `Opens` to `Start` or `Override`, `Closes` to `End`,
  `Plain` to `Admit`, `Erase` or `Dismiss`, a restart to `Lose`) or to a stutter.
* `RenameReachesRoom` follows from `RenInv`: the room that a rename has looked up is
  the one it must reach. A room that is served is in no first save, so by
  `SplitInv` it is in the index in every state: no other rename, open or close can
  come between the lookup and the room.

### Relay

`InOrder` needs two things. `Control` says what the two goroutines of a connection
and the handlers may be doing: no frame is on its way to a connection that
is not registered, and a reader that fans a frame out does not read the next. `OrderInv`
says that what a connection was sent and what is queued for it (`Stream`) is
in the order of reading, and that a connection still in the fan-out of a frame has
none as late. `NoGap` needs `WholeInv`: while a connection is up, its stream
has no hole, and ends where the next frame of each sender continues; what
was written before the teardown has none afterwards (`GapInv`). The two theorems about
closing share `SignalsInv`: a close frame that was written is the last, one that is
queued or about to be has room-closed ahead of it, and a connection that has ended
has a reason or got the close frame.

### Canvas

`NeverBackwards` looks like a property of `Reconcile`, but needs a fact about
transactions: that the entry a browser reads from its document after writing is
the one it has just written, so that what is painted next cannot be older.
The map's rule is the order of paths (`Before`), which is
total on paths of different writers, and transitive; `Ledger` says that the paths of
the transactions are those a browser can build on what it had integrated, and
`LastIsLast` that a finite set of writes has a last one. (It is shown by a least
counterexample, with the principle of natural numbers: induction theorems cannot be
instantiated here.) `SyncInv` is `TypeOK`, `Ledger`, `FramesOK` (frames name
transactions that exist), `Newcomers` (a browser that is out has nothing) and
`OwnAreIntegrated`.

`NothingLost`, `ImagesArrive` and `VersionsAgree` speak of all browsers once all frames
have arrived. They share the invariant `AgreeInv`.
Their argument has two halves:

* `Delivery`: what a browser that keeps its connection has written, everybody in the
  room has, or will be told by a frame in its box, or a question that will bring it
  waits at the writer. Nothing of the order of frames is needed. The hard steps are a
  connection, which must ask everybody who can have something that it lacks, and an
  answer, which is computed when the question is read, not when it was asked, and goes to
  all. When all boxes are empty, `NothingLost` remains of it;
* `AllFollow`: a scene is not behind the document, and the document is behind
  the scene only while an `onChange` is due.

For images, having received a transaction is not enough: a document integrates it only
with all it builds on, and that may have been written by a browser that is gone. `Illustrated` says that
every element that was written has its image in a transaction of a browser that keeps
its connection, and that this transaction builds on nothing that the element does
not build on, but for the seed. A new element is written over an older one, whose image
is known to be there, or is of the saved version, or has just been drawn; for
the last, `Drawn` says that whoever shows an element that its document lacks has drawn
it, keeps its connection and writes the image next. So whoever can show an element can
integrate its image: `ImagesArrive` needs no more than `SeederStays`, whoever loses the
connection and whatever versions they show.

For versions, the documents must integrate the same. `TogetherIfWritersStay` says that
this is so in every state in which all that exists was written by
browsers that keep their connection (`WritersStay`), for any number of writers.
`AllVersionsAgree` names the plays in which that is always so: no connection breaks,
or only the seeder writes. For the latter, `SoloInv` says that every transaction is the
seeder's and versions grow along its transactions (`Maturing`), so that the others, who may
come and go, never have anything to write back. From this also follows `NoEchoes`: each
write of the seeder but the seed has a change of its own, because an `onChange` is
due only after a change (`EchoInv`).

The condition of `AllVersionsAgree` is not there for convenience. Let two browsers draw, and a third one
that only watches lose its connection. Before it does, it gets a newer change
that the map displaces in favour of another; once offline it writes the displaced
change back, as the code does after every repaint
(`useCollaborativeSync.ts:198`). That write-back is never sent. When it
is back, a later change of the seeder, which did not build on the write-back, loses to
it in the watcher's own map: it shows an old version for good and the others the new
one. With four changes and three browsers, TLC finds this by simulation. It has no run
of its own, and is listed with the hazard at that line. `NothingLost`, `ImagesArrive` and
`NeverBackwards` hold there too, by the theorems.

### Session and panels

`LatestAuthWins` needs `AuthInv`: an exchange has the number of the event that started
it, and the latest one is for the user Firebase reported last. `TypeInv` adds to
`TypeOK` what a call has in hand at each of its two moments (`InHand`).
`PaneIsOwn` needs that nothing is selected while the catalog is closed, and that
a history that is still to be taken is for the selected document; the second is
part of `ReadsInv`, which also says that a read that is still valid was started no
earlier than what is on the screen was read, and that there is only one of each
kind: from this follows `NeverOlder`. `BusyIsTrue` needs `ActsInv`: the catalog is
busy exactly while one action is its own, and a rename form, whose
Enter key is not disabled, is gone by then.

### Access

`WindowBound` needs `LimiterInv`: the log is in order of time, and what is younger
than the window is remembered. When an attempt is allowed, fewer than the limit are
remembered, so one of the last `Max` attempts is forgotten, hence out of the window,
and the one `Max` before the new one is no younger. `AccessWasProved` needs
`TokenInv`: every token has a proof that is a lifetime before its expiry.

### Only model-checked

* Liveness: `ConnectionsCleanedUp`, `FanOutEnds`, `CloseEnds`,
  `BecomesReady`, `LiveListFresh`. The prover has no fairness.
* `EchoesBounded` where several browsers write at once. The run checks it for two.
  No proof was tried for more: each of them may write back a change that another's
  write has displaced, so the bound would have to depend on their number.
* `VersionsAgree` is false where the seeder reconnects or peers do not wait for it, as
  TLC shows with two browsers. Nothing is claimed of `NothingLost` and `ImagesArrive` there.
* The four violated runs are counterexamples, and stay TLC's.

The counters of `Relay`, `Session` and `CanvasSync` are natural numbers in their
`TypeOK`; guards bound them in the runs, and the theorems hold for every bound.

## 5. Not modelled

Listings and single reads of the backend (they change nothing); contents of elements
and versions, and with them the anchor, a flag in an element's content (two
concurrent toggles can leave two elements flagged, of which the code takes the
first); in `DocumentService`, authorization of the endpoints (it refuses before
the handler runs, see `Access`); the in-memory store of local development; in
`Session`, the contents of seeds and error texts; in `Panels`, titles; JSON, logging,
configuration; presence, rendering, menus and the text in fields; infrastructure.
Memory exhaustion and more than one backend instance are outside:
the service is deployed as one instance because rooms are in memory.

## 6. Plan

Done, in this order: registry, store and endpoints with their abstract
specification; relay; canvas; session; access; the theorems about the endpoints and
about access; image files on the canvas; the editor and the sockets of a tab; the
landing page; the refinement of the sessions; the theorems about the relay, the
panels, the session and the canvas.

To come: agreement on versions while a browser that has written something back
reconnects, which the code does not ensure and which needs a finer statement than
`VersionsAgree`; a bound on write-backs in the number of concurrent writers; the in-memory store as a second
implementation of `SceneStore`; the hazards of PROJECT.json that have
no property yet.
