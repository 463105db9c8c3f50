------------------------------- MODULE Session --------------------------------
(***************************************************************************)
(* One browser tab (frontend/src/session/useSession.ts and the views that   *)
(* use it): the signed-in admin, the room the user is in, and the calls     *)
(* whose answers set them.  A callback runs up to its next await; what      *)
(* follows is an action of its own, so answers come in any order, after     *)
(* anything the user, Firebase and other participants did meanwhile.        *)
(*                                                                         *)
(* The server is modelled as the tab uses it: rooms, and the document each  *)
(* of them is bound to.  Firebase is configured.  Seeds, guest codes and    *)
(* error texts are left out, and a title is represented by the room it was  *)
(* given to.                                                                *)
(***************************************************************************)
EXTENDS Naturals, FiniteSets

CONSTANTS
    Users,      \* Firebase users
    Rooms,      \* room ids; a closed room's id is not used again
    Scenes,     \* scene ids
    NoUser, NoRoom, NoScene,
    MaxEvents,  \* auth events (a bound)
    MaxCalls    \* calls the user's gestures start (a bound)

ASSUME SessionAssumption ==
    /\ NoUser \notin Users
    /\ NoRoom \notin Rooms
    /\ NoScene \notin Scenes
    /\ {MaxEvents, MaxCalls} \subseteq Nat

VARIABLES
    user,       \* whom Firebase last reported
    seq,        \* useLatestOnly's counter: the auth events so far
    admin,      \* the user whose admin token the tab holds
    ready,      \* the initial auth check has resolved
    room,       \* the room the user is in, or NoRoom
    canvas,     \* rooms whose elements the editor on the screen holds
    left,       \* rooms the user left whose socket has not closed yet (a bound:
                \* of several sockets of one room, only the last is kept)
    busy,       \* useAsyncAction of the panel on the screen
    calls,      \* callbacks waiting for an answer
    started,    \* calls started by gestures so far
    fresh,      \* server: rooms not yet created
    live,       \* server: rooms that are open
    bound       \* server: the document each room was saved to

vars == <<user, seq, admin, ready, room, canvas, left, busy, calls, started, fresh, live, bound>>
authVars == <<user, seq, admin, ready>>
roomVars == <<room, canvas, left>>
serverVars == <<fresh, live, bound>>

\* What a callback waits for: the server, or its answer.
Asked == {"login", "signOut", "create", "open", "join", "save", "rename", "close"}
Answered == {"opened", "joined", "saved", "renamed"}

\* n is the login's sequence number or tells equal gestures apart; room and
\* scene are what the callback has in hand; here: the panel that runs it is
\* still on the screen.
Call == [op : Asked \cup Answered, n : Nat, user : Users \cup {NoUser},
         room : Rooms \cup {NoRoom}, scene : Scenes \cup {NoScene}, here : BOOLEAN]

ActiveRoom == [id : Rooms, role : {"admin", "guest"}, scene : Scenes \cup {NoScene},
               title : Rooms]

TypeOK ==
    /\ user \in Users \cup {NoUser}
    /\ seq \in Nat
    /\ admin \in Users \cup {NoUser}
    /\ ready \in BOOLEAN
    /\ room \in ActiveRoom \cup {NoRoom}
    /\ canvas \subseteq Rooms
    /\ left \subseteq Rooms
    /\ busy \in BOOLEAN
    /\ calls \subseteq Call
    /\ started \in 0..MaxCalls
    /\ fresh \subseteq Rooms
    /\ live \subseteq Rooms \ fresh
    /\ bound \in [Rooms -> Scenes \cup {NoScene}]

Init ==
    /\ user = NoUser
    /\ seq = 0
    /\ admin = NoUser
    /\ ready = FALSE
    /\ room = NoRoom
    /\ canvas = {}
    /\ left = {}
    /\ busy = FALSE
    /\ calls = {}
    /\ started = 0
    /\ fresh = Rooms
    /\ live = {}
    /\ bound = [r \in Rooms |-> NoScene]

-----------------------------------------------------------------------------
(* Signing in and out.                                                      *)

\* onAuthStateChanged, also for what other tabs do.
Notify(u) ==
    /\ user' = u
    /\ seq' = seq + 1
    /\ IF u = NoUser THEN admin' = NoUser /\ ready' = TRUE
       ELSE UNCHANGED <<admin, ready>>

AuthEvent ==
    \E u \in Users \cup {NoUser} :
        /\ seq < MaxEvents
        /\ seq = 0 \/ u # user
        /\ Notify(u)
        /\ calls' = IF u = NoUser THEN calls
                    ELSE calls \cup {[op |-> "login", n |-> seq + 1, user |-> u,
                                      room |-> NoRoom, scene |-> NoScene, here |-> FALSE]}
        /\ UNCHANGED <<roomVars, busy, started, serverVars>>

\* Faults: an answer is used although a newer event came; the check that
\* resolves with a failure does not make the tab ready.
LoginAnswerAnyway(c) ==
    /\ c.op = "login"
    /\ calls' = calls \ {c}
    /\ \E u \in {c.user, NoUser} : admin' = u
    /\ ready' = TRUE
    /\ UNCHANGED <<user, seq, roomVars, busy, started, serverVars>>
LoginAnswerUnready(c) ==
    /\ c.op = "login"
    /\ calls' = calls \ {c}
    /\ IF c.n # seq THEN UNCHANGED <<admin, ready>>
       ELSE \/ admin' = c.user /\ ready' = TRUE
            \/ admin' = NoUser /\ UNCHANGED ready
    /\ UNCHANGED <<user, seq, roomVars, busy, started, serverVars>>

\* The exchange for an admin token succeeds or fails.
LoginAnswer(c) ==
    /\ c.op = "login"
    /\ calls' = calls \ {c}
    /\ IF c.n # seq THEN UNCHANGED <<admin, ready>>
       ELSE /\ \E u \in {c.user, NoUser} : admin' = u
            /\ ready' = TRUE
    /\ UNCHANGED <<user, seq, roomVars, busy, started, serverVars>>

-----------------------------------------------------------------------------
(* Callbacks and views.                                                     *)

Landing == ready /\ room = NoRoom
InRoom(role) == ready /\ room # NoRoom /\ room.role = role

\* A gesture whose callback waits for an answer; run shows that it does.
Await(op, r, s, run) ==
    /\ started < MaxCalls
    /\ started' = started + 1
    /\ calls' = calls \cup {[op |-> op, n |-> started, user |-> admin,
                             room |-> r, scene |-> s, here |-> run]}
    /\ busy' = (busy \/ run)

\* RoomView has no key: a room that replaces another gets its editor, scene
\* and all.  handleChange then writes the scene to the new room's document.
editor ==
    canvas' = IF room' = NoRoom THEN {}
              ELSE (IF room = NoRoom THEN {} ELSE canvas) \cup {room'.id}

\* The landing page and the room replace one another, with their panels.
Show(cs, b) ==
    /\ editor
    /\ IF (room = NoRoom) = (room' = NoRoom) THEN calls' = cs /\ busy' = b
       ELSE /\ calls' = {[c EXCEPT !.here = FALSE] : c \in cs}
            /\ busy' = FALSE

\* The effect's cleanup: the provider of the room that is left is destroyed,
\* and its socket begins to close.
Unplug(sockets) ==
    left' = IF room = NoRoom \/ (room' # NoRoom /\ room'.id = room.id) THEN sockets
            ELSE sockets \cup {room.id}

\* The callback c ends.
End(c) == Show(calls \ {c}, busy /\ ~c.here) /\ Unplug(left)

setRoom(r, role, s) == room' = [id |-> r, role |-> role, scene |-> s, title |-> r]

\* The server has done what c asks for; the answer is under way.
Serve(c, answer, r, s) ==
    /\ calls' = (calls \ {c}) \cup {[c EXCEPT !.op = answer, !.room = r, !.scene = s]}
    /\ UNCHANGED <<authVars, roomVars, busy, started>>

SignOut ==
    /\ Landing
    /\ admin # NoUser
    /\ ~busy
    /\ Await("signOut", NoRoom, NoScene, TRUE)
    /\ UNCHANGED <<authVars, roomVars, serverVars>>

\* signOutAdmin: Firebase reports that nobody is signed in.
SignOutAnswer(c) ==
    /\ c.op = "signOut"
    /\ UNCHANGED <<room, started, serverVars>>
    /\ End(c)
    /\ IF user = NoUser THEN admin' = NoUser /\ UNCHANGED <<user, seq, ready>>
       ELSE Notify(NoUser)

-----------------------------------------------------------------------------
(* Entering rooms.                                                          *)

\* Fault: the room is entered before it has an id.
createDocumentAtOnce ==
    /\ Landing
    /\ admin # NoUser
    /\ setRoom(NoRoom, "admin", NoScene)
    /\ Show(calls, busy)
    /\ Unplug(left)
    /\ UNCHANGED <<authVars, started, serverVars>>

createDocument ==
    /\ Landing
    /\ admin # NoUser
    /\ ~busy
    /\ Await("create", NoRoom, NoScene, TRUE)
    /\ UNCHANGED <<authVars, roomVars, serverVars>>

\* From the catalog, which has a panel of its own and can be closed.
openScene ==
    \E s \in Scenes :
        /\ Landing
        /\ admin # NoUser
        /\ \E r \in Rooms : bound[r] = s
        /\ Await("open", NoRoom, s, FALSE)
        /\ UNCHANGED <<authVars, roomVars, serverVars>>

\* createRoom and openScene: a new room, or the document's live one.
RoomServed(c) ==
    /\ c.op \in {"create", "open"}
    /\ \/ /\ c.scene # NoScene
          /\ \E r \in live : bound[r] = c.scene /\ Serve(c, "opened", r, c.scene)
          /\ UNCHANGED serverVars
       \/ /\ c.scene = NoScene \/ \A r \in live : bound[r] # c.scene
          /\ \E r \in fresh :
               /\ fresh' = fresh \ {r}
               /\ live' = live \cup {r}
               /\ bound' = [bound EXCEPT ![r] = c.scene]
               /\ Serve(c, "opened", r, c.scene)

\* Room and seed are there: the room is entered, whatever happened meanwhile.
RoomAnswer(c) ==
    /\ c.op = "opened"
    /\ setRoom(c.room, "admin", c.scene)
    /\ End(c)
    /\ UNCHANGED <<authVars, started, serverVars>>

joinAsGuest ==
    \E r \in live :
        /\ Landing
        /\ Await("join", r, NoScene, TRUE)
        /\ UNCHANGED <<authVars, roomVars, serverVars>>

JoinServed(c) ==
    /\ c.op = "join"
    /\ c.room \in live
    /\ Serve(c, "joined", c.room, NoScene)
    /\ UNCHANGED serverVars

JoinAnswer(c) ==
    /\ c.op = "joined"
    /\ setRoom(c.room, "guest", NoScene)
    /\ End(c)
    /\ UNCHANGED <<authVars, started, serverVars>>

\* From the live list or the catalog, which may be out of date.
enterAsAdmin ==
    \E r \in Rooms \ fresh :
        /\ Landing
        /\ admin # NoUser
        /\ setRoom(r, "admin", NoScene)
        /\ Show(calls, busy)
        /\ Unplug(left)
        /\ UNCHANGED <<authVars, started, serverVars>>

-----------------------------------------------------------------------------
(* In a room.                                                               *)

save ==
    /\ InRoom("admin")
    /\ admin # NoUser
    /\ ~busy
    /\ Await("save", room.id, NoScene, TRUE)
    /\ UNCHANGED <<authVars, roomVars, serverVars>>

\* The room's first save binds it to a new document.
SaveServed(c) ==
    /\ c.op = "save"
    /\ c.room \in live
    /\ \E s \in Scenes :
         /\ IF bound[c.room] = NoScene THEN \A r \in Rooms : bound[r] # s
            ELSE s = bound[c.room]
         /\ bound' = [bound EXCEPT ![c.room] = s]
         /\ Serve(c, "saved", c.room, s)
    /\ UNCHANGED <<fresh, live>>

\* markSceneId: for the room the user is in by now, unless that one has a scene.
SaveAnswer(c) ==
    /\ c.op = "saved"
    /\ room' = IF room # NoRoom /\ room.scene = NoScene THEN [room EXCEPT !.scene = c.scene]
               ELSE room
    /\ End(c)
    /\ UNCHANGED <<authVars, started, serverVars>>

renameDocument ==
    /\ InRoom("admin")
    /\ admin # NoUser
    /\ Await("rename", room.id, room.scene, TRUE)
    /\ UNCHANGED <<authVars, roomVars, serverVars>>

\* A room without a document must still be there; a document needs no room.
RenameServed(c) ==
    /\ c.op = "rename"
    /\ c.scene # NoScene \/ c.room \in live
    /\ Serve(c, "renamed", c.room, c.scene)
    /\ UNCHANGED serverVars

RenameAnswer(c) ==
    /\ c.op = "renamed"
    /\ room' = IF room # NoRoom THEN [room EXCEPT !.title = c.room] ELSE room
    /\ End(c)
    /\ UNCHANGED <<authVars, started, serverVars>>

\* Fire and forget: the user is out at once.
closeRoom ==
    /\ InRoom("admin")
    /\ room' = NoRoom
    /\ IF admin = NoUser THEN Show(calls, busy) /\ UNCHANGED started
       ELSE /\ started < MaxCalls
            /\ started' = started + 1
            /\ Show(calls \cup {[op |-> "close", n |-> started, user |-> admin,
                                 room |-> room.id, scene |-> NoScene, here |-> FALSE]}, busy)
    /\ Unplug(left)
    /\ UNCHANGED <<authVars, serverVars>>

CloseServed(c) ==
    /\ c.op = "close"
    /\ live' = live \ {c.room}
    /\ calls' = calls \ {c}
    /\ UNCHANGED <<authVars, roomVars, busy, started, fresh, bound>>

\* The guest's button.
leaveRoom ==
    /\ InRoom("guest")
    /\ room' = NoRoom
    /\ Show(calls, busy)
    /\ Unplug(left)
    /\ UNCHANGED <<authVars, started, serverVars>>

\* The relay closes the room's socket (4001), or refuses its token when it
\* reconnects (4003).  The socket's handler has then done its work: terminated.
terminate ==
    /\ room # NoRoom
    /\ room' = NoRoom
    /\ Show(calls, busy)
    /\ UNCHANGED <<authVars, left, started, serverVars>>

\* The socket of a room left earlier closes.  If the relay's 4001 crossed the
\* tab's own close, the handler ends whatever room the user is in by now.
LateClose ==
    \E r \in left :
        /\ UNCHANGED room \/ (r \notin live /\ room' = NoRoom)
        /\ Show(calls, busy)
        /\ Unplug(left \ {r})
        /\ UNCHANGED <<authVars, started, serverVars>>

\* Another admin closes a room.
CloseElsewhere ==
    \E r \in live :
        /\ live' = live \ {r}
        /\ UNCHANGED <<authVars, roomVars, busy, calls, started, fresh, bound>>

\* The call fails and the callback's error is shown.
CallFails(c) ==
    /\ c.op # "login"
    /\ UNCHANGED room
    /\ End(c)
    /\ UNCHANGED <<authVars, started, serverVars>>

Answer(c) ==
    \/ LoginAnswer(c) \/ SignOutAnswer(c) \/ RoomAnswer(c) \/ JoinAnswer(c)
    \/ SaveAnswer(c) \/ RenameAnswer(c) \/ CallFails(c)

Served(c) ==
    RoomServed(c) \/ JoinServed(c) \/ SaveServed(c) \/ RenameServed(c) \/ CloseServed(c)

Gesture ==
    \/ SignOut \/ createDocument \/ openScene \/ joinAsGuest \/ enterAsAdmin
    \/ save \/ renameDocument \/ closeRoom \/ leaveRoom

Next ==
    \/ AuthEvent \/ Gesture \/ CloseElsewhere \/ terminate \/ LateClose
    \/ \E c \in calls : Answer(c) \/ Served(c)

\* Firebase reports the initial state, and calls return or fail.
Fairness ==
    /\ WF_vars(seq = 0 /\ AuthEvent)
    /\ WF_vars(\E c \in calls : Answer(c))

Spec == Init /\ [][Next]_vars /\ Fairness
-----------------------------------------------------------------------------
(***************************************************************************)
(* useLatestOnly: "a stale response arriving after a newer auth event"      *)
(* never decides who is signed in.  Unless the exchange for the latest      *)
(* event is still under way, the tab holds the token of Firebase's current  *)
(* user or none.                                                            *)
(***************************************************************************)
LatestAuthWins ==
    (\A c \in calls : ~(c.op = "login" /\ c.n = seq)) => admin \in {user, NoUser}

(***************************************************************************)
(* What the tab records of its room is true of that room: renameDocument    *)
(* addresses the room's own document, and the title shown is the room's.    *)
(***************************************************************************)
RoomIsItself ==
    room # NoRoom =>
        /\ room.scene \in {NoScene, bound[room.id]}
        /\ room.title = room.id

(***************************************************************************)
(* openScene: the room is "seeded from versionId (or the latest saved       *)
(* version)".  The editor, whose scene handleChange writes to the room's    *)
(* document, holds no other room's elements.                                *)
(***************************************************************************)
CanvasIsRooms == room # NoRoom => canvas = {room.id}

(***************************************************************************)
(* The initial check resolves for good, although a superseded exchange      *)
(* returns without a word.                                                  *)
(***************************************************************************)
BecomesReady == <>[]ready
=============================================================================
