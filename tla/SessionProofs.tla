---------------------------- MODULE SessionProofs -----------------------------
(***************************************************************************)
(* Theorems about Session, for any users, rooms, documents and calls: what  *)
(* the tab holds is typed, and a late answer never decides who is signed in.*)
(***************************************************************************)
EXTENDS Session, TLAPS

-----------------------------------------------------------------------------
(* Types.                                                                   *)

\* What a callback has in hand is what it was started with or answered.
InHand ==
    \A c \in calls :
        /\ c.op \in {"join", "save", "rename", "close"} \cup Answered => c.room \in Rooms
        /\ c.op = "saved" => c.scene \in Scenes
TypeInv == TypeOK /\ InHand

\* A callback as the server and the panels leave it: only where it runs is new.
SameCall(c, d) ==
    /\ c.op = d.op /\ c.n = d.n /\ c.user = d.user /\ c.room = d.room /\ c.scene = d.scene

\* Whatever is shown, the callbacks go on.
LEMMA ShowFacts ==
  ASSUME NEW cs \in SUBSET Call, NEW b \in BOOLEAN, Show(cs, b)
  PROVE  /\ calls' \subseteq Call /\ busy' \in BOOLEAN
         /\ \A d \in calls' : \E c \in cs : SameCall(c, d)
         /\ \A c \in cs : \E d \in calls' : SameCall(c, d)
  <1>1. CASE calls' = cs /\ busy' = b
    BY <1>1 DEF SameCall
  <1>2. CASE calls' = {[c EXCEPT !.here = FALSE] : c \in cs} /\ busy' = FALSE
    <2>1. \A c \in cs : [c EXCEPT !.here = FALSE] \in Call /\ SameCall(c, [c EXCEPT !.here = FALSE])
      BY DEF SameCall, Call
    <2> QED
      BY <1>2, <2>1
  <1> QED
    BY <1>1, <1>2 DEF Show

\* The editor holds elements of rooms, and sockets are those of rooms.
LEMMA ShowTyped ==
  ASSUME TypeOK, room' \in ActiveRoom \cup {NoRoom}
  PROVE  /\ editor => canvas' \subseteq Rooms
         /\ \A s \in SUBSET Rooms : Unplug(s) => left' \subseteq Rooms
  <1>1. /\ room # NoRoom => room.id \in Rooms
        /\ room' # NoRoom => room'.id \in Rooms
    BY DEF ActiveRoom, TypeOK
  <1>2. ASSUME editor PROVE canvas' \subseteq Rooms
    BY <1>1, <1>2 DEF editor, TypeOK
  <1>3. ASSUME NEW s \in SUBSET Rooms, Unplug(s) PROVE left' \subseteq Rooms
    BY <1>1, <1>3 DEF Unplug
  <1> QED
    BY <1>2, <1>3

\* A change of what is on the screen keeps the state typed.
LEMMA ShowKeepsTypes ==
  ASSUME TypeInv, NEW cs \in SUBSET Call, NEW b \in BOOLEAN, Show(cs, b),
         NEW s \in SUBSET Rooms, left' = left \/ Unplug(s),
         room' \in ActiveRoom \cup {NoRoom},
         UNCHANGED serverVars, seq' \in Nat, {user', admin'} \subseteq Users \cup {NoUser},
         ready' \in BOOLEAN, started' \in 0..MaxCalls,
         \A c \in cs : c \in calls \/ (c.op = "close" /\ c.room \in Rooms)
  PROVE  TypeInv'
  <1>1. /\ calls' \subseteq Call /\ busy' \in BOOLEAN
        /\ \A d \in calls' : \E c \in cs : SameCall(c, d)
    BY ShowFacts
  <1>2. canvas' \subseteq Rooms /\ left' \subseteq Rooms
    BY ShowTyped DEF Show, TypeInv, TypeOK
  <1>3. InHand'
    BY <1>1 DEF TypeInv, InHand, SameCall, Answered
  <1> QED
    BY <1>1, <1>2, <1>3 DEF TypeInv, TypeOK, serverVars
\* A gesture that waits for an answer keeps the state typed.
LEMMA AwaitKeepsTypes ==
  ASSUME TypeInv, NEW op \in Asked, NEW r \in Rooms \cup {NoRoom},
         NEW s \in Scenes \cup {NoScene}, NEW run \in BOOLEAN, Await(op, r, s, run),
         op \in {"join", "save", "rename", "close"} => r \in Rooms,
         UNCHANGED <<authVars, roomVars, serverVars>>
  PROVE  TypeInv'
  <1> DEFINE new == [op |-> op, n |-> started, user |-> admin, room |-> r, scene |-> s,
                     here |-> run]
  <1>1. calls' = calls \cup {new} /\ started' = started + 1 /\ started < MaxCalls
        /\ busy' = (busy \/ run)
    BY DEF Await
  <1>2. new \in Call
    BY DEF Call, TypeInv, TypeOK
  <1>3. started' \in 0..MaxCalls /\ busy' \in BOOLEAN
    BY <1>1, SessionAssumption DEF TypeInv, TypeOK
  <1>4. new.op = op /\ new.room = r
    OBVIOUS
  <1> HIDE DEF new
  <1>5. InHand'
    BY <1>1, <1>4 DEF TypeInv, InHand, Asked, Answered
  <1> QED
    BY <1>1, <1>2, <1>3, <1>5 DEF TypeInv, TypeOK, authVars, roomVars, serverVars

\* The server's answer puts a room, or a document, in the callback's hand.
LEMMA ServeKeepsTypes ==
  ASSUME TypeInv, NEW c \in calls, NEW answer \in Answered, NEW r \in Rooms,
         NEW s \in Scenes \cup {NoScene}, Serve(c, answer, r, s),
         answer = "saved" => s \in Scenes
  PROVE  /\ InHand' /\ calls' \subseteq Call
         /\ UNCHANGED <<authVars, roomVars, busy, started>>
  <1> DEFINE new == [c EXCEPT !.op = answer, !.room = r, !.scene = s]
  <1>1. calls' = (calls \ {c}) \cup {new}
    BY DEF Serve
  <1>2. c \in Call
    BY DEF TypeInv, TypeOK
  <1>3. new \in Call /\ new.op = answer /\ new.room = r /\ new.scene = s
    BY <1>2 DEF Call
  <1>4. UNCHANGED <<authVars, roomVars, busy, started>>
    BY DEF Serve
  <1> HIDE DEF new
  <1>5. InHand'
    BY <1>1, <1>3 DEF TypeInv, InHand
  <1> QED
    BY <1>1, <1>3, <1>4, <1>5 DEF TypeInv, TypeOK

\* The initial state is typed.
LEMMA TypeInit == Init => TypeInv
  <1>1. 0 \in 0..MaxCalls
    BY SessionAssumption
  <1>2. Init => bound \in [Rooms -> Scenes \cup {NoScene}]
    BY DEF Init
  <1> QED
    <2> SUFFICES ASSUME Init PROVE TypeInv
      OBVIOUS
    <2>1. live \subseteq Rooms \ fresh /\ started \in 0..MaxCalls /\ seq \in Nat
      BY <1>1 DEF Init
    <2> QED
      BY <1>2, <2>1 DEF Init, TypeInv, TypeOK, InHand

\* A callback that ends keeps the state typed, if the room is.
LEMMA EndKeepsTypes ==
  ASSUME TypeInv, NEW c \in calls, End(c), room' \in ActiveRoom \cup {NoRoom},
         UNCHANGED <<started, serverVars>>, seq' \in Nat,
         {user', admin'} \subseteq Users \cup {NoUser}, ready' \in BOOLEAN
  PROVE  TypeInv'
  <1>1. /\ calls \ {c} \subseteq Call /\ left \subseteq Rooms /\ c \in Call
        /\ busy \in BOOLEAN /\ started \in 0..MaxCalls
    BY DEF TypeInv, TypeOK
  <1>2. (busy /\ ~c.here) \in BOOLEAN
    OBVIOUS
  <1> QED
    BY <1>1, <1>2, ShowKeepsTypes DEF End

\* A step keeps the state typed.
LEMMA TypeNext ==
  ASSUME TypeInv, [Next]_vars
  PROVE  TypeInv'
  <1>0. TypeOK
    BY DEF TypeInv
  <1>1. ASSUME NEW u \in Users \cup {NoUser}, Notify(u)
        PROVE  seq' \in Nat /\ user' = u /\ admin' \in Users \cup {NoUser} /\ ready' \in BOOLEAN
    <2>1. seq \in Nat /\ admin \in Users \cup {NoUser} /\ ready \in BOOLEAN
      BY <1>0 DEF TypeOK
    <2>2. CASE u = NoUser
      BY <1>1, <2>1, <2>2 DEF Notify
    <2>3. CASE u # NoUser
      BY <1>1, <2>1, <2>3 DEF Notify
    <2> QED
      BY <2>2, <2>3
  <1>2. CASE AuthEvent
    <2>1. PICK u \in Users \cup {NoUser} :
             /\ Notify(u)
             /\ calls' = IF u = NoUser THEN calls
                         ELSE calls \cup {[op |-> "login", n |-> seq + 1, user |-> u,
                                           room |-> NoRoom, scene |-> NoScene, here |-> FALSE]}
      BY <1>2 DEF AuthEvent
    <2> DEFINE new == [op |-> "login", n |-> seq + 1, user |-> u,
                       room |-> NoRoom, scene |-> NoScene, here |-> FALSE]
    <2>2. new \in Call /\ new.op = "login"
      BY <1>0 DEF Call, Asked, TypeOK
    <2>3. calls' = calls \/ calls' = calls \cup {new}
      BY <2>1
    <2> HIDE DEF new
    <2>4. InHand' /\ calls' \subseteq Call
      BY <2>2, <2>3 DEF TypeInv, TypeOK, InHand, Answered
    <2>5. UNCHANGED <<roomVars, busy, started, serverVars>>
      BY <1>2 DEF AuthEvent
    <2> QED
      BY <1>0, <1>1, <2>1, <2>4, <2>5 DEF TypeInv, TypeOK, roomVars, serverVars
  <1>3. CASE SignOut
    BY <1>3, AwaitKeepsTypes DEF SignOut, Asked
  <1>4. CASE createDocument
    BY <1>4, AwaitKeepsTypes DEF createDocument, Asked
  <1>5. CASE openScene
    BY <1>5, AwaitKeepsTypes DEF openScene, Asked
  <1>6. CASE joinAsGuest
    BY <1>0, <1>6, AwaitKeepsTypes DEF joinAsGuest, Asked, TypeOK
  <1>7. CASE enterAsAdmin
    <2>1. room' \in ActiveRoom
      BY <1>0, <1>7 DEF enterAsAdmin, setRoom, ActiveRoom
    <2> QED
      BY <1>0, <1>7, <2>1, ShowKeepsTypes DEF enterAsAdmin, authVars, TypeOK
  <1>8. CASE save
    <2>1. room.id \in Rooms
      BY <1>0, <1>8 DEF save, InRoom, ActiveRoom, TypeOK
    <2> QED
      BY <1>8, <2>1, AwaitKeepsTypes DEF save, Asked
  <1>9. CASE renameDocument
    <2>1. room.id \in Rooms /\ room.scene \in Scenes \cup {NoScene}
      BY <1>0, <1>9 DEF renameDocument, InRoom, ActiveRoom, TypeOK
    <2> QED
      BY <1>9, <2>1, AwaitKeepsTypes DEF renameDocument, Asked
  <1>10. CASE closeRoom
    <2>1. room.id \in Rooms
      BY <1>0, <1>10 DEF closeRoom, InRoom, ActiveRoom, TypeOK
    <2>2. CASE admin = NoUser
      BY <1>0, <1>10, <2>2, ShowKeepsTypes DEF closeRoom, authVars, TypeOK
    <2>3. CASE admin # NoUser
      <3> DEFINE new == [op |-> "close", n |-> started, user |-> admin, room |-> room.id,
                         scene |-> NoScene, here |-> FALSE]
                 cs == calls \cup {new}
      <3>1. new \in Call /\ new.op = "close" /\ new.room \in Rooms
        BY <1>0, <2>1, SessionAssumption DEF Call, Asked, TypeOK
      <3>2. /\ room' = NoRoom /\ started' = started + 1 /\ started < MaxCalls
            /\ Show(cs, busy) /\ Unplug(left) /\ UNCHANGED <<authVars, serverVars>>
        BY <1>10, <2>3 DEF closeRoom
      <3> HIDE DEF new
      <3>3. cs \subseteq Call /\ \A c \in cs : c \in calls \/ (c.op = "close" /\ c.room \in Rooms)
        BY <1>0, <3>1 DEF TypeOK
      <3>4. started' \in 0..MaxCalls
        BY <1>0, <3>2, SessionAssumption DEF TypeOK
      <3> HIDE DEF cs
      <3> QED
        BY <1>0, <3>2, <3>3, <3>4, ShowKeepsTypes DEF authVars, TypeOK
    <2> QED
      BY <2>2, <2>3
  <1>11. CASE leaveRoom
    BY <1>0, <1>11, ShowKeepsTypes DEF leaveRoom, authVars, TypeOK
  <1>12. CASE CloseElsewhere
    BY <1>12 DEF CloseElsewhere, TypeInv, TypeOK, InHand, authVars, roomVars
  <1>13. CASE terminate
    BY <1>0, <1>13, ShowKeepsTypes DEF terminate, authVars, TypeOK
  <1>14. CASE LateClose
    <2>1. PICK q \in left : Unplug(left \ {q})
      BY <1>14 DEF LateClose
    <2>2. room' \in {room, NoRoom} /\ Show(calls, busy) /\ UNCHANGED <<authVars, started, serverVars>>
      BY <1>14 DEF LateClose
    <2>3. left \ {q} \in SUBSET Rooms
      BY <1>0 DEF TypeOK
    <2> QED
      BY <1>0, <2>1, <2>2, <2>3, ShowKeepsTypes DEF authVars, TypeOK
  <1>15. ASSUME NEW c \in calls, LoginAnswer(c) PROVE TypeInv'
    <2>1. c.user \in Users \cup {NoUser}
      BY <1>0 DEF Call, TypeOK
    <2> QED
      BY <1>15, <2>1 DEF LoginAnswer, TypeInv, TypeOK, InHand, roomVars, serverVars
  <1>16. ASSUME NEW c \in calls, SignOutAnswer(c) PROVE TypeInv'
    <2>1. /\ seq' \in Nat /\ {user', admin'} \subseteq Users \cup {NoUser} /\ ready' \in BOOLEAN
      BY <1>0, <1>1, <1>16 DEF SignOutAnswer, TypeOK
    <2> QED
      BY <1>0, <1>16, <2>1, EndKeepsTypes DEF SignOutAnswer, TypeOK
  <1>17. ASSUME NEW c \in calls, RoomAnswer(c) PROVE TypeInv'
    <2>1. c.room \in Rooms /\ c.scene \in Scenes \cup {NoScene}
      BY <1>17 DEF RoomAnswer, TypeInv, InHand, Answered, TypeOK, Call
    <2>2. room' \in ActiveRoom
      BY <1>17, <2>1 DEF RoomAnswer, setRoom, ActiveRoom
    <2> QED
      BY <1>0, <1>17, <2>2, EndKeepsTypes DEF RoomAnswer, authVars, TypeOK
  <1>18. ASSUME NEW c \in calls, JoinAnswer(c) PROVE TypeInv'
    <2>1. c.room \in Rooms
      BY <1>18 DEF JoinAnswer, TypeInv, InHand, Answered
    <2>2. room' \in ActiveRoom
      BY <1>18, <2>1 DEF JoinAnswer, setRoom, ActiveRoom
    <2> QED
      BY <1>0, <1>18, <2>2, EndKeepsTypes DEF JoinAnswer, authVars, TypeOK
  <1>19. ASSUME NEW c \in calls, SaveAnswer(c) PROVE TypeInv'
    <2>1. c.scene \in Scenes
      BY <1>19 DEF SaveAnswer, TypeInv, InHand
    <2>2. room' \in ActiveRoom \cup {NoRoom}
      BY <1>0, <1>19, <2>1 DEF SaveAnswer, ActiveRoom, TypeOK
    <2> QED
      BY <1>0, <1>19, <2>2, EndKeepsTypes DEF SaveAnswer, authVars, TypeOK
  <1>20. ASSUME NEW c \in calls, RenameAnswer(c) PROVE TypeInv'
    <2>1. c.room \in Rooms
      BY <1>20 DEF RenameAnswer, TypeInv, InHand, Answered
    <2>2. room' \in ActiveRoom \cup {NoRoom}
      BY <1>0, <1>20, <2>1 DEF RenameAnswer, ActiveRoom, TypeOK
    <2> QED
      BY <1>0, <1>20, <2>2, EndKeepsTypes DEF RenameAnswer, authVars, TypeOK
  <1>21. ASSUME NEW c \in calls, CallFails(c) PROVE TypeInv'
    BY <1>0, <1>21, EndKeepsTypes DEF CallFails, authVars, TypeOK
  <1>22. ASSUME NEW c \in calls, RoomServed(c) PROVE TypeInv'
    <2>0. c.scene \in Scenes \cup {NoScene}
      BY <1>0 DEF Call, TypeOK
    <2>1. CASE \E r \in live : Serve(c, "opened", r, c.scene) /\ UNCHANGED serverVars
      <3>1. PICK r \in Rooms : Serve(c, "opened", r, c.scene) /\ UNCHANGED serverVars
        BY <1>0, <2>1 DEF TypeOK
      <3>2. InHand' /\ calls' \subseteq Call /\ UNCHANGED <<authVars, roomVars, busy, started>>
        BY <2>0, <3>1, ServeKeepsTypes DEF Answered
      <3> QED
        BY <1>0, <3>1, <3>2 DEF TypeInv, TypeOK, authVars, roomVars, serverVars
    <2>2. CASE \E r \in fresh :
                 /\ fresh' = fresh \ {r}
                 /\ live' = live \cup {r}
                 /\ bound' = [bound EXCEPT ![r] = c.scene]
                 /\ Serve(c, "opened", r, c.scene)
      <3>1. PICK r \in fresh :
                 /\ fresh' = fresh \ {r}
                 /\ live' = live \cup {r}
                 /\ bound' = [bound EXCEPT ![r] = c.scene]
                 /\ Serve(c, "opened", r, c.scene)
        BY <2>2
      <3>2. r \in Rooms
        BY <1>0 DEF TypeOK
      <3>3. InHand' /\ calls' \subseteq Call /\ UNCHANGED <<authVars, roomVars, busy, started>>
        BY <2>0, <3>1, <3>2, ServeKeepsTypes DEF Answered
      <3>4. fresh' \subseteq Rooms /\ live' \subseteq Rooms \ fresh'
            /\ bound' \in [Rooms -> Scenes \cup {NoScene}]
        BY <1>0, <2>0, <3>1, <3>2 DEF TypeOK
      <3> QED
        BY <1>0, <3>3, <3>4 DEF TypeInv, TypeOK, authVars, roomVars
    <2> QED
      BY <1>22, <2>1, <2>2 DEF RoomServed
  <1>23. ASSUME NEW c \in calls, JoinServed(c) PROVE TypeInv'
    <2>1. c.room \in Rooms /\ Serve(c, "joined", c.room, NoScene) /\ UNCHANGED serverVars
      BY <1>0, <1>23 DEF JoinServed, TypeOK
    <2>2. InHand' /\ calls' \subseteq Call /\ UNCHANGED <<authVars, roomVars, busy, started>>
      BY <2>1, ServeKeepsTypes DEF Answered
    <2> QED
      BY <1>0, <2>1, <2>2 DEF TypeInv, TypeOK, authVars, roomVars, serverVars
  <1>24. ASSUME NEW c \in calls, SaveServed(c) PROVE TypeInv'
    <2>1. PICK s \in Scenes :
            bound' = [bound EXCEPT ![c.room] = s] /\ Serve(c, "saved", c.room, s)
      BY <1>24 DEF SaveServed
    <2>2. c.room \in Rooms /\ UNCHANGED <<fresh, live>>
      BY <1>0, <1>24 DEF SaveServed, TypeOK
    <2>3. InHand' /\ calls' \subseteq Call /\ UNCHANGED <<authVars, roomVars, busy, started>>
      BY <2>1, <2>2, ServeKeepsTypes DEF Answered
    <2>4. bound' \in [Rooms -> Scenes \cup {NoScene}]
      BY <1>0, <2>1 DEF TypeOK
    <2> QED
      BY <1>0, <2>2, <2>3, <2>4 DEF TypeInv, TypeOK, authVars, roomVars
  <1>25. ASSUME NEW c \in calls, RenameServed(c) PROVE TypeInv'
    <2>1. c.scene \in Scenes \cup {NoScene} /\ c.room \in Rooms
      BY <1>25 DEF RenameServed, TypeInv, InHand, TypeOK, Call
    <2>2. Serve(c, "renamed", c.room, c.scene) /\ UNCHANGED serverVars
      BY <1>25 DEF RenameServed
    <2>3. InHand' /\ calls' \subseteq Call /\ UNCHANGED <<authVars, roomVars, busy, started>>
      BY <2>1, <2>2, ServeKeepsTypes DEF Answered
    <2> QED
      BY <1>0, <2>2, <2>3 DEF TypeInv, TypeOK, authVars, roomVars, serverVars
  <1>26. ASSUME NEW c \in calls, CloseServed(c) PROVE TypeInv'
    BY <1>26 DEF CloseServed, TypeInv, TypeOK, InHand, authVars, roomVars
  <1>27. CASE UNCHANGED vars
    BY <1>27 DEF vars, TypeInv, TypeOK, InHand
  <1> QED
    BY <1>2, <1>3, <1>4, <1>5, <1>6, <1>7, <1>8, <1>9, <1>10, <1>11, <1>12, <1>13, <1>14,
       <1>15, <1>16, <1>17, <1>18, <1>19, <1>20, <1>21, <1>22, <1>23, <1>24, <1>25, <1>26, <1>27
    DEF Next, Gesture, Answer, Served
(***************************************************************************)
(* What the tab holds and what its callbacks have in hand is typed: a room  *)
(* is never entered before it has an id.                                    *)
(***************************************************************************)
THEOREM SessionTypeCorrect == Spec => []TypeOK
  <1>1. TypeInv => TypeOK
    BY DEF TypeInv
  <1> QED
    BY <1>1, TypeInit, TypeNext, PTL DEF Spec

-----------------------------------------------------------------------------
(* The latest event decides.                                                *)

\* An exchange has the number of its event, the latest one is for Firebase's
\* current user, and until it returns the tab may hold what it held before.
Logins == {c \in calls : c.op = "login"}
AuthInv ==
    /\ \A c \in Logins : c.n <= seq /\ (c.n = seq => c.user = user)
    /\ LatestAuthWins

\* Nobody has been reported at first.
LEMMA AuthInit == Init => AuthInv
  BY DEF Init, AuthInv, LatestAuthWins, Logins

\* As long as nobody signs in or out, other callbacks may come and go.
LEMMA AuthKept ==
  ASSUME AuthInv, UNCHANGED <<user, seq, admin>>,
         \A c \in calls : c.op = "login" => \E d \in calls' : SameCall(c, d),
         \A d \in calls' : d.op = "login" => \E c \in calls : SameCall(c, d)
  PROVE  AuthInv'
  BY DEF AuthInv, LatestAuthWins, Logins, SameCall

\* Another callback ends.
LEMMA EndKeepsLogins ==
  ASSUME TypeInv, NEW c \in calls, c.op # "login", End(c)
  PROVE  /\ \A b \in calls : b.op = "login" => \E d \in calls' : SameCall(b, d)
         /\ \A d \in calls' : d.op = "login" => \E b \in calls : SameCall(b, d)
  <1>1. /\ calls \ {c} \subseteq Call /\ (busy /\ ~c.here) \in BOOLEAN
    BY DEF TypeInv, TypeOK
  <1>2. /\ \A d \in calls' : \E b \in calls \ {c} : SameCall(b, d)
        /\ \A b \in calls \ {c} : \E d \in calls' : SameCall(b, d)
    BY <1>1, ShowFacts DEF End
  <1> QED
    BY <1>2

\* The screen changes.
LEMMA ShowKeepsLogins ==
  ASSUME TypeInv, Show(calls, busy)
  PROVE  /\ \A c \in calls : \E d \in calls' : SameCall(c, d)
         /\ \A d \in calls' : \E c \in calls : SameCall(c, d)
  BY ShowFacts DEF TypeInv, TypeOK

\* A gesture adds no login.
LEMMA AwaitKeepsLogins ==
  ASSUME NEW op \in Asked \ {"login"}, NEW r, NEW s, NEW run, Await(op, r, s, run)
  PROVE  /\ \A c \in calls : c \in calls'
         /\ \A d \in calls' : d.op = "login" => d \in calls
  BY DEF Await

\* Nor does the server.
LEMMA ServeKeepsLogins ==
  ASSUME TypeInv, NEW c \in calls, c.op # "login", NEW answer \in Answered, NEW r, NEW s,
         Serve(c, answer, r, s)
  PROVE  /\ \A b \in calls : b.op = "login" => b \in calls'
         /\ \A d \in calls' : d.op = "login" => d \in calls
         /\ UNCHANGED <<user, seq, admin>>
  <1> DEFINE new == [c EXCEPT !.op = answer, !.room = r, !.scene = s]
  <1>1. c \in Call
    BY DEF TypeInv, TypeOK
  <1>2. new.op # "login"
    BY <1>1 DEF Call, Answered
  <1> HIDE DEF new
  <1>3. calls' = (calls \ {c}) \cup {new} /\ UNCHANGED <<user, seq, admin>>
    BY DEF Serve, authVars, new
  <1> QED
    BY <1>2, <1>3

\* Every step keeps the latest event's word.
LEMMA AuthNext ==
  ASSUME TypeInv, AuthInv, [Next]_vars
  PROVE  AuthInv'
  <1> USE DEF SameCall
  <1>0. /\ seq \in Nat /\ calls \subseteq Call
        /\ \A c \in Call : c.n \in Nat
    BY DEF TypeInv, TypeOK, Call
  <1>1. CASE AuthEvent
    <2>1. PICK u \in Users \cup {NoUser} :
             /\ Notify(u)
             /\ calls' = IF u = NoUser THEN calls
                         ELSE calls \cup {[op |-> "login", n |-> seq + 1, user |-> u,
                                           room |-> NoRoom, scene |-> NoScene, here |-> FALSE]}
      BY <1>1 DEF AuthEvent
    <2>2. seq' = seq + 1 /\ user' = u
      BY <2>1 DEF Notify
    <2>3. \A c \in Logins : c.n <= seq /\ c.n \in Nat
      BY <1>0 DEF AuthInv, Logins
    <2>4. CASE u = NoUser
      <3>1. calls' = calls /\ admin' = NoUser
        BY <2>1, <2>4 DEF Notify
      <3>2. \A c \in Logins : c.n <= seq' /\ c.n # seq'
        BY <1>0, <2>2, <2>3
      <3> QED
        BY <3>1, <3>2 DEF AuthInv, LatestAuthWins, Logins
    <2>5. CASE u # NoUser
      <3> DEFINE new == [op |-> "login", n |-> seq + 1, user |-> u,
                         room |-> NoRoom, scene |-> NoScene, here |-> FALSE]
      <3>1. calls' = calls \cup {new}
        BY <2>1, <2>5
      <3>2. new.op = "login" /\ new.n = seq' /\ new.user = user'
        BY <2>2
      <3> HIDE DEF new
      <3>3. \A c \in Logins : c.n <= seq' /\ c.n # seq'
        BY <1>0, <2>2, <2>3
      <3>4. \A c \in Logins' : c.n <= seq' /\ (c.n = seq' => c.user = user')
        BY <1>0, <2>2, <3>1, <3>2, <3>3 DEF Logins
      <3>5. LatestAuthWins'
        BY <3>1, <3>2 DEF LatestAuthWins
      <3> QED
        BY <3>4, <3>5 DEF AuthInv
    <2> QED
      BY <2>4, <2>5
  <1>2. CASE SignOut
    BY <1>2, AuthKept, AwaitKeepsLogins DEF SignOut, authVars, Asked
  <1>3. CASE createDocument
    BY <1>3, AuthKept, AwaitKeepsLogins DEF createDocument, authVars, Asked
  <1>4. CASE openScene
    BY <1>4, AuthKept, AwaitKeepsLogins DEF openScene, authVars, Asked
  <1>5. CASE joinAsGuest
    BY <1>5, AuthKept, AwaitKeepsLogins DEF joinAsGuest, authVars, Asked
  <1>6. CASE enterAsAdmin
    BY <1>6, AuthKept, ShowKeepsLogins DEF enterAsAdmin, authVars
  <1>7. CASE save
    BY <1>7, AuthKept, AwaitKeepsLogins DEF save, authVars, Asked
  <1>8. CASE renameDocument
    BY <1>8, AuthKept, AwaitKeepsLogins DEF renameDocument, authVars, Asked
  <1>9. CASE closeRoom
    <2>0. UNCHANGED <<user, seq, admin>>
      BY <1>9 DEF closeRoom, authVars
    <2>1. CASE admin = NoUser
      BY <1>9, <2>0, <2>1, AuthKept, ShowKeepsLogins DEF closeRoom
    <2>2. CASE admin # NoUser
      <3> DEFINE new == [op |-> "close", n |-> started, user |-> admin, room |-> room.id,
                         scene |-> NoScene, here |-> FALSE]
                 cs == calls \cup {new}
      <3>1. InRoom("admin") /\ Show(cs, busy)
        BY <1>9, <2>2 DEF closeRoom
      <3>2. new \in Call /\ new.op = "close" /\ busy \in BOOLEAN
        BY <3>1, SessionAssumption DEF Call, Asked, InRoom, ActiveRoom, TypeInv, TypeOK
      <3> HIDE DEF new
      <3>3. cs \subseteq Call
        BY <1>0, <3>2
      <3>4. /\ \A d \in calls' : \E c \in cs : SameCall(c, d)
            /\ \A c \in cs : \E d \in calls' : SameCall(c, d)
        BY <3>1, <3>2, <3>3, ShowFacts
      <3> QED
        BY <2>0, <3>2, <3>4, AuthKept
    <2> QED
      BY <2>1, <2>2
  <1>10. CASE leaveRoom
    BY <1>10, AuthKept, ShowKeepsLogins DEF leaveRoom, authVars
  <1>11. CASE CloseElsewhere
    BY <1>11, AuthKept DEF CloseElsewhere, authVars
  <1>12. CASE terminate
    BY <1>12, AuthKept, ShowKeepsLogins DEF terminate, authVars
  <1>13. CASE LateClose
    BY <1>13, AuthKept, ShowKeepsLogins DEF LateClose, authVars
  <1>14. ASSUME NEW c \in calls, LoginAnswer(c) PROVE AuthInv'
    <2>1. c.op = "login" /\ calls' = calls \ {c} /\ UNCHANGED <<user, seq>>
      BY <1>14 DEF LoginAnswer
    <2>2. CASE c.n # seq
      BY <1>14, <2>1, <2>2 DEF LoginAnswer, AuthInv, LatestAuthWins, Logins
    <2>3. CASE c.n = seq
      <3>1. c.user = user /\ admin' \in {c.user, NoUser}
        BY <1>14, <2>1, <2>3 DEF LoginAnswer, AuthInv, Logins
      <3> QED
        BY <2>1, <3>1 DEF AuthInv, LatestAuthWins, Logins
    <2> QED
      BY <2>2, <2>3
  <1>15. ASSUME NEW c \in calls, SignOutAnswer(c) PROVE AuthInv'
    <2>1. c.op # "login" /\ End(c) /\ admin' = NoUser
      BY <1>15 DEF SignOutAnswer, Notify
    <2>2. /\ \A b \in calls : b.op = "login" => \E d \in calls' : SameCall(b, d)
          /\ \A d \in calls' : d.op = "login" => \E b \in calls : SameCall(b, d)
      BY <2>1, EndKeepsLogins
    <2>3. (user' = user /\ seq' = seq) \/ seq' = seq + 1
      BY <1>15 DEF SignOutAnswer, Notify
    <2>4. \A d \in Logins' : d.n <= seq' /\ (d.n = seq' => d.user = user')
      <3>1. \A d \in Logins' : d.n \in Nat /\ d.n <= seq /\ (d.n = seq => d.user = user)
        BY <1>0, <2>2 DEF Logins, AuthInv
      <3> QED
        BY <1>0, <2>3, <3>1
    <2> QED
      BY <2>1, <2>4 DEF AuthInv, LatestAuthWins
  <1>16. ASSUME NEW c \in calls,
               RoomAnswer(c) \/ JoinAnswer(c) \/ SaveAnswer(c) \/ RenameAnswer(c) \/ CallFails(c)
         PROVE AuthInv'
    <2>1. c.op # "login" /\ End(c) /\ UNCHANGED <<user, seq, admin>>
      BY <1>16 DEF RoomAnswer, JoinAnswer, SaveAnswer, RenameAnswer, CallFails, authVars
    <2> QED
      BY <2>1, AuthKept, EndKeepsLogins
  <1>17. ASSUME NEW c \in calls,
               RoomServed(c) \/ JoinServed(c) \/ SaveServed(c) \/ RenameServed(c)
         PROVE AuthInv'
    <2>1. c.op # "login" /\ \E answer \in Answered, r \in Rooms, s \in Scenes \cup {NoScene} :
                               Serve(c, answer, r, s)
      <3>1. /\ c.room \in Rooms \cup {NoRoom} /\ c.scene \in Scenes \cup {NoScene}
            /\ live \subseteq Rooms /\ fresh \subseteq Rooms
            /\ c.op = "rename" => c.room \in Rooms
        BY DEF TypeInv, TypeOK, InHand, Call
      <3>2. CASE RoomServed(c)
        BY <3>1, <3>2 DEF RoomServed, Answered
      <3>3. CASE JoinServed(c)
        BY <3>1, <3>3 DEF JoinServed, Answered
      <3>4. CASE SaveServed(c)
        BY <3>1, <3>4 DEF SaveServed, Answered
      <3>5. CASE RenameServed(c)
        BY <3>1, <3>5 DEF RenameServed, Answered
      <3> QED
        BY <1>17, <3>2, <3>3, <3>4, <3>5
    <2> QED
      BY <2>1, AuthKept, ServeKeepsLogins
  <1>18. ASSUME NEW c \in calls, CloseServed(c) PROVE AuthInv'
    BY <1>18, AuthKept DEF CloseServed, authVars
  <1>19. CASE UNCHANGED vars
    BY <1>19, AuthKept DEF vars
  <1> QED
    BY <1>1, <1>2, <1>3, <1>4, <1>5, <1>6, <1>7, <1>8, <1>9, <1>10, <1>11, <1>12, <1>13, <1>14,
       <1>15, <1>16, <1>17, <1>18, <1>19
    DEF Next, Gesture, Answer, Served

(***************************************************************************)
(* useLatestOnly: "a stale response arriving after a newer auth event"      *)
(* never decides who is signed in: unless the exchange for the latest event *)
(* is still under way, the tab holds the current user's token or none.      *)
(***************************************************************************)
THEOREM LatestAuthAlwaysWins == Spec => []LatestAuthWins
  <1>1. Init => TypeInv /\ AuthInv
    BY TypeInit, AuthInit
  <1>2. TypeInv /\ AuthInv /\ [Next]_vars => (TypeInv /\ AuthInv)'
    BY TypeNext, AuthNext
  <1>3. AuthInv => LatestAuthWins
    BY DEF AuthInv
  <1> QED
    BY <1>1, <1>2, <1>3, PTL DEF Spec
=============================================================================
