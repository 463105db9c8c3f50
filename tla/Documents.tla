------------------------------ MODULE Documents -------------------------------
(***************************************************************************)
(* The values the components of the service exchange.  A document is a      *)
(* persisted scene; a room is the ephemeral live session for one.           *)
(***************************************************************************)
CONSTANTS
    Rooms,      \* room objects
    Scenes,     \* scene identifiers, random and never reused
    Names,      \* document titles
    Untitled,   \* the default title
    Blank,      \* an empty or all-space title in a request
    NoRoom,     \* absence of a room
    NoScene     \* the empty sceneID

ASSUME DocumentsAssumption ==
    /\ NoRoom \notin Rooms
    /\ NoScene \notin Scenes
    /\ Untitled \in Names
    /\ Blank \notin Names
=============================================================================
