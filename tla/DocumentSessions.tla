--------------------------- MODULE DocumentSessions ---------------------------
(***************************************************************************)
(* What the backend keeps to of FR-2.1, FR-2.2 and FR-2.9 (docs/SRS.md),    *)
(* with no index, no handlers and no calls to a store.  A document has at   *)
(* most one session and is erased only if it had none when the deletion was *)
(* admitted.  What the code does not promise shows here as well:            *)
(*  - a document exists before the room of its first save is attached, and  *)
(*    one that is opened in between is loose: it may have two sessions;      *)
(*  - so may a document for which the deprecated creation made a room;      *)
(*  - a session may start between the admission of a deletion and its end.  *)
(***************************************************************************)
EXTENDS Documents

CONSTANT Stored   \* documents saved before this life of the service

VARIABLES
    docs,       \* the documents that exist
    sessions,   \* the rooms open for each document
    fresh,      \* documents whose first save has not been answered
    doomed,     \* documents whose deletion has been admitted
    loose       \* documents of which more than one session may be open

vars == <<docs, sessions, fresh, doomed, loose>>

Init ==
    /\ docs = Stored
    /\ sessions = [s \in Scenes |-> {}]
    /\ fresh = {}
    /\ doomed = {}
    /\ loose = {}

\* A document without sessions and without a first save is no longer loose.
Loosen(S) == loose' = {s \in loose \cup S : sessions'[s] # {} \/ s \in fresh'}

\* A first save persists a document; its answer may already be an error.
Persist(s) ==
    /\ s \notin docs
    /\ sessions[s] = {}
    /\ docs' = docs \cup {s}
    /\ fresh' \in {fresh, fresh \cup {s}}
    /\ Loosen({})
    /\ UNCHANGED <<sessions, doomed>>

\* The room of a first save becomes the document's session.
Attach(s, r) ==
    /\ s \in fresh
    /\ sessions[s] = {} \/ s \in loose
    /\ sessions' = [t \in Scenes |-> IF t = s THEN sessions[s] \cup {r}
                                     ELSE sessions[t] \ {r}]
    /\ Loosen({})
    /\ UNCHANGED <<docs, fresh, doomed>>

\* The first save is answered.
Settle(s) ==
    /\ fresh' = fresh \ {s}
    /\ Loosen({})
    /\ UNCHANGED <<docs, sessions, doomed>>

\* A document is opened.
Start(s, r) ==
    /\ sessions[s] = {} \/ s \in fresh \cup loose
    /\ \A t \in Scenes : r \notin sessions[t]
    /\ sessions' = [sessions EXCEPT ![s] = @ \cup {r}]
    /\ Loosen({s} \cap fresh)
    /\ UNCHANGED <<docs, fresh, doomed>>

\* The deprecated creation of a room with a scene id.
Override(s, r) ==
    /\ \A t \in Scenes : r \notin sessions[t]
    /\ sessions' = [sessions EXCEPT ![s] = @ \cup {r}]
    /\ Loosen({s})
    /\ UNCHANGED <<docs, fresh, doomed>>

\* A room is closed.
End(r) ==
    /\ sessions' = [s \in Scenes |-> sessions[s] \ {r}]
    /\ Loosen({})
    /\ UNCHANGED <<docs, fresh, doomed>>

\* A deletion is admitted, carried out, or given up.
Admit(s) ==
    /\ sessions[s] = {} \/ s \in fresh \cup loose
    /\ doomed' = doomed \cup {s}
    /\ UNCHANGED <<docs, sessions, fresh, loose>>

Erase(s) ==
    /\ s \in doomed
    /\ docs' = docs \ {s}
    /\ doomed' \in {doomed, doomed \ {s}}
    /\ UNCHANGED <<sessions, fresh, loose>>

Dismiss(s) ==
    /\ doomed' = doomed \ {s}
    /\ UNCHANGED <<docs, sessions, fresh, loose>>

\* A restart of the service loses every session and no document.
Lose ==
    /\ sessions' = [s \in Scenes |-> {}]
    /\ fresh' = {}
    /\ doomed' = {}
    /\ loose' = {}
    /\ UNCHANGED docs

Next ==
    \/ Lose
    \/ \E s \in Scenes : Persist(s) \/ Settle(s) \/ Admit(s) \/ Erase(s) \/ Dismiss(s)
    \/ \E s \in Scenes, r \in Rooms : Attach(s, r) \/ Start(s, r) \/ Override(s, r)
    \/ \E r \in Rooms : End(r)

Spec == Init /\ [][Next]_vars
=============================================================================
