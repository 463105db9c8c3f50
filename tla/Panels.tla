-------------------------------- MODULE Panels --------------------------------
(***************************************************************************)
(* The landing page of one signed-in admin: the polled list of live rooms   *)
(* (DocumentsPanel.tsx), the catalog of saved documents with its detail     *)
(* pane and forms (DocumentCatalogModal.tsx) and the pane's version history *)
(* (VersionHistory.tsx).  What is read is served at one moment and applied  *)
(* at another; other admins change the documents meanwhile.                 *)
(*                                                                         *)
(* A list is represented by the moment it was read at: an index of past.    *)
(* Titles, participant counts and error texts are left out; an empty list   *)
(* shown because the first poll failed counts as no list.                   *)
(***************************************************************************)
EXTENDS Naturals, Sequences, FiniteSets

CONSTANTS
    Docs,       \* scene ids
    Stored,     \* the documents that are there at the beginning
    Rooms,      \* room ids
    None,
    MaxChanges, \* changes of the documents and rooms (a bound)
    MaxPolls,   \* polls under way when another one is started (a bound)
    MaxReads,   \* other reads under way when the token is replaced (a bound)
    MaxActs     \* actions under way when another one is started (a bound)

ASSUME PanelsAssumption ==
    /\ Stored \subseteq Docs
    /\ Docs \cap Rooms = {}
    /\ None \notin Docs \cup Rooms
    /\ {"fresh", "draft", "closed"} \cap Docs = {}
    /\ {MaxChanges, MaxPolls, MaxReads, MaxActs} \subseteq Nat

VARIABLES
    past,       \* server: its states so far, the last one is the present
    list,       \* the live list shown (rooms): when it was read, or 0
    reads,      \* reads under way
    catalog,    \* the catalog is open
    scenes,     \* the saved documents shown in it: when they were read, or 0
    sel,        \* selectedId
    form,       \* renaming or confirmingDelete, and the entry it was opened on
    versions,   \* the history shown: of which document, and when it was read
    busy,       \* useAsyncAction of the catalog
    acts        \* actions under way

vars == <<past, list, reads, catalog, scenes, sel, form, versions, busy, acts>>

Server == [docs : [Docs -> {"fresh", "saved", "deleted"}],
           rooms : [Rooms -> Docs \cup {"fresh", "draft", "closed"}]]
Now == past[Len(past)]

\* doc: whose history is read; since: when the read began, it is served at some
\* moment from then on; valid: isCurrent for the live list, ~cancelled for a
\* history.
Read == [of : {"rooms", "scenes", "versions"}, doc : Docs \cup {None},
         since : 1..MaxChanges + 1, valid : BOOLEAN]

\* doc: what is renamed or deleted; here: the component that started it, and
\* shows that it is busy, is mounted.
Act == [op : {"open", "rename", "delete", "restore"}, doc : Docs \cup {None},
        done : BOOLEAN, here : BOOLEAN]

NoForm == [kind |-> "none", on |-> None]
NoVersions == [doc |-> None, at |-> 0]

TypeOK ==
    /\ past \in Seq(Server)
    /\ Len(past) \in 1..MaxChanges + 1
    /\ list \in 0..Len(past)
    /\ reads \subseteq Read
    /\ catalog \in BOOLEAN
    /\ scenes \in 0..Len(past)
    /\ sel \in Docs \cup Rooms \cup {None}
    /\ form \in [kind : {"none", "rename", "delete"}, on : Docs \cup {None}]
    /\ versions \in [doc : Docs \cup {None}, at : 0..Len(past)]
    /\ busy \in BOOLEAN
    /\ acts \subseteq Act

Load(of, d) == [of |-> of, doc |-> d, since |-> Len(past), valid |-> TRUE]
Served(r) == r.since..Len(past)
Cancel(rs, kind) == {IF r.of = kind THEN [r EXCEPT !.valid = FALSE] ELSE r : r \in rs}

\* What a component that is gone has started has nothing to set any more and is
\* forgotten (what a rename or a deletion does to the server, ServerStep does
\* too), except that opening a document will still enter its room.
Forget(rs, kinds) == {r \in rs : r.of \notin kinds}
Unmounted(as, ops) ==
    {a \in as : a.op \notin ops}
    \cup {[a EXCEPT !.op = "open", !.here = FALSE] : a \in {b \in as : b.op \in ops /\ b.doc = None}}

Init ==
    /\ \E rs \in [Rooms -> Stored \cup {"fresh", "draft"}] :
         /\ \A q, r \in Rooms : q # r /\ rs[q] = rs[r] => rs[q] \notin Docs
         /\ past = <<[docs |-> [d \in Docs |-> IF d \in Stored THEN "saved" ELSE "fresh"],
                      rooms |-> rs]>>
    /\ list = 0
    /\ reads = {[of |-> "rooms", doc |-> None, since |-> 1, valid |-> TRUE]}
    /\ catalog = FALSE
    /\ scenes = 0
    /\ sel = None
    /\ form = NoForm
    /\ versions = NoVersions
    /\ busy = FALSE
    /\ acts = {}

Polls == {r \in reads : r.of = "rooms"}

-----------------------------------------------------------------------------
(* What the catalog shows.                                                  *)

\* The saved documents, and the live rooms that are none.
entries ==
    {d \in Docs : scenes # 0 /\ past[scenes].docs[d] = "saved"}
    \cup {r \in Rooms : list # 0 /\ past[list].rooms[r] = "draft"}

selected == IF catalog /\ sel \in entries THEN sel ELSE None

\* Fault: the pane keeps its state when another entry takes it.
DetailUnkeyed(rs, as) ==
    /\ reads' = rs
    /\ acts' = as
    /\ IF selected' = None THEN form' = NoForm /\ versions' = NoVersions
       ELSE UNCHANGED <<form, versions>>

\* DocumentDetail has the selected entry's id as its key: another entry gets
\* a new one, whose history starts to load.
Detail(rs, as) ==
    IF selected' = selected THEN reads' = rs /\ acts' = as /\ UNCHANGED <<form, versions>>
    ELSE /\ form' = NoForm
         /\ versions' = NoVersions
         /\ reads' = Forget(rs, {"versions"})
                     \cup {Load("versions", d) : d \in Docs \cap {selected'}}
         /\ acts' = Unmounted(as, {"restore"})

CloseCatalog ==
    /\ catalog' = FALSE
    /\ scenes' = 0
    /\ sel' = None
    /\ busy' = FALSE

-----------------------------------------------------------------------------
(* The server, and reading from it.                                         *)

Changes(s) == Len(past) <= MaxChanges /\ past' = Append(past, s)

\* What other admins do: create a room or open a document, save, close, delete.
ServerStep ==
    /\ \/ \E r \in Rooms, x \in Docs \cup {"draft"} :
            /\ Now.rooms[r] = "fresh"
            /\ x \in Docs => Now.docs[x] = "saved" /\ \A q \in Rooms : Now.rooms[q] # x
            /\ Changes([Now EXCEPT !.rooms[r] = x])
       \/ \E r \in Rooms, d \in Docs :
            /\ Now.rooms[r] = "draft" /\ Now.docs[d] = "fresh"
            /\ Changes([Now EXCEPT !.rooms[r] = d, !.docs[d] = "saved"])
       \/ \E r \in Rooms :
            /\ Now.rooms[r] \in Docs \cup {"draft"}
            /\ Changes([Now EXCEPT !.rooms[r] = "closed"])
       \/ \E d \in Docs :
            /\ Now.docs[d] = "saved" /\ \A r \in Rooms : Now.rooms[r] # d
            /\ Changes([Now EXCEPT !.docs[d] = "deleted"])
    /\ UNCHANGED <<list, reads, catalog, scenes, sel, form, versions, busy, acts>>

\* Fault: the timer is never set.
refreshOnce == FALSE /\ UNCHANGED vars

\* The interval: every poll supersedes the ones before it.
refresh ==
    /\ Cardinality(Polls) < MaxPolls
    /\ reads' = Cancel(reads, "rooms") \cup {Load("rooms", None)}
    /\ UNCHANGED <<past, list, catalog, scenes, sel, form, versions, busy, acts>>

\* Fault: isCurrent is not asked.
RoomsAnswerAnyway(r) ==
    /\ r.of = "rooms"
    /\ list' \in Served(r)
    /\ UNCHANGED <<past, catalog, scenes, sel, busy>>
    /\ Detail(reads \ {r}, acts)

RoomsAnswer(r) ==
    /\ r.of = "rooms"
    /\ IF r.valid THEN list' \in Served(r) ELSE UNCHANGED list
    /\ UNCHANGED <<past, catalog, scenes, sel, busy>>
    /\ Detail(reads \ {r}, acts)

\* loadScenes has no guard: whichever list comes last is shown.
ScenesAnswer(r) ==
    /\ r.of = "scenes"
    /\ scenes' \in Served(r)
    /\ UNCHANGED <<past, list, catalog, sel, busy>>
    /\ Detail(reads \ {r}, acts)

VersionsAnswer(r) ==
    /\ r.of = "versions"
    /\ reads' = reads \ {r}
    /\ IF r.valid THEN versions' \in [doc : {r.doc}, at : Served(r)] ELSE UNCHANGED versions
    /\ UNCHANGED <<past, list, catalog, scenes, sel, form, busy, acts>>

\* A failed history is shown as an empty one, any other list stays.
ReadFails(r) ==
    /\ reads' = reads \ {r}
    /\ versions' = IF r.of = "versions" /\ r.valid THEN NoVersions ELSE versions
    /\ UNCHANGED <<past, list, catalog, scenes, sel, form, busy, acts>>

Answer(r) == RoomsAnswer(r) \/ ScenesAnswer(r) \/ VersionsAnswer(r) \/ ReadFails(r)

-----------------------------------------------------------------------------
(* The catalog.                                                             *)

Open ==
    /\ ~catalog
    /\ catalog' = TRUE
    /\ reads' = reads \cup {Load("scenes", None)}
    /\ UNCHANGED <<past, list, scenes, sel, form, versions, busy, acts>>

\* The button, the backdrop, Escape (also in the rename field), or a sign-out.
Close ==
    /\ catalog
    /\ CloseCatalog
    /\ UNCHANGED <<past, list>>
    /\ Detail(Forget(reads, {"scenes"}), Unmounted(acts, {"open", "rename", "delete"}))

\* The admin's token is replaced: both lists are read again, the component
\* that reads them stays.
NewToken ==
    /\ catalog
    /\ Cardinality(reads \ Polls) <= MaxReads
    /\ reads' = Cancel(reads, "versions") \cup {Load("scenes", None)}
                \cup {Load("versions", d) : d \in Docs \cap {selected}}
    /\ UNCHANGED <<past, list, catalog, scenes, sel, form, versions, busy, acts>>

Select ==
    \E e \in entries :
        /\ catalog
        /\ scenes # 0
        /\ sel' = e
        /\ UNCHANGED <<past, list, catalog, scenes, busy>>
        /\ Detail(reads, acts)

\* Fault: drafts have the buttons too.
ShowFormOnDrafts(kind) ==
    /\ selected # None
    /\ ~busy
    /\ form = NoForm
    /\ form' = [kind |-> kind, on |-> selected]
    /\ UNCHANGED <<past, list, reads, catalog, scenes, sel, versions, busy, acts>>

\* Rename and Delete show their form, Cancel and a rename to the same title
\* end it.
ShowForm(kind) ==
    /\ selected \in Docs
    /\ ~busy
    /\ form = NoForm
    /\ form' = [kind |-> kind, on |-> selected]
    /\ UNCHANGED <<past, list, reads, catalog, scenes, sel, versions, busy, acts>>

EndForm ==
    /\ form # NoForm
    /\ ~busy \/ form.kind = "rename"
    /\ form' = NoForm
    /\ UNCHANGED <<past, list, reads, catalog, scenes, sel, versions, busy, acts>>

Run(op, d) ==
    /\ Cardinality(acts) < MaxActs
    /\ acts' = acts \cup {[op |-> op, doc |-> d, done |-> FALSE, here |-> TRUE]}

open ==
    /\ selected # None
    /\ form = NoForm
    /\ ~busy
    /\ Run("open", None)
    /\ busy' = TRUE
    /\ UNCHANGED <<past, list, reads, catalog, scenes, sel, form, versions>>

\* Fault: the form stays until the answer is there.
commitRenameStays ==
    /\ form.kind = "rename"
    /\ Run("rename", selected)
    /\ busy' = TRUE
    /\ UNCHANGED <<past, list, reads, catalog, scenes, sel, form, versions>>

\* Save is disabled while busy; Enter is not.
commitRename ==
    /\ form.kind = "rename"
    /\ Run("rename", selected)
    /\ busy' = TRUE
    /\ form' = NoForm
    /\ UNCHANGED <<past, list, reads, catalog, scenes, sel, versions>>

confirmDelete ==
    /\ form.kind = "delete"
    /\ ~busy
    /\ Run("delete", selected)
    /\ busy' = TRUE
    /\ UNCHANGED <<past, list, reads, catalog, scenes, sel, form, versions>>

\* The history's own button, with a busy flag of its own.
restore ==
    /\ versions.at # 0
    /\ \A a \in acts : ~(a.op = "restore" /\ a.here)
    /\ Run("restore", None)
    /\ UNCHANGED <<past, list, reads, catalog, scenes, sel, form, versions, busy>>

\* The server renames or deletes; a document that is live is not deleted.
ActServed(a) ==
    /\ a.op \in {"rename", "delete"}
    /\ ~a.done
    /\ Now.docs[a.doc] = "saved"
    /\ a.op = "delete" => \A r \in Rooms : Now.rooms[r] # a.doc
    /\ Changes(IF a.op = "rename" THEN Now ELSE [Now EXCEPT !.docs[a.doc] = "deleted"])
    /\ acts' = (acts \ {a}) \cup {[a EXCEPT !.done = TRUE]}
    /\ UNCHANGED <<list, reads, catalog, scenes, sel, form, versions, busy>>

\* onRenamed and onDeleted: the documents are read again, and after a deletion
\* nothing is selected, whatever was selected meanwhile.
ActAnswer(a) ==
    /\ a.op \in {"rename", "delete"}
    /\ a.done
    /\ sel' = IF a.op = "delete" THEN None ELSE sel
    /\ busy' = FALSE
    /\ UNCHANGED <<past, list, catalog, scenes>>
    /\ Detail(reads \cup {Load("scenes", None)}, acts \ {a})

\* The room is entered, and the landing page is left and shown again later.
OpenAnswer(a) ==
    /\ a.op \in {"open", "restore"}
    /\ CloseCatalog
    /\ list' = 0
    /\ UNCHANGED past
    /\ Detail(Forget(reads, {"rooms", "scenes"}) \cup {Load("rooms", None)},
              Unmounted(acts \ {a}, {"open", "rename", "delete"}))

ActFails(a) ==
    /\ acts' = acts \ {a}
    /\ busy' = (busy /\ ~(a.here /\ a.op # "restore"))
    /\ UNCHANGED <<past, list, reads, catalog, scenes, sel, form, versions>>

Next ==
    \/ ServerStep \/ refresh \/ Open \/ Close \/ NewToken \/ Select
    \/ ShowForm("rename") \/ ShowForm("delete") \/ EndForm
    \/ open \/ commitRename \/ confirmDelete \/ restore
    \/ \E r \in reads : Answer(r)
    \/ \E a \in acts : ActServed(a) \/ ActAnswer(a) \/ OpenAnswer(a) \/ ActFails(a)

\* The timer runs, calls return, and now and then a poll succeeds before the
\* next one supersedes it.
Fairness ==
    /\ WF_vars(refresh)
    /\ WF_vars(\E r \in Polls : Answer(r))
    /\ SF_vars(\E r \in Polls : r.valid /\ RoomsAnswer(r))

Spec == Init /\ [][Next]_vars /\ Fairness
-----------------------------------------------------------------------------
(***************************************************************************)
(* "superseded by a newer poll": neither the live list nor the history in   *)
(* the pane is ever replaced by one that was read from the server earlier.  *)
(***************************************************************************)
NeverOlder ==
    [][/\ list' # 0 => list' >= list
       /\ versions'.at # 0 /\ versions.at # 0 => versions'.at >= versions.at]_vars

(***************************************************************************)
(* However reloads and polls change the entries under the user's hands, a   *)
(* delete confirmation, a rename form and a history are those of the        *)
(* document in the pane.                                                    *)
(***************************************************************************)
PaneIsOwn ==
    /\ form.on \in {None, selected}
    /\ versions.doc \in {None, selected}

(***************************************************************************)
(* One action at a time: the catalog is busy exactly while one of its       *)
(* actions is under way, although Enter commits a rename without asking.    *)
(***************************************************************************)
BusyIsTrue ==
    LET mine == {a \in acts : a.here /\ a.op # "restore"}
    IN  Cardinality(mine) = IF busy THEN 1 ELSE 0

(***************************************************************************)
(* The live list catches up with the server again and again, although polls *)
(* fail, are superseded and are lost when the landing page is left.         *)
(***************************************************************************)
LiveListFresh == []<>(list = Len(past))
=============================================================================
