----------------------------- MODULE PanelsProofs -----------------------------
(***************************************************************************)
(* Theorems about Panels, for any documents, rooms and bounds: the pane of  *)
(* the catalog shows its own document, busy is true to the actions, and no  *)
(* older list replaces a newer one.                                         *)
(***************************************************************************)
EXTENDS Panels, FiniteSetTheorems, TLAPS

-----------------------------------------------------------------------------
(* The pane.                                                                *)

\* A form and a history are the selected document's; nothing is selected while
\* the catalog is closed.
PaneInv ==
    /\ PaneIsOwn
    /\ form.kind = "none" <=> form.on = None
    /\ catalog \/ sel = None

\* What other admins do to the server leaves what was read from it before.
Grows == past' = past \/ \E s \in Server : past' = Append(past, s)

\* The server's change is one of its states, added to the others.
LEMMA ChangesGrow ==
  ASSUME TypeOK, NEW s \in Server, Changes(s)
  PROVE  Grows /\ past' \in Seq(Server) /\ Len(past') = Len(past) + 1
         /\ Len(past') \in 1..MaxChanges + 1
  <1>1. past \in Seq(Server) /\ MaxChanges \in Nat /\ Len(past) \in Nat
    BY PanelsAssumption DEF TypeOK
  <1>2. past' = Append(past, s) /\ Len(past) <= MaxChanges
    BY DEF Changes
  <1> QED
    BY <1>1, <1>2 DEF Grows

\* The last state of the server is one.
LEMMA NowTyped == TypeOK => Now \in Server
  BY DEF TypeOK, Now

\* Every step of the other admins is such a change.
LEMMA ServerStepChanges ==
  ASSUME TypeOK, ServerStep
  PROVE  /\ \E s \in Server : Changes(s)
         /\ UNCHANGED <<list, reads, catalog, scenes, sel, form, versions, busy, acts>>
  <1>1. Now \in Server
    BY NowTyped
  <1>2. UNCHANGED <<list, reads, catalog, scenes, sel, form, versions, busy, acts>>
    BY DEF ServerStep
  <1>3. ASSUME NEW r \in Rooms, NEW x \in Docs \cup {"draft"},
               Changes([Now EXCEPT !.rooms[r] = x])
        PROVE  \E s \in Server : Changes(s)
    <2>1. [Now EXCEPT !.rooms[r] = x] \in Server
      BY <1>1 DEF Server
    <2> QED
      BY <1>3, <2>1
  <1>4. ASSUME NEW r \in Rooms, NEW d \in Docs,
               Changes([Now EXCEPT !.rooms[r] = d, !.docs[d] = "saved"])
        PROVE  \E s \in Server : Changes(s)
    <2>1. [Now EXCEPT !.rooms[r] = d, !.docs[d] = "saved"] \in Server
      BY <1>1 DEF Server
    <2> QED
      BY <1>4, <2>1
  <1>5. ASSUME NEW r \in Rooms, Changes([Now EXCEPT !.rooms[r] = "closed"])
        PROVE  \E s \in Server : Changes(s)
    <2>1. [Now EXCEPT !.rooms[r] = "closed"] \in Server
      BY <1>1 DEF Server
    <2> QED
      BY <1>5, <2>1
  <1>6. ASSUME NEW d \in Docs, Changes([Now EXCEPT !.docs[d] = "deleted"])
        PROVE  \E s \in Server : Changes(s)
    <2>1. [Now EXCEPT !.docs[d] = "deleted"] \in Server
      BY <1>1 DEF Server
    <2> QED
      BY <1>6, <2>1
  <1> QED
    BY <1>2, <1>3, <1>4, <1>5, <1>6 DEF ServerStep

\* So is what a rename or a deletion does to the server.
LEMMA ActServedChanges ==
  ASSUME TypeOK, NEW a \in acts, ActServed(a)
  PROVE  \E s \in Server : Changes(s)
  <1>1. Now \in Server
    BY NowTyped
  <1>2. [Now EXCEPT !.docs[a.doc] = "deleted"] \in Server
    BY <1>1 DEF Server
  <1> QED
    BY <1>1, <1>2 DEF ActServed

\* The pane shows the same entry as long as nothing the browser holds changes.
LEMMA SelectedKept ==
  ASSUME TypeOK, Grows, UNCHANGED <<list, catalog, scenes, sel>>
  PROVE  selected' = selected
  <1>1. \A i \in 1..Len(past) : past'[i] = past[i]
    BY DEF Grows, TypeOK
  <1>2. /\ scenes # 0 => scenes \in 1..Len(past)
        /\ list # 0 => list \in 1..Len(past)
    BY DEF TypeOK
  <1>3. entries' = entries
    BY <1>1, <1>2 DEF entries
  <1> QED
    BY <1>3 DEF selected

\* Opening the catalog selects nothing.
LEMMA OpenSelectsNothing ==
  ASSUME TypeOK, PaneInv, Open
  PROVE  selected' = selected
  BY PanelsAssumption DEF Open, PaneInv, selected, entries

-----------------------------------------------------------------------------
(* Types.                                                                   *)

\* What begins to be read, and is answered, is typed.
LEMMA LoadTyped ==
  ASSUME TypeOK, NEW of \in {"rooms", "scenes", "versions"}, NEW d \in Docs \cup {None}
  PROVE  Load(of, d) \in Read
  BY DEF Load, Read, TypeOK

LEMMA ServedTyped ==
  ASSUME TypeOK, NEW r \in reads
  PROVE  /\ Served(r) \subseteq 0..Len(past)
         /\ r.since \in Nat /\ r.doc \in Docs \cup {None}
         /\ \A i \in Served(r) : i \in Nat /\ r.since <= i
  <1>1. r \in Read
    BY DEF TypeOK
  <1>2. r.since \in Nat /\ r.doc \in Docs \cup {None} /\ Len(past) \in Nat
    BY <1>1, PanelsAssumption DEF Read, TypeOK
  <1> QED
    BY <1>2 DEF Served

\* Actions and reads that are forgotten leave the others.
LEMMA UnmountedTyped ==
  ASSUME NEW as \in SUBSET Act, NEW ops
  PROVE  Unmounted(as, ops) \subseteq Act
  BY DEF Unmounted, Act

LEMMA CancelTyped ==
  ASSUME NEW rs \in SUBSET Read, NEW kind
  PROVE  Cancel(rs, kind) \subseteq Read
  BY DEF Cancel, Read

\* The pane that is taken by another entry is typed.
LEMMA DetailTyped ==
  ASSUME TypeOK, NEW rs \in SUBSET Read, NEW as \in SUBSET Act, Detail(rs, as), past' = past
  PROVE  /\ reads' \subseteq Read /\ acts' \subseteq Act
         /\ form' \in [kind : {"none", "rename", "delete"}, on : Docs \cup {None}]
         /\ versions' \in [doc : Docs \cup {None}, at : 0..Len(past')]
  <1>1. CASE selected' = selected
    BY <1>1 DEF Detail, TypeOK
  <1>2. CASE selected' # selected
    <2>1. /\ form' = NoForm /\ versions' = NoVersions
          /\ reads' = Forget(rs, {"versions"})
                      \cup {Load("versions", d) : d \in Docs \cap {selected'}}
          /\ acts' = Unmounted(as, {"restore"})
      BY <1>2 DEF Detail
    <2>2. reads' \subseteq Read
      BY <2>1, LoadTyped DEF Forget
    <2>3. acts' \subseteq Act
      BY <2>1, UnmountedTyped
    <2>4. NoForm \in [kind : {"none", "rename", "delete"}, on : Docs \cup {None}]
      BY DEF NoForm
    <2>5. Len(past) \in Nat
      BY DEF TypeOK
    <2>6. NoVersions \in [doc : Docs \cup {None}, at : 0..Len(past)]
      BY <2>5 DEF NoVersions
    <2> QED
      BY <2>1, <2>2, <2>3, <2>4, <2>6
  <1> QED
    BY <1>1, <1>2

\* What is renamed or deleted is a document.
LEMMA FormIsOfDoc ==
  ASSUME TypeOK, PaneInv, form.kind # "none"
  PROVE  selected \in Docs
  BY DEF TypeOK, PaneInv, PaneIsOwn

\* An action that is started is typed.
LEMMA RunTyped ==
  ASSUME TypeOK, NEW op \in {"open", "rename", "delete", "restore"},
         NEW d \in Docs \cup {None}, Run(op, d)
  PROVE  acts' \subseteq Act
  <1>1. [op |-> op, doc |-> d, done |-> FALSE, here |-> TRUE] \in Act
    BY DEF Act
  <1> QED
    BY <1>1 DEF Run, TypeOK

\* The initial state is typed.
LEMMA TypeInit == Init => TypeOK
  <1> SUFFICES ASSUME Init PROVE TypeOK
    OBVIOUS
  <1>1. PICK rs \in [Rooms -> Stored \cup {"fresh", "draft"}] :
           past = <<[docs |-> [d \in Docs |-> IF d \in Stored THEN "saved" ELSE "fresh"],
                     rooms |-> rs]>>
    BY DEF Init
  <1>2. past \in Seq(Server) /\ Len(past) = 1
    BY <1>1, PanelsAssumption DEF Server
  <1>3. 1 \in 1..MaxChanges + 1
    BY PanelsAssumption
  <1>4. reads \subseteq Read
    BY <1>3 DEF Init, Read
  <1>5. 0 \in 0..Len(past)
    BY <1>2
  <1>6. form \in [kind : {"none", "rename", "delete"}, on : Docs \cup {None}]
    BY DEF Init, NoForm
  <1>7. versions \in [doc : Docs \cup {None}, at : 0..Len(past)]
    BY <1>5 DEF Init, NoVersions
  <1> QED
    BY <1>2, <1>3, <1>4, <1>5, <1>6, <1>7 DEF Init, TypeOK

\* A step keeps the state typed.
LEMMA TypeNext ==
  ASSUME TypeOK, PaneInv, [Next]_vars
  PROVE  TypeOK'
  <1>0. reads \subseteq Read /\ acts \subseteq Act
    BY DEF TypeOK
  <1>1. CASE ServerStep
    <2>1. /\ past' \in Seq(Server) /\ Len(past') = Len(past) + 1
          /\ Len(past') \in 1..MaxChanges + 1 /\ Len(past) \in Nat
          /\ UNCHANGED <<list, reads, catalog, scenes, sel, form, versions, busy, acts>>
      BY <1>1, ServerStepChanges, ChangesGrow DEF TypeOK
    <2> QED
      BY <2>1 DEF TypeOK
  <1>2. CASE refresh
    BY <1>0, <1>2, LoadTyped, CancelTyped DEF refresh, TypeOK
  <1>3. CASE Open
    BY <1>0, <1>3, LoadTyped DEF Open, TypeOK
  <1>4. CASE Close
    <2>1. /\ Forget(reads, {"scenes"}) \subseteq Read
          /\ Unmounted(acts, {"open", "rename", "delete"}) \subseteq Act
      BY <1>0, UnmountedTyped DEF Forget
    <2>2. 0 \in 0..Len(past)
      BY PanelsAssumption DEF TypeOK
    <2> QED
      BY <1>4, <2>1, <2>2, DetailTyped DEF Close, CloseCatalog, TypeOK
  <1>5. CASE NewToken
    BY <1>0, <1>5, LoadTyped, CancelTyped DEF NewToken, TypeOK
  <1>6. CASE Select
    BY <1>0, <1>6, DetailTyped DEF Select, entries, TypeOK
  <1>7. ASSUME NEW kind \in {"rename", "delete"}, ShowForm(kind) PROVE TypeOK'
    BY <1>7 DEF ShowForm, TypeOK
  <1>8. CASE EndForm
    BY <1>8 DEF EndForm, NoForm, TypeOK
  <1>9. CASE open
    BY <1>9, RunTyped DEF open, TypeOK
  <1>10. CASE commitRename
    <2>1. selected \in Docs
      BY <1>10, FormIsOfDoc DEF commitRename
    <2> QED
      BY <1>10, <2>1, RunTyped DEF commitRename, NoForm, TypeOK
  <1>11. CASE confirmDelete
    <2>1. selected \in Docs
      BY <1>11, FormIsOfDoc DEF confirmDelete
    <2> QED
      BY <1>11, <2>1, RunTyped DEF confirmDelete, TypeOK
  <1>12. CASE restore
    BY <1>12, RunTyped DEF restore, TypeOK
  <1>13. ASSUME NEW r \in reads, RoomsAnswer(r) PROVE TypeOK'
    BY <1>0, <1>13, ServedTyped, DetailTyped DEF RoomsAnswer, TypeOK
  <1>14. ASSUME NEW r \in reads, ScenesAnswer(r) PROVE TypeOK'
    BY <1>0, <1>14, ServedTyped, DetailTyped DEF ScenesAnswer, TypeOK
  <1>15. ASSUME NEW r \in reads, VersionsAnswer(r) PROVE TypeOK'
    BY <1>0, <1>15, ServedTyped DEF VersionsAnswer, TypeOK
  <1>16. ASSUME NEW r \in reads, ReadFails(r) PROVE TypeOK'
    BY <1>16 DEF ReadFails, NoVersions, TypeOK
  <1>17. ASSUME NEW a \in acts, ActServed(a) PROVE TypeOK'
    <2>1. /\ past' \in Seq(Server) /\ Len(past') = Len(past) + 1
          /\ Len(past') \in 1..MaxChanges + 1 /\ Len(past) \in Nat
      BY <1>17, ActServedChanges, ChangesGrow DEF TypeOK
    <2>2. acts' \subseteq Act
      BY <1>0, <1>17 DEF ActServed, Act
    <2> QED
      BY <1>17, <2>1, <2>2 DEF ActServed, TypeOK
  <1>18. ASSUME NEW a \in acts, ActAnswer(a) PROVE TypeOK'
    <2>1. reads \cup {Load("scenes", None)} \subseteq Read /\ acts \ {a} \subseteq Act
      BY <1>0, LoadTyped
    <2> QED
      BY <1>18, <2>1, DetailTyped DEF ActAnswer, TypeOK
  <1>19. ASSUME NEW a \in acts, OpenAnswer(a) PROVE TypeOK'
    <2>1. /\ Forget(reads, {"rooms", "scenes"}) \cup {Load("rooms", None)} \subseteq Read
          /\ Unmounted(acts \ {a}, {"open", "rename", "delete"}) \subseteq Act
      BY <1>0, LoadTyped, UnmountedTyped DEF Forget
    <2>2. 0 \in 0..Len(past)
      BY PanelsAssumption DEF TypeOK
    <2> QED
      BY <1>19, <2>1, <2>2, DetailTyped DEF OpenAnswer, CloseCatalog, TypeOK
  <1>20. ASSUME NEW a \in acts, ActFails(a) PROVE TypeOK'
    BY <1>20 DEF ActFails, TypeOK
  <1>21. CASE UNCHANGED vars
    BY <1>21 DEF vars, TypeOK
  <1> QED
    BY <1>1, <1>2, <1>3, <1>4, <1>5, <1>6, <1>7, <1>8, <1>9, <1>10, <1>11, <1>12, <1>13,
       <1>14, <1>15, <1>16, <1>17, <1>18, <1>19, <1>20, <1>21
    DEF Next, Answer
-----------------------------------------------------------------------------
(* The pane is its document's.                                              *)

\* Nothing is selected at first.
LEMMA PaneInit == Init => PaneInv
  BY DEF Init, PaneInv, PaneIsOwn, NoForm, NoVersions

\* A pane that is taken by another entry starts anew.
LEMMA DetailPane ==
  ASSUME PaneInv, NEW rs, NEW as, Detail(rs, as), catalog' \/ sel' = None
  PROVE  PaneInv'
  <1>1. CASE selected' = selected
    BY <1>1 DEF Detail, PaneInv, PaneIsOwn
  <1>2. CASE selected' # selected
    BY <1>2 DEF Detail, PaneInv, PaneIsOwn, NoForm, NoVersions
  <1> QED
    BY <1>1, <1>2

\* The history that is being read is the selected document's, and neither it nor
\* the live list is older than the one that is shown; what was asked for before
\* has been cancelled.
UpToDate(rs, shown) ==
    \A r \in rs : r.valid =>
        /\ r.of = "rooms" => shown <= r.since
        /\ r.of = "versions" => r.doc = selected /\ versions.at <= r.since
OneOfEach(rs) ==
    \A q, r \in rs : q.valid /\ r.valid /\ q.of = r.of /\ q.of # "scenes" => q = r
ReadsInv == UpToDate(reads, list) /\ OneOfEach(reads)

\* A step leaves forms and histories to their documents.
LEMMA PaneNext ==
  ASSUME TypeOK, PaneInv, ReadsInv, [Next]_vars
  PROVE  PaneInv'
  <1>0. ASSUME selected' = selected, UNCHANGED <<form, versions>>, catalog' \/ sel' = None
        PROVE  PaneInv'
    BY <1>0 DEF PaneInv, PaneIsOwn
  <1>1. CASE ServerStep
    <2>1. Grows /\ UNCHANGED <<list, scenes, catalog, sel, form, versions>>
      BY <1>1, ServerStepChanges, ChangesGrow
    <2> QED
      BY <1>0, <2>1, SelectedKept DEF PaneInv
  <1>2. CASE refresh
    BY <1>0, <1>2, SelectedKept DEF refresh, PaneInv, Grows
  <1>3. CASE Open
    BY <1>0, <1>3, OpenSelectsNothing DEF Open
  <1>4. CASE Close
    BY <1>4, DetailPane DEF Close, CloseCatalog
  <1>5. CASE NewToken
    BY <1>0, <1>5, SelectedKept DEF NewToken, PaneInv, Grows
  <1>6. CASE Select
    BY <1>6, DetailPane DEF Select
  <1>7. ASSUME NEW kind \in {"rename", "delete"}, ShowForm(kind) PROVE PaneInv'
    <2>1. selected' = selected
      BY <1>7, SelectedKept DEF ShowForm, Grows
    <2>2. selected \in Docs /\ None \notin Docs
      BY <1>7, PanelsAssumption DEF ShowForm
    <2> QED
      BY <1>7, <2>1, <2>2 DEF ShowForm, PaneInv, PaneIsOwn
  <1>8. CASE EndForm
    <2>1. selected' = selected
      BY <1>8, SelectedKept DEF EndForm, Grows
    <2> QED
      BY <1>8, <2>1 DEF EndForm, NoForm, PaneInv, PaneIsOwn
  <1>9. CASE open
    BY <1>0, <1>9, SelectedKept DEF open, PaneInv, Grows
  <1>10. CASE commitRename
    <2>1. selected' = selected
      BY <1>10, SelectedKept DEF commitRename, Grows
    <2> QED
      BY <1>10, <2>1 DEF commitRename, NoForm, PaneInv, PaneIsOwn
  <1>11. CASE confirmDelete
    BY <1>0, <1>11, SelectedKept DEF confirmDelete, PaneInv, Grows
  <1>12. CASE restore
    BY <1>0, <1>12, SelectedKept DEF restore, PaneInv, Grows
  <1>13. ASSUME NEW r \in reads, RoomsAnswer(r) PROVE PaneInv'
    BY <1>13, DetailPane DEF RoomsAnswer, PaneInv
  <1>14. ASSUME NEW r \in reads, ScenesAnswer(r) PROVE PaneInv'
    BY <1>14, DetailPane DEF ScenesAnswer, PaneInv
  <1>15. ASSUME NEW r \in reads, VersionsAnswer(r) PROVE PaneInv'
    <2>1. selected' = selected
      BY <1>15, SelectedKept DEF VersionsAnswer, Grows
    <2>2. versions' = versions \/ versions'.doc = selected
      BY <1>15 DEF VersionsAnswer, ReadsInv, UpToDate
    <2> QED
      BY <1>15, <2>1, <2>2 DEF VersionsAnswer, PaneInv, PaneIsOwn
  <1>16. ASSUME NEW r \in reads, ReadFails(r) PROVE PaneInv'
    <2>1. selected' = selected
      BY <1>16, SelectedKept DEF ReadFails, Grows
    <2> QED
      BY <1>16, <2>1 DEF ReadFails, NoVersions, PaneInv, PaneIsOwn
  <1>17. ASSUME NEW a \in acts, ActServed(a) PROVE PaneInv'
    <2>1. Grows /\ UNCHANGED <<list, scenes, catalog, sel, form, versions>>
      BY <1>17, ActServedChanges, ChangesGrow DEF ActServed
    <2> QED
      BY <1>0, <2>1, SelectedKept DEF PaneInv
  <1>18. ASSUME NEW a \in acts, ActAnswer(a) PROVE PaneInv'
    BY <1>18, DetailPane DEF ActAnswer, PaneInv
  <1>19. ASSUME NEW a \in acts, OpenAnswer(a) PROVE PaneInv'
    BY <1>19, DetailPane DEF OpenAnswer, CloseCatalog
  <1>20. ASSUME NEW a \in acts, ActFails(a) PROVE PaneInv'
    BY <1>0, <1>20, SelectedKept DEF ActFails, PaneInv, Grows
  <1>21. CASE UNCHANGED vars
    BY <1>0, <1>21, SelectedKept DEF vars, PaneInv, Grows
  <1> QED
    BY <1>1, <1>2, <1>3, <1>4, <1>5, <1>6, <1>7, <1>8, <1>9, <1>10, <1>11, <1>12, <1>13,
       <1>14, <1>15, <1>16, <1>17, <1>18, <1>19, <1>20, <1>21
    DEF Next, Answer
-----------------------------------------------------------------------------
(* Nothing is replaced by something older.                                  *)

\* The poll of the mounted page is the first read.
LEMMA ReadsInit == Init => ReadsInv
  BY DEF Init, ReadsInv, UpToDate, OneOfEach

\* A new read is of the present.
LEMMA LoadFacts ==
  ASSUME TypeOK, NEW of, NEW d
  PROVE  /\ Load(of, d).of = of /\ Load(of, d).doc = d
         /\ list <= Load(of, d).since /\ versions.at <= Load(of, d).since
         /\ 0 <= Load(of, d).since
  <1>1. /\ list <= Len(past) /\ versions.at <= Len(past) /\ 0 <= Len(past)
    BY DEF TypeOK
  <1> QED
    BY <1>1 DEF Load

\* Cancelling leaves no valid read of the kind, and the others as they are.
LEMMA CancelFacts ==
  ASSUME NEW rs \in SUBSET Read, NEW kind, NEW r \in Cancel(rs, kind), r.valid
  PROVE  r \in rs /\ r.of # kind
  BY DEF Cancel, Read

\* Answering, ending or forgetting a read keeps the others.
LEMMA ReadsFewer ==
  ASSUME ReadsInv, reads' \subseteq reads, list' = list, selected' = selected,
         versions' = versions
  PROVE  ReadsInv'
  BY DEF ReadsInv, UpToDate, OneOfEach

\* A pane that is taken by another entry reads that entry's history only.
LEMMA DetailReads ==
  ASSUME TypeOK, NEW rs, NEW as, Detail(rs, as), UpToDate(rs, list'), OneOfEach(rs)
  PROVE  ReadsInv'
  <1>1. CASE selected' = selected
    BY <1>1 DEF Detail, ReadsInv, UpToDate, OneOfEach
  <1>2. CASE selected' # selected
    <2>1. /\ versions'.at = 0
          /\ \A r \in reads' : \/ r \in rs /\ r.of # "versions"
                               \/ r = Load("versions", selected')
      BY <1>2 DEF Detail, Forget, NoVersions
    <2>2. LET l == Load("versions", selected') IN
            l.of = "versions" /\ l.doc = selected' /\ 0 <= l.since
      BY LoadFacts
    <2> QED
      BY <2>1, <2>2 DEF ReadsInv, UpToDate, OneOfEach
  <1> QED
    BY <1>1, <1>2

\* The reads stay up to date with what is shown.
LEMMA ReadsNext ==
  ASSUME TypeOK, PaneInv, ReadsInv, [Next]_vars
  PROVE  ReadsInv'
  <1>0. reads \subseteq Read
    BY DEF TypeOK
  <1>1. CASE ServerStep
    <2>1. Grows /\ UNCHANGED <<list, reads, scenes, catalog, sel, versions>>
      BY <1>1, ServerStepChanges, ChangesGrow
    <2> QED
      BY <2>1, SelectedKept, ReadsFewer
  <1>2. CASE refresh
    <2>1. selected' = selected /\ list' = list /\ versions' = versions
      BY <1>2, SelectedKept DEF refresh, Grows
    <2>2. \A r \in reads' : r.valid =>
             (r \in reads /\ r.of # "rooms") \/ r = Load("rooms", None)
      BY <1>0, <1>2, CancelFacts DEF refresh
    <2> QED
      BY <2>1, <2>2, LoadFacts DEF ReadsInv, UpToDate, OneOfEach
  <1>3. CASE Open
    <2>1. selected' = selected /\ list' = list /\ versions' = versions
      BY <1>3, OpenSelectsNothing DEF Open
    <2>2. \A r \in reads' : r \in reads \/ r.of = "scenes"
      BY <1>3, LoadFacts DEF Open
    <2> QED
      BY <2>1, <2>2 DEF ReadsInv, UpToDate, OneOfEach
  <1>4. CASE Close
    <2>1. /\ UpToDate(Forget(reads, {"scenes"}), list')
          /\ OneOfEach(Forget(reads, {"scenes"}))
      BY <1>4 DEF Close, Forget, ReadsInv, UpToDate, OneOfEach
    <2> QED
      BY <1>4, <2>1, DetailReads DEF Close
  <1>5. CASE NewToken
    <2>1. selected' = selected /\ list' = list /\ versions' = versions
      BY <1>5, SelectedKept DEF NewToken, Grows
    <2>2. \A r \in reads' : r.valid => \/ r \in reads /\ r.of # "versions"
                                       \/ r.of = "scenes"
                                       \/ r = Load("versions", selected)
      BY <1>0, <1>5, CancelFacts, LoadFacts DEF NewToken
    <2> QED
      BY <2>1, <2>2, LoadFacts DEF ReadsInv, UpToDate, OneOfEach
  <1>6. CASE Select
    BY <1>6, DetailReads DEF Select, ReadsInv
  <1>7. ASSUME NEW kind \in {"rename", "delete"}, ShowForm(kind) PROVE ReadsInv'
    BY <1>7, SelectedKept, ReadsFewer DEF ShowForm, Grows
  <1>8. CASE EndForm
    BY <1>8, SelectedKept, ReadsFewer DEF EndForm, Grows
  <1>9. CASE open
    BY <1>9, SelectedKept, ReadsFewer DEF open, Grows
  <1>10. CASE commitRename
    BY <1>10, SelectedKept, ReadsFewer DEF commitRename, Grows
  <1>11. CASE confirmDelete
    BY <1>11, SelectedKept, ReadsFewer DEF confirmDelete, Grows
  <1>12. CASE restore
    BY <1>12, SelectedKept, ReadsFewer DEF restore, Grows
  <1>13. ASSUME NEW r \in reads, RoomsAnswer(r) PROVE ReadsInv'
    <2>1. UpToDate(reads \ {r}, list') /\ OneOfEach(reads \ {r})
      BY <1>13 DEF RoomsAnswer, ReadsInv, UpToDate, OneOfEach
    <2> QED
      BY <1>13, <2>1, DetailReads DEF RoomsAnswer
  <1>14. ASSUME NEW r \in reads, ScenesAnswer(r) PROVE ReadsInv'
    <2>1. UpToDate(reads \ {r}, list') /\ OneOfEach(reads \ {r})
      BY <1>14 DEF ScenesAnswer, ReadsInv, UpToDate, OneOfEach
    <2> QED
      BY <1>14, <2>1, DetailReads DEF ScenesAnswer
  <1>15. ASSUME NEW r \in reads, VersionsAnswer(r) PROVE ReadsInv'
    <2>1. selected' = selected /\ list' = list /\ reads' = reads \ {r} /\ r.of = "versions"
      BY <1>15, SelectedKept DEF VersionsAnswer, Grows
    <2>2. CASE r.valid
      <3>1. \A q \in reads' : q.valid => q.of # "versions"
        BY <2>1, <2>2 DEF ReadsInv, OneOfEach
      <3> QED
        BY <2>1, <3>1 DEF ReadsInv, UpToDate, OneOfEach
    <2>3. CASE ~r.valid
      BY <1>15, <2>1, <2>3, ReadsFewer DEF VersionsAnswer
    <2> QED
      BY <2>2, <2>3
  <1>16. ASSUME NEW r \in reads, ReadFails(r) PROVE ReadsInv'
    <2>1. selected' = selected /\ list' = list /\ reads' = reads \ {r}
      BY <1>16, SelectedKept DEF ReadFails, Grows
    <2>2. CASE r.of = "versions" /\ r.valid
      <3>1. \A q \in reads' : q.valid => q.of # "versions"
        BY <2>1, <2>2 DEF ReadsInv, OneOfEach
      <3> QED
        BY <2>1, <3>1 DEF ReadsInv, UpToDate, OneOfEach
    <2>3. CASE ~(r.of = "versions" /\ r.valid)
      BY <1>16, <2>1, <2>3, ReadsFewer DEF ReadFails
    <2> QED
      BY <2>2, <2>3
  <1>17. ASSUME NEW a \in acts, ActServed(a) PROVE ReadsInv'
    <2>1. Grows /\ UNCHANGED <<list, reads, scenes, catalog, sel, versions>>
      BY <1>17, ActServedChanges, ChangesGrow DEF ActServed
    <2> QED
      BY <2>1, SelectedKept, ReadsFewer
  <1>18. ASSUME NEW a \in acts, ActAnswer(a) PROVE ReadsInv'
    <2> DEFINE rs == reads \cup {Load("scenes", None)}
    <2>1. UpToDate(rs, list') /\ OneOfEach(rs)
      BY <1>18, LoadFacts DEF ActAnswer, ReadsInv, UpToDate, OneOfEach
    <2> HIDE DEF rs
    <2>2. Detail(rs, acts \ {a})
      BY <1>18 DEF ActAnswer, rs
    <2> QED
      BY <2>1, <2>2, DetailReads
  <1>19. ASSUME NEW a \in acts, OpenAnswer(a) PROVE ReadsInv'
    <2> DEFINE rs == Forget(reads, {"rooms", "scenes"}) \cup {Load("rooms", None)}
    <2>1. UpToDate(rs, list') /\ OneOfEach(rs)
      BY <1>19, LoadFacts DEF OpenAnswer, Forget, ReadsInv, UpToDate, OneOfEach
    <2> HIDE DEF rs
    <2>2. Detail(rs, Unmounted(acts \ {a}, {"open", "rename", "delete"}))
      BY <1>19 DEF OpenAnswer, rs
    <2> QED
      BY <2>1, <2>2, DetailReads
  <1>20. ASSUME NEW a \in acts, ActFails(a) PROVE ReadsInv'
    BY <1>20, SelectedKept, ReadsFewer DEF ActFails, Grows
  <1>21. CASE UNCHANGED vars
    BY <1>21, SelectedKept, ReadsFewer DEF vars, Grows
  <1> QED
    BY <1>1, <1>2, <1>3, <1>4, <1>5, <1>6, <1>7, <1>8, <1>9, <1>10, <1>11, <1>12, <1>13,
       <1>14, <1>15, <1>16, <1>17, <1>18, <1>19, <1>20, <1>21
    DEF Next, Answer

\* What the pane shows is its own and up to date in every reachable state.
LEMMA PaneInvariant == Spec => [](TypeOK /\ PaneInv /\ ReadsInv)
  <1>1. Init => TypeOK /\ PaneInv /\ ReadsInv
    BY TypeInit, PaneInit, ReadsInit
  <1>2. TypeOK /\ PaneInv /\ ReadsInv /\ [Next]_vars => (TypeOK /\ PaneInv /\ ReadsInv)'
    BY TypeNext, PaneNext, ReadsNext
  <1> QED
    BY <1>1, <1>2, PTL DEF Spec

(***************************************************************************)
(* Lists, panes, forms and actions stay in the states the code names.       *)
(***************************************************************************)
THEOREM PanelsTypeCorrect == Spec => []TypeOK
  BY PaneInvariant, PTL

(***************************************************************************)
(* A delete confirmation, a rename form and a history are always those of   *)
(* the document in the pane, whatever polls, reloads and other admins do.   *)
(***************************************************************************)
THEOREM PaneIsAlwaysOwn == Spec => []PaneIsOwn
  <1>1. PaneInv => PaneIsOwn
    BY DEF PaneInv
  <1> QED
    BY <1>1, PaneInvariant, PTL
(***************************************************************************)
(* "superseded by a newer poll": no step replaces the live list or the      *)
(* history in the pane by one that was read from the server earlier.        *)
(***************************************************************************)
THEOREM NothingOlder == Spec => NeverOlder
  <1> DEFINE Newer == /\ list' # 0 => list' >= list
                      /\ versions'.at # 0 /\ versions.at # 0 => versions'.at >= versions.at
  <1>1. ASSUME TypeOK, PaneInv, ReadsInv, Next PROVE Newer
    <2>0. list \in Nat /\ versions.at \in Nat
      BY <1>1, PanelsAssumption DEF TypeOK
    <2>1. ASSUME list' = list, versions' = versions PROVE Newer
      BY <2>0, <2>1
    <2>2. ASSUME NEW rs, NEW as, Detail(rs, as), list' \in {0, list} PROVE Newer
      <3>1. list' # 0 => list' >= list
        BY <2>0, <2>2
      <3>2. versions' = versions \/ versions'.at = 0
        <4>1. versions' = versions \/ versions' = NoVersions
          BY <2>2, Zenon DEF Detail
        <4> QED
          BY <4>1 DEF NoVersions
      <3> QED
        BY <2>0, <3>1, <3>2
    <2>3. CASE ServerStep
      BY <1>1, <2>1, <2>3, ServerStepChanges
    <2>4. CASE refresh \/ Open \/ NewToken \/ EndForm \/ open \/ commitRename
               \/ confirmDelete \/ restore
      BY <2>1, <2>4 DEF refresh, Open, NewToken, EndForm, open, commitRename,
                        confirmDelete, restore
    <2>5. CASE Close
      BY <2>2, <2>5 DEF Close
    <2>6. CASE Select
      BY <2>2, <2>6 DEF Select
    <2>7. ASSUME NEW kind, ShowForm(kind) PROVE Newer
      BY <2>1, <2>7 DEF ShowForm
    <2>8. ASSUME NEW r \in reads, RoomsAnswer(r) PROVE Newer
      <3>1. list' = list \/ (list' \in Served(r) /\ list <= r.since)
        BY <1>1, <2>8 DEF RoomsAnswer, ReadsInv, UpToDate
      <3>2. r.since \in Nat /\ \A i \in Served(r) : i \in Nat /\ r.since <= i
        BY <1>1, ServedTyped
      <3>3. list' # 0 => list' >= list
        BY <2>0, <3>1, <3>2
      <3>4. Detail(reads \ {r}, acts)
        BY <2>8 DEF RoomsAnswer
      <3> QED
        BY <2>0, <3>3, <3>4 DEF Detail, NoVersions
    <2>9. ASSUME NEW r \in reads, ScenesAnswer(r) PROVE Newer
      BY <2>2, <2>9 DEF ScenesAnswer
    <2>10. ASSUME NEW r \in reads, VersionsAnswer(r) PROVE Newer
      <3>1. list' = list
        BY <2>10 DEF VersionsAnswer
      <3>2. versions' = versions \/ (versions'.at \in Served(r) /\ versions.at <= r.since)
        BY <1>1, <2>10 DEF VersionsAnswer, ReadsInv, UpToDate
      <3>3. r.since \in Nat /\ \A i \in Served(r) : i \in Nat /\ r.since <= i
        BY <1>1, ServedTyped
      <3> QED
        BY <2>0, <3>1, <3>2, <3>3
    <2>11. ASSUME NEW r \in reads, ReadFails(r) PROVE Newer
      BY <2>0, <2>11 DEF ReadFails, NoVersions
    <2>12. ASSUME NEW a \in acts, ActServed(a) \/ ActFails(a) PROVE Newer
      BY <2>1, <2>12 DEF ActServed, ActFails
    <2>13. ASSUME NEW a \in acts, ActAnswer(a) PROVE Newer
      BY <2>2, <2>13 DEF ActAnswer
    <2>14. ASSUME NEW a \in acts, OpenAnswer(a) PROVE Newer
      BY <2>2, <2>14 DEF OpenAnswer
    <2> QED
      BY <1>1, <2>3, <2>4, <2>5, <2>6, <2>7, <2>8, <2>9, <2>10, <2>11, <2>12, <2>13, <2>14
      DEF Next, Answer
  <1>2. TypeOK /\ PaneInv /\ ReadsInv /\ [Next]_vars => [Newer]_vars
    BY <1>1
  <1> QED
    BY <1>2, PaneInvariant, PTL DEF Spec, NeverOlder

-----------------------------------------------------------------------------
(* One action at a time.                                                    *)

\* The actions the catalog is busy with; a restore has a flag of its own.
Mine(as) == {a \in as : a.here /\ a.op # "restore"}

\* Exactly one while it is busy; then no rename form is there whose Enter could
\* start another.  Renaming and deleting end with the catalog.
Singly(as, b) == IF b THEN \E a \in Mine(as) : Mine(as) = {a} ELSE Mine(as) = {}
Owned(as) == \A a \in as : a.op \in {"rename", "delete"} => a.here
ActsInv ==
    /\ Singly(acts, busy)
    /\ Owned(acts)
    /\ busy => form.kind # "rename"

\* A restore that is left behind is none of them.
LEMMA UnmountedMine ==
  ASSUME NEW as \in SUBSET Act, Owned(as)
  PROVE  /\ Mine(Unmounted(as, {"restore"})) = Mine(as)
         /\ Owned(Unmounted(as, {"restore"}))
         /\ Mine(Unmounted(as, {"open", "rename", "delete"})) = {}
         /\ Owned(Unmounted(as, {"open", "rename", "delete"}))
  BY DEF Unmounted, Act, Mine, Owned

\* Whatever takes the pane, the catalog's actions go on.
LEMMA DetailActs ==
  ASSUME NEW rs, NEW as \in SUBSET Act, Detail(rs, as), Owned(as), Singly(as, busy'),
         busy' => form.kind # "rename"
  PROVE  ActsInv'
  <1>1. CASE selected' = selected
    BY <1>1 DEF Detail, ActsInv, Singly, Mine, Owned
  <1>2. CASE selected' # selected
    <2>1. Mine(acts') = Mine(as) /\ Owned(acts') /\ form'.kind = "none"
      <3>1. acts' = Unmounted(as, {"restore"}) /\ form' = NoForm
        BY <1>2 DEF Detail
      <3>2. Mine(Unmounted(as, {"restore"})) = Mine(as) /\ Owned(Unmounted(as, {"restore"}))
        BY UnmountedMine
      <3> QED
        BY <3>1, <3>2 DEF NoForm
    <2> QED
      BY <2>1 DEF ActsInv, Singly, Mine, Owned
  <1> QED
    BY <1>1, <1>2

\* Starting an action when none is under way makes it the only one.
LEMMA RunMine ==
  ASSUME ActsInv, ~busy, NEW op \in {"open", "rename", "delete"}, NEW d, Run(op, d),
         busy', form'.kind # "rename"
  PROVE  ActsInv'
  <1> DEFINE new == [op |-> op, doc |-> d, done |-> FALSE, here |-> TRUE]
  <1>1. acts' = acts \cup {new} /\ Mine(acts) = {}
    BY DEF Run, ActsInv, Singly
  <1>2. new.op # "restore" /\ new.here
    OBVIOUS
  <1>3. \A a \in acts' : a \in acts \/ a = new
    BY <1>1
  <1>4. Mine(acts') = {new}
    BY <1>1, <1>2 DEF Mine
  <1>5. Owned(acts')
    BY <1>2, <1>3 DEF ActsInv, Owned
  <1> QED
    BY <1>4, <1>5 DEF ActsInv, Singly, Mine, Owned
\* No action is under way at first.
LEMMA ActsInit == Init => ActsInv
  BY DEF Init, ActsInv, Singly, Mine, Owned

\* A step keeps the actions single.
LEMMA ActsNext ==
  ASSUME TypeOK, PaneInv, ActsInv, [Next]_vars
  PROVE  ActsInv'
  <1>0. acts \subseteq Act
    BY DEF TypeOK
  <1>1. ASSUME UNCHANGED <<acts, busy>>, form'.kind # "rename" \/ form' = form \/ ~busy
        PROVE  ActsInv'
    BY <1>1 DEF ActsInv, Singly, Mine, Owned
  <1>2. CASE ServerStep
    BY <1>1, <1>2, ServerStepChanges
  <1>3. CASE refresh \/ Open \/ NewToken
    BY <1>1, <1>3 DEF refresh, Open, NewToken
  <1>4. CASE EndForm
    BY <1>1, <1>4 DEF EndForm, NoForm
  <1>5. ASSUME NEW kind, ShowForm(kind) PROVE ActsInv'
    BY <1>1, <1>5 DEF ShowForm
  <1>6. CASE Close
    <2> DEFINE as == Unmounted(acts, {"open", "rename", "delete"})
    <2>1. as \subseteq Act
      BY <1>0, UnmountedTyped
    <2>2. Owned(as) /\ Mine(as) = {}
      BY <1>0, UnmountedMine DEF ActsInv
    <2>3. ~busy' /\ Detail(Forget(reads, {"scenes"}), as)
      BY <1>6 DEF Close, CloseCatalog
    <2> QED
      BY <2>1, <2>2, <2>3, DetailActs DEF Singly
  <1>7. CASE Select
    BY <1>0, <1>7, DetailActs DEF Select, ActsInv
  <1>8. CASE open
    BY <1>8, RunMine DEF open, NoForm
  <1>9. CASE commitRename
    BY <1>9, RunMine DEF commitRename, NoForm, ActsInv
  <1>10. CASE confirmDelete
    BY <1>10, RunMine DEF confirmDelete
  <1>11. CASE restore
    <2> DEFINE new == [op |-> "restore", doc |-> None, done |-> FALSE, here |-> TRUE]
    <2>1. acts' = acts \cup {new} /\ busy' = busy /\ form' = form
      BY <1>11 DEF restore, Run
    <2>2. new.op = "restore"
      OBVIOUS
    <2>3. Mine(acts') = Mine(acts) /\ Owned(acts')
      BY <2>1, <2>2 DEF Mine, Owned, ActsInv
    <2> QED
      BY <2>1, <2>3 DEF ActsInv, Singly
  <1>12. ASSUME NEW r \in reads, RoomsAnswer(r) PROVE ActsInv'
    BY <1>0, <1>12, DetailActs DEF RoomsAnswer, ActsInv
  <1>13. ASSUME NEW r \in reads, ScenesAnswer(r) PROVE ActsInv'
    BY <1>0, <1>13, DetailActs DEF ScenesAnswer, ActsInv
  <1>14. ASSUME NEW r \in reads, VersionsAnswer(r) \/ ReadFails(r) PROVE ActsInv'
    BY <1>1, <1>14 DEF VersionsAnswer, ReadFails
  <1>15. ASSUME NEW a \in acts, ActServed(a) PROVE ActsInv'
    <2> DEFINE served == [a EXCEPT !.done = TRUE]
    <2>1. a \in Act /\ a.here /\ a.op # "restore"
      BY <1>0, <1>15 DEF ActServed, ActsInv, Owned
    <2>2. served.here = a.here /\ served.op = a.op
      BY <2>1 DEF Act
    <2>3. acts' = (acts \ {a}) \cup {served} /\ busy' = busy /\ form' = form
      BY <1>15 DEF ActServed
    <2>4. busy /\ Mine(acts) = {a}
      BY <2>1 DEF ActsInv, Singly, Mine
    <2> HIDE DEF served
    <2>5. Mine(acts') = {served}
      BY <2>1, <2>2, <2>3, <2>4 DEF Mine
    <2>6. Owned(acts')
      BY <2>1, <2>2, <2>3 DEF ActsInv, Owned
    <2> QED
      BY <2>3, <2>4, <2>5, <2>6 DEF ActsInv, Singly
  <1>16. ASSUME NEW a \in acts, ActAnswer(a) PROVE ActsInv'
    <2>1. a.here /\ a.op # "restore"
      BY <1>16 DEF ActAnswer, ActsInv, Owned
    <2>2. busy /\ Mine(acts) = {a}
      BY <2>1 DEF ActsInv, Singly, Mine
    <2>3. Mine(acts \ {a}) = {} /\ Owned(acts \ {a})
      BY <2>2 DEF Mine, ActsInv, Owned
    <2>4. ~busy' /\ Detail(reads \cup {Load("scenes", None)}, acts \ {a})
      BY <1>16 DEF ActAnswer
    <2> QED
      BY <1>0, <2>3, <2>4, DetailActs DEF Singly
  <1>17. ASSUME NEW a \in acts, OpenAnswer(a) PROVE ActsInv'
    <2> DEFINE as == Unmounted(acts \ {a}, {"open", "rename", "delete"})
    <2>1. as \subseteq Act
      BY <1>0, UnmountedTyped
    <2>2. Owned(acts \ {a}) /\ acts \ {a} \subseteq Act
      BY <1>0 DEF ActsInv, Owned
    <2>3. Owned(as) /\ Mine(as) = {}
      BY <2>2, UnmountedMine
    <2>4. ~busy' /\ Detail(Forget(reads, {"rooms", "scenes"}) \cup {Load("rooms", None)}, as)
      BY <1>17 DEF OpenAnswer, CloseCatalog
    <2> QED
      BY <2>1, <2>3, <2>4, DetailActs DEF Singly
  <1>18. ASSUME NEW a \in acts, ActFails(a) PROVE ActsInv'
    <2>1. acts' = acts \ {a} /\ busy' = (busy /\ ~(a.here /\ a.op # "restore")) /\ form' = form
      BY <1>18 DEF ActFails
    <2>2. Owned(acts') /\ Mine(acts') = Mine(acts) \ {a}
      BY <2>1 DEF Mine, ActsInv, Owned
    <2>3. a \in Mine(acts) <=> a.here /\ a.op # "restore"
      BY DEF Mine
    <2>4. Singly(acts', busy')
      BY <2>1, <2>2, <2>3 DEF ActsInv, Singly
    <2> QED
      BY <2>1, <2>2, <2>4 DEF ActsInv, Singly
  <1>19. CASE UNCHANGED vars
    BY <1>1, <1>19 DEF vars
  <1> QED
    BY <1>2, <1>3, <1>4, <1>5, <1>6, <1>7, <1>8, <1>9, <1>10, <1>11, <1>12, <1>13, <1>14,
       <1>15, <1>16, <1>17, <1>18, <1>19
    DEF Next, Answer

(***************************************************************************)
(* One action at a time: the catalog is busy exactly while one of its       *)
(* actions is under way, although Enter commits a rename without asking.    *)
(***************************************************************************)
THEOREM BusyIsAlwaysTrue == Spec => []BusyIsTrue
  <1> DEFINE I == TypeOK /\ PaneInv /\ ReadsInv /\ ActsInv
  <1>1. Init => I
    BY TypeInit, PaneInit, ReadsInit, ActsInit
  <1>2. I /\ [Next]_vars => I'
    BY TypeNext, PaneNext, ReadsNext, ActsNext
  <1>3. I => BusyIsTrue
    <2> SUFFICES ASSUME ActsInv PROVE Cardinality(Mine(acts)) = IF busy THEN 1 ELSE 0
      BY DEF BusyIsTrue, Mine
    <2>1. CASE busy
      BY <2>1, FS_Singleton DEF ActsInv, Singly
    <2>2. CASE ~busy
      BY <2>2, FS_EmptySet DEF ActsInv, Singly
    <2> QED
      BY <2>1, <2>2
  <1> QED
    BY <1>1, <1>2, <1>3, PTL DEF Spec
=============================================================================
