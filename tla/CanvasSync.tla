------------------------------ MODULE CanvasSync ------------------------------
(***************************************************************************)
(* The shared canvas of a room (frontend/src/collab): each browser has an   *)
(* Excalidraw scene and a replica of a Yjs document that maps element ids   *)
(* to elements and file ids to images; the relay carries Yjs frames between *)
(* the browsers.                                                            *)
(*                                                                         *)
(* An element is abstracted to what decides which copy of it is kept: its   *)
(* version, its versionNonce and whether it is deleted.  Every element      *)
(* shows an image of its own, whose file is named by the element's id.      *)
(* Yjs, y-websocket and Excalidraw are external and modelled as the code    *)
(* relies on them:                                                          *)
(*  - a transaction is integrated once everything it builds on is there;    *)
(*    of concurrent writes of a key every replica keeps the same one,       *)
(*    chosen by the writers' client ids and not by element versions;        *)
(*  - a provider sends sync step 1 when it connects, answers step 1 with    *)
(*    what the asker lacks, and sends each local update once, if connected; *)
(*  - onChange runs after the scene has been rendered, and so after the     *)
(*    updateScene of a remote change has returned.                          *)
(***************************************************************************)
EXTENDS Naturals, Sequences, FiniteSets

CONSTANTS
    Clients,     \* Yjs client ids, which are numbers
    Ids,         \* element ids
    Saved,       \* the ids of the elements in the saved version
    Author,      \* the client that draws an element that is not in it
    Seeder,      \* the admin whose browser seeds the room from that version
    Plays,       \* who does what in a behaviour, and how much
    PeersWait,   \* whether peers come after the seeder, and edit when connected
    NoElement,   \* absence of an element
    MaxWrites,   \* transactions of one client (a bound)
    MaxDrops     \* connections that break (a bound)

\* What each client does (who draws does not restore versions, who reconnects
\* only watches), the changes they make together (a bound), the elements they
\* change, and the nonces, which are random numbers.
Play == [part : [Clients -> {"edits", "draws", "watches", "reconnects", "away"}],
         edits : Nat, ids : SUBSET Ids, nonces : SUBSET Nat]

ASSUME CanvasAssumption ==
    /\ Clients \subseteq Nat
    /\ Saved \subseteq Ids
    /\ Author \in [Ids -> Clients]
    /\ Seeder \in Clients
    /\ Plays \subseteq Play
    /\ PeersWait \in BOOLEAN
    /\ {MaxWrites, MaxDrops} \subseteq Nat

VARIABLES
    play,      \* the play that this behaviour is
    link,      \* "out", "offline" (mounted) or "online" (in the relay's room)
    scene,     \* the Excalidraw scene, deleted elements included
    files,     \* the images the editor has
    txns,      \* all transactions there are
    doc,       \* the names of those a Yjs document has received
    changed,   \* whether an onChange is due
    inbox,     \* frames on their way to a client, by their sender
    drops,     \* connections that have broken so far
    edits      \* changes the users have made so far

vars == <<play, link, scene, files, txns, doc, changed, inbox, drops, edits>>

Element == [ver : Nat, nonce : Nat, del : BOOLEAN]
SavedElement == [ver |-> 1, nonce |-> 0, del |-> FALSE]

ASSUME ElementAssumption == NoElement \notin Element

-----------------------------------------------------------------------------
(* The Yjs document.                                                        *)

Name(t) == <<t.by, t.n>>
Names(T) == {Name(t) : t \in T}
Integrated(D) == {t \in txns : Name(t) \in D /\ t.past \subseteq D}

\* A write carries the ids of the clients whose writes it stands on.  Writes
\* of a key are ordered by these paths, and the last one is the value.
Before(p, q) ==
    \E k \in 0..Len(p) :
        /\ k < Len(q)
        /\ SubSeq(p, 1, k) = SubSeq(q, 1, k)
        /\ k = Len(p) \/ p[k + 1] < q[k + 1]

\* I: the transactions a document has integrated.
Writes(I, id) == {t.puts[id] : t \in {u \in I : id \in DOMAIN u.puts}}
Last(W) == CHOOSE w \in W : \A x \in W : x = w \/ Before(x.path, w.path)
Entry(I, id) == LET W == Writes(I, id) IN
                IF W = {} THEN [el |-> NoElement, path |-> <<>>] ELSE Last(W)
Shared(I, id) == Entry(I, id).el

readFiles(I) == UNION {t.files : t \in I}

\* A transaction builds on all earlier ones of its client and on the entries
\* it replaces.
Transaction(c, I, puts, fs) ==
    LET base == {t \in I : \/ t.by = c
                           \/ \E id \in DOMAIN puts \cap DOMAIN t.puts :
                                 t.puts[id] = Entry(I, id)}
    IN [by |-> c, n |-> Cardinality({t \in I : t.by = c}) + 1, puts |-> puts, files |-> fs,
        past |-> UNION {t.past \cup {Name(t)} : t \in base}]

\* The elements at S of the scene sc, and files, each in one transaction.
writeElements(c, I, sc, S) ==
    IF S = {} THEN {}
    ELSE {Transaction(c, I, [id \in S |-> [el |-> sc[id],
                                           path |-> Append(Entry(I, id).path, c)]], {})}
writeFiles(c, I, F) == IF F = {} THEN {} ELSE {Transaction(c, I, <<>>, F)}

-----------------------------------------------------------------------------
(* Merging.                                                                 *)

\* reconcileElements, for one element and none of them in an open gesture.
Reconcile(local, remote) ==
    IF \/ remote = NoElement
       \/ /\ local # NoElement
          /\ \/ local.ver > remote.ver
             \/ local.ver = remote.ver /\ local.nonce < remote.nonce
    THEN local ELSE remote

\* Fault: elements that are in neither are collected too.
CollectAbsentToo(sc, I) ==
    {id \in Ids : LET e == Shared(I, id) IN
                  e = NoElement \/ (sc[id] # NoElement /\ sc[id].ver > e.ver)}

\* Fault: the version gate lets equal versions through.
CollectEqualToo(sc, I) ==
    {id \in Ids : LET e == Shared(I, id) IN
                  sc[id] # NoElement /\ (e = NoElement \/ sc[id].ver >= e.ver)}

collectElementUpdates(sc, I) ==
    {id \in Ids : LET e == Shared(I, id) IN
                  sc[id] # NoElement /\ (e = NoElement \/ sc[id].ver > e.ver)}

\* Fault: a file is taken to be shared as soon as its element is.
CollectWithElements(F, I) == {f \in F : Shared(I, f) = NoElement}

collectNewFiles(F, I) == F \ readFiles(I)

\* Fault: restored elements keep their old version.
mergeWithoutBump(sc, nonce) ==
    [id \in Ids |->
       IF id \in Saved THEN SavedElement
       ELSE IF sc[id] = NoElement \/ sc[id].del THEN sc[id]
       ELSE [ver |-> sc[id].ver + 1, nonce |-> nonce, del |-> TRUE]]

\* mergeRestoredElements: restored content above the live version, and
\* tombstones for what was drawn since.
mergeRestoredElements(sc, nonce) ==
    [id \in Ids |->
       CASE id \in Saved /\ sc[id] = NoElement -> SavedElement
         [] id \in Saved /\ sc[id] # NoElement ->
              [ver |-> sc[id].ver + 1, nonce |-> nonce, del |-> FALSE]
         [] id \notin Saved /\ (sc[id] = NoElement \/ sc[id].del) -> sc[id]
         [] OTHER -> [ver |-> sc[id].ver + 1, nonce |-> nonce, del |-> TRUE]]

-----------------------------------------------------------------------------
(* Frames.                                                                  *)

Update(N) == [kind |-> "update", names |-> N]
Step1(D) == [kind |-> "step1", names |-> Names(Integrated(D))]

\* A frame of c is relayed to every other client in the room.  The frames of a
\* sender stay in order and are without holes (Relay); those of two senders may
\* reach two clients in different orders.
Broadcast(box, c, m) ==
    [d \in Clients |-> IF d # c /\ link[d] = "online"
                      THEN [box[d] EXCEPT ![c] = Append(@, m)] ELSE box[d]]

\* A provider sends its local updates while it is connected.
Send(box, c, T) ==
    IF T = {} \/ link[c] # "online" THEN box ELSE Broadcast(box, c, Update(Names(T)))

Init ==
    /\ play \in Plays
    /\ link = [c \in Clients |-> "out"]
    /\ scene = [c \in Clients |-> [id \in Ids |-> NoElement]]
    /\ files = [c \in Clients |-> {}]
    /\ txns = {}
    /\ doc = [c \in Clients |-> {}]
    /\ changed = [c \in Clients |-> FALSE]
    /\ inbox = [c \in Clients |-> [s \in Clients |-> <<>>]]
    /\ drops = 0
    /\ edits = 0

\* The effect of useCollaborativeSync: a fresh document, seeded before the
\* provider is there; initialData paints the seed.
Mount(c) ==
    /\ play.part[c] # "away"
    /\ link[c] = "out"
    /\ PeersWait => c = Seeder \/ link[Seeder] = "online"
    /\ link' = [link EXCEPT ![c] = "offline"]
    /\ IF c = Seeder /\ Saved # {}
       THEN LET seed == [id \in Ids |-> IF id \in Saved THEN SavedElement ELSE NoElement]
                T == writeElements(c, {}, seed, Saved)
                U == writeFiles(c, T, Saved)
            IN /\ scene' = [scene EXCEPT ![c] = seed]
               /\ files' = [files EXCEPT ![c] = Saved]
               /\ txns' = txns \cup T \cup U
               /\ doc' = [doc EXCEPT ![c] = Names(T \cup U)]
       ELSE UNCHANGED <<scene, files, txns, doc>>
    /\ UNCHANGED <<play, changed, inbox, drops, edits>>

\* Fault: a client that already has a document does not ask for more.
ConnectSilently(c) ==
    /\ link[c] = "offline"
    /\ link' = [link EXCEPT ![c] = "online"]
    /\ inbox' = IF doc[c] = {} THEN Broadcast(inbox, c, Step1(doc[c])) ELSE inbox
    /\ UNCHANGED <<play, scene, files, txns, doc, changed, drops, edits>>

\* onopen: the auth frame, then sync step 1.
Connect(c) ==
    /\ link[c] = "offline"
    /\ link' = [link EXCEPT ![c] = "online"]
    /\ inbox' = Broadcast(inbox, c, Step1(doc[c]))
    /\ UNCHANGED <<play, scene, files, txns, doc, changed, drops, edits>>

\* The connection breaks; the frames under way are lost.
Disconnect(c) ==
    /\ play.part[c] = "reconnects"
    /\ link[c] = "online"
    /\ drops < MaxDrops
    /\ drops' = drops + 1
    /\ link' = [link EXCEPT ![c] = "offline"]
    /\ inbox' = [inbox EXCEPT ![c] = [s \in Clients |-> <<>>]]
    /\ UNCHANGED <<play, scene, files, txns, doc, changed, edits>>

\* A peer answers step 1 with the transactions the asker lacks.
ReceiveStep1(c, s) ==
    /\ inbox[c][s] # <<>>
    /\ Head(inbox[c][s]).kind = "step1"
    /\ LET lacking == doc[c] \ Head(inbox[c][s]).names
           rest == [inbox EXCEPT ![c][s] = Tail(inbox[c][s])]
       IN inbox' = IF lacking = {} THEN rest ELSE Broadcast(rest, c, Update(lacking))
    /\ UNCHANGED <<play, link, scene, files, txns, doc, changed, drops, edits>>

\* An update or a step 2: the document takes it in; the observers merge all
\* elements into the scene when some changed, and add the files.
ReceiveUpdate(c, s) ==
    /\ inbox[c][s] # <<>>
    /\ Head(inbox[c][s]).kind = "update"
    /\ inbox' = [inbox EXCEPT ![c][s] = Tail(inbox[c][s])]
    /\ LET D == doc[c] \cup Head(inbox[c][s]).names
           I == Integrated(D)
           new == I \ Integrated(doc[c])
       IN /\ doc' = [doc EXCEPT ![c] = D]
          /\ scene' = IF \A t \in new : t.puts = <<>> THEN scene
                      ELSE [scene EXCEPT ![c] =
                              [id \in Ids |-> Reconcile(scene[c][id], Shared(I, id))]]
          /\ files' = [files EXCEPT ![c] = files[c] \cup readFiles(new)]
          /\ changed' = [changed EXCEPT ![c] = changed[c] \/ new # {}]
    /\ UNCHANGED <<play, link, txns, drops, edits>>

\* handleChange: what is newer in the scene goes into the document, then the
\* new files, and both to the peers if the provider is connected.
HandleChange(c) ==
    /\ changed[c]
    /\ LET I == Integrated(doc[c])
           T == writeElements(c, I, scene[c], collectElementUpdates(scene[c], I))
           U == writeFiles(c, I \cup T, collectNewFiles(files[c], I \cup T))
       IN /\ \A t \in T \cup U : t.n <= MaxWrites
          /\ txns' = txns \cup T \cup U
          /\ doc' = [doc EXCEPT ![c] = doc[c] \cup Names(T \cup U)]
          /\ inbox' = Send(Send(inbox, c, T), c, U)
    /\ changed' = [changed EXCEPT ![c] = FALSE]
    /\ UNCHANGED <<play, link, scene, files, drops, edits>>

CanEdit(c) ==
    /\ play.part[c] \in {"edits", "draws"}
    /\ link[c] # "out"
    /\ PeersWait => link[c] = "online"
    /\ edits < play.edits

\* Excalidraw bumps the version and draws a new nonce for every change,
\* deletions and undone deletions included.
Edit(c) ==
    \E id \in play.ids, nonce \in play.nonces, del \in BOOLEAN :
        /\ CanEdit(c)
        /\ scene[c][id] = NoElement => id \notin Saved /\ Author[id] = c /\ ~del
        /\ LET old == IF scene[c][id] = NoElement THEN 0 ELSE scene[c][id].ver IN
           scene' = [scene EXCEPT ![c][id] =
                          [ver |-> old + 1, nonce |-> nonce, del |-> del]]
        /\ files' = [files EXCEPT ![c] = IF scene[c][id] = NoElement THEN files[c] \cup {id}
                                        ELSE files[c]]
        /\ changed' = [changed EXCEPT ![c] = TRUE]
        /\ edits' = edits + 1
        /\ UNCHANGED <<play, link, txns, doc, inbox, drops>>

\* restoreLiveVersion: the version's files, and an ordinary local change of
\* the whole scene.
Restore(c) ==
    \E nonce \in play.nonces :
        /\ CanEdit(c) /\ play.part[c] = "edits"
        /\ scene' = [scene EXCEPT ![c] = mergeRestoredElements(scene[c], nonce)]
        /\ files' = [files EXCEPT ![c] = files[c] \cup Saved]
        /\ changed' = [changed EXCEPT ![c] = TRUE]
        /\ edits' = edits + 1
        /\ UNCHANGED <<play, link, txns, doc, inbox, drops>>

Next == \E c \in Clients :
            \/ Mount(c) \/ Connect(c) \/ Disconnect(c)
            \/ Edit(c) \/ Restore(c)
            \/ HandleChange(c)
            \/ \E s \in Clients : ReceiveStep1(c, s) \/ ReceiveUpdate(c, s)

Spec == Init /\ [][Next]_vars
-----------------------------------------------------------------------------
TypeOK ==
    /\ play \in Plays
    /\ link \in [Clients -> {"out", "offline", "online"}]
    /\ scene \in [Clients -> [Ids -> Element \cup {NoElement}]]
    /\ files \in [Clients -> SUBSET Ids]
    /\ changed \in [Clients -> BOOLEAN]
    /\ drops \in 0..MaxDrops
    /\ edits \in 0..play.edits
    /\ doc \in [Clients -> SUBSET Names(txns)]
    /\ \A t \in txns :
         /\ t.by \in Clients /\ t.n \in Nat \ {0}
         /\ t.files \subseteq Ids
         /\ \A id \in DOMAIN t.puts : id \in Ids /\ t.puts[id].el \in Element

Settled == \A c \in Clients : ~changed[c] /\ \A s \in Clients : inbox[c][s] = <<>>

SameVersion(a, b) ==
    \/ a = b
    \/ a # NoElement /\ b # NoElement /\ a.ver = b.ver

(***************************************************************************)
(* sync.ts, "this one rule covers adds, updates, and deletions alike": once *)
(* all frames have arrived, the browsers in the room show every element at  *)
(* the same version, whoever edited, deleted or restored it meanwhile.      *)
(***************************************************************************)
VersionsAgree ==
    Settled => \A c, d \in Clients : link[c] = "online" /\ link[d] = "online" =>
        \A id \in Ids : SameVersion(scene[c][id], scene[d][id])

(***************************************************************************)
(* A browser that connects asks the others for what it lacks; updates only  *)
(* go to those who are there (authSocket.ts).  Once all frames have         *)
(* arrived, every browser in the room has received all that was written by  *)
(* those who have kept their connection, also if it came late, lost its own *)
(* connection, or asked while others were writing.                          *)
(***************************************************************************)
NothingLost ==
    Settled => \A c \in Clients : link[c] = "online" =>
        \A t \in txns : play.part[t.by] # "reconnects" => Name(t) \in doc[c]

(***************************************************************************)
(* Images are in a map of their own, written after the elements that show   *)
(* them and in another transaction (useCollaborativeSync.ts).  Once all     *)
(* frames have arrived, every browser in the room has the image of every    *)
(* element it shows, also one that came late or was disconnected meanwhile. *)
(***************************************************************************)
ImagesArrive ==
    Settled => \A c \in Clients : link[c] = "online" =>
        \A id \in Ids : scene[c][id] # NoElement => id \in files[c]

(***************************************************************************)
(* What a browser shows of an element never goes back to an older version   *)
(* and never disappears, so no deletion is forgotten; restoring an old      *)
(* version of the document is a new version of its elements.                *)
(***************************************************************************)
NeverBackwards ==
    [][\A c \in Clients, id \in Ids : scene[c][id] # NoElement =>
         /\ scene'[c][id] # NoElement
         /\ scene'[c][id].ver >= scene[c][id].ver]_vars

(***************************************************************************)
(* "The version gate is also what prevents echoing a just-applied remote    *)
(* element back to peers" (sync.ts): besides the seed, a browser writes no  *)
(* more often than the users change something, although it also writes back *)
(* newer elements that a concurrent older write has displaced.              *)
(***************************************************************************)
EchoesBounded ==
    \A c \in Clients :
        Cardinality({t \in txns : t.by = c /\ t.files = {}}) <= edits + 1
=============================================================================
