------------------------- MODULE CanvasAgreementProofs -------------------------
(***************************************************************************)
(* What the browsers of a room agree on once all frames have arrived, for   *)
(* any number of clients, elements, edits and broken connections.           *)
(*                                                                         *)
(* The argument has two halves.  Delivery: what was written by a browser    *)
(* that keeps its connection, every browser in the room has, is about to be *)
(* told, or will be told in answer to a question that waits at the writer.  *)
(* This needs nothing of the order in which frames arrive.  Agreement with  *)
(* the document: a scene is never behind the document, and the document is  *)
(* behind the scene only while an onChange is due.                          *)
(*                                                                         *)
(* For images there is a third part: whoever can integrate an element can   *)
(* integrate its image, from a browser that keeps its connection.           *)
(***************************************************************************)
EXTENDS CanvasSyncProofs

-----------------------------------------------------------------------------
(* The conditions.                                                          *)

\* Peers come after the seeder and edit when connected; the seeder's
\* connection does not break (those who edit are never those who reconnect).
SeederStays ==
    /\ PeersWait
    /\ \A p \in Plays : p.part[Seeder] # "reconnects"

\* In play p no connection breaks.
NobodyReconnects(p) == \A c \in Clients : p.part[c] # "reconnects"

\* In play p the others only watch.
OnlySeederWrites(p) == \A c \in Clients \ {Seeder} : p.part[c] \notin {"edits", "draws"}

Stable(c) == play.part[c] # "reconnects"
Online(c) == link[c] = "online"

-----------------------------------------------------------------------------
(* Who is told what.                                                        *)

Tells(m, n) == m.kind = "update" /\ n \in m.names
Asks(m, n) == m.kind = "step1" /\ n \notin m.names

\* c has n or will be told.
Knows(c, n) == n \in doc[c] \/ \E m \in Held(inbox[c]) : Tells(m, n)

\* c will be asked for what it has, n included.
Asked(c, n) == \E m \in Held(inbox[c]) : Asks(m, n)

\* Everybody in the room knows what a client wrote that keeps its connection,
\* or that client has yet to answer a question, and its answer is for all.
Delivery ==
    \A e \in Clients : Online(e) =>
        \A t \in txns : Stable(t.by) => Knows(e, Name(t)) \/ Asked(t.by, Name(t))

\* Nobody is there before the seeder; who has never been connected has only
\* the seed.
Presence ==
    /\ link[Seeder] # "online" => \A c \in Clients \ {Seeder} : link[c] = "out"
    /\ \A c \in Clients :
         /\ link[c] = "out" => doc[c] = {} /\ files[c] = {}
         /\ link[c] = "offline" /\ Stable(c) =>
              ~changed[c] /\ (c = Seeder \/ (doc[c] = {} /\ files[c] = {}))

\* A step in which nobody comes into the room or writes anything, and who
\* answers a question tells everybody.
LEMMA DeliveryKept ==
  ASSUME Delivery, play' = play, txns' = txns,
         \A x \in Clients : Online(x)' => Online(x),
         \A x \in Clients, t \in txns : Online(x)' /\ Knows(x, Name(t)) => Knows(x, Name(t))',
         \A t \in txns : Stable(t.by) /\ Asked(t.by, Name(t)) =>
            \/ Asked(t.by, Name(t))'
            \/ \A x \in Clients : Online(x)' => Knows(x, Name(t))'
  PROVE  Delivery'
  <1> SUFFICES ASSUME NEW e \in Clients, Online(e)', NEW t \in txns, Stable(t.by)
               PROVE  Knows(e, Name(t))' \/ Asked(t.by, Name(t))'
    BY DEF Delivery, Stable, Name
  <1>1. Knows(e, Name(t)) \/ Asked(t.by, Name(t))
    BY DEF Delivery
  <1> QED
    BY <1>1

\* Frames that are added, and documents that take more in.
LEMMA KnowsMore ==
  ASSUME NEW c, doc[c] \subseteq doc'[c], Held(inbox[c]) \subseteq Held(inbox'[c]), NEW n
  PROVE  /\ Knows(c, n) => Knows(c, n)'
         /\ Asked(c, n) => Asked(c, n)'
  <1>1. Held(inbox[c])' = Held(inbox'[c])
    BY DEF Held
  <1> QED
    BY <1>1 DEF Knows, Asked, Tells, Asks

\* Who writes and keeps its connection is connected, but for the seed.
LEMMA WritersAreThere ==
  ASSUME SyncInv, Presence, NEW t \in txns, Stable(t.by)
  PROVE  /\ t.by \in Clients /\ Name(t) \in doc[t.by]
         /\ Online(t.by) \/ (t.by = Seeder /\ \A c \in Clients \ {Seeder} : link[c] = "out")
  <1>1. /\ t.by \in Clients /\ Name(t) \in doc[t.by]
        /\ link \in [Clients -> {"out", "offline", "online"}]
    BY DEF SyncInv, TypeOK, OwnAreIntegrated
  <1>2. link[t.by] # "out"
    BY <1>1 DEF SyncInv, Newcomers
  <1>3. link[t.by] = "offline" => t.by = Seeder
    BY <1>1 DEF Presence
  <1> QED
    BY <1>1, <1>2, <1>3 DEF Presence, Online

\* The seed is written when nobody is there.
LEMMA DeliveryMount ==
  ASSUME SyncInv, Presence, Delivery, NEW c \in Clients, Mount(c)
  PROVE  Delivery'
  <1>0. /\ link \in [Clients -> {"out", "offline", "online"}]
        /\ doc \in [Clients -> SUBSET Names(txns)]
    BY DEF SyncInv, TypeOK
  <1>1. /\ link[c] = "out" /\ link' = [link EXCEPT ![c] = "offline"]
        /\ inbox' = inbox /\ play' = play
    BY DEF Mount
  <1>2. \A x \in Clients : Online(x)' => x # c /\ Online(x)
    BY <1>0, <1>1 DEF Online
  <1>3. CASE c = Seeder
    <2>1. \A x \in Clients : ~Online(x)'
      BY <1>1, <1>2, <1>3 DEF Presence, Online
    <2> QED
      BY <2>1 DEF Delivery
  <1>4. CASE c # Seeder
    <2>1. doc' = doc /\ txns' = txns
      BY <1>4 DEF Mount
    <2>2. \A x : Held(inbox[x]) \subseteq Held(inbox'[x]) /\ doc[x] \subseteq doc'[x]
      BY <1>1, <2>1
    <2> QED
      BY <1>1, <1>2, <2>1, <2>2, KnowsMore, DeliveryKept
  <1> QED
    BY <1>3, <1>4

\* A connection that breaks is not one of those that count.
LEMMA DeliveryDisconnect ==
  ASSUME SyncInv, Delivery, NEW c \in Clients, Disconnect(c)
  PROVE  Delivery'
  <1>0. /\ link \in [Clients -> {"out", "offline", "online"}]
        /\ inbox \in [Clients -> [Clients -> Seq(Frame)]]
        /\ \A t \in txns : t.by \in Clients
    BY DEF SyncInv, TypeOK, FramesOK
  <1>1. /\ ~Stable(c) /\ play' = play /\ doc' = doc /\ txns' = txns
        /\ link' = [link EXCEPT ![c] = "offline"]
        /\ inbox' = [inbox EXCEPT ![c] = [s \in Clients |-> <<>>]]
    BY DEF Disconnect, Stable
  <1>2. \A x \in Clients : Online(x)' => x # c /\ Online(x)
    BY <1>0, <1>1 DEF Online
  <1>3. \A x \in Clients \ {c} : inbox'[x] = inbox[x]
    BY <1>0, <1>1
  <1>4. \A x \in Clients \ {c} : /\ doc[x] \subseteq doc'[x]
                                 /\ Held(inbox[x]) \subseteq Held(inbox'[x])
    BY <1>1, <1>3
  <1> QED
    BY <1>0, <1>1, <1>2, <1>4, KnowsMore, DeliveryKept

\* Who connects asks everybody who may have something that it lacks.
LEMMA DeliveryConnect ==
  ASSUME SyncInv, Presence, Delivery, NEW c \in Clients, Connect(c)
  PROVE  Delivery'
  <1> DEFINE m == Step1(doc[c])
  <1>0. /\ link \in [Clients -> {"out", "offline", "online"}]
        /\ FramesOK(inbox, Names(txns), link)
        /\ Ledger(txns) /\ doc \in [Clients -> SUBSET Names(txns)]
    BY DEF SyncInv, TypeOK
  <1>1. /\ link[c] = "offline" /\ link' = [link EXCEPT ![c] = "online"]
        /\ inbox' = Broadcast(inbox, c, m)
        /\ play' = play /\ doc' = doc /\ txns' = txns
    BY DEF Connect
  <1>2. /\ m \in Frame /\ m.names \subseteq doc[c] /\ m.names \subseteq Names(txns)
        /\ m.kind = "step1"
    <2>1. Names(Integrated(doc[c])) \subseteq doc[c]
      BY DEF Names, Integrated
    <2>2. doc[c] \subseteq Clients \X Nat /\ doc[c] \subseteq Names(txns)
      BY <1>0, NamesTyped
    <2> QED
      BY <2>1, <2>2 DEF Step1, Frame
  <1> HIDE DEF m
  <1>3. \A x \in Clients : Held(inbox'[x]) = IF x # c /\ link[x] = "online"
                                             THEN Held(inbox[x]) \cup {m} ELSE Held(inbox[x])
    <2>1. \A x \in Clients : Held(Broadcast(inbox, c, m)[x]) =
                                IF x # c /\ link[x] = "online"
                                THEN Held(inbox[x]) \cup {m} ELSE Held(inbox[x])
      <3>1. FramesOK(inbox, Names(txns), link) /\ m \in Frame /\ m.names \subseteq Names(txns)
        BY <1>0, <1>2
      <3> QED
        BY <3>1, FramesBroadcast
    <2> QED
      BY <1>1, <2>1
  <1>4. \A x \in Clients : /\ doc[x] \subseteq doc'[x]
                           /\ Held(inbox[x]) \subseteq Held(inbox'[x])
    BY <1>1, <1>3
  <1>5. \A x \in Clients : Online(x)' => x = c \/ Online(x)
    BY <1>0, <1>1 DEF Online
  <1> SUFFICES ASSUME NEW e \in Clients, Online(e)', NEW t \in txns, Stable(t.by)
               PROVE  Knows(e, Name(t))' \/ Asked(t.by, Name(t))'
    BY <1>1 DEF Delivery, Stable
  <1>6. /\ t.by \in Clients /\ Name(t) \in doc[t.by]
        /\ Online(t.by) \/ (t.by = Seeder /\ \A d \in Clients \ {Seeder} : link[d] = "out")
    BY WritersAreThere
  <1>7. CASE Online(e)
    <2>1. Knows(e, Name(t)) \/ Asked(t.by, Name(t))
      BY <1>7 DEF Delivery
    <2> QED
      BY <1>4, <1>6, <2>1, KnowsMore
  <1>8. CASE e = c /\ Name(t) \in doc[c]
    BY <1>1, <1>8 DEF Knows
  <1>9. CASE e = c /\ Name(t) \notin doc[c]
    <2>1. t.by # c /\ Online(t.by)
      BY <1>1, <1>6, <1>9
    <2>2. m \in Held(inbox'[t.by]) /\ Asks(m, Name(t))
      BY <1>2, <1>3, <1>6, <1>9, <2>1 DEF Asks, Online
    <2> QED
      BY <2>2 DEF Asked, Asks, Held
  <1> QED
    BY <1>5, <1>7, <1>8, <1>9

\* An answer goes to everybody in the room.
LEMMA DeliveryAnswer ==
  ASSUME SyncInv, Delivery, NEW c \in Clients, NEW s \in Clients, ReceiveStep1(c, s)
  PROVE  Delivery'
  <1> DEFINE q == Head(inbox[c][s])
             lacking == doc[c] \ q.names
             rest == [inbox EXCEPT ![c][s] = Tail(inbox[c][s])]
             m == Update(lacking)
  <1>0. /\ FramesOK(inbox, Names(txns), link)
        /\ Ledger(txns) /\ doc \in [Clients -> SUBSET Names(txns)]
        /\ \A t \in txns : t.by \in Clients /\ Name(t) \in doc[t.by]
    BY DEF SyncInv, TypeOK, OwnAreIntegrated
  <1>1. /\ inbox[c][s] # <<>> /\ q.kind = "step1"
        /\ inbox' = IF lacking = {} THEN rest ELSE Broadcast(rest, c, m)
        /\ play' = play /\ doc' = doc /\ link' = link /\ txns' = txns
    BY DEF ReceiveStep1
  <1>2. /\ FramesOK(rest, Names(txns), link)
        /\ Held(rest[c]) \subseteq Held(inbox[c]) /\ Held(inbox[c]) \subseteq Held(rest[c]) \cup {q}
        /\ \A d \in Clients \ {c} : rest[d] = inbox[d]
    <2>1. inbox[c][s] # <<>>
      BY <1>1
    <2>2. FramesOK(inbox, Names(txns), link)
      BY <1>0
    <2>3. FramesOK(rest, Names(txns), link)
      BY <2>1, <2>2, FramesTail
    <2>4. Held(rest[c]) \subseteq Held(inbox[c])
      BY <2>1, <2>2, FramesTail
    <2>5. Held(inbox[c]) \subseteq Held(rest[c]) \cup {q}
      BY <2>1, <2>2, FramesTail
    <2>6. \A d \in Clients \ {c} : rest[d] = inbox[d]
      BY <2>2 DEF FramesOK
    <2> HIDE DEF rest, q
    <2> QED
      BY <2>3, <2>4, <2>5, <2>6
  <1>3. /\ m \in Frame /\ m.names \subseteq Names(txns)
        /\ m.kind = "update" /\ m.names = lacking
    <2>1. lacking \subseteq Clients \X Nat /\ lacking \subseteq Names(txns)
      BY <1>0, NamesTyped
    <2> QED
      BY <2>1 DEF Update, Frame
  <1>4. \A n : n \in lacking <=> n \in doc[c] /\ n \notin q.names
    OBVIOUS
  <1> HIDE DEF lacking, rest, m, q
  <1>5. /\ \A d \in Clients : Held(rest[d]) \subseteq Held(inbox'[d])
        /\ lacking # {} => \A d \in Clients \ {c} : Online(d) => m \in Held(inbox'[d])
    <2>1. CASE lacking = {}
      BY <1>1, <2>1
    <2>2. CASE lacking # {}
      <3>1. \A d \in Clients : Held(Broadcast(rest, c, m)[d]) =
                                  IF d # c /\ link[d] = "online"
                                  THEN Held(rest[d]) \cup {m} ELSE Held(rest[d])
        BY <1>2, <1>3, FramesBroadcast
      <3> QED
        BY <1>1, <2>2, <3>1 DEF Online
    <2> QED
      BY <2>1, <2>2
  <1>6. \A x \in Clients : Online(x)' <=> Online(x)
    BY <1>1 DEF Online
  <1>7. \A d \in Clients \ {c} : Held(inbox[d]) \subseteq Held(inbox'[d])
    BY <1>2, <1>5
  <1>8. \A x \in Held(inbox[c]) : x = q \/ x \in Held(inbox'[c])
    BY <1>2, <1>5
  <1>9. \A d : Held(inbox[d])' = Held(inbox'[d])
    BY DEF Held
  <1>10. ASSUME NEW x \in Clients, NEW n, Knows(x, n) PROVE Knows(x, n)'
    <2>1. CASE x # c
      BY <1>1, <1>7, <1>10, <2>1, KnowsMore
    <2>2. CASE x = c
      BY <1>1, <1>8, <1>9, <1>10, <2>2 DEF Knows, Tells
    <2> QED
      BY <2>1, <2>2
  <1>11. ASSUME NEW t \in txns, Asked(t.by, Name(t)), ~Asked(t.by, Name(t))'
         PROVE  \A x \in Clients : Online(x)' => Knows(x, Name(t))'
    <2>1. t.by = c
      BY <1>0, <1>1, <1>7, <1>11, KnowsMore
    <2>2. Asks(q, Name(t))
      BY <1>8, <1>9, <1>11, <2>1 DEF Asked, Asks
    <2>3. Name(t) \in lacking
      BY <1>0, <1>4, <2>1, <2>2 DEF Asks
    <2>4. Knows(c, Name(t))'
      BY <1>0, <1>1, <2>1 DEF Knows, Name
    <2>5. ASSUME NEW x \in Clients \ {c}, Online(x) PROVE Knows(x, Name(t))'
      <3>1. m \in Held(inbox'[x])
        BY <1>5, <2>3, <2>5
      <3> QED
        BY <1>3, <1>9, <2>3, <3>1 DEF Knows, Tells
    <2> QED
      BY <1>6, <2>4, <2>5
  <1> QED
    BY <1>1, <1>6, <1>10, <1>11, DeliveryKept

\* A document takes in what it has been told.
LEMMA DeliveryUpdate ==
  ASSUME SyncInv, Delivery, NEW c \in Clients, NEW s \in Clients, ReceiveUpdate(c, s)
  PROVE  Delivery'
  <1> DEFINE q == Head(inbox[c][s])
             rest == [inbox EXCEPT ![c][s] = Tail(inbox[c][s])]
  <1>0. /\ FramesOK(inbox, Names(txns), link)
        /\ doc \in [Clients -> SUBSET Names(txns)]
        /\ \A t \in txns : t.by \in Clients
    BY DEF SyncInv, TypeOK
  <1>1. /\ inbox[c][s] # <<>> /\ q.kind = "update"
        /\ inbox' = rest
        /\ doc' = [doc EXCEPT ![c] = doc[c] \cup q.names]
        /\ play' = play /\ link' = link /\ txns' = txns
    BY DEF ReceiveUpdate
  <1>2. /\ Held(inbox[c]) \subseteq Held(rest[c]) \cup {q}
        /\ \A d \in Clients \ {c} : rest[d] = inbox[d]
    <2>1. inbox[c][s] # <<>>
      BY <1>1
    <2>2. FramesOK(inbox, Names(txns), link)
      BY <1>0
    <2>3. Held(inbox[c]) \subseteq Held(rest[c]) \cup {q}
      BY <2>1, <2>2, FramesTail
    <2>4. \A d \in Clients \ {c} : rest[d] = inbox[d]
      BY <2>2 DEF FramesOK
    <2> HIDE DEF rest, q
    <2> QED
      BY <2>3, <2>4
  <1> HIDE DEF rest, q
  <1>3. /\ doc'[c] = doc[c] \cup q.names
        /\ \A d \in Clients \ {c} : doc'[d] = doc[d]
    BY <1>0, <1>1
  <1>4. \A d \in Clients \ {c} : Held(inbox[d]) \subseteq Held(inbox'[d])
    BY <1>1, <1>2
  <1>5. \A d : Held(inbox[d])' = Held(inbox'[d])
    BY DEF Held
  <1>6. \A x \in Held(inbox[c]) : x = q \/ x \in Held(inbox[c])'
    BY <1>1, <1>2, <1>5
  <1>7. ASSUME NEW x \in Clients, NEW n
        PROVE  /\ Knows(x, n) => Knows(x, n)'
               /\ Asked(x, n) => Asked(x, n)'
    <2>1. CASE x # c
      BY <1>3, <1>4, <2>1, KnowsMore
    <2>2. CASE x = c
      <3>1. Knows(c, n) => Knows(c, n)'
        BY <1>3, <1>6 DEF Knows, Tells
      <3>2. Asked(c, n) => Asked(c, n)'
        BY <1>1, <1>6 DEF Asked, Asks
      <3> QED
        BY <2>2, <3>1, <3>2
    <2> QED
      BY <2>1, <2>2
  <1>8. \A x \in Clients : Online(x)' <=> Online(x)
    BY <1>1 DEF Online
  <1> QED
    BY <1>0, <1>1, <1>7, <1>8, DeliveryKept

\* What is written is sent to everybody, or was not written by one who counts.
LEMMA DeliveryChange ==
  ASSUME SyncInv, SyncInv', Presence, Delivery, NEW c \in Clients, HandleChange(c)
  PROVE  Delivery'
  <1>1. PICK T, U :
          /\ txns' = txns \cup T \cup U
          /\ doc' = [doc EXCEPT ![c] = doc[c] \cup Names(T \cup U)]
          /\ inbox' = Send(Send(inbox, c, T), c, U)
          /\ changed[c] /\ play' = play /\ link' = link
    BY DEF HandleChange
  <1>0. /\ FramesOK(inbox, Names(txns), link) /\ Newcomers
        /\ doc \in [Clients -> SUBSET Names(txns)]
        /\ link \in [Clients -> {"out", "offline", "online"}]
        /\ \A t \in txns : t.by \in Clients
    BY DEF SyncInv, TypeOK
  <1>2. PICK R : Added(txns, R, c, doc[c]) /\ txns' = txns \cup R
    BY ChangeWritten
  <1>3. \A t \in txns' : t \in txns \/ (t.by = c /\ (t \in T \/ t \in U))
    BY <1>1, <1>2 DEF Added
  <1>4. /\ Names(txns') \in SUBSET (Clients \X Nat) /\ Names(txns) \subseteq Names(txns')
        /\ Names(T) \subseteq Names(txns') /\ Names(U) \subseteq Names(txns')
    <2>1. Ledger(txns')
      BY DEF SyncInv
    <2> QED
      BY <1>1, <2>1, NamesTyped DEF Names
  <1> DEFINE b == Send(inbox, c, T)
             k == Send(b, c, U)
  <1>5. FramesOK(inbox, Names(txns'), link)
    BY <1>0, <1>4, FramesMore
  <1>6. /\ FramesOK(b, Names(txns'), link)
        /\ \A d \in Clients : Held(inbox[d]) \subseteq Held(b[d])
        /\ T # {} /\ Online(c) =>
             \A d \in Clients \ {c} : Online(d) => Update(Names(T)) \in Held(b[d])
    BY <1>4, <1>5, FramesSend DEF Online
  <1> HIDE DEF b
  <1>7. /\ \A d \in Clients : Held(b[d]) \subseteq Held(k[d])
        /\ U # {} /\ Online(c) =>
             \A d \in Clients \ {c} : Online(d) => Update(Names(U)) \in Held(k[d])
    BY <1>4, <1>6, FramesSend DEF Online
  <1> HIDE DEF k
  <1>8. inbox' = k /\ \A d : Held(inbox[d])' = Held(k[d])
    BY <1>1 DEF b, k, Held
  <1>9. /\ doc'[c] = doc[c] \cup Names(T \cup U)
        /\ \A d \in Clients \ {c} : doc'[d] = doc[d]
    BY <1>0, <1>1
  <1>10. \A d \in Clients : /\ doc[d] \subseteq doc'[d]
                            /\ Held(inbox[d]) \subseteq Held(inbox'[d])
    BY <1>6, <1>7, <1>8, <1>9
  <1>11. \A x \in Clients : (Stable(x)' <=> Stable(x)) /\ (Online(x)' <=> Online(x))
    BY <1>1 DEF Stable, Online
  <1> SUFFICES ASSUME NEW e \in Clients, Online(e), NEW t \in txns', t.by \in Clients, Stable(t.by)
               PROVE  Knows(e, Name(t))' \/ Asked(t.by, Name(t))'
    BY <1>0, <1>3, <1>11 DEF Delivery, Stable, Name
  <1>12. CASE t \in txns
    <2>1. Knows(e, Name(t)) \/ Asked(t.by, Name(t))
      BY <1>12 DEF Delivery
    <2> QED
      BY <1>10, <2>1, KnowsMore
  <1>13. CASE t \notin txns
    <2>1. t.by = c /\ (t \in T \/ t \in U)
      BY <1>3, <1>13
    <2>2. Online(c)
      BY <1>0, <1>1, <2>1 DEF Newcomers, Presence, Online
    <2>3. CASE e = c
      <3>1. Name(t) \in Names(T \cup U)
        BY <2>1 DEF Names
      <3> QED
        BY <1>9, <2>3, <3>1 DEF Knows, Name
    <2>4. CASE e # c
      <3>1. PICK X \in {T, U} : t \in X
        BY <2>1
      <3>2. X # {} /\ Update(Names(X)) \in Held(k[e])
        BY <1>6, <1>7, <2>2, <2>4, <3>1
      <3>3. Tells(Update(Names(X)), Name(t))
        BY <3>1 DEF Tells, Update, Names
      <3> QED
        BY <1>8, <3>2, <3>3 DEF Knows, Tells, Name
    <2> QED
      BY <2>3, <2>4
  <1> QED
    BY <1>12, <1>13

-----------------------------------------------------------------------------
(* Entries of the shared map.                                               *)

\* Nothing comes before itself.
LEMMA BeforeIrreflexive ==
  ASSUME NEW p \in Seq(Nat)
  PROVE  ~Before(p, p)
  <1> SUFFICES ASSUME Before(p, p) PROVE FALSE
    OBVIOUS
  <1>1. Len(p) \in Nat /\ \A i \in 1..Len(p) : p[i] \in Nat
    BY LenProperties, ElementOfSeq
  <1>2. PICK k \in 0..Len(p) : k < Len(p) /\ (k = Len(p) \/ p[k + 1] < p[k + 1])
    BY BeforeByElements
  <1>3. k + 1 \in 1..Len(p) /\ k # Len(p)
    BY <1>1, <1>2
  <1> QED
    BY <1>1, <1>2, <1>3

\* A write is the entry if it is the last one.
LEMMA EntryUnique ==
  ASSUME NEW X, Ledger(X), NEW I \in SUBSET X, NEW id, NEW w, IsLast(w, Writes(I, id))
  PROVE  Entry(I, id) = w
  <1> DEFINE W == Writes(I, id)
             e == Entry(I, id)
  <1>1. IsLast(e, W)
    <2>1. W # {}
      BY DEF IsLast
    <2> QED
      BY <2>1, EntryIsLast
  <1>2. Comparable(W)
    BY WritesComparable
  <1> HIDE DEF W, e
  <1> SUFFICES ASSUME e # w PROVE FALSE
    BY DEF e
  <1>3. e \in W /\ w \in W /\ Before(w.path, e.path) /\ Before(e.path, w.path)
    BY <1>1 DEF IsLast, W
  <1>4. w.path \in Seq(Nat) /\ e.path \in Seq(Nat)
    BY <1>2, <1>3 DEF Comparable
  <1> QED
    BY <1>3, <1>4, BeforeTransitive, BeforeIrreflexive

\* R brings the elements of the scene sc at S, and the files F, to the document I.
Brings(R, I, sc, S, F) ==
    /\ \A id : Shared(I \cup R, id) = IF id \in S THEN sc[id] ELSE Shared(I, id)
    /\ readFiles(I \cup R) = readFiles(I) \cup F
    /\ \A t \in R : \A id \in DOMAIN t.puts : id \in S /\ t.puts[id].el = sc[id]
    /\ \A t, u \in R : DOMAIN t.puts # {} /\ DOMAIN u.puts # {} => t = u
    /\ S = {} /\ F = {} => R = {}

\* What is written last of an element is what the document shows of it.
LEMMA WrittenIsShown ==
  ASSUME NEW Y, Ledger(Y), NEW I \in SUBSET Y, NEW K \in SUBSET Y, NEW c \in Clients,
         NEW id, NEW w, Writes(K, id) = Writes(I, id) \cup {w},
         w.path = Append(Entry(I, id).path, c)
  PROVE  Shared(K, id) = w.el
  <1> DEFINE e == Entry(I, id)
  <1>1. e.path \in Seq(Clients) /\ \A x \in Writes(I, id) : x = e \/ Before(x.path, e.path)
    BY EntryTyped
  <1>2. e.path \in Seq(Nat) /\ c \in Nat
    BY <1>1, SeqMonotonic, CanvasAssumption
  <1>3. \A x \in Writes(I, id) : x.path \in Seq(Nat)
    BY WritesComparable DEF Comparable
  <1>4. w.path = Append(e.path, c)
    OBVIOUS
  <1> HIDE DEF e
  <1>5. w.path \in Seq(Nat) /\ Before(e.path, w.path)
    BY <1>2, <1>4, AppendProperties, BeforeAppend
  <1>6. IsLast(w, Writes(K, id))
    <2> SUFFICES ASSUME NEW x \in Writes(I, id) PROVE Before(x.path, w.path)
      BY DEF IsLast
    <2>1. x = e \/ Before(x.path, e.path)
      BY <1>1
    <2> QED
      BY <1>2, <1>3, <1>5, <2>1, BeforeTransitive
  <1>7. Entry(K, id) = w
    BY <1>6, EntryUnique
  <1> QED
    BY <1>7 DEF Shared

\* The document after the elements at S and the files F have been written.
LEMMA AfterWriting ==
  ASSUME NEW X, NEW c \in Clients, NEW I, NEW D, Knowing(c, I, D, X),
         NEW sc, NEW S, NEW F, NEW R, Records(c, R, I, sc, S, F), Added(X, R, c, D)
  PROVE  Brings(R, I, sc, S, F)
  <1> DEFINE T == writeElements(c, I, sc, S)
             J == I \cup T
             U == writeFiles(c, J, F)
             puts == [id \in S |-> [el |-> sc[id], path |-> Append(Entry(I, id).path, c)]]
             t == Transaction(c, I, puts, {})
             u == Transaction(c, J, <<>>, F)
             K == I \cup R
             Y == X \cup R
  <1>1. /\ t.puts = puts /\ t.files = {} /\ DOMAIN puts = S
        /\ u.puts = <<>> /\ u.files = F /\ DOMAIN <<>> = {}
    BY DEF Transaction
  <1>2. /\ S = {} => T = {}
        /\ S # {} => T = {t}
        /\ F = {} => U = {}
        /\ F # {} => U = {u}
    BY DEF writeElements, writeFiles
  <1>3. R = T \cup U
    BY DEF Records
  <1>4. \A id \in S : puts[id].el = sc[id] /\ puts[id].path = Append(Entry(I, id).path, c)
    OBVIOUS
  <1> HIDE DEF t, u, T, U, puts
  <1>5. \A v \in R : \/ v = t /\ S # {}
                     \/ v = u /\ F # {}
    BY <1>2, <1>3
  <1>6. /\ S # {} => t \in R
        /\ F # {} => u \in R
    BY <1>2, <1>3
  <1>7. Ledger(Y) /\ I \in SUBSET Y /\ K \in SUBSET Y
    BY DEF Added, Knowing
  <1>8. ASSUME NEW id \in S PROVE Shared(K, id) = sc[id]
    <2> DEFINE w == puts[id]
    <2>1. Writes(K, id) = Writes(I, id) \cup {w}
      BY <1>1, <1>5, <1>6 DEF Writes
    <2>2. w.path = Append(Entry(I, id).path, c) /\ w.el = sc[id]
      BY <1>4
    <2> HIDE DEF w, K, Y
    <2>3. Shared(K, id) = w.el
      BY <1>7, <2>1, <2>2, WrittenIsShown
    <2> QED
      BY <2>2, <2>3
  <1>9. ASSUME NEW id, id \notin S PROVE Shared(K, id) = Shared(I, id)
    <2>1. Writes(K, id) = Writes(I, id)
      BY <1>1, <1>5, <1>9 DEF Writes
    <2> QED
      BY <2>1 DEF Shared, Entry
  <1>10. readFiles(K) = readFiles(I) \cup F
    <2>1. \A f : f \in F <=> \E v \in R : f \in v.files
      BY <1>1, <1>5, <1>6
    <2>2. \A f : f \in readFiles(K) <=> f \in readFiles(I) \/ f \in F
      BY <2>1 DEF readFiles
    <2> QED
      BY <2>2
  <1>11. \A v \in R : \A id \in DOMAIN v.puts : id \in S /\ v.puts[id].el = sc[id]
    BY <1>1, <1>4, <1>5
  <1>12. \A v, w \in R : DOMAIN v.puts # {} /\ DOMAIN w.puts # {} => v = w
    BY <1>1, <1>5
  <1>13. S = {} /\ F = {} => R = {}
    BY <1>5
  <1> QED
    BY <1>8, <1>9, <1>10, <1>11, <1>12, <1>13 DEF Brings

\* The file of a transaction is all the files that are written, or none.
LEMMA FilesWritten ==
  ASSUME NEW c, NEW I, NEW sc, NEW S, NEW F, NEW R, Records(c, R, I, sc, S, F)
  PROVE  \A t \in R : t.files = {} \/ t.files = F
  <1> DEFINE T == writeElements(c, I, sc, S)
  <1>1. R = T \cup writeFiles(c, I \cup T, F)
    BY DEF Records
  <1>2. \A t \in T : t.files = {}
    BY ElementsOnly
  <1> HIDE DEF T
  <1>3. \A t \in writeFiles(c, I \cup T, F) : t.files = F
    BY DEF writeFiles, Transaction
  <1> QED
    BY <1>1, <1>2, <1>3

\* Whoever has integrated the elements of R knows all that their client has
\* written and the entries that they replaced, and the files build on no more.
BuildsOn(known, R, c, I, S, F) ==
    /\ \A v \in R : DOMAIN v.puts # {} => v.past \cup {Name(v)} = known
    /\ \A v \in I : v.by = c => v.past \cup {Name(v)} \subseteq known
    /\ \A v \in I : \A id \in S \cap DOMAIN v.puts :
          v.puts[id] = Entry(I, id) => v.past \cup {Name(v)} \subseteq known
    /\ F # {} => \E u \in R : u.by = c /\ u.files = F /\ u.past \subseteq known
    /\ I = {} => known = {<<c, 1>>}

LEMMA WrittenOn ==
  ASSUME NEW c, NEW I, NEW sc, NEW S, NEW F, NEW R, Records(c, R, I, sc, S, F), S # {}
  PROVE  \E known : BuildsOn(known, R, c, I, S, F)
  <1> DEFINE puts == [id \in S |-> [el |-> sc[id], path |-> Append(Entry(I, id).path, c)]]
             t == Transaction(c, I, puts, {})
             u == Transaction(c, I \cup {t}, <<>>, F)
             base == {v \in I : \/ v.by = c
                                \/ \E id \in S \cap DOMAIN v.puts : v.puts[id] = Entry(I, id)}
             known == t.past \cup {Name(t)}
  <1>1. /\ DOMAIN puts = S /\ t.by = c /\ t.n = Cardinality({v \in I : v.by = c}) + 1
        /\ t.past = UNION {v.past \cup {Name(v)} : v \in base}
    BY DEF Transaction
  <1>2. /\ u.by = c /\ u.files = F /\ u.puts = <<>> /\ DOMAIN <<>> = {}
        /\ u.past = UNION {v.past \cup {Name(v)} :
                             v \in {w \in I \cup {t} : w.by = c
                                      \/ \E id \in DOMAIN <<>> \cap DOMAIN w.puts :
                                            w.puts[id] = Entry(I \cup {t}, id)}}
    BY DEF Transaction
  <1>3. writeElements(c, I, sc, S) = {t}
    BY DEF writeElements
  <1>4. R = {t} \cup IF F = {} THEN {} ELSE {u}
    BY <1>3 DEF Records, writeFiles
  <1> HIDE DEF t, u, puts
  <1>5. \A v \in R : DOMAIN v.puts # {} => v.past \cup {Name(v)} = known
    BY <1>2, <1>4
  <1>6. \A v \in base : v.past \cup {Name(v)} \subseteq known
    BY <1>1
  <1>7. u.past \subseteq known
    <2>1. \A v \in I \cup {t} : v.by = c => v.past \cup {Name(v)} \subseteq known
      BY <1>6
    <2> HIDE DEF known, base
    <2> QED
      BY <1>2, <2>1
  <1>8. F # {} => u \in R
    BY <1>4
  <1>9. I = {} => known = {<<c, 1>>}
    <2> SUFFICES ASSUME I = {} PROVE known = {<<c, 1>>}
      OBVIOUS
    <2>1. t.past = {}
      BY <1>1
    <2>2. {v \in I : v.by = c} = {} /\ Cardinality({}) = 0
      BY FS_EmptySet
    <2>3. Name(t) = <<c, 1>>
      BY <1>1, <2>2 DEF Name
    <2> QED
      BY <2>1, <2>3
  <1> HIDE DEF known
  <1>10. F # {} => \E v \in R : v.by = c /\ v.files = F /\ v.past \subseteq known
    BY <1>2, <1>7, <1>8
  <1> QED
    BY <1>5, <1>6, <1>9, <1>10 DEF BuildsOn

\* What is shared stays shared.
LEMMA StaysShared ==
  ASSUME NEW X, Ledger(X), NEW I, NEW K \in SUBSET X, I \subseteq K, NEW id,
         Shared(I, id) # NoElement
  PROVE  Shared(K, id) # NoElement
  <1>1. Writes(I, id) # {}
    BY DEF Shared, Entry
  <1>2. Writes(K, id) # {}
    BY <1>1 DEF Writes
  <1>3. PICK t \in K : id \in DOMAIN t.puts /\ Entry(K, id) = t.puts[id]
    BY <1>2, EntryIsLast DEF IsLast, Writes
  <1>4. Shared(K, id) \in Element
    BY <1>3 DEF Ledger, Typed, Shared
  <1> QED
    BY <1>4, ElementAssumption

-----------------------------------------------------------------------------
(* The scene, the images and the document.                                  *)

Document(c) == Integrated(doc[c])

\* The scene sc and the images F are never behind the document I, and ahead of
\* it only while an onChange is due (ch).
Follow(sc, F, ch, I) ==
    /\ \A id \in Ids : NotOlder(Shared(I, id), sc[id])
    /\ readFiles(I) \subseteq F
    /\ ~ch => /\ \A id \in Ids : NotOlder(sc[id], Shared(I, id))
              /\ F \subseteq readFiles(I)

Follows(c) == Follow(scene[c], files[c], changed[c], Document(c))

AllFollow == \A c \in Clients : Follows(c)

-----------------------------------------------------------------------------
(* How documents change.                                                    *)

\* Who writes has the transactions in its document at once, the others later.
LEMMA DocumentGrows ==
  ASSUME SyncInv, NEW c \in Clients, NEW R, Added(txns, R, c, doc[c]),
         txns' = txns \cup R, doc' = [doc EXCEPT ![c] = doc[c] \cup Names(R)]
  PROVE  /\ Document(c)' = Document(c) \cup R
         /\ \A d \in Clients \ {c} : Document(d)' = Document(d)
  <1>0. /\ doc \in [Clients -> SUBSET Names(txns)]
        /\ OwnAreIntegrated /\ \A t \in txns : t.by \in Clients /\ t.n \in Nat
    BY DEF SyncInv, TypeOK
  <1>1. \A t \in txns : Name(t) \in Names(txns) /\ t.past \subseteq Names(txns)
    <2>1. \A t \in txns : t.past \subseteq Names(txns)
      BY <1>0 DEF OwnAreIntegrated
    <2> QED
      BY <2>1 DEF Names
  <1>2. \A n \in Names(R) : n \notin Names(txns)
    <2> SUFFICES ASSUME NEW t \in R, NEW u \in txns, Name(t) = Name(u) PROVE FALSE
      BY DEF Names
    <2>1. t.by = c /\ t.by = u.by /\ t.n = u.n
      BY DEF Added, Name
    <2>2. u.n < t.n
      BY <2>1 DEF Added
    <2> QED
      BY <1>0, <2>1, <2>2
  <1>3. \A t \in R : Name(t) \in Names(R) /\ t.past \subseteq doc[c] \cup Names(R)
    BY DEF Names, Added
  <1>4. /\ doc'[c] = doc[c] \cup Names(R) /\ doc[c] \subseteq Names(txns)
        /\ \A d \in Clients \ {c} : doc'[d] = doc[d] /\ doc[d] \subseteq Names(txns)
    BY <1>0
  <1>5. Document(c)' = Document(c) \cup R
    <2>1. \A t : t \in Document(c)' <=>
                 t \in txns \cup R /\ Name(t) \in doc'[c] /\ t.past \subseteq doc'[c]
      BY DEF Document, Integrated
    <2>2. \A t : t \in Document(c) <=>
                 t \in txns /\ Name(t) \in doc[c] /\ t.past \subseteq doc[c]
      BY DEF Document, Integrated
    <2>3. ASSUME NEW t \in txns PROVE t \in Document(c)' <=> t \in Document(c)
      BY <1>1, <1>2, <1>4, <2>1, <2>2
    <2>4. ASSUME NEW t \in R PROVE t \in Document(c)'
      BY <1>3, <1>4, <2>1
    <2> QED
      BY <2>1, <2>2, <2>3, <2>4
  <1>6. ASSUME NEW d \in Clients \ {c} PROVE Document(d)' = Document(d)
    <2>1. \A t : t \in Document(d)' <=>
                 t \in txns \cup R /\ Name(t) \in doc'[d] /\ t.past \subseteq doc'[d]
      BY DEF Document, Integrated
    <2>2. \A t : t \in Document(d) <=>
                 t \in txns /\ Name(t) \in doc[d] /\ t.past \subseteq doc[d]
      BY DEF Document, Integrated
    <2> QED
      BY <1>2, <1>3, <1>4, <2>1, <2>2
  <1> QED
    BY <1>5, <1>6

\* What HandleChange makes of the documents.
LEMMA ChangeShared ==
  ASSUME SyncInv, NEW c \in Clients, HandleChange(c)
  PROVE  \E I, S, F, R :
           /\ Writing(c, I, S, F, R) /\ Brings(R, I, scene[c], S, F)
           /\ Added(txns, R, c, doc[c])
           /\ I = Document(c) /\ Document(c)' = I \cup R
           /\ \A d \in Clients \ {c} : Document(d)' = Document(d)
           /\ txns' = txns \cup R
  <1>1. PICK I, S, F, R :
           /\ Writing(c, I, S, F, R) /\ Added(txns, R, c, doc[c])
           /\ txns' = txns \cup R
           /\ doc' = [doc EXCEPT ![c] = doc[c] \cup Names(R)]
    BY ChangeWritten
  <1>2. /\ I = Document(c)
        /\ Knowing(c, I, doc[c], txns) /\ Records(c, R, I, scene[c], S, F)
    BY <1>1 DEF Writing, Document
  <1>3. Brings(R, I, scene[c], S, F)
    BY <1>1, <1>2, AfterWriting
  <1>4. /\ Document(c)' = Document(c) \cup R
        /\ \A d \in Clients \ {c} : Document(d)' = Document(d)
    BY <1>1, DocumentGrows
  <1> QED
    BY <1>1, <1>2, <1>3, <1>4

-----------------------------------------------------------------------------
(* Scenes and images follow the document.                                   *)

\* What may be shown of an element: versions are numbers.
LEMMA NotOlderTransitive ==
  ASSUME NEW x \in Element \cup {NoElement}, NEW y \in Element \cup {NoElement},
         NEW z \in Element \cup {NoElement}, NotOlder(x, y), NotOlder(y, z)
  PROVE  NotOlder(x, z)
  BY DEF NotOlder, Element

\* A merged scene is not behind the document that it was merged with.
LEMMA ReconcileCatchesUp ==
  ASSUME NEW x \in Element \cup {NoElement}, NEW y \in Element \cup {NoElement}
  PROVE  NotOlder(y, Reconcile(x, y))
  <1> SUFFICES ASSUME y # NoElement, Reconcile(x, y) # y
               PROVE  x # NoElement /\ x.ver >= y.ver /\ Reconcile(x, y) = x
    BY DEF NotOlder, Element
  <1> QED
    BY DEF Reconcile, Element

\* Nothing happens to a client whose scene, images and document stay.
LEMMA FollowKept ==
  ASSUME NEW c, Follows(c), scene'[c] = scene[c], files'[c] = files[c],
         changed'[c] = changed[c], Document(c)' = Document(c)
  PROVE  Follows(c)'
  BY DEF Follows

\* What a client has written catches its document up.
LEMMA FollowWritten ==
  ASSUME NEW sc \in [Ids -> Element \cup {NoElement}], NEW F, NEW ch, NEW I, NEW R,
         Follow(sc, F, ch, I),
         Brings(R, I, sc, collectElementUpdates(sc, I), collectNewFiles(F, I)),
         \A id \in Ids : Shared(I, id) \in Element \cup {NoElement}
  PROVE  Follow(sc, F, FALSE, I \cup R)
  <1> DEFINE S == collectElementUpdates(sc, I)
             K == I \cup R
  <1>1. /\ \A id \in Ids : Shared(K, id) = IF id \in S THEN sc[id] ELSE Shared(I, id)
        /\ readFiles(K) = readFiles(I) \cup collectNewFiles(F, I)
    BY DEF Brings
  <1>2. /\ \A id \in Ids : NotOlder(Shared(I, id), sc[id])
        /\ readFiles(I) \subseteq F
    BY DEF Follow
  <1>3. \A id \in Ids : id \notin S =>
          sc[id] = NoElement \/ (Shared(I, id) # NoElement /\ ~(sc[id].ver > Shared(I, id).ver))
    BY DEF collectElementUpdates
  <1> HIDE DEF S, K
  <1>4. ASSUME NEW id \in Ids
        PROVE  NotOlder(Shared(K, id), sc[id]) /\ NotOlder(sc[id], Shared(K, id))
    <2>1. sc[id] \in Element \cup {NoElement} /\ Shared(I, id) \in Element \cup {NoElement}
      OBVIOUS
    <2>2. CASE id \in S
      BY <1>1, <2>1, <2>2 DEF NotOlder, Element
    <2>3. CASE id \notin S
      BY <1>1, <1>2, <1>3, <2>1, <2>3 DEF NotOlder, Element
    <2> QED
      BY <2>2, <2>3
  <1>5. readFiles(K) = F
    BY <1>1, <1>2 DEF collectNewFiles
  <1> QED
    BY <1>4, <1>5 DEF Follow, K

\* A step of c concerns no other client.
LEMMA FollowOthers ==
  ASSUME AllFollow, NEW c \in Clients, Follows(c)',
         \A d \in Clients \ {c} :
            /\ scene'[d] = scene[d] /\ files'[d] = files[d]
            /\ changed'[d] = changed[d] /\ Document(d)' = Document(d)
  PROVE  AllFollow'
  <1> SUFFICES ASSUME NEW d \in Clients, d # c PROVE Follows(d)'
    BY DEF AllFollow
  <1> QED
    BY FollowKept DEF AllFollow

\* The frames may change.
LEMMA FollowIdle ==
  ASSUME AllFollow, UNCHANGED <<scene, files, changed, doc, txns>>
  PROVE  AllFollow'
  BY DEF AllFollow, Follows, Document, Integrated

\* The seed is shown as it is shared.
LEMMA FollowMount ==
  ASSUME SyncInv, Presence, AllFollow, NEW c \in Clients, Mount(c)
  PROVE  AllFollow'
  <1>0. /\ TypeOK /\ Ledger(txns) /\ Newcomers /\ link[c] = "out"
        /\ doc[c] = {}
    BY DEF SyncInv, Presence, Mount
  <1>1. CASE ~(c = Seeder /\ Saved # {})
    <2>1. UNCHANGED <<scene, files, changed, doc, txns>>
      BY <1>1 DEF Mount
    <2> QED
      BY <2>1, FollowIdle
  <1>2. CASE c = Seeder /\ Saved # {}
    <2>1. PICK I, seed, R :
            /\ Seeding(c, I, seed, R) /\ Added(txns, R, c, I)
            /\ scene' = [scene EXCEPT ![c] = seed]
            /\ files' = [files EXCEPT ![c] = Saved]
            /\ txns' = txns \cup R
            /\ doc' = [doc EXCEPT ![c] = Names(R)]
      BY <1>2, SeedWritten
    <2>2. /\ Knowing(c, I, I, txns) /\ Records(c, R, I, seed, Saved, Saved)
          /\ seed = [id \in Ids |-> IF id \in Saved THEN SavedElement ELSE NoElement]
          /\ I = {}
      BY <2>1 DEF Seeding
    <2>3. I = doc[c]
      BY <1>0, <2>2
    <2>4. changed' = changed
      BY DEF Mount
    <2>7. Brings(R, I, seed, Saved, Saved)
      BY <2>1, <2>2, AfterWriting
    <2>8. /\ Document(c)' = Document(c) \cup R
          /\ \A d \in Clients \ {c} : Document(d)' = Document(d)
      <3>1. doc' = [doc EXCEPT ![c] = doc[c] \cup Names(R)]
        BY <1>0, <2>1
      <3>2. Added(txns, R, c, doc[c])
        BY <2>1, <2>3
      <3> QED
        BY <2>1, <3>1, <3>2, DocumentGrows
    <2>9. Document(c) = {}
      BY <1>0 DEF Document, Integrated
    <2>10. Document(c)' = I \cup R
      BY <2>2, <2>8, <2>9
    <2>11. scene'[c] = seed /\ files'[c] = Saved
      BY <1>0, <2>1 DEF TypeOK
    <2>12. \A id \in Ids : Shared(I \cup R, id) = seed[id]
      <3>1. \A id \in Ids : Shared(I, id) = NoElement
        BY <2>2 DEF Shared, Entry, Writes
      <3> QED
        BY <2>2, <2>7, <3>1 DEF Brings
    <2>13. readFiles(I \cup R) = Saved
      <3>1. readFiles(I) = {}
        BY <2>2 DEF readFiles
      <3> QED
        BY <2>7, <3>1 DEF Brings
    <2>14. \A x \in Element \cup {NoElement} : NotOlder(x, x)
      BY DEF NotOlder, Element
    <2>15. \A id \in Ids : seed[id] \in Element \cup {NoElement}
      BY <2>2 DEF SavedElement, Element
    <2>16. Follow(seed, Saved, changed'[c], I \cup R)
      BY <2>12, <2>13, <2>14, <2>15 DEF Follow
    <2>17. Follows(c)'
      BY <2>10, <2>11, <2>16 DEF Follows
    <2>18. \A d \in Clients \ {c} : scene'[d] = scene[d] /\ files'[d] = files[d]
      BY <1>0, <2>1 DEF TypeOK
    <2> QED
      BY <2>4, <2>8, <2>17, <2>18, FollowOthers
  <1> QED
    BY <1>1, <1>2

\* What is written was shown, and is shown.
LEMMA FollowChange ==
  ASSUME SyncInv, AllFollow, NEW c \in Clients, HandleChange(c)
  PROVE  AllFollow'
  <1>0. /\ scene \in [Clients -> [Ids -> Element \cup {NoElement}]]
        /\ changed \in [Clients -> BOOLEAN] /\ Ledger(txns)
    BY DEF SyncInv, TypeOK
  <1>1. /\ changed' = [changed EXCEPT ![c] = FALSE]
        /\ scene' = scene /\ files' = files
    BY DEF HandleChange
  <1>2. PICK I, S, F, R :
          /\ Writing(c, I, S, F, R) /\ Brings(R, I, scene[c], S, F)
          /\ I = Document(c) /\ Document(c)' = I \cup R
          /\ \A d \in Clients \ {c} : Document(d)' = Document(d)
    BY ChangeShared
  <1>3. /\ S = collectElementUpdates(scene[c], I)
        /\ F = collectNewFiles(files[c], I)
        /\ I \in SUBSET txns
    BY <1>2 DEF Writing, Knowing
  <1>4. \A id \in Ids : Shared(I, id) \in Element \cup {NoElement}
    BY <1>0, <1>3, EntryTyped
  <1>5. Follow(scene[c], files[c], changed[c], I)
    BY <1>2 DEF AllFollow, Follows
  <1>6. Brings(R, I, scene[c], collectElementUpdates(scene[c], I), collectNewFiles(files[c], I))
    BY <1>2, <1>3
  <1>7. Follow(scene[c], files[c], FALSE, I \cup R)
    BY <1>0, <1>4, <1>5, <1>6, FollowWritten
  <1>8. changed'[c] = FALSE /\ \A d \in Clients \ {c} : changed'[d] = changed[d]
    BY <1>0, <1>1
  <1>9. Follows(c)'
    BY <1>1, <1>2, <1>7, <1>8 DEF Follows
  <1> QED
    BY <1>1, <1>2, <1>8, <1>9, FollowOthers

\* A document that knows more has integrated more.
LEMMA IntegratedGrows ==
  ASSUME NEW D, NEW E, D \subseteq E
  PROVE  Integrated(D) \subseteq Integrated(E)
  BY DEF Integrated

\* What is taken in is merged into what is shown.
LEMMA FollowUpdate ==
  ASSUME SyncInv, AllFollow, NEW c \in Clients, NEW s \in Clients, ReceiveUpdate(c, s)
  PROVE  AllFollow'
  <1> DEFINE D == doc[c] \cup Head(inbox[c][s]).names
             I == Integrated(doc[c])
             K == Integrated(D)
             new == K \ I
             merged == [id \in Ids |-> Reconcile(scene[c][id], Shared(K, id))]
  <1>0. /\ TypeOK /\ Ledger(txns)
        /\ scene \in [Clients -> [Ids -> Element \cup {NoElement}]]
    BY DEF SyncInv, TypeOK
  <1>1. /\ doc' = [doc EXCEPT ![c] = D]
        /\ scene' = IF \A t \in new : t.puts = <<>> THEN scene
                    ELSE [scene EXCEPT ![c] = merged]
        /\ files' = [files EXCEPT ![c] = files[c] \cup readFiles(new)]
        /\ changed' = [changed EXCEPT ![c] = changed[c] \/ new # {}]
        /\ txns' = txns
    BY DEF ReceiveUpdate
  <1>2. I \subseteq K /\ K \subseteq txns /\ I \in SUBSET txns /\ K \in SUBSET txns
    BY IntegratedGrows DEF Integrated
  <1>3. Document(c) = I
    BY DEF Document
  <1>4. Document(c)' = K /\ \A d \in Clients \ {c} : Document(d)' = Document(d)
    <2>1. doc'[c] = D /\ \A d \in Clients \ {c} : doc'[d] = doc[d]
      BY <1>0, <1>1 DEF TypeOK
    <2> QED
      BY <1>1, <2>1 DEF Document, Integrated
  <1>5. \A d \in Clients \ {c} :
            scene'[d] = scene[d] /\ files'[d] = files[d] /\ changed'[d] = changed[d]
    <2> HIDE DEF new, merged
    <2> QED
      BY <1>0, <1>1 DEF TypeOK
  <1>6. /\ \A id \in Ids : Shared(I, id) \in Element \cup {NoElement}
        /\ \A id \in Ids : Shared(K, id) \in Element \cup {NoElement}
    <2> HIDE DEF I, K
    <2> QED
      BY <1>0, <1>2, EntryTyped
  <1>7. Follow(scene[c], files[c], changed[c], I)
    BY <1>3 DEF AllFollow, Follows
  <1>8. new = K \ I
    OBVIOUS
  <1>9. merged = [id \in Ids |-> Reconcile(scene[c][id], Shared(K, id))]
    OBVIOUS
  <1> HIDE DEF D, I, K, new, merged
  <1>10. files'[c] = files[c] \cup readFiles(new) /\ changed'[c] = (changed[c] \/ new # {})
    BY <1>0, <1>1 DEF TypeOK
  <1>11. scene'[c] = scene[c] \/ scene'[c] = merged
    BY <1>0, <1>1
  <1>12. readFiles(K) = readFiles(I) \cup readFiles(new)
    BY <1>2, <1>8 DEF readFiles
  <1>13. CASE new = {}
    <2>1. K = I
      BY <1>2, <1>8, <1>13
    <2>2. readFiles(new) = {}
      BY <1>13 DEF readFiles
    <2>3. /\ scene'[c] = scene[c] /\ files'[c] = files[c]
          /\ (changed'[c] <=> changed[c])
      BY <1>1, <1>10, <1>13, <2>2
    <2>4. Follow(scene'[c], files'[c], changed'[c], K)
      BY <1>7, <2>1, <2>3 DEF Follow
    <2>5. Follows(c)'
      BY <1>4, <2>4 DEF Follows
    <2> QED
      BY <1>4, <1>5, <2>5, FollowOthers
  <1>14. CASE new # {}
    <2>1. \A id \in Ids : NotOlder(Shared(K, id), scene'[c][id])
      <3>1. CASE \A t \in new : t.puts = <<>>
        <4>1. \A t \in new : DOMAIN t.puts = {}
          BY <3>1
        <4>2. ASSUME NEW id \in Ids PROVE Shared(K, id) = Shared(I, id)
          <5>1. Writes(K, id) = Writes(I, id)
            BY <1>2, <1>8, <4>1 DEF Writes
          <5> QED
            BY <5>1 DEF Shared, Entry
        <4>3. scene'[c] = scene[c]
          BY <1>1, <3>1
        <4> QED
          BY <1>7, <4>2, <4>3 DEF Follow
      <3>2. CASE ~ \A t \in new : t.puts = <<>>
        <4>1. scene'[c] = merged
          BY <1>0, <1>1, <3>2
        <4>2. ASSUME NEW id \in Ids PROVE NotOlder(Shared(K, id), scene'[c][id])
          <5>1. /\ scene[c][id] \in Element \cup {NoElement}
                /\ Shared(K, id) \in Element \cup {NoElement}
            BY <1>0, <1>6
          <5>2. scene'[c][id] = Reconcile(scene[c][id], Shared(K, id))
            BY <1>9, <4>1
          <5> QED
            BY <5>1, <5>2, ReconcileCatchesUp
        <4> QED
          BY <4>2
      <3> QED
        BY <3>1, <3>2
    <2>2. readFiles(K) \subseteq files'[c]
      BY <1>7, <1>10, <1>12 DEF Follow
    <2>3. changed'[c]
      BY <1>10, <1>14
    <2>4. Follow(scene'[c], files'[c], changed'[c], K)
      BY <2>1, <2>2, <2>3 DEF Follow
    <2>5. Follows(c)'
      BY <1>4, <2>4 DEF Follows
    <2> QED
      BY <1>4, <1>5, <2>5, FollowOthers
  <1> QED
    BY <1>13, <1>14

\* A change is newer than what was shown, and an onChange is due.
LEMMA FollowEdit ==
  ASSUME SyncInv, SyncInv', AllFollow, NEW c \in Clients, Edit(c) \/ Restore(c)
  PROVE  AllFollow'
  <1>0. /\ scene \in [Clients -> [Ids -> Element \cup {NoElement}]]
        /\ scene' \in [Clients -> [Ids -> Element \cup {NoElement}]]
        /\ files \in [Clients -> SUBSET Ids]
        /\ changed \in [Clients -> BOOLEAN] /\ Ledger(txns)
    BY DEF SyncInv, TypeOK
  <1>1. /\ changed' = [changed EXCEPT ![c] = TRUE] /\ doc' = doc /\ txns' = txns
        /\ files[c] \subseteq files'[c]
        /\ \A d \in Clients \ {c} : scene'[d] = scene[d] /\ files'[d] = files[d]
    BY <1>0 DEF Edit, Restore
  <1>2. \A d \in Clients : Document(d)' = Document(d)
    BY <1>1 DEF Document, Integrated
  <1>3. changed'[c] /\ \A d \in Clients \ {c} : changed'[d] = changed[d]
    BY <1>0, <1>1
  <1>4. Next
    BY DEF Next
  <1>5. PICK I : I = Document(c)
    OBVIOUS
  <1>6. ASSUME NEW id \in Ids PROVE NotOlder(Shared(I, id), scene'[c][id])
    <2>1. NotOlder(scene[c][id], scene'[c][id])
      BY <1>4, ScenesStep
    <2>2. NotOlder(Shared(I, id), scene[c][id])
      BY <1>5 DEF AllFollow, Follows, Follow
    <2>3. I \in SUBSET txns
      BY <1>5 DEF Document, Integrated
    <2>4. /\ Shared(I, id) \in Element \cup {NoElement}
          /\ scene[c][id] \in Element \cup {NoElement}
          /\ scene'[c][id] \in Element \cup {NoElement}
      BY <1>0, <2>3, EntryTyped
    <2> QED
      BY <2>1, <2>2, <2>4, NotOlderTransitive
  <1>7. readFiles(I) \subseteq files'[c]
    BY <1>1, <1>5 DEF AllFollow, Follows, Follow
  <1>8. Follow(scene'[c], files'[c], changed'[c], I)
    BY <1>3, <1>6, <1>7 DEF Follow
  <1>9. Follows(c)'
    BY <1>2, <1>5, <1>8 DEF Follows
  <1> QED
    BY <1>1, <1>2, <1>3, <1>9, FollowOthers

-----------------------------------------------------------------------------
(* Who has the images.                                                      *)

\* The first transaction of the seed.
First == <<Seeder, 1>>

\* A browser that keeps its connection has shared the image, and whose document
\* knows past, and the seed, can integrate that.
Provided(id, past) ==
    \E u \in txns : Stable(u.by) /\ id \in u.files /\ u.past \subseteq past \cup {First}

\* The images of all elements that have been written, and of the saved version.
Illustrated ==
    /\ \A t \in txns : \A id \in DOMAIN t.puts : Provided(id, t.past \cup {Name(t)})
    /\ link[Seeder] # "out" => \A id \in Saved : Provided(id, {})

\* The image of an element that c shows beyond the saved version comes from the
\* document or from c's own hand, and so does the element.
Depicts(c, id) ==
    /\ id \in files[c] => c = Author[id] \/ id \in readFiles(Document(c))
    /\ scene[c][id] # NoElement =>
         \/ Shared(Document(c), id) # NoElement
         \/ c = Author[id] /\ Stable(c) /\ id \in files[c]

Drawn ==
    \A id \in Ids \ Saved :
        /\ \A t \in txns : id \in t.files => t.by = Author[id]
        /\ \A c \in Clients : Depicts(c, id)

\* A step that changes only connections, frames and counters.
LEMMA DrawnIdle ==
  ASSUME Drawn, UNCHANGED <<play, scene, files, doc, txns>>
  PROVE  Drawn'
  BY DEF Drawn, Depicts, Document, Integrated, Stable

\* A step of c concerns no other client.
LEMMA DrawnOthers ==
  ASSUME Drawn, play' = play, NEW c \in Clients,
         \A id \in Ids \ Saved : Depicts(c, id)',
         \A d \in Clients \ {c} :
            scene'[d] = scene[d] /\ files'[d] = files[d] /\ Document(d)' = Document(d),
         \A t \in txns' : t \in txns \/ \A id \in t.files : id \in Saved \/ t.by = Author[id]
  PROVE  Drawn'
  <1>1. ASSUME NEW id \in Ids \ Saved, NEW t \in txns', id \in t.files PROVE t.by = Author[id]
    BY <1>1 DEF Drawn
  <1>2. ASSUME NEW id \in Ids \ Saved, NEW d \in Clients PROVE Depicts(d, id)'
    <2>1. CASE d = c
      BY <2>1
    <2>2. CASE d # c
      <3>1. Depicts(d, id)
        BY DEF Drawn
      <3> QED
        BY <2>2, <3>1 DEF Depicts, Stable
    <2> QED
      BY <2>1, <2>2
  <1> QED
    BY <1>1, <1>2 DEF Drawn

\* The seed consists of saved elements and their images.
LEMMA DrawnMount ==
  ASSUME SyncInv, Presence, Drawn, NEW c \in Clients, Mount(c)
  PROVE  Drawn'
  <1>0. /\ TypeOK /\ play' = play /\ doc[c] = {}
    BY DEF SyncInv, Presence, Mount
  <1>1. CASE ~(c = Seeder /\ Saved # {})
    <2>1. UNCHANGED <<play, scene, files, doc, txns>>
      BY <1>1 DEF Mount
    <2> QED
      BY <2>1, DrawnIdle
  <1>2. CASE c = Seeder /\ Saved # {}
    <2>1. PICK I, seed, R :
            /\ Seeding(c, I, seed, R) /\ Added(txns, R, c, I)
            /\ scene' = [scene EXCEPT ![c] = seed]
            /\ files' = [files EXCEPT ![c] = Saved]
            /\ txns' = txns \cup R
            /\ doc' = [doc EXCEPT ![c] = Names(R)]
      BY <1>2, SeedWritten
    <2>2. /\ Knowing(c, I, I, txns) /\ Records(c, R, I, seed, Saved, Saved)
          /\ seed = [id \in Ids |-> IF id \in Saved THEN SavedElement ELSE NoElement]
          /\ I = {} /\ I = doc[c]
      BY <1>0, <2>1 DEF Seeding
    <2>3. readFiles(I \cup R) = readFiles(I) \cup Saved
      <3>1. Brings(R, I, seed, Saved, Saved)
        BY <2>1, <2>2, AfterWriting
      <3> QED
        BY <3>1 DEF Brings
    <2>4. \A t \in R : t.files \subseteq Saved
      BY <2>2, <2>3 DEF readFiles
    <2>5. \A d \in Clients \ {c} : Document(d)' = Document(d)
      <3>1. doc' = [doc EXCEPT ![c] = doc[c] \cup Names(R)]
        BY <1>0, <2>1
      <3>2. Added(txns, R, c, doc[c])
        BY <2>1, <2>2
      <3> QED
        BY <2>1, <3>1, <3>2, DocumentGrows
    <2>6. /\ scene'[c] = seed /\ files'[c] = Saved
          /\ \A d \in Clients \ {c} : scene'[d] = scene[d] /\ files'[d] = files[d]
      BY <1>0, <2>1 DEF TypeOK
    <2>7. \A id \in Ids \ Saved : Depicts(c, id)'
      BY <2>2, <2>6 DEF Depicts
    <2> QED
      BY <1>0, <2>1, <2>4, <2>5, <2>6, <2>7, DrawnOthers
  <1> QED
    BY <1>1, <1>2

\* Who draws something new has its image; restoring adds nothing new.
LEMMA DrawnEdit ==
  ASSUME SyncInv, Drawn, NEW c \in Clients, Edit(c) \/ Restore(c)
  PROVE  Drawn'
  <1>0. /\ scene \in [Clients -> [Ids -> Element \cup {NoElement}]]
        /\ files \in [Clients -> SUBSET Ids] /\ play \in Play
    BY CanvasAssumption DEF SyncInv, TypeOK
  <1>1. /\ play' = play /\ txns' = txns /\ doc' = doc /\ Stable(c)
        /\ \A d \in Clients \ {c} : scene'[d] = scene[d] /\ files'[d] = files[d]
    BY <1>0 DEF Edit, Restore, CanEdit, Stable
  <1>2. \A d \in Clients : Document(d)' = Document(d)
    BY <1>1 DEF Document, Integrated
  <1>3. ASSUME NEW id \in Ids \ Saved
        PROVE  /\ files[c] \subseteq files'[c]
               /\ id \in files'[c] => id \in files[c] \/ c = Author[id]
               /\ scene'[c][id] # NoElement =>
                    scene[c][id] # NoElement \/ (c = Author[id] /\ id \in files'[c])
    <2>1. CASE Edit(c)
      <3>1. PICK i \in play.ids, nonce \in play.nonces, del \in BOOLEAN :
                 Edit(c)!(i, nonce, del)
        BY <2>1 DEF Edit
      <3>2. id # i => scene'[c][id] = scene[c][id]
        BY <1>0, <3>1
      <3>3. /\ scene[c][i] = NoElement => c = Author[i]
            /\ files'[c] = IF scene[c][i] = NoElement THEN files[c] \cup {i} ELSE files[c]
        BY <1>0, <3>1
      <3> QED
        BY <3>2, <3>3
    <2>2. CASE Restore(c)
      <3>1. PICK nonce \in play.nonces : Restore(c)!(nonce)
        BY <2>2 DEF Restore
      <3>2. /\ files'[c] = files[c] \cup Saved
            /\ scene'[c] = mergeRestoredElements(scene[c], nonce)
        BY <1>0, <3>1
      <3> QED
        BY <3>2 DEF mergeRestoredElements
    <2> QED
      BY <2>1, <2>2
  <1>4. ASSUME NEW id \in Ids \ Saved PROVE Depicts(c, id)'
    <2>1. Depicts(c, id)
      BY DEF Drawn
    <2> QED
      BY <1>1, <1>2, <1>3, <2>1 DEF Depicts, Stable
  <1> QED
    BY <1>1, <1>2, <1>4, DrawnOthers

\* What is merged in is in the document.
LEMMA DrawnUpdate ==
  ASSUME SyncInv, Drawn, NEW c \in Clients, NEW s \in Clients, ReceiveUpdate(c, s)
  PROVE  Drawn'
  <1> DEFINE I == Integrated(doc[c])
             K == Integrated(doc[c] \cup Head(inbox[c][s]).names)
             new == K \ I
             merged == [id \in Ids |-> Reconcile(scene[c][id], Shared(K, id))]
  <1>0. /\ scene \in [Clients -> [Ids -> Element \cup {NoElement}]]
        /\ files \in [Clients -> SUBSET Ids]
        /\ doc \in [Clients -> SUBSET Names(txns)]
        /\ Ledger(txns) /\ K \in SUBSET txns /\ I \in SUBSET txns
    BY DEF SyncInv, TypeOK, Integrated
  <1>1. /\ doc' = [doc EXCEPT ![c] = doc[c] \cup Head(inbox[c][s]).names]
        /\ scene' = scene \/ scene' = [scene EXCEPT ![c] = merged]
        /\ files' = [files EXCEPT ![c] = files[c] \cup readFiles(new)]
        /\ play' = play /\ txns' = txns
    BY DEF ReceiveUpdate
  <1>2. I \subseteq K
    BY IntegratedGrows
  <1>3. Document(c) = I /\ Document(c)' = K
        /\ \A d \in Clients \ {c} : Document(d)' = Document(d)
    <2>1. /\ doc'[c] = doc[c] \cup Head(inbox[c][s]).names
          /\ \A d \in Clients \ {c} : doc'[d] = doc[d]
      BY <1>0, <1>1
    <2> QED
      BY <1>1, <2>1 DEF Document, Integrated
  <1>4. merged = [id \in Ids |-> Reconcile(scene[c][id], Shared(K, id))] /\ new \subseteq K
    OBVIOUS
  <1> HIDE DEF I, K, new, merged
  <1>5. /\ files'[c] = files[c] \cup readFiles(new)
        /\ scene'[c] = scene[c] \/ scene'[c] = merged
        /\ \A d \in Clients \ {c} : scene'[d] = scene[d] /\ files'[d] = files[d]
    BY <1>0, <1>1
  <1>6. readFiles(I) \subseteq readFiles(K) /\ readFiles(new) \subseteq readFiles(K)
    BY <1>2, <1>4 DEF readFiles
  <1>7. ASSUME NEW id, Shared(I, id) # NoElement PROVE Shared(K, id) # NoElement
    BY <1>0, <1>2, <1>7, StaysShared
  <1>8. ASSUME NEW id \in Ids \ Saved PROVE Depicts(c, id)'
    <2>1. Depicts(c, id)
      BY DEF Drawn
    <2>2. id \in files'[c] => c = Author[id] \/ id \in readFiles(K)
      BY <1>3, <1>5, <1>6, <2>1 DEF Depicts
    <2>3. scene'[c][id] # NoElement => scene[c][id] # NoElement \/ Shared(K, id) # NoElement
      BY <1>4, <1>5 DEF Reconcile
    <2>4. scene[c][id] # NoElement =>
            Shared(K, id) # NoElement \/ (c = Author[id] /\ Stable(c) /\ id \in files'[c])
      BY <1>3, <1>5, <1>7, <2>1 DEF Depicts
    <2> QED
      BY <1>1, <1>3, <2>2, <2>3, <2>4 DEF Depicts, Stable
  <1>9. \A d \in Clients \ {c} :
           scene'[d] = scene[d] /\ files'[d] = files[d] /\ Document(d)' = Document(d)
    BY <1>3, <1>5
  <1> QED
    BY <1>1, <1>8, <1>9, DrawnOthers

\* Who writes an image that is not in the document has drawn it.
LEMMA DrawnChange ==
  ASSUME SyncInv, Drawn, NEW c \in Clients, HandleChange(c)
  PROVE  Drawn'
  <1>1. play' = play /\ scene' = scene /\ files' = files
    BY DEF HandleChange
  <1>2. PICK I, S, F, R :
          /\ Writing(c, I, S, F, R) /\ Brings(R, I, scene[c], S, F)
          /\ Added(txns, R, c, doc[c])
          /\ I = Document(c) /\ Document(c)' = I \cup R
          /\ \A d \in Clients \ {c} : Document(d)' = Document(d)
          /\ txns' = txns \cup R
    BY ChangeShared
  <1>3. /\ F = files[c] \ readFiles(I) /\ F \subseteq Ids
        /\ \A id \in S : scene[c][id] # NoElement
    BY <1>2 DEF Writing, Writable, collectNewFiles, collectElementUpdates
  <1>4. \A id \in F : id \in Saved \/ c = Author[id]
    BY <1>2, <1>3 DEF Drawn, Depicts
  <1>5. readFiles(I \cup R) = readFiles(I) \cup F
    BY <1>2 DEF Brings
  <1>6. \A id : Shared(I \cup R, id) = IF id \in S THEN scene[c][id] ELSE Shared(I, id)
    BY <1>2 DEF Brings
  <1>7. ASSUME NEW t \in R, NEW id \in t.files PROVE id \in Saved \/ t.by = Author[id]
    <2>1. t.by = c /\ (t.files = {} \/ t.files = F)
      BY <1>2, FilesWritten DEF Writing, Added
    <2> QED
      BY <1>4, <2>1
  <1>8. ASSUME NEW id \in Ids \ Saved PROVE Depicts(c, id)'
    <2>1. Depicts(c, id)
      BY DEF Drawn
    <2>2. Shared(I, id) # NoElement => Shared(I \cup R, id) # NoElement
      BY <1>3, <1>6
    <2> QED
      BY <1>1, <1>2, <1>5, <2>1, <2>2 DEF Depicts, Stable
  <1>9. \A t \in txns' : t \in txns \/ \A id \in t.files : id \in Saved \/ t.by = Author[id]
    BY <1>2, <1>7
  <1> QED
    BY <1>1, <1>2, <1>8, <1>9, DrawnOthers

\* What has been provided stays.
LEMMA ProvidedKept ==
  ASSUME play' = play, txns \subseteq txns', NEW id, NEW past, Provided(id, past)
  PROVE  Provided(id, past)'
  BY DEF Provided, Stable

\* A step in which what is written is provided for.
LEMMA IllustratedKept ==
  ASSUME Illustrated, play' = play, txns \subseteq txns',
         \A t \in txns' : t \in txns
            \/ \A id \in DOMAIN t.puts : Provided(id, t.past \cup {Name(t)})',
         link[Seeder] # "out" \/ link'[Seeder] = "out" \/ \A id \in Saved : Provided(id, {})'
  PROVE  Illustrated'
  <1>1. ASSUME NEW t \in txns', NEW id \in DOMAIN t.puts
        PROVE  Provided(id, t.past \cup {Name(t)})'
    <2>1. CASE t \in txns
      <3>1. PICK past : past = t.past \cup {Name(t)}
        OBVIOUS
      <3>2. Provided(id, past)
        BY <2>1, <3>1 DEF Illustrated
      <3>3. Provided(id, past)'
        BY <3>2, ProvidedKept
      <3> QED
        BY <3>1, <3>3 DEF Provided, Name
    <2>2. CASE t \notin txns
      BY <2>2
    <2> QED
      BY <2>1, <2>2
  <1>2. ASSUME NEW id \in Saved, link'[Seeder] # "out" PROVE Provided(id, {})'
    <2>1. CASE link[Seeder] # "out"
      <3>1. Provided(id, {})
        BY <2>1 DEF Illustrated
      <3> QED
        BY <3>1, ProvidedKept
    <2>2. CASE link[Seeder] = "out"
      BY <1>2, <2>2
    <2> QED
      BY <2>1, <2>2
  <1> QED
    BY <1>1, <1>2 DEF Illustrated

\* The seeder shares the saved images after the saved elements.
LEMMA IllustratedMount ==
  ASSUME SeederStays, SyncInv, Illustrated, NEW c \in Clients, Mount(c)
  PROVE  Illustrated'
  <1>0. /\ link \in [Clients -> {"out", "offline", "online"}] /\ play \in Plays
        /\ play' = play /\ link' = [link EXCEPT ![c] = "offline"]
    BY DEF SyncInv, TypeOK, Mount
  <1>1. CASE ~(c = Seeder /\ Saved # {})
    <2>1. txns' = txns
      BY <1>1 DEF Mount
    <2>2. link'[Seeder] = link[Seeder] \/ Saved = {}
      BY <1>0, <1>1
    <2> QED
      BY <1>0, <2>1, <2>2, IllustratedKept
  <1>2. CASE c = Seeder /\ Saved # {}
    <2>1. PICK I, seed, R : Seeding(c, I, seed, R) /\ Added(txns, R, c, I) /\ txns' = txns \cup R
      BY <1>2, SeedWritten
    <2>2. Knowing(c, I, I, txns) /\ Records(c, R, I, seed, Saved, Saved) /\ I = {}
      BY <2>1 DEF Seeding
    <2>3. PICK known :
            /\ \A v \in R : DOMAIN v.puts # {} => v.past \cup {Name(v)} = known
            /\ \E u \in R : u.by = c /\ u.files = Saved /\ u.past \subseteq known
            /\ known = {<<c, 1>>}
      BY <1>2, <2>2, WrittenOn DEF BuildsOn
    <2>4. \A id \in Saved : \A past : Provided(id, past)'
      BY <1>0, <1>2, <2>1, <2>3 DEF Provided, Stable, SeederStays, First
    <2>5. \A t \in R : \A id \in DOMAIN t.puts : id \in Saved
      BY <2>1, <2>2, AfterWriting DEF Brings
    <2>6. \A t \in txns' : t \in txns
             \/ \A id \in DOMAIN t.puts : Provided(id, t.past \cup {Name(t)})'
      BY <2>1, <2>4, <2>5
    <2> QED
      BY <1>0, <2>1, <2>4, <2>6, IllustratedKept
  <1> QED
    BY <1>1, <1>2

\* An element that is written replaces one whose image has been provided, or is
\* one of the saved version, or has been drawn, and its image is written next.
LEMMA IllustratedChange ==
  ASSUME SyncInv, Presence, Drawn, Illustrated, NEW c \in Clients, HandleChange(c)
  PROVE  Illustrated'
  <1>0. play' = play /\ link' = link /\ changed[c] /\ Ledger(txns) /\ Newcomers
    BY DEF HandleChange, SyncInv
  <1>1. PICK I, S, F, R :
          /\ Writing(c, I, S, F, R) /\ Brings(R, I, scene[c], S, F)
          /\ Added(txns, R, c, doc[c])
          /\ I = Document(c)
          /\ txns' = txns \cup R
    BY ChangeShared
  <1>2. /\ F = files[c] \ readFiles(I) /\ I \in SUBSET txns
        /\ Knowing(c, I, doc[c], txns) /\ Records(c, R, I, scene[c], S, F)
        /\ \A id \in S : id \in Ids /\ scene[c][id] # NoElement
    BY <1>1 DEF Writing, Knowing, collectNewFiles, collectElementUpdates
  <1>3. \A t \in R : \A id \in DOMAIN t.puts : id \in S
    BY <1>1 DEF Brings
  <1>4. link[Seeder] # "out"
    BY <1>0 DEF Newcomers, Presence
  <1>5. ASSUME NEW t \in R, NEW id \in DOMAIN t.puts
        PROVE  Provided(id, t.past \cup {Name(t)})'
    <2>0. id \in S /\ S # {}
      BY <1>3
    <2>a. PICK known : BuildsOn(known, R, c, I, S, F)
      <3>1. Records(c, R, I, scene[c], S, F) /\ S # {}
        BY <1>2, <2>0
      <3> QED
        BY <3>1, WrittenOn
    <2>1. /\ \A v \in R : DOMAIN v.puts # {} => v.past \cup {Name(v)} = known
          /\ \A v \in I : v.by = c => v.past \cup {Name(v)} \subseteq known
          /\ \A v \in I : \A i \in S \cap DOMAIN v.puts :
                v.puts[i] = Entry(I, i) => v.past \cup {Name(v)} \subseteq known
          /\ F # {} => \E u \in R : u.by = c /\ u.files = F /\ u.past \subseteq known
      BY <2>a DEF BuildsOn
    <2>2. t.past \cup {Name(t)} = known
      BY <2>1
    <2>3. CASE Writes(I, id) # {}
      <3>1. IsLast(Entry(I, id), Writes(I, id))
        BY <1>0, <1>2, <2>3, EntryIsLast
      <3>2. PICK v \in I : id \in DOMAIN v.puts /\ v.puts[id] = Entry(I, id)
        BY <3>1 DEF IsLast, Writes
      <3>3. v.past \cup {Name(v)} \subseteq known
        BY <2>0, <2>1, <3>2
      <3>4. Provided(id, v.past \cup {Name(v)})
        BY <1>2, <3>2 DEF Illustrated
      <3>5. Provided(id, known)
        BY <3>3, <3>4 DEF Provided
      <3>6. Provided(id, known)'
        BY <1>0, <1>1, <3>5, ProvidedKept
      <3> QED
        BY <2>2, <3>6 DEF Provided, Name
    <2>4. CASE Writes(I, id) = {} /\ id \in Saved
      <3>1. Provided(id, {})
        BY <1>4, <2>4 DEF Illustrated
      <3>2. Provided(id, known)
        BY <3>1 DEF Provided
      <3>3. Provided(id, known)'
        BY <1>0, <1>1, <3>2, ProvidedKept
      <3> QED
        BY <2>2, <3>3 DEF Provided, Name
    <2>5. CASE Writes(I, id) = {} /\ id \notin Saved
      <3>1. Shared(I, id) = NoElement
        BY <2>5 DEF Shared, Entry
      <3>2. Depicts(c, id) /\ id \in Ids /\ scene[c][id] # NoElement
        BY <1>2, <2>0, <2>5 DEF Drawn
      <3>3. c = Author[id] /\ Stable(c) /\ id \in files[c]
        BY <1>1, <3>1, <3>2 DEF Depicts
      <3>4. PICK u \in I \cup R : u.by = c /\ id \in u.files /\ u.past \subseteq known
        <4>1. CASE id \in readFiles(I)
          <5>1. PICK u \in I : id \in u.files
            BY <4>1 DEF readFiles
          <5>2. u.by = c
            BY <1>2, <2>5, <3>2, <3>3, <5>1 DEF Drawn
          <5> QED
            BY <2>1, <5>1, <5>2
        <4>2. CASE id \notin readFiles(I)
          BY <1>2, <2>1, <3>3, <4>2
        <4> QED
          BY <4>1, <4>2
      <3>5. u \in txns' /\ Stable(u.by)'
        BY <1>0, <1>1, <1>2, <3>3, <3>4 DEF Stable
      <3> QED
        BY <2>2, <3>4, <3>5 DEF Provided, Name
    <2> QED
      BY <2>3, <2>4, <2>5
  <1>6. \A t \in txns' : t \in txns
           \/ \A id \in DOMAIN t.puts : Provided(id, t.past \cup {Name(t)})'
    BY <1>1, <1>5
  <1> QED
    BY <1>0, <1>1, <1>4, <1>6, IllustratedKept

\* No other step writes anything.
LEMMA IllustratedIdle ==
  ASSUME Illustrated, play' = play, txns' = txns, link[Seeder] # "out" \/ link' = link
  PROVE  Illustrated'
  <1>1. link[Seeder] # "out" \/ link'[Seeder] = "out" \/ \A id \in Saved : Provided(id, {})'
    BY DEF Illustrated
  <1> QED
    BY <1>1, IllustratedKept

-----------------------------------------------------------------------------
(* Who is there.                                                            *)

\* A step that concerns only a client that is, and stays, in the room or away
\* from it for a moment.
LEMMA PresenceKept ==
  ASSUME Presence, play' = play, link' = link, NEW c \in Clients, link[c] # "out",
         link[c] = "offline" => ~Stable(c),
         \A d \in Clients \ {c} :
            doc'[d] = doc[d] /\ files'[d] = files[d] /\ changed'[d] = changed[d]
  PROVE  Presence'
  BY DEF Presence, Stable

\* Nobody comes before the seeder, and who comes has nothing.
LEMMA PresenceMount ==
  ASSUME SyncInv, Presence, PeersWait, NEW c \in Clients, Mount(c)
  PROVE  Presence'
  <1>0. /\ link \in [Clients -> {"out", "offline", "online"}]
        /\ doc \in [Clients -> SUBSET Names(txns)]
        /\ files \in [Clients -> SUBSET Ids]
        /\ ~changed[c]
    BY DEF SyncInv, TypeOK, Newcomers, Mount
  <1>1. /\ link[c] = "out" /\ (c = Seeder \/ link[Seeder] = "online")
        /\ link' = [link EXCEPT ![c] = "offline"] /\ changed' = changed /\ play' = play
    BY DEF Mount
  <1>2. \/ doc' = doc /\ files' = files
        \/ c = Seeder /\ \E D : doc' = [doc EXCEPT ![c] = D] /\ files' = [files EXCEPT ![c] = Saved]
    BY DEF Mount
  <1>3. \A d \in Clients \ {c} : link'[d] = link[d] /\ doc'[d] = doc[d] /\ files'[d] = files[d]
    BY <1>0, <1>1, <1>2
  <1>4. link'[c] = "offline" /\ (c # Seeder => doc'[c] = {} /\ files'[c] = {})
    BY <1>0, <1>1, <1>2 DEF Presence
  <1> QED
    BY <1>0, <1>1, <1>3, <1>4, CanvasAssumption DEF Presence, Stable

\* Connections are made and broken.
LEMMA PresenceConnect ==
  ASSUME SeederStays, SyncInv, Presence, NEW c \in Clients, Connect(c) \/ Disconnect(c)
  PROVE  Presence'
  <1>0. link \in [Clients -> {"out", "offline", "online"}] /\ play \in Plays
    BY DEF SyncInv, TypeOK
  <1>1. /\ link[c] # "out" /\ play' = play
        /\ UNCHANGED <<doc, files, changed>>
    BY DEF Connect, Disconnect
  <1>2. CASE Connect(c)
    <2>1. link' = [link EXCEPT ![c] = "online"]
      BY <1>2 DEF Connect
    <2> QED
      BY <1>0, <1>1, <2>1, CanvasAssumption DEF Presence, Stable
  <1>3. CASE Disconnect(c)
    <2>1. link' = [link EXCEPT ![c] = "offline"] /\ ~Stable(c)
      BY <1>3 DEF Disconnect, Stable
    <2>2. c # Seeder
      BY <1>0, <2>1 DEF SeederStays, Stable
    <2> QED
      BY <1>0, <1>1, <2>1, <2>2, CanvasAssumption DEF Presence, Stable
  <1> QED
    BY <1>2, <1>3

-----------------------------------------------------------------------------
(* The inductive invariant.                                                 *)

AgreeInv ==
    /\ SyncInv
    /\ Presence
    /\ Delivery
    /\ AllFollow
    /\ Drawn
    /\ Illustrated

\* The initial state satisfies it.
LEMMA AgreeInit == Init => AgreeInv
  <1> SUFFICES ASSUME Init PROVE AgreeInv
    OBVIOUS
  <1>1. SyncInv
    BY SyncInit
  <1>2. /\ \A c \in Clients : /\ link[c] = "out" /\ doc[c] = {} /\ files[c] = {}
                              /\ ~changed[c]
                              /\ \A id \in Ids : scene[c][id] = NoElement
        /\ txns = {}
    BY DEF Init
  <1>3. Presence
    BY <1>2, CanvasAssumption DEF Presence
  <1>4. Delivery
    BY <1>2 DEF Delivery, Online
  <1>5. AllFollow
    <2>1. PICK I : I = {}
      OBVIOUS
    <2>2. \A c \in Clients : Document(c) = I
      BY <1>2, <2>1 DEF Document, Integrated
    <2>3. readFiles(I) = {} /\ \A id : Shared(I, id) = NoElement
      BY <2>1 DEF readFiles, Shared, Entry, Writes
    <2> QED
      BY <1>2, <2>2, <2>3 DEF AllFollow, Follows, Follow, NotOlder
  <1>6. Drawn /\ Illustrated
    BY <1>2, CanvasAssumption DEF Drawn, Depicts, Illustrated
  <1> QED
    BY <1>1, <1>3, <1>4, <1>5, <1>6 DEF AgreeInv

\* Every step keeps the invariant.
LEMMA AgreeStep ==
  ASSUME SeederStays, AgreeInv, [Next]_vars
  PROVE  AgreeInv'
  <1>0. /\ SyncInv /\ Presence /\ Delivery /\ AllFollow /\ Drawn /\ Illustrated
        /\ PeersWait /\ SyncInv'
    BY SyncStep DEF AgreeInv, SeederStays
  <1>1. CASE UNCHANGED vars
    <2>1. /\ UNCHANGED <<scene, files, changed, doc, txns>>
          /\ UNCHANGED <<play, scene, files, doc, txns>>
          /\ UNCHANGED <<play, link, inbox, doc, txns>>
      BY <1>1 DEF vars
    <2>2. AllFollow' /\ Drawn' /\ Illustrated'
      BY <1>0, <2>1, FollowIdle, DrawnIdle, IllustratedIdle
    <2>3. Presence'
      BY <1>0, <2>1 DEF Presence, Stable
    <2>4. Delivery'
      BY <1>0, <2>1 DEF Delivery, Online, Knows, Asked, Stable, Held
    <2> QED
      BY <1>0, <2>2, <2>3, <2>4 DEF AgreeInv
  <1>2. ASSUME NEW c \in Clients, Mount(c) PROVE AgreeInv'
    BY <1>0, <1>2, PresenceMount, DeliveryMount, FollowMount, DrawnMount, IllustratedMount DEF AgreeInv
  <1>3. ASSUME NEW c \in Clients, Connect(c) \/ Disconnect(c) PROVE AgreeInv'
    <2>1. /\ UNCHANGED <<scene, files, changed, doc, txns>>
          /\ UNCHANGED <<play, scene, files, doc, txns>> /\ link[c] # "out"
      BY <1>3 DEF Connect, Disconnect
    <2>a. link[Seeder] # "out"
      BY <1>0, <2>1 DEF Presence
    <2>2. AllFollow' /\ Drawn' /\ Illustrated'
      BY <1>0, <2>1, <2>a, FollowIdle, DrawnIdle, IllustratedIdle
    <2>3. Presence' /\ Delivery'
      BY <1>0, <1>3, PresenceConnect, DeliveryConnect, DeliveryDisconnect
    <2> QED
      BY <1>0, <2>2, <2>3 DEF AgreeInv
  <1>4. ASSUME NEW c \in Clients, Edit(c) \/ Restore(c) PROVE AgreeInv'
    <2>2. /\ link[c] = "online" /\ UNCHANGED <<play, link, txns, doc, inbox>>
      BY <1>0, <1>4 DEF Edit, Restore, CanEdit
    <2>1. AllFollow' /\ Drawn' /\ Illustrated'
      BY <1>0, <1>4, <2>2, FollowEdit, DrawnEdit, IllustratedIdle
    <2>3. Presence'
      <3>1. files \in [Clients -> SUBSET Ids] /\ changed \in [Clients -> BOOLEAN]
        BY <1>0 DEF SyncInv, TypeOK
      <3>2. \A d \in Clients \ {c} :
              doc'[d] = doc[d] /\ files'[d] = files[d] /\ changed'[d] = changed[d]
        BY <1>4, <3>1 DEF Edit, Restore
      <3> QED
        BY <1>0, <2>2, <3>2, PresenceKept
    <2>4. Delivery'
      BY <1>0, <2>2 DEF Delivery, Online, Knows, Asked, Stable, Held
    <2> QED
      BY <1>0, <2>1, <2>3, <2>4 DEF AgreeInv
  <1>5. ASSUME NEW c \in Clients, NEW s \in Clients, ReceiveStep1(c, s) PROVE AgreeInv'
    <2>1. /\ UNCHANGED <<scene, files, changed, doc, txns>>
          /\ UNCHANGED <<play, scene, files, doc, txns>> /\ link' = link
      BY <1>5 DEF ReceiveStep1
    <2>2. AllFollow' /\ Drawn' /\ Illustrated'
      BY <1>0, <2>1, FollowIdle, DrawnIdle, IllustratedIdle
    <2>3. Presence'
      BY <1>0, <2>1 DEF Presence, Stable
    <2>4. Delivery'
      BY <1>0, <1>5, DeliveryAnswer
    <2> QED
      BY <1>0, <2>2, <2>3, <2>4 DEF AgreeInv
  <1>6. ASSUME NEW c \in Clients, NEW s \in Clients, ReceiveUpdate(c, s) PROVE AgreeInv'
    <2>a. play' = play /\ txns' = txns /\ link' = link
      BY <1>6 DEF ReceiveUpdate
    <2>1. AllFollow' /\ Drawn' /\ Illustrated' /\ Delivery'
      BY <1>0, <1>6, <2>a, FollowUpdate, DrawnUpdate, IllustratedIdle, DeliveryUpdate
    <2>2. Presence'
      <3>1. /\ doc \in [Clients -> SUBSET Names(txns)]
            /\ files \in [Clients -> SUBSET Ids] /\ changed \in [Clients -> BOOLEAN]
            /\ FramesOK(inbox, Names(txns), link)
        BY <1>0 DEF SyncInv, TypeOK
      <3>2. link[c] = "online" /\ play' = play /\ link' = link
        <4>1. inbox[c][s] # <<>>
          BY <1>6 DEF ReceiveUpdate
        <4> QED
          BY <1>6, <3>1, <4>1, FramesHead DEF ReceiveUpdate
      <3>3. \A d \in Clients \ {c} :
              doc'[d] = doc[d] /\ files'[d] = files[d] /\ changed'[d] = changed[d]
        BY <1>6, <3>1 DEF ReceiveUpdate
      <3> QED
        BY <1>0, <3>2, <3>3, PresenceKept
    <2> QED
      BY <1>0, <2>1, <2>2 DEF AgreeInv
  <1>7. ASSUME NEW c \in Clients, HandleChange(c) PROVE AgreeInv'
    <2>1. AllFollow' /\ Drawn' /\ Illustrated' /\ Delivery'
      BY <1>0, <1>7, FollowChange, DrawnChange, IllustratedChange, DeliveryChange
    <2>2. Presence'
      <3>1. /\ doc \in [Clients -> SUBSET Names(txns)] /\ changed \in [Clients -> BOOLEAN]
            /\ Newcomers
        BY <1>0 DEF SyncInv, TypeOK
      <3>2. /\ changed[c] /\ play' = play /\ link' = link /\ files' = files
            /\ changed' = [changed EXCEPT ![c] = FALSE]
        BY <1>7 DEF HandleChange
      <3>3. \E D : doc' = [doc EXCEPT ![c] = D]
        BY <1>7 DEF HandleChange
      <3>4. link[c] # "out" /\ (link[c] = "offline" => ~Stable(c))
        BY <1>0, <3>1, <3>2 DEF Newcomers, Presence
      <3>5. \A d \in Clients \ {c} :
              doc'[d] = doc[d] /\ files'[d] = files[d] /\ changed'[d] = changed[d]
        BY <3>1, <3>2, <3>3
      <3> QED
        BY <1>0, <3>2, <3>4, <3>5, PresenceKept
    <2> QED
      BY <1>0, <2>1, <2>2 DEF AgreeInv
  <1> QED
    BY <1>1, <1>2, <1>3, <1>4, <1>5, <1>6, <1>7 DEF Next

\* The invariant holds in every reachable state.
LEMMA AgreeInvariant ==
  ASSUME SeederStays
  PROVE  Spec => []AgreeInv
  <1>1. Init => AgreeInv
    BY AgreeInit
  <1>2. AgreeInv /\ [Next]_vars => AgreeInv'
    BY AgreeStep
  <1> QED
    BY <1>1, <1>2, PTL DEF Spec

-----------------------------------------------------------------------------
(* What is agreed on.                                                       *)

\* When all frames have arrived, everybody in the room has what was written by
\* a browser that keeps its connection.
LEMMA SettledKnows ==
  ASSUME AgreeInv, Settled, NEW c \in Clients, Online(c), NEW t \in txns, Stable(t.by)
  PROVE  Name(t) \in doc[c]
  <1>1. \A x \in Clients : Held(inbox[x]) = {}
    <2>1. \A x \in Clients : \A s \in Clients : inbox[x][s] = <<>> /\ Len(<<>>) = 0
      BY DEF Settled
    <2> QED
      BY <2>1 DEF Held
  <1>2. t.by \in Clients
    BY DEF AgreeInv, SyncInv, TypeOK
  <1>3. Knows(c, Name(t)) \/ Asked(t.by, Name(t))
    BY DEF AgreeInv, Delivery
  <1> QED
    BY <1>1, <1>2, <1>3 DEF Knows, Asked

(***************************************************************************)
(* Once all frames have arrived, every browser in the room has received all *)
(* that was written by those who have kept their connection, however the    *)
(* frames of different senders overtook each other: also if it came late,   *)
(* lost its own connection, or asked while others were writing.             *)
(***************************************************************************)
THEOREM NothingWrittenIsLost ==
  ASSUME SeederStays
  PROVE  Spec => []NothingLost
  <1>1. AgreeInv => NothingLost
    BY SettledKnows DEF NothingLost, Stable, Online
  <1> QED
    BY <1>1, AgreeInvariant, PTL

\* What is shown has been written, and everybody can integrate its image.
LEMMA SettledImages ==
  ASSUME SeederStays, AgreeInv, Settled
  PROVE  ImagesArrive
  <1> SUFFICES ASSUME NEW c \in Clients, Online(c), NEW id \in Ids, scene[c][id] # NoElement
               PROVE  id \in files[c]
    BY DEF ImagesArrive, Online
  <1>0. /\ AllFollow /\ Illustrated /\ Ledger(txns) /\ play \in Plays
        /\ doc \in [Clients -> SUBSET Names(txns)] /\ OwnAreIntegrated
        /\ \A t \in txns : t.by \in Clients
    BY DEF AgreeInv, SyncInv, TypeOK
  <1>1. /\ NotOlder(scene[c][id], Shared(Document(c), id))
        /\ readFiles(Document(c)) \subseteq files[c]
    BY <1>0 DEF AllFollow, Follows, Follow, Settled
  <1>2. Writes(Document(c), id) # {}
    BY <1>1 DEF NotOlder, Shared, Entry
  <1>3. PICK t \in Document(c) : id \in DOMAIN t.puts
    BY <1>2 DEF Writes
  <1>4. t \in txns /\ Name(t) \in doc[c] /\ t.past \subseteq doc[c]
    BY <1>3 DEF Document, Integrated
  <1>5. PICK u \in txns : /\ Stable(u.by) /\ id \in u.files
                          /\ u.past \subseteq t.past \cup {Name(t), First}
    BY <1>0, <1>3, <1>4 DEF Illustrated, Provided
  <1>6. Name(u) \in doc[c]
    BY <1>5, SettledKnows
  <1>7. First \in u.past => First \in doc[c]
    <2> SUFFICES ASSUME First \in u.past PROVE First \in doc[c]
      OBVIOUS
    <2>1. First \in Names(txns)
      BY <1>0, <1>5 DEF OwnAreIntegrated
    <2>2. PICK v \in txns : Name(v) = First
      BY <2>1 DEF Names
    <2>3. Stable(v.by)
      BY <1>0, <2>2 DEF Name, First, SeederStays, Stable
    <2> QED
      BY <2>2, <2>3, SettledKnows
  <1>8. u \in Document(c)
    BY <1>4, <1>5, <1>6, <1>7 DEF Document, Integrated
  <1> QED
    BY <1>1, <1>5, <1>8 DEF readFiles

(***************************************************************************)
(* Once all frames have arrived, every browser in the room has the image of *)
(* every element it shows, although images are written in transactions of   *)
(* their own: whoever draws, also if the browser came late, or was away     *)
(* when the elements, or when the images were sent, and also if it shows an *)
(* element that others write back and that they do not agree on.            *)
(***************************************************************************)
THEOREM AllImagesArrive ==
  ASSUME SeederStays
  PROVE  Spec => []ImagesArrive
  <1>1. AgreeInv => ImagesArrive
    BY SettledImages DEF ImagesArrive
  <1> QED
    BY <1>1, AgreeInvariant, PTL

-----------------------------------------------------------------------------
(* One who writes, and others who watch.                                    *)

\* Of two writes of an element, the later has no older version.
Maturing(X) ==
    \A t, u \in X : \A id \in DOMAIN t.puts \cap DOMAIN u.puts :
        t.n < u.n => t.puts[id].el.ver <= u.puts[id].el.ver

\* What c shows and has is in its document.
Watches(c) ==
    /\ \A id \in Ids : NotOlder(scene[c][id], Shared(Document(c), id))
    /\ files[c] \subseteq readFiles(Document(c))

\* All is written by the seeder, whose every write is newer.
SoloInv ==
    OnlySeederWrites(play) =>
        /\ \A t \in txns : t.by = Seeder
        /\ Maturing(txns)
        /\ \A c \in Clients \ {Seeder} : Watches(c)

\* The entry of a key is the newest write when one client has made them all.
LEMMA EntryIsNewest ==
  ASSUME NEW X, Ledger(X), NEW c, \A t \in X : t.by = c, Maturing(X),
         NEW I \in SUBSET X, NEW t \in I, NEW id \in DOMAIN t.puts
  PROVE  NotOlder(t.puts[id].el, Shared(I, id))
  <1> DEFINE W == Writes(I, id)
             e == Entry(I, id)
             w == t.puts[id]
  <1>1. w \in W
    BY DEF Writes
  <1>2. IsLast(e, W) /\ Comparable(W)
    BY <1>1, EntryIsLast, WritesComparable
  <1>3. PICK u \in I : id \in DOMAIN u.puts /\ e = u.puts[id]
    BY <1>2 DEF IsLast, Writes
  <1>4. Shared(I, id) = e.el
    BY DEF Shared
  <1>5. e.el \in Element /\ w.el \in Element /\ t.n \in Nat /\ u.n \in Nat
    BY <1>3 DEF Ledger, Typed
  <1> HIDE DEF W, e
  <1>6. w.el.ver <= e.el.ver
    <2>1. CASE t.n < u.n
      BY <1>3, <2>1 DEF Maturing
    <2>2. CASE t.n = u.n
      <3>1. t = u
        BY <2>2 DEF Ledger, Numbered, Name
      <3> QED
        BY <1>3, <1>5, <3>1 DEF Element
    <2>3. CASE u.n < t.n
      <3>1. Before(e.path, w.path)
        BY <1>3, <2>3 DEF Ledger, Rising
      <3>2. w = e \/ Before(w.path, e.path)
        BY <1>1, <1>2 DEF IsLast
      <3>3. w.path \in Seq(Nat) /\ e.path \in Seq(Nat)
        BY <1>1, <1>2 DEF Comparable, IsLast
      <3>4. CASE w = e
        BY <1>5, <3>4 DEF Element
      <3>5. CASE Before(w.path, e.path)
        BY <3>1, <3>3, <3>5, BeforeTransitive, BeforeIrreflexive
      <3> QED
        BY <3>2, <3>4, <3>5
    <2> QED
      BY <1>5, <2>1, <2>2, <2>3
  <1> QED
    BY <1>4, <1>5, <1>6, ElementAssumption DEF NotOlder

\* Then a document that has integrated more shows nothing older.
LEMMA SharedGrows ==
  ASSUME NEW X, Ledger(X), NEW c, \A t \in X : t.by = c, Maturing(X),
         NEW K \in SUBSET X, NEW I \in SUBSET K, NEW id
  PROVE  NotOlder(Shared(I, id), Shared(K, id))
  <1>1. CASE Writes(I, id) = {}
    <2>1. Shared(I, id) = NoElement
      BY <1>1 DEF Shared, Entry
    <2> QED
      BY <2>1 DEF NotOlder
  <1>2. CASE Writes(I, id) # {}
    <2>1. Entry(I, id) \in Writes(I, id)
      <3>1. I \in SUBSET X
        OBVIOUS
      <3> QED
        BY <1>2, <3>1, EntryIsLast DEF IsLast
    <2>2. PICK t \in I : id \in DOMAIN t.puts /\ Entry(I, id) = t.puts[id]
      BY <2>1 DEF Writes
    <2>3. NotOlder(t.puts[id].el, Shared(K, id))
      BY <2>2, EntryIsNewest
    <2> QED
      BY <2>2, <2>3 DEF Shared
  <1> QED
    BY <1>1, <1>2

\* A client whose scene, images and document stay goes on watching.
LEMMA WatchesKept ==
  ASSUME NEW c, Watches(c), scene'[c] = scene[c], files'[c] = files[c],
         Document(c)' = Document(c)
  PROVE  Watches(c)'
  BY DEF Watches

\* A step that writes nothing and concerns at most the seeder's scene.
LEMMA SoloKept ==
  ASSUME SoloInv, play' = play, UNCHANGED <<txns, doc>>,
         OnlySeederWrites(play) => \A c \in Clients \ {Seeder} :
                                      scene'[c] = scene[c] /\ files'[c] = files[c]
  PROVE  SoloInv'
  <1> SUFFICES ASSUME OnlySeederWrites(play) PROVE SoloInv'
    BY DEF SoloInv
  <1>1. \A c : Document(c)' = Document(c)
    BY DEF Document, Integrated
  <1>2. \A c \in Clients \ {Seeder} : Watches(c)'
    BY <1>1, WatchesKept DEF SoloInv
  <1> QED
    BY <1>2 DEF SoloInv

\* What the seeder writes first, and later.
LEMMA SoloWrites ==
  ASSUME SyncInv, SoloInv, OnlySeederWrites(play), play' = play,
         NEW I, NEW sc \in [Ids -> Element \cup {NoElement}], NEW S, NEW F, NEW R,
         Brings(R, I, sc, S, F), Added(txns, R, Seeder, doc[Seeder]),
         Knowing(Seeder, I, doc[Seeder], txns),
         \A id \in S : id \in Ids /\ sc[id] \in Element,
         \A id \in Ids : NotOlder(Shared(I, id), sc[id]),
         txns' = txns \cup R,
         \A d \in Clients \ {Seeder} : /\ Document(d)' = Document(d)
                                       /\ scene'[d] = scene[d] /\ files'[d] = files[d]
  PROVE  SoloInv'
  <1>0. /\ Ledger(txns) /\ \A t \in txns : t.by = Seeder
        /\ Maturing(txns) /\ I \in SUBSET txns
        /\ \A t \in txns : t \in I /\ t.n \in Nat
        /\ \A t \in txns \cup R : Typed(t)
    BY DEF SyncInv, TypeOK, SoloInv, Knowing, Added, Ledger
  <1>1. \A t \in txns' : t.by = Seeder
    BY <1>0 DEF Added
  <1>2. \A d \in Clients \ {Seeder} : Watches(d)'
    BY WatchesKept DEF SoloInv
  <1>3. Maturing(txns')
    <2> SUFFICES ASSUME NEW t \in txns \cup R, NEW u \in txns \cup R,
                        NEW id \in DOMAIN t.puts \cap DOMAIN u.puts, t.n < u.n
                 PROVE  t.puts[id].el.ver <= u.puts[id].el.ver
      BY DEF Maturing
    <2>0. t.n \in Nat /\ u.n \in Nat
      BY <1>0 DEF Typed
    <2>1. CASE t \in txns /\ u \in txns
      BY <1>0, <2>1 DEF Maturing
    <2>2. CASE t \in R /\ u \in R
      <3>1. t = u
        BY <2>2 DEF Brings
      <3> QED
        BY <2>0, <3>1
    <2>3. CASE t \in R /\ u \in txns
      <3>1. u.n < t.n
        BY <1>0, <2>3 DEF Added
      <3> QED
        BY <2>0, <3>1
    <2>4. CASE t \in txns /\ u \in R
      <3>1. id \in S /\ u.puts[id].el = sc[id]
        BY <2>4 DEF Brings
      <3>2. NotOlder(t.puts[id].el, Shared(I, id))
        <4>1. t \in I /\ id \in DOMAIN t.puts
          BY <1>0, <2>4
        <4> QED
          BY <1>0, <4>1, EntryIsNewest
      <3>3. NotOlder(Shared(I, id), sc[id]) /\ sc[id] \in Element
        BY <3>1
      <3>4. Shared(I, id) \in Element \cup {NoElement}
        BY <1>0, EntryTyped
      <3>5. t.puts[id].el \in Element
        BY <1>0, <2>4 DEF Typed
      <3>6. NotOlder(t.puts[id].el, sc[id])
        BY <3>2, <3>3, <3>4, <3>5, NotOlderTransitive
      <3> QED
        BY <3>1, <3>5, <3>6, ElementAssumption DEF NotOlder
    <2> QED
      BY <2>1, <2>2, <2>3, <2>4
  <1>4. Maturing(txns)'
    BY <1>3 DEF Maturing
  <1> QED
    BY <1>1, <1>2, <1>4 DEF SoloInv

\* The seed is what the seeder writes first.
LEMMA SoloMount ==
  ASSUME SyncInv, Presence, AllFollow, SoloInv, NEW c \in Clients, Mount(c)
  PROVE  SoloInv'
  <1>0. TypeOK /\ doc[c] = {} /\ play' = play
    BY DEF SyncInv, Presence, Mount
  <1>1. CASE ~(c = Seeder /\ Saved # {})
    <2>1. UNCHANGED <<txns, doc>> /\ UNCHANGED <<scene, files>>
      BY <1>1 DEF Mount
    <2> QED
      BY <1>0, <2>1, SoloKept
  <1>2. CASE c = Seeder /\ Saved # {}
    <2> SUFFICES ASSUME OnlySeederWrites(play) PROVE SoloInv'
      BY <1>0 DEF SoloInv
    <2>1. PICK I, seed, R :
            /\ Seeding(c, I, seed, R) /\ Added(txns, R, c, I)
            /\ scene' = [scene EXCEPT ![c] = seed]
            /\ files' = [files EXCEPT ![c] = Saved]
            /\ txns' = txns \cup R
            /\ doc' = [doc EXCEPT ![c] = Names(R)]
      BY <1>2, SeedWritten
    <2>2. /\ Knowing(c, I, I, txns) /\ Records(c, R, I, seed, Saved, Saved)
          /\ seed = [id \in Ids |-> IF id \in Saved THEN SavedElement ELSE NoElement]
          /\ I = {} /\ Writable(seed, Saved, Saved)
      BY <2>1 DEF Seeding
    <2>3. I = doc[c]
      BY <1>0, <2>2
    <2>4. Brings(R, I, seed, Saved, Saved)
      BY <2>1, <2>2, AfterWriting
    <2>5. Added(txns, R, Seeder, doc[Seeder]) /\ Knowing(Seeder, I, doc[Seeder], txns)
      BY <1>2, <2>1, <2>2, <2>3
    <2>6. \A d \in Clients \ {Seeder} : Document(d)' = Document(d)
      <3>1. doc' = [doc EXCEPT ![c] = doc[c] \cup Names(R)]
        BY <1>0, <2>1
      <3>2. Added(txns, R, c, doc[c])
        BY <2>1, <2>3
      <3> QED
        BY <1>2, <2>1, <3>1, <3>2, DocumentGrows
    <2>7. \A d \in Clients \ {Seeder} : scene'[d] = scene[d] /\ files'[d] = files[d]
      BY <1>0, <1>2, <2>1 DEF TypeOK
    <2>8. seed \in [Ids -> Element \cup {NoElement}]
      BY <2>2 DEF SavedElement, Element
    <2>9. \A id \in Saved : id \in Ids /\ seed[id] \in Element
      BY <2>2 DEF Writable
    <2>10. \A id \in Ids : NotOlder(Shared(I, id), seed[id])
      <3>1. \A id \in Ids : Shared(I, id) = NoElement
        BY <2>2 DEF Shared, Entry, Writes
      <3> QED
        BY <3>1 DEF NotOlder
    <2> QED
      BY <1>0, <2>1, <2>4, <2>5, <2>6, <2>7, <2>8, <2>9, <2>10, SoloWrites
  <1> QED
    BY <1>1, <1>2

\* Only the seeder has anything to write.
LEMMA SoloChange ==
  ASSUME SyncInv, AllFollow, SoloInv, NEW c \in Clients, HandleChange(c)
  PROVE  SoloInv'
  <1>0. /\ play' = play /\ scene' = scene /\ files' = files
        /\ scene \in [Clients -> [Ids -> Element \cup {NoElement}]]
        /\ Ledger(txns)
    BY DEF SyncInv, TypeOK, HandleChange
  <1> SUFFICES ASSUME OnlySeederWrites(play) PROVE SoloInv'
    BY <1>0 DEF SoloInv
  <1>1. PICK I, S, F, R :
          /\ Writing(c, I, S, F, R) /\ Brings(R, I, scene[c], S, F)
          /\ Added(txns, R, c, doc[c])
          /\ I = Document(c) /\ Document(c)' = I \cup R
          /\ \A d \in Clients \ {c} : Document(d)' = Document(d)
          /\ txns' = txns \cup R
    BY ChangeShared
  <1>2. /\ Knowing(c, I, doc[c], txns) /\ Writable(scene[c], S, F)
        /\ S = collectElementUpdates(scene[c], I)
        /\ F = collectNewFiles(files[c], I)
    BY <1>1 DEF Writing
  <1>3. CASE c = Seeder
    <2>1. \A id \in S : id \in Ids /\ scene[c][id] \in Element
      BY <1>2 DEF Writable
    <2>2. \A id \in Ids : NotOlder(Shared(I, id), scene[c][id])
      BY <1>1 DEF AllFollow, Follows, Follow
    <2>3. /\ Added(txns, R, Seeder, doc[Seeder])
          /\ Knowing(Seeder, I, doc[Seeder], txns)
      BY <1>1, <1>2, <1>3
    <2>4. \A d \in Clients \ {Seeder} : /\ Document(d)' = Document(d)
                                        /\ scene'[d] = scene[d] /\ files'[d] = files[d]
      BY <1>0, <1>1, <1>3
    <2>5. scene[c] \in [Ids -> Element \cup {NoElement}]
      BY <1>0
    <2> QED
      BY <1>0, <1>1, <2>1, <2>2, <2>3, <2>4, <2>5, SoloWrites
  <1>4. CASE c # Seeder
    <2>1. Watches(c)
      BY <1>4 DEF SoloInv
    <2>2. I \in SUBSET txns
      BY <1>2 DEF Knowing
    <2>3. S = {}
      <3> SUFFICES ASSUME NEW id \in Ids, scene[c][id] # NoElement,
                          Shared(I, id) = NoElement \/ scene[c][id].ver > Shared(I, id).ver
                   PROVE  FALSE
        BY <1>2 DEF collectElementUpdates
      <3>1. /\ Shared(I, id) \in Element \cup {NoElement}
            /\ scene[c][id] \in Element
        BY <1>0, <2>2, EntryTyped
      <3>2. NotOlder(scene[c][id], Shared(I, id))
        BY <1>1, <2>1 DEF Watches
      <3> QED
        BY <3>1, <3>2 DEF NotOlder, Element
    <2>4. F = {}
      BY <1>1, <1>2, <2>1 DEF Watches, collectNewFiles
    <2>5. R = {}
      BY <1>1, <2>3, <2>4 DEF Brings
    <2>6. txns' = txns /\ \A d \in Clients : Document(d)' = Document(d)
      BY <1>1, <2>5
    <2>7. \A d \in Clients \ {Seeder} : Watches(d)'
      BY <1>0, <2>6, WatchesKept DEF SoloInv
    <2> QED
      BY <2>6, <2>7 DEF SoloInv
  <1> QED
    BY <1>3, <1>4

\* Who takes in more shows it.
LEMMA SoloUpdate ==
  ASSUME SyncInv, SoloInv, NEW c \in Clients, NEW s \in Clients, ReceiveUpdate(c, s)
  PROVE  SoloInv'
  <1> DEFINE D == doc[c] \cup Head(inbox[c][s]).names
             I == Integrated(doc[c])
             K == Integrated(D)
             new == K \ I
             merged == [id \in Ids |-> Reconcile(scene[c][id], Shared(K, id))]
  <1>0. /\ TypeOK /\ Ledger(txns)
        /\ scene \in [Clients -> [Ids -> Element \cup {NoElement}]]
        /\ files \in [Clients -> SUBSET Ids]
    BY DEF SyncInv, TypeOK
  <1>1. /\ doc' = [doc EXCEPT ![c] = D]
        /\ scene' = scene \/ scene' = [scene EXCEPT ![c] = merged]
        /\ files' = [files EXCEPT ![c] = files[c] \cup readFiles(new)]
        /\ txns' = txns /\ play' = play
    BY DEF ReceiveUpdate
  <1> SUFFICES ASSUME OnlySeederWrites(play) PROVE SoloInv'
    BY <1>1 DEF SoloInv
  <1>2. I \in SUBSET K /\ K \in SUBSET txns /\ I \in SUBSET txns /\ new \subseteq K
    BY IntegratedGrows DEF Integrated
  <1>3. Document(c) = I
    BY DEF Document
  <1>4. Document(c)' = K /\ \A d \in Clients \ {c} : Document(d)' = Document(d)
    <2>1. doc'[c] = D /\ \A d \in Clients \ {c} : doc'[d] = doc[d]
      BY <1>0, <1>1 DEF TypeOK
    <2> QED
      BY <1>1, <2>1 DEF Document, Integrated
  <1>5. merged = [id \in Ids |-> Reconcile(scene[c][id], Shared(K, id))]
    OBVIOUS
  <1> HIDE DEF D, I, K, new, merged
  <1>6. /\ files'[c] = files[c] \cup readFiles(new)
        /\ scene'[c] = scene[c] \/ scene'[c] = merged
        /\ \A d \in Clients \ {c} : scene'[d] = scene[d] /\ files'[d] = files[d]
    BY <1>0, <1>1
  <1>7. /\ \A t \in txns : t.by = Seeder
        /\ Maturing(txns)
        /\ \A d \in Clients \ {Seeder} : Watches(d)
    BY DEF SoloInv
  <1>8. \A d \in Clients \ {Seeder, c} : Watches(d)'
    BY <1>4, <1>6, <1>7, WatchesKept
  <1>9. ASSUME c # Seeder PROVE Watches(c)'
    <2>1. ASSUME NEW id \in Ids PROVE NotOlder(scene'[c][id], Shared(K, id))
      <3>1. /\ Shared(I, id) \in Element \cup {NoElement}
            /\ Shared(K, id) \in Element \cup {NoElement}
            /\ scene[c][id] \in Element \cup {NoElement}
        BY <1>0, <1>2, EntryTyped
      <3>2. NotOlder(scene[c][id], Shared(I, id))
        BY <1>3, <1>7, <1>9 DEF Watches
      <3>3. NotOlder(Shared(I, id), Shared(K, id))
        BY <1>0, <1>2, <1>7, SharedGrows
      <3>4. NotOlder(scene[c][id], Shared(K, id))
        BY <3>1, <3>2, <3>3, NotOlderTransitive
      <3>5. NotOlder(Shared(K, id), Shared(K, id))
        BY <3>1 DEF NotOlder, Element
      <3>6. scene'[c][id] = scene[c][id] \/ scene'[c][id] = Shared(K, id)
        BY <1>5, <1>6 DEF Reconcile
      <3> QED
        BY <3>4, <3>5, <3>6
    <2>2. files'[c] \subseteq readFiles(K)
      <3>1. readFiles(I) \subseteq readFiles(K) /\ readFiles(new) \subseteq readFiles(K)
        BY <1>2 DEF readFiles
      <3>2. files[c] \subseteq readFiles(I)
        BY <1>3, <1>7, <1>9 DEF Watches
      <3> QED
        BY <1>6, <3>1, <3>2
    <2> QED
      BY <1>4, <2>1, <2>2 DEF Watches
  <1>10. \A d \in Clients \ {Seeder} : Watches(d)'
    BY <1>8, <1>9
  <1>11. /\ \A t \in txns' : t.by = Seeder
         /\ Maturing(txns)'
    BY <1>1, <1>7 DEF Maturing
  <1> QED
    BY <1>10, <1>11 DEF SoloInv

\* Every step keeps it.
LEMMA SoloStep ==
  ASSUME AgreeInv, SoloInv, [Next]_vars
  PROVE  SoloInv'
  <1>0. /\ SyncInv /\ Presence /\ AllFollow /\ TypeOK
        /\ scene \in [Clients -> [Ids -> Element \cup {NoElement}]]
        /\ files \in [Clients -> SUBSET Ids]
    BY DEF AgreeInv, SyncInv, TypeOK
  <1>1. CASE UNCHANGED vars
    <2>1. play' = play /\ UNCHANGED <<txns, doc>> /\ UNCHANGED <<scene, files>>
      BY <1>1 DEF vars
    <2> QED
      BY <2>1, SoloKept
  <1>2. ASSUME NEW c \in Clients, NEW s \in Clients,
               Connect(c) \/ Disconnect(c) \/ ReceiveStep1(c, s)
        PROVE  SoloInv'
    <2>1. play' = play /\ UNCHANGED <<txns, doc>> /\ UNCHANGED <<scene, files>>
      BY <1>2 DEF Connect, Disconnect, ReceiveStep1
    <2> QED
      BY <2>1, SoloKept
  <1>3. ASSUME NEW c \in Clients, Edit(c) \/ Restore(c) PROVE SoloInv'
    <2>1. /\ play' = play /\ UNCHANGED <<txns, doc>>
          /\ play.part[c] \in {"edits", "draws"}
          /\ \A d \in Clients \ {c} : scene'[d] = scene[d] /\ files'[d] = files[d]
      BY <1>0, <1>3 DEF Edit, Restore, CanEdit
    <2>2. OnlySeederWrites(play) => c = Seeder
      BY <2>1 DEF OnlySeederWrites
    <2> QED
      BY <2>1, <2>2, SoloKept
  <1> QED
    BY <1>0, <1>1, <1>2, <1>3, SoloMount, SoloChange, SoloUpdate DEF Next

\* The invariant holds in every reachable state.
LEMMA SoloInvariant ==
  ASSUME SeederStays
  PROVE  Spec => []SoloInv
  <1>1. Init => SoloInv
    <2> SUFFICES ASSUME Init PROVE SoloInv
      OBVIOUS
    <2>1. SyncInv /\ txns = {}
      BY SyncInit DEF Init
    <2>2. \A c \in Clients : Watches(c)
      BY DEF Init, Watches, NotOlder
    <2> QED
      BY <2>1, <2>2 DEF SoloInv, Maturing
  <1>2. AgreeInv /\ SoloInv /\ [Next]_vars => SoloInv'
    BY SoloStep
  <1> QED
    BY <1>1, <1>2, AgreeInvariant, PTL DEF Spec

-----------------------------------------------------------------------------
(* What one person changes is written once.                                 *)

\* The writes of c, besides images.
Own(X, c) == {t \in X : t.by = c /\ t.files = {}}

\* Each of the seeder's writes but the seed, and the one that is due, has a
\* change of its own.
EchoInv ==
    OnlySeederWrites(play) =>
        Cardinality(Own(txns, Seeder)) + (IF changed[Seeder] THEN 1 ELSE 0) <= edits + 1

\* All elements are written in one transaction.
LEMMA ElementsAtOnce ==
  ASSUME NEW c, NEW I, NEW sc, NEW S, NEW F, NEW R, Records(c, R, I, sc, S, F)
  PROVE  \E t : \A v \in R : v.files = {} => v = t
  <1> DEFINE T == writeElements(c, I, sc, S)
             U == writeFiles(c, I \cup T, F)
  <1>1. R = T \cup U
    BY DEF Records
  <1>2. PICK t : T \subseteq {t}
    BY DEF writeElements
  <1> HIDE DEF T
  <1>3. \A v \in U : v.files # {}
    BY DEF writeFiles, Transaction
  <1> HIDE DEF U
  <1> QED
    BY <1>1, <1>2, <1>3

\* So a client's writes grow by one at most.
LEMMA OneMore ==
  ASSUME Ledger(txns), NEW c, NEW I, NEW sc, NEW S, NEW F, NEW R,
         Records(c, R, I, sc, S, F)
  PROVE  /\ Cardinality(Own(txns \cup R, c)) <= Cardinality(Own(txns, c)) + 1
         /\ Cardinality(Own(txns \cup R, c)) \in Nat
  <1>1. PICK t : \A v \in R : v.files = {} => v = t
    BY ElementsAtOnce
  <1> DEFINE A == Own(txns, c)
             B == Own(txns \cup R, c)
  <1>2. IsFiniteSet(A)
    BY FS_Subset DEF Ledger, Own
  <1>3. B \subseteq A \cup {t}
    BY <1>1 DEF Own
  <1> HIDE DEF A, B
  <1>4. /\ IsFiniteSet(A \cup {t}) /\ Cardinality(A) \in Nat
        /\ Cardinality(A \cup {t}) <= Cardinality(A) + 1
    <2>1. Cardinality(A) \in Nat
      BY <1>2, FS_CardinalityType
    <2>2. /\ IsFiniteSet(A \cup {t})
          /\ Cardinality(A \cup {t}) = IF t \in A THEN Cardinality(A) ELSE Cardinality(A) + 1
      BY <1>2, FS_AddElement
    <2> QED
      BY <2>1, <2>2
  <1>5. IsFiniteSet(B) /\ Cardinality(B) <= Cardinality(A \cup {t})
    BY <1>3, <1>4, FS_Subset
  <1>6. Cardinality(B) \in Nat /\ Cardinality(A \cup {t}) \in Nat
    BY <1>4, <1>5, FS_CardinalityType
  <1> QED
    BY <1>4, <1>5, <1>6 DEF A, B

\* Every step keeps it.
LEMMA EchoStep ==
  ASSUME AgreeInv, SoloInv, SoloInv', EchoInv, [Next]_vars
  PROVE  EchoInv'
  <1>0. /\ SyncInv /\ Presence /\ Ledger(txns) /\ Newcomers /\ OwnAreIntegrated
        /\ changed \in [Clients -> BOOLEAN] /\ edits \in Nat
        /\ link \in [Clients -> {"out", "offline", "online"}]
        /\ doc \in [Clients -> SUBSET Names(txns)]
        /\ play \in Play
    BY CanvasAssumption DEF AgreeInv, SyncInv, TypeOK, Play
  <1>a. play' = play
    BY DEF Next, vars, Mount, Connect, Disconnect, Edit, Restore, HandleChange, ReceiveStep1,
           ReceiveUpdate
  <1> SUFFICES ASSUME OnlySeederWrites(play)
               PROVE  Cardinality(Own(txns, Seeder))' + (IF changed'[Seeder] THEN 1 ELSE 0)
                        <= edits' + 1
    BY <1>a DEF EchoInv, OnlySeederWrites
  <1> DEFINE N == Cardinality(Own(txns, Seeder))
  <1>b. N \in Nat
    BY <1>0, FS_Subset, FS_CardinalityType DEF Ledger, Own
  <1>c. /\ N + (IF changed[Seeder] THEN 1 ELSE 0) <= edits + 1
        /\ \A t \in txns : t.by = Seeder
        /\ \A t \in txns' : t.by = Seeder
        /\ Seeder \in Clients
    BY <1>a, CanvasAssumption DEF EchoInv, SoloInv, OnlySeederWrites
  <1>d. Own(txns, Seeder)' = Own(txns', Seeder)
    BY DEF Own
  <1> HIDE DEF N
  <1>1. CASE txns' = txns /\ changed'[Seeder] = changed[Seeder] /\ edits' = edits
    BY <1>1, <1>c, <1>d DEF N
  <1>2. CASE UNCHANGED vars
    BY <1>1, <1>2 DEF vars
  <1>3. ASSUME NEW c \in Clients, NEW s \in Clients,
               Connect(c) \/ Disconnect(c) \/ ReceiveStep1(c, s)
        PROVE  txns' = txns /\ changed' = changed /\ edits' = edits
    BY <1>3 DEF Connect, Disconnect, ReceiveStep1
  <1>4. ASSUME NEW c \in Clients, Mount(c)
        PROVE  Cardinality(Own(txns', Seeder)) + (IF changed'[Seeder] THEN 1 ELSE 0) <= edits' + 1
    <2>1. changed' = changed /\ edits' = edits /\ link[c] = "out"
      BY <1>4 DEF Mount
    <2>2. CASE ~(c = Seeder /\ Saved # {})
      <3>1. txns' = txns
        BY <1>4, <2>2 DEF Mount
      <3> QED
        BY <1>c, <2>1, <3>1 DEF N
    <2>3. CASE c = Seeder /\ Saved # {}
      <3>1. PICK I, seed, R : Seeding(c, I, seed, R) /\ txns' = txns \cup R
        BY <1>0, <1>4, <2>3, SeedWritten
      <3>2. Records(c, R, I, seed, Saved, Saved)
        BY <3>1 DEF Seeding
      <3>3. /\ Cardinality(Own(txns \cup R, c)) <= Cardinality(Own(txns, c)) + 1
            /\ Cardinality(Own(txns \cup R, c)) \in Nat
        BY <1>0, <3>2, OneMore
      <3>4. ~changed[Seeder] /\ Own(txns, Seeder) = {}
        BY <1>0, <2>1, <2>3 DEF Newcomers, Own
      <3>5. Cardinality(Own(txns, Seeder)) = 0
        BY <3>4, FS_EmptySet
      <3> QED
        BY <1>0, <2>1, <2>3, <3>1, <3>3, <3>4, <3>5
    <2> QED
      BY <2>2, <2>3
  <1>5. ASSUME NEW c \in Clients, Edit(c) \/ Restore(c)
        PROVE  Cardinality(Own(txns', Seeder)) + (IF changed'[Seeder] THEN 1 ELSE 0) <= edits' + 1
    <2>1. txns' = txns /\ changed' = [changed EXCEPT ![c] = TRUE] /\ edits' = edits + 1
      BY <1>5 DEF Edit, Restore
    <2>2. N <= edits + 1
      BY <1>0, <1>b, <1>c
    <2> QED
      BY <1>0, <1>b, <2>1, <2>2 DEF N
  <1>6. ASSUME NEW c \in Clients, HandleChange(c)
        PROVE  Cardinality(Own(txns', Seeder)) + (IF changed'[Seeder] THEN 1 ELSE 0) <= edits' + 1
    <2>1. changed[c] /\ changed' = [changed EXCEPT ![c] = FALSE] /\ edits' = edits
      BY <1>6 DEF HandleChange
    <2>2. PICK I, S, F, R :
            /\ Writing(c, I, S, F, R) /\ Added(txns, R, c, doc[c]) /\ txns' = txns \cup R
      BY <1>0, <1>6, ChangeWritten
    <2>3. CASE c = Seeder
      <3>1. Records(c, R, I, scene[c], S, F)
        BY <2>2 DEF Writing
      <3>2. /\ Cardinality(Own(txns \cup R, c)) <= Cardinality(Own(txns, c)) + 1
            /\ Cardinality(Own(txns \cup R, c)) \in Nat
        BY <1>0, <3>1, OneMore
      <3>3. ~changed'[Seeder] /\ N + 1 <= edits + 1
        BY <1>0, <1>c, <2>1, <2>3
      <3> QED
        BY <1>0, <1>b, <2>1, <2>2, <2>3, <3>2, <3>3 DEF N
    <2>4. CASE c # Seeder
      <3>1. R = {}
        BY <1>c, <2>2, <2>4 DEF Added
      <3>2. txns' = txns
        BY <2>2, <3>1
      <3>3. changed'[Seeder] = changed[Seeder]
        BY <1>0, <1>c, <2>1, <2>4
      <3> QED
        BY <1>1, <1>d, <2>1, <3>2, <3>3
    <2> QED
      BY <2>3, <2>4
  <1>7. ASSUME NEW c \in Clients, NEW s \in Clients, ReceiveUpdate(c, s)
        PROVE  txns' = txns /\ changed'[Seeder] = changed[Seeder] /\ edits' = edits
    <2> DEFINE new == Integrated(doc[c] \cup Head(inbox[c][s]).names) \ Integrated(doc[c])
    <2>1. /\ txns' = txns /\ edits' = edits
          /\ changed' = [changed EXCEPT ![c] = changed[c] \/ new # {}]
      BY <1>7 DEF ReceiveUpdate
    <2>2. c = Seeder => new = {}
      BY <1>0, <1>c DEF Integrated, OwnAreIntegrated
    <2> HIDE DEF new
    <2> QED
      BY <1>0, <2>1, <2>2
  <1> QED
    BY <1>1, <1>2, <1>3, <1>4, <1>5, <1>6, <1>7, <1>d DEF Next

(***************************************************************************)
(* "The version gate is also what prevents echoing a just-applied remote    *)
(* element back to peers" (sync.ts): while one person works on the canvas,  *)
(* the browsers of the others, however many there are and whenever they     *)
(* come, are cut off and come back, write nothing, and that person's own    *)
(* writes every change once, so that each change is sent once.              *)
(***************************************************************************)
THEOREM NoEchoes ==
  ASSUME SeederStays
  PROVE  Spec => [](OnlySeederWrites(play) => EchoesBounded)
  <1>1. Init => EchoInv
    <2> SUFFICES ASSUME Init PROVE EchoInv
      OBVIOUS
    <2>1. Own(txns, Seeder) = {} /\ ~changed[Seeder] /\ edits = 0
      BY CanvasAssumption DEF Init, Own
    <2> QED
      BY <2>1, FS_EmptySet DEF EchoInv
  <1>2. AgreeInv /\ SoloInv /\ SoloInv' /\ EchoInv /\ [Next]_vars => EchoInv'
    BY EchoStep
  <1>3. ASSUME AgreeInv, SoloInv, EchoInv, OnlySeederWrites(play) PROVE EchoesBounded
    <2>0. Ledger(txns) /\ edits \in Nat /\ Seeder \in Clients
      BY <1>3, CanvasAssumption DEF AgreeInv, SyncInv, TypeOK, Play
    <2> SUFFICES ASSUME NEW c \in Clients
                 PROVE  Cardinality(Own(txns, c)) <= edits + 1
      BY DEF EchoesBounded, Own
    <2>1. CASE c = Seeder
      <3>1. Cardinality(Own(txns, c)) \in Nat
        BY <2>0, FS_Subset, FS_CardinalityType DEF Ledger, Own
      <3> QED
        BY <1>3, <2>0, <2>1, <3>1 DEF EchoInv
    <2>2. CASE c # Seeder
      <3>1. Own(txns, c) = {}
        BY <1>3, <2>2 DEF SoloInv, Own
      <3> QED
        BY <2>0, <3>1, FS_EmptySet
    <2> QED
      BY <2>1, <2>2
  <1>4. AgreeInv /\ SoloInv /\ EchoInv => (OnlySeederWrites(play) => EchoesBounded)
    BY <1>3
  <1> QED
    BY <1>1, <1>2, <1>4, AgreeInvariant, SoloInvariant, PTL DEF Spec

-----------------------------------------------------------------------------
(* The same document, the same scene.                                       *)

\* Who has written keeps its connection.
WritersStay == \A t \in txns : Stable(t.by)

\* So it is if no connection breaks, or if only the seeder writes.
LEMMA WritersStayThere ==
  ASSUME AgreeInv, SoloInv, Stable(Seeder), NobodyReconnects(play) \/ OnlySeederWrites(play)
  PROVE  WritersStay
  <1>1. CASE NobodyReconnects(play)
    BY <1>1 DEF AgreeInv, SyncInv, TypeOK, WritersStay, NobodyReconnects, Stable
  <1>2. CASE OnlySeederWrites(play)
    BY <1>2 DEF SoloInv, WritersStay
  <1> QED
    BY <1>1, <1>2

\* When all frames have arrived, a document then has integrated everything.
LEMMA SettledAlike ==
  ASSUME AgreeInv, Settled, WritersStay, NEW c \in Clients, Online(c)
  PROVE  Document(c) = txns
  <1>1. \A t \in txns : Name(t) \in doc[c]
    BY SettledKnows DEF WritersStay
  <1>2. Names(txns) \subseteq doc[c]
    BY <1>1 DEF Names
  <1>3. ASSUME NEW t \in txns PROVE t.past \subseteq doc[c]
    <2>1. t.by \in Clients /\ t.past \subseteq doc[t.by] /\ doc[t.by] \subseteq Names(txns)
      BY DEF AgreeInv, SyncInv, TypeOK, OwnAreIntegrated
    <2> QED
      BY <1>2, <2>1
  <1> QED
    BY <1>1, <1>3 DEF Document, Integrated

\* Whoever has integrated the same shows the same.
LEMMA SettledScenes ==
  ASSUME AgreeInv, Settled, WritersStay
  PROVE  VersionsAgree
  <1> SUFFICES ASSUME NEW c \in Clients, Online(c), NEW d \in Clients, Online(d), NEW id \in Ids
               PROVE  SameVersion(scene[c][id], scene[d][id])
    BY DEF VersionsAgree, Online
  <1>0. /\ AllFollow /\ Ledger(txns)
        /\ scene \in [Clients -> [Ids -> Element \cup {NoElement}]]
    BY DEF AgreeInv, SyncInv, TypeOK
  <1>1. Document(c) = txns /\ Document(d) = txns
    BY SettledAlike
  <1>2. PICK e \in Element \cup {NoElement} : e = Shared(txns, id)
    BY <1>0, EntryTyped
  <1>3. /\ NotOlder(e, scene[c][id]) /\ NotOlder(scene[c][id], e)
        /\ NotOlder(e, scene[d][id]) /\ NotOlder(scene[d][id], e)
    <2>1. Follow(scene[c], files[c], FALSE, txns) /\ Follow(scene[d], files[d], FALSE, txns)
      BY <1>0, <1>1 DEF AllFollow, Follows, Follow, Settled
    <2> QED
      BY <1>2, <2>1 DEF Follow
  <1>4. scene[c][id] \in Element \cup {NoElement} /\ scene[d][id] \in Element \cup {NoElement}
    BY <1>0
  <1> QED
    BY <1>3, <1>4 DEF NotOlder, SameVersion, Element

(***************************************************************************)
(* Once all frames have arrived, the browsers in the room show every        *)
(* element at the same version, in any play and for any number of editors,  *)
(* as long as everything, written back or new, was written by browsers that *)
(* keep their connection.                                                   *)
(***************************************************************************)
THEOREM TogetherIfWritersStay ==
  ASSUME SeederStays
  PROVE  Spec => [](WritersStay => VersionsAgree)
  <1>1. ASSUME AgreeInv, WritersStay PROVE VersionsAgree
    <2>1. CASE Settled
      BY <1>1, <2>1, SettledScenes
    <2>2. CASE ~Settled
      BY <2>2 DEF VersionsAgree
    <2> QED
      BY <2>1, <2>2
  <1>2. AgreeInv => (WritersStay => VersionsAgree)
    BY <1>1
  <1> QED
    BY <1>2, AgreeInvariant, PTL

\* In the plays of the next theorem, it is so all the time.
LEMMA WritersAlwaysStay ==
  ASSUME SeederStays,
         \A p \in Plays : NobodyReconnects(p) \/ OnlySeederWrites(p)
  PROVE  Spec => []WritersStay
  <1>1. ASSUME AgreeInv, SoloInv PROVE WritersStay
    <2>1. play \in Plays
      BY <1>1 DEF AgreeInv, SyncInv, TypeOK
    <2> QED
      BY <1>1, <2>1, WritersStayThere DEF SeederStays, Stable
  <1>2. AgreeInv /\ SoloInv => WritersStay
    BY <1>1
  <1> QED
    BY <1>2, AgreeInvariant, SoloInvariant, PTL

(***************************************************************************)
(* Once all frames have arrived, the browsers in the room show every        *)
(* element at the same version, whoever edited, deleted or restored it      *)
(* meanwhile: if no connection breaks, with any number of editors; if       *)
(* watchers lose theirs and come back, with the seeder as the only editor.  *)
(***************************************************************************)
THEOREM AllVersionsAgree ==
  ASSUME SeederStays,
         \A p \in Plays : NobodyReconnects(p) \/ OnlySeederWrites(p)
  PROVE  Spec => []VersionsAgree
  BY TogetherIfWritersStay, WritersAlwaysStay, PTL
=============================================================================
