-------------------------------- MODULE Relay ---------------------------------
(***************************************************************************)
(* One room's WebSocket relay (backend/internal/relay, Room in              *)
(* backend/internal/rooms): connections joining through the auth handshake, *)
(* a read pump and a write pump per connection, the bounded send channel    *)
(* between them, and an admin closing the room while all that goes on.      *)
(*                                                                         *)
(* Frames are opaque to the relay and identified by their sender and their  *)
(* place in its stream.  A frame counts as received when the write pump has *)
(* written it to an open connection.                                        *)
(***************************************************************************)
EXTENDS Naturals, Sequences, Functions

CONSTANTS
    Clients,    \* connections; a reconnecting participant is another one
    Admins,     \* the connections that authenticate as admin, the rest as guest
    Senders,    \* the connections whose peer sends frames
    Frail,      \* the connections that may break or stall
    MayClose,   \* whether an admin closes the room
    NoClient,   \* absence of a connection
    Buffer,     \* sendBuffer
    MaxFrames   \* frames read from all connections together (a bound)

ASSUME RelayAssumption ==
    /\ Admins \subseteq Clients
    /\ Senders \subseteq Clients
    /\ Frail \subseteq Clients
    /\ MayClose \in BOOLEAN
    /\ NoClient \notin Clients
    /\ Buffer \in Nat \ {0}
    /\ MaxFrames \in Nat

VARIABLES
    registered,  \* the room is in the registry
    members,     \* Room.clients
    conn,        \* "none", "open" or "closed"
    send,        \* Client.send: the queued frames and close directives
    done,        \* Client.done is closed
    reader,      \* where serve/readPump of a connection is
    fan,         \* the snapshot's clients that Broadcast has still to serve
    slow,        \* the client whose connection Broadcast is about to close
    writer,      \* whether the write pump runs
    sent,        \* frames read from a connection so far
    received,    \* the frames written to a connection
    closer,      \* where the handler that closes the room is
    left,        \* the snapshot's clients that CloseAll has still to serve
    target,      \* the client that CloseAll is serving
    closedWith,  \* history: the members CloseAll found
    lost         \* history: why a connection was given up before the close frame

vars == <<registered, members, conn, send, done, reader, fan, slow, writer,
          sent, received, closer, left, target, closedWith, lost>>
roomVars == <<registered, closer, left, target, closedWith>>

\* The n-th frame of a connection, the room-closed text frame, and the close
\* directive, which becomes the close frame with code 4001.
Frame(c, n) == [kind |-> "frame", from |-> c, n |-> n]
RoomClosed == [kind |-> "room-closed", from |-> NoClient, n |-> 0]
CloseFrame == [kind |-> "close", from |-> NoClient, n |-> 0]
Message == [kind : {"frame", "room-closed", "close"}, from : Clients \cup {NoClient},
            n : Nat]

TypeOK ==
    /\ registered \in BOOLEAN
    /\ members \subseteq Clients
    /\ conn \in [Clients -> {"none", "open", "closed"}]
    /\ send \in [Clients -> Seq(Message)]
    /\ \A c \in Clients : Len(send[c]) <= Buffer
    /\ done \in [Clients -> BOOLEAN]
    /\ reader \in [Clients -> {"away", "auth", "adding", "reading", "fanout",
                               "dropping", "leaving", "closing", "exit"}]
    /\ fan \in [Clients -> SUBSET Clients]
    /\ slow \in [Clients -> Clients \cup {NoClient}]
    /\ writer \in [Clients -> {"off", "run", "exit"}]
    /\ sent \in [Clients -> Nat]
    /\ received \in [Clients -> Seq(Message)]
    /\ closer \in {"idle", "text", "dropText", "code", "dropCode", "next", "done"}
    /\ left \subseteq Clients
    /\ target \in Clients \cup {NoClient}
    /\ closedWith \subseteq Clients
    /\ lost \in [Clients -> {"no", "peer", "slow"}]

Init ==
    /\ registered = TRUE
    /\ members = {}
    /\ conn = [c \in Clients |-> "none"]
    /\ send = [c \in Clients |-> <<>>]
    /\ done = [c \in Clients |-> FALSE]
    /\ reader = [c \in Clients |-> "away"]
    /\ fan = [c \in Clients |-> {}]
    /\ slow = [c \in Clients |-> NoClient]
    /\ writer = [c \in Clients |-> "off"]
    /\ sent = [c \in Clients |-> 0]
    /\ received = [c \in Clients |-> <<>>]
    /\ closer = "idle"
    /\ left = {}
    /\ target = NoClient
    /\ closedWith = {}
    /\ lost = [c \in Clients |-> "no"]

-----------------------------------------------------------------------------
(* The select of Send and CloseWithCode.  With the channel open for writing *)
(* and done closed Go picks either case; default needs neither to be ready. *)

\* Fault: one slot too many.
EnqueueOneMore(t, m) ==
    /\ Len(send[t]) <= Buffer
    /\ send' = [send EXCEPT ![t] = Append(send[t], m)]

Enqueue(t, m) ==
    /\ Len(send[t]) < Buffer
    /\ send' = [send EXCEPT ![t] = Append(send[t], m)]
Ignored(t) == done[t] /\ UNCHANGED send
Overflow(t) == Len(send[t]) = Buffer /\ ~done[t] /\ UNCHANGED send

\* conn.Close(), with the reason it ends the connection early.
CloseConn(t, why) ==
    /\ conn' = [conn EXCEPT ![t] = "closed"]
    /\ lost' = IF conn[t] = "open" THEN [lost EXCEPT ![t] = why] ELSE lost

-----------------------------------------------------------------------------
(* serve: lookup, handshake, registration.                                  *)

Connect(c) ==
    /\ reader[c] = "away"
    /\ registered
    /\ reader' = [reader EXCEPT ![c] = "auth"]
    /\ conn' = [conn EXCEPT ![c] = "open"]
    /\ UNCHANGED <<roomVars, members, send, done, fan, slow, writer, sent,
                   received, lost>>

\* AuthorizeRoom looks an admin's room up, and compares a guest's token only.
AuthSucceed(c) ==
    /\ reader[c] = "auth"
    /\ conn[c] = "open"
    /\ c \in Admins => registered
    /\ reader' = [reader EXCEPT ![c] = "adding"]
    /\ UNCHANGED <<roomVars, members, conn, send, done, fan, slow, writer, sent,
                   received, lost>>

\* No auth frame in time, a bad one, or one for a room that is gone: 4003.
AuthFail(c) ==
    /\ reader[c] = "auth"
    /\ reader' = [reader EXCEPT ![c] = "exit"]
    /\ CloseConn(c, "peer")
    /\ UNCHANGED <<roomVars, members, send, done, fan, slow, writer, sent, received>>

AddClient(c) ==
    /\ reader[c] = "adding"
    /\ members' = members \cup {c}
    /\ reader' = [reader EXCEPT ![c] = "reading"]
    /\ writer' = [writer EXCEPT ![c] = "run"]
    /\ UNCHANGED <<roomVars, conn, send, done, fan, slow, sent, received, lost>>

-----------------------------------------------------------------------------
(* readPump and Broadcast.                                                  *)

\* Fault: the snapshot keeps the sender.
ReadFrameEchoed(c) ==
    /\ c \in Senders
    /\ reader[c] = "reading"
    /\ conn[c] = "open"
    /\ SumFunction(sent) < MaxFrames
    /\ sent' = [sent EXCEPT ![c] = sent[c] + 1]
    /\ fan' = [fan EXCEPT ![c] = members]
    /\ reader' = [reader EXCEPT ![c] = "fanout"]
    /\ UNCHANGED <<roomVars, members, conn, send, done, slow, writer, received, lost>>

\* A frame is read and the members other than the sender are snapshot.
ReadFrame(c) ==
    /\ c \in Senders
    /\ reader[c] = "reading"
    /\ conn[c] = "open"
    /\ SumFunction(sent) < MaxFrames
    /\ sent' = [sent EXCEPT ![c] = sent[c] + 1]
    /\ fan' = [fan EXCEPT ![c] = members \ {c}]
    /\ reader' = [reader EXCEPT ![c] = "fanout"]
    /\ UNCHANGED <<roomVars, members, conn, send, done, slow, writer, received, lost>>

\* Fault: a plain channel send, which waits for room in the buffer.
FanOutWaits(c) ==
    /\ reader[c] = "fanout"
    /\ \E t \in fan[c] :
         /\ fan' = [fan EXCEPT ![c] = fan[c] \ {t}]
         /\ Enqueue(t, Frame(c, sent[c]))
    /\ UNCHANGED <<roomVars, members, conn, done, reader, slow, writer, sent, received, lost>>

\* Send to one client of the snapshot.
FanOut(c) ==
    /\ reader[c] = "fanout"
    /\ \E t \in fan[c] :
         /\ fan' = [fan EXCEPT ![c] = fan[c] \ {t}]
         /\ \/ /\ Enqueue(t, Frame(c, sent[c])) \/ Ignored(t)
               /\ UNCHANGED <<reader, slow>>
            \/ /\ Overflow(t)
               /\ slow' = [slow EXCEPT ![c] = t]
               /\ reader' = [reader EXCEPT ![c] = "dropping"]
    /\ UNCHANGED <<roomVars, members, conn, done, writer, sent, received, lost>>

\* Fault: the frame is dropped and the connection kept.
DropFrame(c) ==
    /\ reader[c] = "dropping"
    /\ slow' = [slow EXCEPT ![c] = NoClient]
    /\ reader' = [reader EXCEPT ![c] = "fanout"]
    /\ UNCHANGED <<roomVars, members, conn, send, done, fan, writer, sent, received, lost>>

\* default: c.conn.Close()
DropSlow(c) ==
    /\ reader[c] = "dropping"
    /\ CloseConn(slow[c], "slow")
    /\ slow' = [slow EXCEPT ![c] = NoClient]
    /\ reader' = [reader EXCEPT ![c] = "fanout"]
    /\ UNCHANGED <<roomVars, members, send, done, fan, writer, sent, received>>

FanOutDone(c) ==
    /\ reader[c] = "fanout"
    /\ fan[c] = {}
    /\ reader' = [reader EXCEPT ![c] = "reading"]
    /\ UNCHANGED <<roomVars, members, conn, send, done, fan, slow, writer, sent,
                   received, lost>>

\* Fault: the client stays registered.
ReadErrorKeepsMember(c) ==
    /\ reader[c] = "reading"
    /\ conn[c] = "closed" \/ c \in Frail
    /\ reader' = [reader EXCEPT ![c] = "leaving"]
    /\ lost' = IF conn[c] = "open" THEN [lost EXCEPT ![c] = "peer"] ELSE lost
    /\ UNCHANGED <<roomVars, members, conn, send, done, fan, slow, writer, sent, received>>

\* ReadMessage fails: the connection is closed, or no pong came in time.
\* The deferred RemoveClient runs first, then close(done), then Close.
ReadError(c) ==
    /\ reader[c] = "reading"
    /\ conn[c] = "closed" \/ c \in Frail
    /\ members' = members \ {c}
    /\ reader' = [reader EXCEPT ![c] = "leaving"]
    /\ lost' = IF conn[c] = "open" THEN [lost EXCEPT ![c] = "peer"] ELSE lost
    /\ UNCHANGED <<roomVars, conn, send, done, fan, slow, writer, sent, received>>

StopWriter(c) ==
    /\ reader[c] = "leaving"
    /\ done' = [done EXCEPT ![c] = TRUE]
    /\ reader' = [reader EXCEPT ![c] = "closing"]
    /\ UNCHANGED <<roomVars, members, conn, send, fan, slow, writer, sent, received, lost>>

ReaderExit(c) ==
    /\ reader[c] = "closing"
    /\ CloseConn(c, "peer")
    /\ reader' = [reader EXCEPT ![c] = "exit"]
    /\ UNCHANGED <<roomVars, members, send, done, fan, slow, writer, sent, received>>

-----------------------------------------------------------------------------
(* writePump.                                                               *)

\* One queued frame.  Writing fails on a closed connection.
WriteFrame(c) ==
    /\ writer[c] = "run"
    /\ send[c] # <<>>
    /\ Head(send[c]) # CloseFrame
    /\ send' = [send EXCEPT ![c] = Tail(send[c])]
    /\ IF conn[c] = "open"
       THEN /\ received' = [received EXCEPT ![c] = Append(received[c], Head(send[c]))]
            /\ UNCHANGED writer
       ELSE /\ writer' = [writer EXCEPT ![c] = "exit"]
            /\ UNCHANGED received
    /\ UNCHANGED <<roomVars, members, conn, done, reader, fan, slow, sent, lost>>

\* A close directive: the close frame, then the deferred Close.
WriteClose(c) ==
    /\ writer[c] = "run"
    /\ send[c] # <<>>
    /\ Head(send[c]) = CloseFrame
    /\ send' = [send EXCEPT ![c] = Tail(send[c])]
    /\ received' = IF conn[c] = "open"
                   THEN [received EXCEPT ![c] = Append(received[c], CloseFrame)]
                   ELSE received
    /\ writer' = [writer EXCEPT ![c] = "exit"]
    /\ conn' = [conn EXCEPT ![c] = "closed"]
    /\ UNCHANGED <<roomVars, members, done, reader, fan, slow, sent, lost>>

\* done is closed, or a write or a ping fails.
WriterExit(c) ==
    /\ writer[c] = "run"
    /\ done[c] \/ conn[c] = "closed" \/ c \in Frail
    /\ writer' = [writer EXCEPT ![c] = "exit"]
    /\ CloseConn(c, "peer")
    /\ UNCHANGED <<roomVars, members, send, done, reader, fan, slow, sent, received>>

\* The peer goes away.
PeerGone(c) ==
    /\ c \in Frail
    /\ conn[c] = "open"
    /\ CloseConn(c, "peer")
    /\ UNCHANGED <<roomVars, members, send, done, reader, fan, slow, writer, sent, received>>

-----------------------------------------------------------------------------
(* DELETE /rooms/{id}: CloseAll, then the removal from the registry.        *)

CloseAll ==
    /\ MayClose
    /\ closer = "idle"
    /\ left' = members
    /\ closedWith' = members
    /\ members' = {}
    /\ closer' = "next"
    /\ UNCHANGED <<registered, target, conn, send, done, reader, fan, slow, writer,
                   sent, received, lost>>

CloseNext ==
    /\ closer = "next"
    /\ \E t \in left : target' = t /\ left' = left \ {t}
    /\ closer' = "text"
    /\ UNCHANGED <<registered, closedWith, members, conn, send, done, reader, fan, slow, writer,
                   sent, received, lost>>

\* Faults: the close directive is queued first; the text frame is not queued
\* at all; it is sent without select.
CloseCodeFirst ==
    /\ closer = "text"
    /\ \/ (Enqueue(target, CloseFrame) \/ Ignored(target)) /\ closer' = "code"
       \/ Overflow(target) /\ closer' = "dropText"
    /\ UNCHANGED <<registered, left, target, closedWith, members, conn, done, reader,
                   fan, slow, writer, sent, received, lost>>
CloseNoText ==
    /\ closer = "text"
    /\ closer' = "code"
    /\ UNCHANGED <<registered, left, target, closedWith, members, conn, send, done,
                   reader, fan, slow, writer, sent, received, lost>>
CloseTextWaits ==
    /\ closer = "text"
    /\ Enqueue(target, RoomClosed)
    /\ closer' = "code"
    /\ UNCHANGED <<registered, left, target, closedWith, members, conn, done, reader,
                   fan, slow, writer, sent, received, lost>>

\* Send(room-closed)
CloseText ==
    /\ closer = "text"
    /\ \/ (Enqueue(target, RoomClosed) \/ Ignored(target)) /\ closer' = "code"
       \/ Overflow(target) /\ closer' = "dropText"
    /\ UNCHANGED <<registered, left, target, closedWith, members, conn, done, reader, fan, slow,
                   writer, sent, received, lost>>

\* CloseWithCode(4001)
CloseCode ==
    /\ closer = "code"
    /\ \/ (Enqueue(target, CloseFrame) \/ Ignored(target)) /\ closer' = "next"
       \/ Overflow(target) /\ closer' = "dropCode"
    /\ UNCHANGED <<registered, left, target, closedWith, members, conn, done, reader, fan, slow,
                   writer, sent, received, lost>>

\* default: c.conn.Close()
CloseDrop ==
    /\ closer \in {"dropText", "dropCode"}
    /\ CloseConn(target, "slow")
    /\ closer' = IF closer = "dropText" THEN "code" ELSE "next"
    /\ UNCHANGED <<registered, left, target, closedWith, members, send, done, reader, fan, slow,
                   writer, sent, received>>

\* Registry.Delete
CloseDone ==
    /\ closer = "next"
    /\ left = {}
    /\ registered' = FALSE
    /\ closer' = "done"
    /\ target' = NoClient
    /\ UNCHANGED <<left, closedWith, members, conn, send, done, reader, fan, slow, writer, sent,
                   received, lost>>

-----------------------------------------------------------------------------
Serve(c) ==
    \/ AuthSucceed(c) \/ AuthFail(c) \/ AddClient(c)
    \/ FanOut(c) \/ DropSlow(c) \/ FanOutDone(c)
    \/ conn[c] = "closed" /\ ReadError(c)
    \/ StopWriter(c) \/ ReaderExit(c)

Pump(c) ==
    \/ WriteFrame(c) \/ WriteClose(c)
    \/ (done[c] \/ conn[c] = "closed") /\ WriterExit(c)

CloseStep == CloseNext \/ CloseText \/ CloseCode \/ CloseDrop \/ CloseDone

Next ==
    \/ CloseAll \/ CloseStep
    \/ \E c \in Clients :
         \/ Connect(c) \/ ReadFrame(c) \/ PeerGone(c)
         \/ Serve(c) \/ ReadError(c)
         \/ Pump(c) \/ WriterExit(c)

\* Goroutines run; the auth deadline and the write deadline expire.  Nothing
\* makes a peer send, leave or connect, or an admin close the room.
Fairness ==
    /\ WF_vars(CloseStep)
    /\ \A c \in Clients : WF_vars(Serve(c)) /\ WF_vars(Pump(c))

Spec == Init /\ [][Next]_vars /\ Fairness
-----------------------------------------------------------------------------
Got(c, m) == \E i \in DOMAIN received[c] : received[c][i] = m

(***************************************************************************)
(* FR-3.3: no frame is echoed to its sender, and the frames of one sender   *)
(* reach a connection in the order they were read, none of them twice.      *)
(***************************************************************************)
InOrder ==
    \A c \in Clients :
        /\ \A i \in DOMAIN received[c] : received[c][i].from # c
        /\ \A i, j \in DOMAIN received[c] :
             /\ i < j
             /\ received[c][i].kind = "frame" /\ received[c][j].kind = "frame"
             /\ received[c][i].from = received[c][j].from
             => received[c][i].n < received[c][j].n

(***************************************************************************)
(* FR-3.3, Send: a client that is too slow is disconnected rather than      *)
(* served with holes: as long as a connection is not being torn down, the   *)
(* frames it got from one sender are consecutive.                           *)
(***************************************************************************)
NoGap ==
    \A c \in Clients : ~done[c] =>
        \A i, j \in DOMAIN received[c] :
            /\ received[c][i].kind = "frame" /\ received[c][j].kind = "frame"
            /\ received[c][i].from = received[c][j].from
            => \A n \in received[c][i].n .. received[c][j].n :
                   Got(c, Frame(received[c][i].from, n))

(***************************************************************************)
(* CloseWithCode: the close frame comes after everything queued before it,  *)
(* room-closed included, and nothing comes after it.                        *)
(***************************************************************************)
CloseComesLast ==
    \A c \in Clients : \A i \in DOMAIN received[c] :
        received[c][i] = CloseFrame =>
            /\ i = Len(received[c])
            /\ done[c] \/ Got(c, RoomClosed)

Signalled(c) == Got(c, RoomClosed) /\ Got(c, CloseFrame)

(***************************************************************************)
(* FR-2.7: once the room is closed and a member's write pump has ended, the *)
(* member has got both signals, unless its connection broke or it was       *)
(* dropped for being slow.                                                  *)
(***************************************************************************)
MembersSignalled ==
    closer = "done" =>
        \A c \in closedWith : writer[c] = "exit" =>
            Signalled(c) \/ lost[c] # "no"

(***************************************************************************)
(* FR-2.7 as written: no client stays connected to a closed room without    *)
(* having been among those the close notifies.                              *)
(***************************************************************************)
NoneLeftBehind ==
    closer = "done" =>
        \A c \in members : conn[c] = "open" => c \in closedWith

(***************************************************************************)
(* FR-3.5: a connection that ends is deregistered and both its pumps stop.  *)
(***************************************************************************)
ConnectionsCleanedUp ==
    \A c \in Clients :
        conn[c] = "closed" ~>
            reader[c] = "exit" /\ writer[c] # "run" /\ c \notin members

(***************************************************************************)
(* Send never blocks the broadcaster: a fan-out ends, however slow or dead  *)
(* the clients are and whoever is fanning out to whom.                      *)
(***************************************************************************)
FanOutEnds == \A c \in Clients : reader[c] = "fanout" ~> reader[c] = "reading"

(***************************************************************************)
(* Closing the room ends, and takes it out of the registry, whatever state  *)
(* its members are in.                                                      *)
(***************************************************************************)
CloseEnds == closer # "idle" ~> ~registered
=============================================================================
