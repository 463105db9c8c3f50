----------------------------- MODULE RelayProofs ------------------------------
(***************************************************************************)
(* Theorems about Relay, for any connections, any buffer and any number of  *)
(* frames, whoever breaks and whether or not the room is closed.            *)
(***************************************************************************)
EXTENDS Relay, TLAPS

-----------------------------------------------------------------------------
(* Types.                                                                   *)

\* The frames and directives that are queued are messages.
LEMMA MessagesTyped ==
  /\ \A c \in Clients, n \in Nat : Frame(c, n) \in Message
  /\ RoomClosed \in Message
  /\ CloseFrame \in Message
  BY RelayAssumption DEF Frame, RoomClosed, CloseFrame, Message

\* Queueing a message, if there is room, keeps the queues typed and bounded.
LEMMA EnqueueTyped ==
  ASSUME TypeOK, NEW t, NEW m \in Message, Enqueue(t, m)
  PROVE  /\ send' \in [Clients -> Seq(Message)]
         /\ \A c \in Clients : Len(send'[c]) <= Buffer
  <1> USE RelayAssumption DEF TypeOK, Enqueue
  <1>1. CASE t \in Clients
    <2>1. send[t] \in Seq(Message) /\ Len(send[t]) \in Nat /\ Len(send[t]) < Buffer
      BY <1>1
    <2>2. /\ Append(send[t], m) \in Seq(Message)
          /\ Len(Append(send[t], m)) = Len(send[t]) + 1
      BY <2>1
    <2> QED
      BY <1>1, <2>1, <2>2
  <1> QED
    BY <1>1

\* Closing a connection keeps the connections typed.
LEMMA CloseConnTyped ==
  ASSUME TypeOK, NEW t, NEW why \in {"no", "peer", "slow"}, CloseConn(t, why)
  PROVE  /\ conn' \in [Clients -> {"none", "open", "closed"}]
         /\ lost' \in [Clients -> {"no", "peer", "slow"}]
  BY DEF TypeOK, CloseConn

\* The initial state is typed.
LEMMA TypeInit == Init => TypeOK
  BY RelayAssumption DEF Init, TypeOK

\* A step keeps the state typed.
LEMMA TypeNext ==
  ASSUME TypeOK, [Next]_vars
  PROVE  TypeOK'
  <1> USE RelayAssumption DEF TypeOK, roomVars
  <1>1. CASE CloseAll
    BY <1>1 DEF CloseAll
  <1>2. CASE CloseNext
    BY <1>2 DEF CloseNext
  <1>3. CASE CloseText
    BY <1>3, MessagesTyped, EnqueueTyped DEF CloseText, Ignored, Overflow
  <1>4. CASE CloseCode
    BY <1>4, MessagesTyped, EnqueueTyped DEF CloseCode, Ignored, Overflow
  <1>5. CASE CloseDrop
    BY <1>5, CloseConnTyped DEF CloseDrop
  <1>6. CASE CloseDone
    BY <1>6 DEF CloseDone
  <1>7. ASSUME NEW c \in Clients, FanOut(c) PROVE TypeOK'
    <2>1. /\ send' \in [Clients -> Seq(Message)]
          /\ \A d \in Clients : Len(send'[d]) <= Buffer
      BY <1>7, MessagesTyped, EnqueueTyped DEF FanOut, Ignored, Overflow
    <2>2. fan' \in [Clients -> SUBSET Clients]
      BY <1>7 DEF FanOut
    <2>3. slow' = slow \/ \E t \in Clients : slow' = [slow EXCEPT ![c] = t]
      BY <1>7 DEF FanOut
    <2>4. reader' = reader \/ reader' = [reader EXCEPT ![c] = "dropping"]
      BY <1>7 DEF FanOut
    <2>5. UNCHANGED <<roomVars, members, conn, done, writer, sent, received, lost>>
      BY <1>7 DEF FanOut
    <2>6. slow' \in [Clients -> Clients \cup {NoClient}]
      BY <2>3
    <2>7. reader' \in [Clients -> {"away", "auth", "adding", "reading", "fanout",
                                  "dropping", "leaving", "closing", "exit"}]
      BY <2>4
    <2> QED
      BY <2>1, <2>2, <2>5, <2>6, <2>7
  <1>8. ASSUME NEW c \in Clients, WriteFrame(c) \/ WriteClose(c) PROVE TypeOK'
    <2>1. /\ Head(send[c]) \in Message
          /\ Tail(send[c]) \in Seq(Message)
          /\ Len(Tail(send[c])) <= Buffer
      BY <1>8 DEF WriteFrame, WriteClose
    <2>2. CASE WriteFrame(c)
      <3>1. Append(received[c], Head(send[c])) \in Seq(Message)
        BY <2>1
      <3>2. CASE conn[c] = "open"
        <4>1. /\ send' = [send EXCEPT ![c] = Tail(send[c])]
              /\ received' = [received EXCEPT ![c] = Append(received[c], Head(send[c]))]
              /\ UNCHANGED <<roomVars, writer, members, conn, done, reader, fan, slow, sent, lost>>
          BY <2>2, <3>2 DEF WriteFrame
        <4> QED
          BY <2>1, <3>1, <4>1
      <3>3. CASE conn[c] # "open"
        BY <2>1, <2>2, <3>3 DEF WriteFrame
      <3> QED
        BY <3>2, <3>3
    <2>3. CASE WriteClose(c)
      BY <2>1, <2>3, MessagesTyped DEF WriteClose
    <2> QED
      BY <1>8, <2>2, <2>3
  <1>9. ASSUME NEW c \in Clients, Connect(c) PROVE TypeOK'
    BY <1>9 DEF Connect
  <1>10. ASSUME NEW c \in Clients, AuthSucceed(c) PROVE TypeOK'
    BY <1>10 DEF AuthSucceed
  <1>11. ASSUME NEW c \in Clients, AddClient(c) PROVE TypeOK'
    BY <1>11 DEF AddClient
  <1>12. ASSUME NEW c \in Clients, ReadFrame(c) PROVE TypeOK'
    BY <1>12 DEF ReadFrame
  <1>13. ASSUME NEW c \in Clients, FanOutDone(c) PROVE TypeOK'
    BY <1>13 DEF FanOutDone
  <1>14. ASSUME NEW c \in Clients, ReadError(c) PROVE TypeOK'
    BY <1>14 DEF ReadError
  <1>15. ASSUME NEW c \in Clients, StopWriter(c) PROVE TypeOK'
    BY <1>15 DEF StopWriter
  <1>16. ASSUME NEW c \in Clients, AuthFail(c) PROVE TypeOK'
    BY <1>16, CloseConnTyped DEF AuthFail
  <1>17. ASSUME NEW c \in Clients, DropSlow(c) PROVE TypeOK'
    BY <1>17, CloseConnTyped DEF DropSlow
  <1>18. ASSUME NEW c \in Clients, ReaderExit(c) PROVE TypeOK'
    BY <1>18, CloseConnTyped DEF ReaderExit
  <1>19. ASSUME NEW c \in Clients, WriterExit(c) PROVE TypeOK'
    BY <1>19, CloseConnTyped DEF WriterExit
  <1>20. ASSUME NEW c \in Clients, PeerGone(c) PROVE TypeOK'
    BY <1>20, CloseConnTyped DEF PeerGone
  <1>21. CASE UNCHANGED vars
    BY <1>21 DEF vars
  <1> QED
    BY <1>1, <1>2, <1>3, <1>4, <1>5, <1>6, <1>7, <1>8, <1>9, <1>10, <1>11, <1>12, <1>13, <1>14, <1>15, <1>16, <1>17, <1>18, <1>19, <1>20, <1>21
    DEF Next, CloseStep, Serve, Pump

(***************************************************************************)
(* Every queue stays within sendBuffer, and connections, pumps and the      *)
(* closing handler stay in the states the code names.                       *)
(***************************************************************************)
THEOREM RelayTypeCorrect == Spec => []TypeOK
  BY TypeInit, TypeNext, PTL DEF Spec

-----------------------------------------------------------------------------
(* Where a connection is.                                                   *)

\* A connection that is not registered yet has been sent nothing.
Untouched(c) ==
    /\ writer[c] = "off"
    /\ received[c] = <<>>
    /\ send[c] = <<>>
    /\ c \notin closedWith
    /\ \A d \in Clients : c \notin fan[d] /\ slow[d] # c

ControlOf(c) ==
    /\ reader[c] = "away" <=> conn[c] = "none"
    /\ c \in members => reader[c] \in {"reading", "fanout", "dropping"}
    /\ reader[c] \in {"away", "auth", "adding"} => Untouched(c)
    /\ done[c] => reader[c] \in {"closing", "exit"}
    /\ fan[c] # {} => reader[c] \in {"fanout", "dropping"}
    /\ slow[c] # NoClient <=> reader[c] = "dropping"
    /\ c \notin fan[c]
    /\ slow[c] \notin fan[c] \cup {c}

Control ==
    /\ left \cup ({target} \ {NoClient}) \subseteq closedWith
    /\ closer = "idle" => target = NoClient
    /\ \A c \in Clients : ControlOf(c)

-----------------------------------------------------------------------------
(* What is on its way to a connection.                                      *)

SameSource(a, b) == a.kind = "frame" /\ b.kind = "frame" /\ a.from = b.from

\* The frames of each sender are in order in s, and those in s before those in t.
Sorted(s) ==
    \A i, j \in DOMAIN s : i < j /\ SameSource(s[i], s[j]) => s[i].n < s[j].n
Precedes(s, t) ==
    \A i \in DOMAIN s, j \in DOMAIN t : SameSource(s[i], t[j]) => s[i].n < t[j].n

Stream(c) == Range(received[c]) \cup Range(send[c])

OrderOf(c) ==
    /\ Sorted(received[c]) /\ Sorted(send[c])
    /\ Precedes(received[c], send[c])
    /\ \A m \in Stream(c) : m.from # c
    /\ \A m \in Stream(c) : m.kind = "frame" =>
          /\ m.from \in Clients
          /\ m.n <= sent[m.from]
          /\ c \in fan[m.from] => m.n < sent[m.from]

\* While the connection is up, the stream has no hole, and what a sender sends
\* next continues it.
WholeOf(c) ==
    ~done[c] /\ conn[c] = "open" =>
        /\ \A a, b \in Stream(c) : SameSource(a, b) =>
              \A k \in a.n .. b.n : Frame(a.from, k) \in Stream(c)
        /\ \A m \in Stream(c) : m.kind = "frame" =>
              /\ c \in fan[m.from] => Frame(m.from, sent[m.from] - 1) \in Stream(c)
              /\ c \in members \ fan[m.from] /\ slow[m.from] # c =>
                    Frame(m.from, sent[m.from]) \in Stream(c)

\* A close frame has been written: it is the last, and room-closed came before,
\* unless the connection was going down.
CloseWritten(c) ==
    CloseFrame \in Range(received[c]) =>
        /\ writer[c] = "exit"
        /\ \A i \in DOMAIN received[c] : received[c][i] = CloseFrame => i = Len(received[c])
        /\ done[c] \/ RoomClosed \in Range(received[c])
        /\ lost[c] # "no" \/ RoomClosed \in Range(received[c])

\* A close directive is queued: room-closed is ahead of it, unless the connection
\* is going down.
CloseQueued(c) ==
    \A j \in DOMAIN send[c] : send[c][j] = CloseFrame =>
        \/ done[c] \/ conn[c] = "closed"
        \/ RoomClosed \in Range(received[c])
        \/ \E i \in DOMAIN send[c] : i < j /\ send[c][i] = RoomClosed

\* CloseAll is about to queue one.
CloseDue(c) ==
    closer = "code" /\ target = c =>
        done[c] \/ conn[c] = "closed" \/ RoomClosed \in Stream(c)

\* A connection ends for a reason, which is given or is the close frame.
EndedOf(c) ==
    \/ done[c] \/ reader[c] \in {"leaving", "closing", "exit"}
    \/ conn[c] = "closed" \/ writer[c] = "exit"
    => lost[c] # "no" \/ CloseFrame \in Range(received[c])

OrderInv == \A c \in Clients : OrderOf(c)
WholeInv == \A c \in Clients : WholeOf(c)
SignalsInv ==
    \A c \in Clients :
        CloseWritten(c) /\ CloseQueued(c) /\ CloseDue(c) /\ EndedOf(c)

-----------------------------------------------------------------------------
(* Control is kept.                                                         *)

\* The initial state is as Control says.
LEMMA ControlInit == Init => Control
  BY RelayAssumption DEF Init, Control, ControlOf, Untouched

\* A step keeps Control.
LEMMA ControlNext ==
  ASSUME TypeOK, Control, [Next]_vars
  PROVE  Control'
  <1> USE RelayAssumption DEF Control, ControlOf, Untouched, TypeOK, roomVars
  <1>1. CASE CloseAll
    BY <1>1 DEF CloseAll
  <1>2. CASE CloseNext
    BY <1>2 DEF CloseNext
  <1>3. CASE CloseText
    BY <1>3 DEF CloseText, Enqueue, Ignored, Overflow
  <1>4. CASE CloseCode
    BY <1>4 DEF CloseCode, Enqueue, Ignored, Overflow
  <1>5. CASE CloseDrop
    BY <1>5 DEF CloseDrop, CloseConn
  <1>6. CASE CloseDone
    BY <1>6 DEF CloseDone
  <1>7. ASSUME NEW c \in Clients, Connect(c) PROVE Control'
    BY <1>7 DEF Connect
  <1>8. ASSUME NEW c \in Clients, AuthSucceed(c) PROVE Control'
    BY <1>8 DEF AuthSucceed
  <1>9. ASSUME NEW c \in Clients, AuthFail(c) PROVE Control'
    BY <1>9 DEF AuthFail, CloseConn
  <1>10. ASSUME NEW c \in Clients, AddClient(c) PROVE Control'
    BY <1>10 DEF AddClient
  <1>11. ASSUME NEW c \in Clients, ReadFrame(c) PROVE Control'
    BY <1>11 DEF ReadFrame
  <1>12. ASSUME NEW c \in Clients, FanOut(c) PROVE Control'
    BY <1>12 DEF FanOut, Enqueue, Ignored, Overflow
  <1>13. ASSUME NEW c \in Clients, DropSlow(c) PROVE Control'
    BY <1>13 DEF DropSlow, CloseConn
  <1>14. ASSUME NEW c \in Clients, FanOutDone(c) PROVE Control'
    BY <1>14 DEF FanOutDone
  <1>15. ASSUME NEW c \in Clients, ReadError(c) PROVE Control'
    BY <1>15 DEF ReadError
  <1>16. ASSUME NEW c \in Clients, StopWriter(c) PROVE Control'
    BY <1>16 DEF StopWriter
  <1>17. ASSUME NEW c \in Clients, ReaderExit(c) PROVE Control'
    BY <1>17 DEF ReaderExit, CloseConn
  <1>18. ASSUME NEW c \in Clients, WriteFrame(c) PROVE Control'
    BY <1>18 DEF WriteFrame
  <1>19. ASSUME NEW c \in Clients, WriteClose(c) PROVE Control'
    BY <1>19 DEF WriteClose
  <1>20. ASSUME NEW c \in Clients, WriterExit(c) PROVE Control'
    BY <1>20 DEF WriterExit, CloseConn
  <1>21. ASSUME NEW c \in Clients, PeerGone(c) PROVE Control'
    BY <1>21 DEF PeerGone, CloseConn
  <1>22. CASE UNCHANGED vars
    BY <1>22 DEF vars
  <1> QED
    BY <1>1, <1>2, <1>3, <1>4, <1>5, <1>6, <1>7, <1>8, <1>9, <1>10, <1>11, <1>12, <1>13, <1>14, <1>15, <1>16, <1>17, <1>18, <1>19, <1>20, <1>21, <1>22
    DEF Next, CloseStep, Serve, Pump

-----------------------------------------------------------------------------
(* Sequences of messages.                                                   *)

\* What Append does to the messages of a sequence.
LEMMA AppendFacts ==
  ASSUME NEW s \in Seq(Message), NEW m \in Message
  PROVE  /\ Append(s, m) \in Seq(Message)
         /\ Range(Append(s, m)) = Range(s) \cup {m}
         /\ DOMAIN Append(s, m) = DOMAIN s \cup {Len(s) + 1}
         /\ Append(s, m)[Len(s) + 1] = m
         /\ \A i \in DOMAIN s : Append(s, m)[i] = s[i] /\ i < Len(s) + 1
  BY DEF Range

\* What Tail does to the messages of a sequence.
LEMMA TailFacts ==
  ASSUME NEW s \in Seq(Message), s # <<>>
  PROVE  /\ Tail(s) \in Seq(Message) /\ Head(s) \in Message
         /\ 1 \in DOMAIN s /\ Head(s) = s[1]
         /\ Range(s) = Range(Tail(s)) \cup {Head(s)}
         /\ \A i \in DOMAIN Tail(s) : /\ i + 1 \in DOMAIN s /\ 1 < i + 1
                                      /\ Tail(s)[i] = s[i + 1]
         /\ \A i \in DOMAIN s : i = 1 \/ (i - 1 \in DOMAIN Tail(s) /\ Tail(s)[i - 1] = s[i])
  <1>1. /\ Tail(s) \in Seq(Message) /\ Head(s) \in Message
        /\ 1 \in DOMAIN s /\ Head(s) = s[1]
    OBVIOUS
  <1>2. \A i \in DOMAIN Tail(s) : i + 1 \in DOMAIN s /\ 1 < i + 1 /\ Tail(s)[i] = s[i + 1]
    OBVIOUS
  <1>3. \A i \in DOMAIN s : i = 1 \/ (i - 1 \in DOMAIN Tail(s) /\ Tail(s)[i - 1] = s[i])
    OBVIOUS
  <1>4. Range(Tail(s)) \cup {Head(s)} \subseteq Range(s)
    BY <1>1, <1>2 DEF Range
  <1>5. Range(s) \subseteq Range(Tail(s)) \cup {Head(s)}
    BY <1>1, <1>3 DEF Range
  <1> QED
    BY <1>1, <1>2, <1>3, <1>4, <1>5

\* Appending a frame that is later than its sender's keeps the order.
LEMMA SortedAppend ==
  ASSUME NEW s \in Seq(Message), NEW m \in Message, Sorted(s),
         \A i \in DOMAIN s : SameSource(s[i], m) => s[i].n < m.n
  PROVE  Sorted(Append(s, m))
  <1>1. \A i, j \in DOMAIN Append(s, m) : i < j => i \in DOMAIN s
    OBVIOUS
  <1> QED
    BY <1>1, AppendFacts DEF Sorted

\* Moving the head of t to the end of s, or dropping it, keeps the order.
LEMMA SortedMove ==
  ASSUME NEW s \in Seq(Message), NEW t \in Seq(Message), t # <<>>,
         Sorted(s), Sorted(t), Precedes(s, t)
  PROVE  /\ Sorted(Append(s, Head(t)))
         /\ Sorted(Tail(t))
         /\ Precedes(s, Tail(t))
         /\ Precedes(Append(s, Head(t)), Tail(t))
  <1>1. Sorted(Append(s, Head(t)))
    BY TailFacts, SortedAppend DEF Precedes
  <1>2. Sorted(Tail(t))
    <2> SUFFICES ASSUME NEW i \in DOMAIN Tail(t), NEW j \in DOMAIN Tail(t), i < j,
                        SameSource(Tail(t)[i], Tail(t)[j])
                 PROVE  Tail(t)[i].n < Tail(t)[j].n
      BY DEF Sorted
    <2>1. i + 1 < j + 1
      OBVIOUS
    <2> QED
      BY <2>1, TailFacts DEF Sorted
  <1>3. Precedes(s, Tail(t))
    BY TailFacts DEF Precedes
  <1>4. Precedes(Append(s, Head(t)), Tail(t))
    <2> SUFFICES ASSUME NEW i \in DOMAIN Append(s, Head(t)), NEW j \in DOMAIN Tail(t),
                        SameSource(Append(s, Head(t))[i], Tail(t)[j])
                 PROVE  Append(s, Head(t))[i].n < Tail(t)[j].n
      BY DEF Precedes
    <2>1. CASE i \in DOMAIN s
      BY <1>3, <2>1, TailFacts, AppendFacts DEF Precedes
    <2>2. CASE i = Len(s) + 1
      BY <2>2, TailFacts, AppendFacts DEF Sorted
    <2> QED
      BY <2>1, <2>2, TailFacts, AppendFacts
  <1> QED
    BY <1>1, <1>2, <1>3, <1>4

-----------------------------------------------------------------------------
(* The order of frames.                                                     *)

\* Steps that move no message and add nobody to a snapshot.
Quiet ==
    /\ UNCHANGED <<received, send, sent>>
    /\ \A d \in Clients : fan'[d] \subseteq fan[d]

\* A message is queued for t; a frame is its sender's last, and is no longer due.
Queues(t, m) ==
    /\ Enqueue(t, m)
    /\ UNCHANGED <<received, sent>>
    /\ \A d \in Clients : fan'[d] \subseteq fan[d]
    /\ m.from # t
    /\ m.kind = "frame" => /\ m.from \in Clients /\ m.n = sent[m.from]
                           /\ t \in fan[m.from] /\ t \notin fan'[m.from]

\* The write pump of c takes a message out of the queue.
Takes(c) ==
    /\ send[c] # <<>>
    /\ send' = [send EXCEPT ![c] = Tail(send[c])]
    /\ \/ UNCHANGED received /\ conn'[c] # "open"
       \/ /\ received' = [received EXCEPT ![c] = Append(received[c], Head(send[c]))]
          /\ conn'[c] = "open" \/ Head(send[c]) = CloseFrame
    /\ UNCHANGED <<sent, fan>>

\* Every step does one of these to the messages.
LEMMA Moves ==
  ASSUME TypeOK, Control, [Next]_vars
  PROVE  \/ Quiet
         \/ \E t \in Clients, m \in Message : Queues(t, m)
         \/ \E c \in Clients : Takes(c)
         \/ \E c \in Clients : ReadFrame(c)
  <1> USE DEF Quiet, roomVars
  <1>1. CASE CloseAll
    BY <1>1 DEF CloseAll
  <1>2. CASE CloseNext
    BY <1>2 DEF CloseNext
  <1>3. CASE CloseDrop
    BY <1>3 DEF CloseDrop
  <1>4. CASE CloseDone
    BY <1>4 DEF CloseDone
  <1>5. CASE CloseText
    <2>1. CASE Enqueue(target, RoomClosed)
      <3>1. CASE target \in Clients
        BY <1>5, <2>1, <3>1, RelayAssumption, MessagesTyped
        DEF CloseText, Queues, RoomClosed
      <3>2. CASE target \notin Clients
        BY <1>5, <2>1, <3>2 DEF CloseText, Enqueue, TypeOK
      <3> QED
        BY <3>1, <3>2
    <2> QED
      BY <1>5, <2>1 DEF CloseText, Ignored, Overflow
  <1>6. CASE CloseCode
    <2>1. CASE Enqueue(target, CloseFrame)
      <3>1. CASE target \in Clients
        BY <1>6, <2>1, <3>1, RelayAssumption, MessagesTyped
        DEF CloseCode, Queues, CloseFrame
      <3>2. CASE target \notin Clients
        BY <1>6, <2>1, <3>2 DEF CloseCode, Enqueue, TypeOK
      <3> QED
        BY <3>1, <3>2
    <2> QED
      BY <1>6, <2>1 DEF CloseCode, Ignored, Overflow
  <1>7. ASSUME NEW c \in Clients, Connect(c) PROVE Quiet
    BY <1>7 DEF Connect
  <1>8. ASSUME NEW c \in Clients, AuthSucceed(c) PROVE Quiet
    BY <1>8 DEF AuthSucceed
  <1>9. ASSUME NEW c \in Clients, AuthFail(c) PROVE Quiet
    BY <1>9 DEF AuthFail
  <1>10. ASSUME NEW c \in Clients, AddClient(c) PROVE Quiet
    BY <1>10 DEF AddClient
  <1>11. ASSUME NEW c \in Clients, DropSlow(c) PROVE Quiet
    BY <1>11 DEF DropSlow
  <1>12. ASSUME NEW c \in Clients, FanOutDone(c) PROVE Quiet
    BY <1>12 DEF FanOutDone
  <1>13. ASSUME NEW c \in Clients, ReadError(c) PROVE Quiet
    BY <1>13 DEF ReadError
  <1>14. ASSUME NEW c \in Clients, StopWriter(c) PROVE Quiet
    BY <1>14 DEF StopWriter
  <1>15. ASSUME NEW c \in Clients, ReaderExit(c) PROVE Quiet
    BY <1>15 DEF ReaderExit
  <1>16. ASSUME NEW c \in Clients, WriterExit(c) PROVE Quiet
    BY <1>16 DEF WriterExit
  <1>17. ASSUME NEW c \in Clients, PeerGone(c) PROVE Quiet
    BY <1>17 DEF PeerGone
  <1>18. ASSUME NEW c \in Clients, FanOut(c)
        PROVE  Quiet \/ \E t \in Clients, m \in Message : Queues(t, m)
    <2>1. PICK t \in fan[c] : /\ fan' = [fan EXCEPT ![c] = fan[c] \ {t}]
                              /\ Enqueue(t, Frame(c, sent[c])) \/ UNCHANGED send
      BY <1>18 DEF FanOut, Ignored, Overflow
    <2>2. t \in Clients /\ t # c /\ \A d \in Clients : fan'[d] \subseteq fan[d]
      BY <2>1 DEF TypeOK, Control, ControlOf
    <2>3. Frame(c, sent[c]) \in Message
      BY MessagesTyped DEF TypeOK
    <2>4. UNCHANGED <<received, sent>>
      BY <1>18 DEF FanOut
    <2>5. CASE Enqueue(t, Frame(c, sent[c]))
      <3> DEFINE m == Frame(c, sent[c])
      <3>1. m.from = c /\ m.n = sent[c] /\ t \notin fan'[c]
        BY <2>1 DEF Frame, TypeOK
      <3>2. Queues(t, m)
        BY <2>2, <2>4, <2>5, <3>1 DEF Queues
      <3> QED
        BY <2>2, <2>3, <3>2
    <2> QED
      BY <2>1, <2>2, <2>4, <2>5
  <1>19. ASSUME NEW c \in Clients, WriteFrame(c) PROVE Takes(c)
    BY <1>19 DEF WriteFrame, Takes, TypeOK
  <1>20. ASSUME NEW c \in Clients, WriteClose(c) PROVE Takes(c)
    BY <1>20 DEF WriteClose, Takes, TypeOK
  <1>21. CASE UNCHANGED vars
    BY <1>21 DEF vars
  <1> QED
    BY <1>1, <1>2, <1>3, <1>4, <1>5, <1>6, <1>7, <1>8, <1>9, <1>10, <1>11, <1>12, <1>13, <1>14, <1>15, <1>16, <1>17, <1>18, <1>19, <1>20, <1>21
    DEF Next, CloseStep, Serve, Pump

\* The order survives a step that moves nothing.
LEMMA OrderQuiet ==
  ASSUME TypeOK, OrderInv, Quiet PROVE OrderInv'
  BY DEF TypeOK, OrderInv, OrderOf, Quiet, Stream, Range, Message

\* It survives a message that is queued.
LEMMA OrderQueues ==
  ASSUME TypeOK, OrderInv, NEW t \in Clients, NEW m \in Message, Queues(t, m)
  PROVE  OrderInv'
  <1> SUFFICES ASSUME NEW c \in Clients PROVE OrderOf(c)'
    BY DEF OrderInv
  <1>0. OrderOf(c) /\ received[c] \in Seq(Message) /\ send[c] \in Seq(Message)
    BY DEF OrderInv, TypeOK
  <1>1. /\ received'[c] = received[c] /\ sent' = sent
        /\ \A d \in Clients : fan'[d] \subseteq fan[d]
    BY DEF Queues
  <1>2. CASE c # t
    <2>1. send'[c] = send[c]
      BY <1>2 DEF Queues, Enqueue, TypeOK
    <2> QED
      BY <1>0, <1>1, <2>1 DEF OrderOf, Stream, Range, Message
  <1>3. CASE c = t
    <2>1. send'[c] = Append(send[c], m)
      BY <1>3 DEF Queues, Enqueue, TypeOK
    <2>2. \A x \in Stream(c) : SameSource(x, m) => x.n < m.n
      BY <1>0, <1>3 DEF OrderOf, SameSource, Queues
    <2>3. Sorted(send'[c])
      BY <1>0, <2>1, <2>2, SortedAppend DEF OrderOf, Stream, Range
    <2>4. Precedes(received[c], Append(send[c], m))
      <3>1. \A i \in DOMAIN received[c] :
               SameSource(received[c][i], m) => received[c][i].n < m.n
        BY <2>2 DEF Stream, Range
      <3> QED
        BY <1>0, <3>1, AppendFacts DEF OrderOf, Precedes
    <2>5. Stream(c)' = Stream(c) \cup {m}
      BY <1>0, <1>1, <2>1, AppendFacts DEF Stream
    <2>7. m.from # c
      BY <1>3 DEF Queues
    <2>6. \A x \in Stream(c) \cup {m} : x.kind = "frame" =>
            /\ x.from \in Clients
            /\ x.n <= sent[x.from]
            /\ c \in fan'[x.from] => x.n < sent[x.from]
      BY <1>0, <1>1, <1>3 DEF OrderOf, Queues, TypeOK
    <2> QED
      BY <1>0, <1>1, <2>1, <2>3, <2>4, <2>5, <2>6, <2>7 DEF OrderOf
  <1> QED
    BY <1>2, <1>3

\* It survives the write pump.
LEMMA OrderTakes ==
  ASSUME TypeOK, OrderInv, NEW c \in Clients, Takes(c)
  PROVE  OrderInv'
  <1> SUFFICES ASSUME NEW d \in Clients PROVE OrderOf(d)'
    BY DEF OrderInv
  <1>0. OrderOf(d) /\ received[d] \in Seq(Message) /\ send[d] \in Seq(Message)
    BY DEF OrderInv, TypeOK
  <1>1. sent' = sent /\ fan' = fan
    BY DEF Takes
  <1>2. CASE d # c
    <2>1. send'[d] = send[d] /\ received'[d] = received[d]
      BY <1>2 DEF Takes, TypeOK
    <2> QED
      BY <1>0, <1>1, <2>1 DEF OrderOf, Stream
  <1>3. CASE d = c
    <2>1. /\ send[d] # <<>> /\ send'[d] = Tail(send[d])
          /\ received'[d] = received[d] \/ received'[d] = Append(received[d], Head(send[d]))
      BY <1>3 DEF Takes, TypeOK
    <2>2. Sorted(received'[d]) /\ Sorted(send'[d]) /\ Precedes(received'[d], send'[d])
      BY <1>0, <2>1, SortedMove DEF OrderOf
    <2>3. Stream(d)' \subseteq Stream(d)
      <3>1. Head(send[d]) \in Message /\ Range(send[d]) = Range(Tail(send[d])) \cup {Head(send[d])}
        BY <1>0, <2>1, TailFacts
      <3>2. Range(Append(received[d], Head(send[d]))) = Range(received[d]) \cup {Head(send[d])}
        BY <1>0, <3>1, AppendFacts
      <3> QED
        BY <2>1, <3>1, <3>2 DEF Stream
    <2> QED
      BY <1>0, <1>1, <2>2, <2>3 DEF OrderOf
  <1> QED
    BY <1>2, <1>3

\* It survives a frame that is read.
LEMMA OrderReads ==
  ASSUME TypeOK, Control, OrderInv, NEW c \in Clients, ReadFrame(c)
  PROVE  OrderInv'
  <1> SUFFICES ASSUME NEW d \in Clients PROVE OrderOf(d)'
    BY DEF OrderInv
  <1>1. /\ UNCHANGED <<received, send>>
        /\ \A x \in Clients : /\ sent'[x] = IF x = c THEN sent[x] + 1 ELSE sent[x]
                              /\ x # c => fan'[x] = fan[x]
    BY DEF ReadFrame, TypeOK
  <1>2. Stream(d)' = Stream(d) /\ Stream(d) \subseteq Message
    BY <1>1 DEF Stream, Range, TypeOK
  <1>3. ASSUME NEW m \in Stream(d), m.kind = "frame"
        PROVE  /\ m.from \in Clients
               /\ m.n <= sent'[m.from]
               /\ d \in fan'[m.from] => m.n < sent'[m.from]
    <2>1. /\ m.from \in Clients /\ m.n <= sent[m.from]
          /\ d \in fan[m.from] => m.n < sent[m.from]
      BY <1>3 DEF OrderInv, OrderOf
    <2>2. m.n \in Nat /\ sent[m.from] \in Nat
      BY <1>2, <1>3, <2>1 DEF Message, TypeOK
    <2> QED
      BY <1>1, <2>1, <2>2
  <1> QED
    BY <1>1, <1>2, <1>3 DEF OrderInv, OrderOf

\* The order is kept by every step.
LEMMA OrderNext ==
  ASSUME TypeOK, Control, OrderInv, [Next]_vars
  PROVE  OrderInv'
  BY Moves, OrderQuiet, OrderQueues, OrderTakes, OrderReads

\* In the initial state nothing has been sent.
LEMMA OrderInit == Init => OrderInv
  BY DEF Init, OrderInv, OrderOf, Sorted, Precedes, Stream, Range

\* Types, control and the order of frames hold in every reachable state.
LEMMA OrderInvariant == Spec => [](TypeOK /\ Control /\ OrderInv)
  <1>1. Init => TypeOK /\ Control /\ OrderInv
    BY TypeInit, ControlInit, OrderInit
  <1>2. TypeOK /\ Control /\ OrderInv /\ [Next]_vars => (TypeOK /\ Control /\ OrderInv)'
    BY TypeNext, ControlNext, OrderNext
  <1> QED
    BY <1>1, <1>2, PTL DEF Spec

(***************************************************************************)
(* FR-3.3: no frame is echoed, and the frames of one sender reach every     *)
(* connection in the order they were read, none of them twice.              *)
(***************************************************************************)
THEOREM FramesInOrder == Spec => []InOrder
  <1>1. TypeOK /\ OrderInv => InOrder
    BY DEF OrderInv, OrderOf, Sorted, SameSource, Stream, Range, InOrder
  <1> QED
    BY <1>1, OrderInvariant, PTL

-----------------------------------------------------------------------------
(* Streams without holes.                                                   *)

\* Whoever is registered and due no frame of d after the step was so before, or
\* the frame that was due has been queued.  Only connections that stay up count,
\* and those that have been sent something.
Keeps(c) ==
    ~done'[c] /\ conn'[c] = "open" =>
        \/ Stream(c) = {}
        \/ /\ ~done[c] /\ conn[c] = "open"
           /\ \A d \in Clients : c \in members' \ fan'[d] /\ slow'[d] # c =>
                 /\ c \in members /\ slow[d] # c
                 /\ c \in fan[d] => Frame(d, sent[d]) \in Range(send'[c])

\* Every step keeps in this sense.
LEMMA KeepsNext ==
  ASSUME TypeOK, Control, [Next]_vars, NEW c \in Clients
  PROVE  Keeps(c) /\ (done[c] => done'[c])
  <1> USE DEF Keeps, roomVars
  <1>1. CASE CloseAll
    BY <1>1 DEF CloseAll
  <1>2. CASE CloseNext
    BY <1>2 DEF CloseNext
  <1>3. CASE CloseText
    BY <1>3 DEF CloseText
  <1>4. CASE CloseCode
    BY <1>4 DEF CloseCode
  <1>5. CASE CloseDrop
    BY <1>5 DEF CloseDrop, CloseConn, TypeOK
  <1>6. CASE CloseDone
    BY <1>6 DEF CloseDone
  <1>7. ASSUME NEW d \in Clients, Connect(d) PROVE Keeps(c) /\ (done[c] => done'[c])
    BY <1>7 DEF Connect, TypeOK, Control, ControlOf, Untouched, Stream, Range
  <1>8. ASSUME NEW d \in Clients, AuthSucceed(d) PROVE Keeps(c) /\ (done[c] => done'[c])
    BY <1>8 DEF AuthSucceed, CloseConn, TypeOK
  <1>9. ASSUME NEW d \in Clients, AuthFail(d) PROVE Keeps(c) /\ (done[c] => done'[c])
    BY <1>9 DEF AuthFail, CloseConn, TypeOK
  <1>10. ASSUME NEW d \in Clients, AddClient(d) PROVE Keeps(c) /\ (done[c] => done'[c])
    BY <1>10 DEF AddClient, TypeOK, Control, ControlOf, Untouched, Stream, Range
  <1>11. ASSUME NEW d \in Clients, ReadFrame(d) PROVE Keeps(c) /\ (done[c] => done'[c])
    BY <1>11 DEF ReadFrame, CloseConn, TypeOK, Control, ControlOf
  <1>12. ASSUME NEW d \in Clients, FanOut(d) PROVE Keeps(c) /\ (done[c] => done'[c])
    <2>1. PICK t \in fan[d] :
               /\ fan' = [fan EXCEPT ![d] = fan[d] \ {t}]
               /\ \/ Enqueue(t, Frame(d, sent[d]))
                  \/ done[t]
                  \/ slow' = [slow EXCEPT ![d] = t]
      BY <1>12 DEF FanOut, Ignored, Overflow
    <2>2. /\ UNCHANGED <<members, conn, done, sent>>
          /\ slow' = slow \/ slow' = [slow EXCEPT ![d] = t]
          /\ \A x \in Clients : slow[x] = NoClient \/ slow'[x] = slow[x]
      BY <1>12, <2>1 DEF FanOut, TypeOK, Control, ControlOf
    <2>3. ASSUME Enqueue(t, Frame(d, sent[d])) PROVE Frame(d, sent[d]) \in Range(send'[t])
      BY <2>3, MessagesTyped, AppendFacts DEF Enqueue, TypeOK
    <2>4. d \in Clients /\ t \in Clients /\ c # NoClient
      BY RelayAssumption DEF TypeOK
    <2>5. \A x \in Clients : c \in fan[x] /\ c \notin fan'[x] => x = d /\ c = t
      BY <2>1 DEF TypeOK
    <2>6. slow' = [slow EXCEPT ![d] = t] => slow'[d] = t
      BY <2>4 DEF TypeOK
    <2> QED
      BY <2>1, <2>2, <2>3, <2>4, <2>5, <2>6
  <1>13. ASSUME NEW d \in Clients, DropSlow(d) PROVE Keeps(c) /\ (done[c] => done'[c])
    BY <1>13 DEF DropSlow, CloseConn, TypeOK, Control, ControlOf
  <1>14. ASSUME NEW d \in Clients, FanOutDone(d) PROVE Keeps(c) /\ (done[c] => done'[c])
    BY <1>14 DEF FanOutDone, CloseConn, TypeOK
  <1>15. ASSUME NEW d \in Clients, ReadError(d) PROVE Keeps(c) /\ (done[c] => done'[c])
    BY <1>15 DEF ReadError, CloseConn, TypeOK, Control, ControlOf
  <1>16. ASSUME NEW d \in Clients, StopWriter(d) PROVE Keeps(c) /\ (done[c] => done'[c])
    BY <1>16 DEF StopWriter, CloseConn, TypeOK
  <1>17. ASSUME NEW d \in Clients, ReaderExit(d) PROVE Keeps(c) /\ (done[c] => done'[c])
    BY <1>17 DEF ReaderExit, CloseConn, TypeOK
  <1>18. ASSUME NEW d \in Clients, WriteFrame(d) PROVE Keeps(c) /\ (done[c] => done'[c])
    BY <1>18 DEF WriteFrame, CloseConn, TypeOK
  <1>19. ASSUME NEW d \in Clients, WriteClose(d) PROVE Keeps(c) /\ (done[c] => done'[c])
    BY <1>19 DEF WriteClose, CloseConn, TypeOK
  <1>20. ASSUME NEW d \in Clients, WriterExit(d) PROVE Keeps(c) /\ (done[c] => done'[c])
    BY <1>20 DEF WriterExit, CloseConn, TypeOK
  <1>21. ASSUME NEW d \in Clients, PeerGone(d) PROVE Keeps(c) /\ (done[c] => done'[c])
    BY <1>21 DEF PeerGone, CloseConn, TypeOK
  <1>22. CASE UNCHANGED vars
    BY <1>22 DEF vars
  <1> QED
    BY <1>1, <1>2, <1>3, <1>4, <1>5, <1>6, <1>7, <1>8, <1>9, <1>10, <1>11, <1>12, <1>13, <1>14, <1>15, <1>16, <1>17, <1>18, <1>19, <1>20, <1>21, <1>22
    DEF Next, CloseStep, Serve, Pump

\* A frame is its sender and its number.
LEMMA FrameIs ==
  ASSUME NEW m \in Message, m.kind = "frame"
  PROVE  m = Frame(m.from, m.n)
  BY DEF Message, Frame

\* The stream without holes goes on without holes when the stream stays.
LEMMA WholeStays ==
  ASSUME TypeOK, OrderInv, NEW c \in Clients, WholeOf(c), Keeps(c),
         Stream(c)' = Stream(c), sent' = sent,
         \A d \in Clients : fan'[d] \subseteq fan[d]
  PROVE  WholeOf(c)'
  <1> SUFFICES ASSUME ~done'[c], conn'[c] = "open", Stream(c) # {} PROVE WholeOf(c)'
    BY DEF WholeOf
  <1>1. ~done[c] /\ conn[c] = "open"
    BY DEF Keeps
  <1>2. \A m \in Stream(c) : m.kind = "frame" => m.from \in Clients
    BY DEF OrderInv, OrderOf
  <1>3. ASSUME NEW m \in Stream(c), m.kind = "frame",
               c \in members' \ fan'[m.from], slow'[m.from] # c
        PROVE  Frame(m.from, sent[m.from]) \in Stream(c)
    <2>1. /\ c \in members /\ slow[m.from] # c
          /\ c \in fan[m.from] => Frame(m.from, sent[m.from]) \in Range(send'[c])
      BY <1>2, <1>3 DEF Keeps
    <2>2. Range(send'[c]) \subseteq Stream(c)
      BY DEF Stream
    <2> QED
      BY <1>1, <1>3, <2>1, <2>2 DEF WholeOf
  <1>4. ASSUME NEW m \in Stream(c), m.kind = "frame", c \in fan'[m.from]
        PROVE  Frame(m.from, sent[m.from] - 1) \in Stream(c)
    BY <1>1, <1>2, <1>4 DEF WholeOf
  <1>5. \A a, b \in Stream(c) : SameSource(a, b) =>
           \A k \in a.n .. b.n : Frame(a.from, k) \in Stream(c)
    BY <1>1 DEF WholeOf
  <1> QED
    BY <1>3, <1>4, <1>5 DEF WholeOf

\* A queued frame continues the stream.
LEMMA WholeQueues ==
  ASSUME TypeOK, OrderInv, NEW c \in Clients, WholeOf(c), Keeps(c),
         NEW m \in Message, Queues(c, m)
  PROVE  WholeOf(c)'
  <1> SUFFICES ASSUME ~done'[c], conn'[c] = "open" PROVE WholeOf(c)'
    BY DEF WholeOf
  <1>0. /\ sent' = sent /\ m.from # c
        /\ \A d \in Clients : fan'[d] \subseteq fan[d]
        /\ m.kind = "frame" => /\ m.from \in Clients /\ m.n = sent[m.from] /\ m.n \in Nat
                               /\ c \in fan[m.from] /\ c \notin fan'[m.from]
                               /\ m = Frame(m.from, m.n)
    BY FrameIs DEF Queues, TypeOK
  <1>1. Stream(c)' = Stream(c) \cup {m} /\ m \in Range(send'[c])
    <2>1. received'[c] = received[c] /\ send'[c] = Append(send[c], m)
      BY DEF Queues, Enqueue, TypeOK
    <2>2. send[c] \in Seq(Message)
      BY DEF TypeOK
    <2> QED
      BY <2>1, <2>2, AppendFacts DEF Stream
  <1>2. \A x \in Stream(c) : x.kind = "frame" =>
           /\ x.from \in Clients /\ x.n \in Nat /\ x.n <= sent[x.from]
           /\ c \in fan[x.from] => x.n < sent[x.from]
    <2>1. Stream(c) \subseteq Message
      BY DEF Stream, Range, TypeOK
    <2>2. \A x \in Message : x.n \in Nat
      BY DEF Message
    <2> QED
      BY <2>1, <2>2 DEF OrderInv, OrderOf
  <1>3. Stream(c) = {} \/ (~done[c] /\ conn[c] = "open")
    BY DEF Keeps
  <1>4. ASSUME NEW a \in Stream(c) \cup {m}, NEW b \in Stream(c) \cup {m},
               SameSource(a, b), NEW k \in a.n .. b.n
        PROVE  Frame(a.from, k) \in Stream(c) \cup {m}
    <2>1. CASE a \in Stream(c) /\ b \in Stream(c)
      BY <1>3, <1>4, <2>1 DEF WholeOf
    <2>2. CASE a \in Stream(c) /\ b = m
      <3>1. /\ Frame(a.from, sent[a.from] - 1) \in Stream(c)
            /\ a.from = m.from /\ m.n = sent[a.from] /\ a.n < m.n /\ a.n \in Nat
        BY <1>0, <1>2, <1>3, <1>4, <2>2 DEF WholeOf, SameSource
      <3>2. CASE k = m.n
        <4>1. m = Frame(m.from, m.n)
          BY <1>0, <1>4, <2>2 DEF SameSource
        <4> QED
          BY <3>1, <3>2, <4>1
      <3>3. CASE k # m.n
        <4> DEFINE f == Frame(a.from, m.n - 1)
        <4>1. f \in Stream(c) /\ SameSource(a, f) /\ f.n = m.n - 1
          BY <1>4, <3>1 DEF SameSource, Frame
        <4>2. k \in a.n .. f.n
          BY <1>0, <1>4, <2>2, <3>1, <3>3, <4>1 DEF SameSource
        <4> QED
          BY <1>3, <2>2, <4>1, <4>2 DEF WholeOf
      <3> QED
        BY <3>2, <3>3
    <2>3. CASE a = m /\ b \in Stream(c)
      <3>1. b.n < m.n /\ b.n \in Nat /\ m.n \in Nat
        BY <1>0, <1>2, <1>4, <2>3 DEF SameSource
      <3> QED
        BY <1>4, <2>3, <3>1
    <2>4. CASE a = m /\ b = m
      <3>1. k = m.n /\ m = Frame(m.from, m.n)
        BY <1>0, <1>4, <2>4 DEF SameSource
      <3> QED
        BY <2>4, <3>1
    <2> QED
      BY <2>1, <2>2, <2>3, <2>4
  <1>5. ASSUME NEW x \in Stream(c) \cup {m}, x.kind = "frame", c \in fan'[x.from]
        PROVE  Frame(x.from, sent[x.from] - 1) \in Stream(c) \cup {m}
    <2>1. x \in Stream(c) /\ c \in fan[x.from]
      BY <1>0, <1>2, <1>5
    <2> QED
      BY <1>3, <1>5, <2>1 DEF WholeOf
  <1>6. ASSUME NEW x \in Stream(c) \cup {m}, x.kind = "frame",
               c \in members' \ fan'[x.from], slow'[x.from] # c
        PROVE  Frame(x.from, sent[x.from]) \in Stream(c) \cup {m}
    <2>1. CASE m.kind = "frame" /\ x.from = m.from
      BY <1>0, <2>1
    <2>2. CASE x \in Stream(c)
      <3>1. /\ c \in members /\ slow[x.from] # c
            /\ c \in fan[x.from] => Frame(x.from, sent[x.from]) \in Range(send'[c])
        BY <1>2, <1>6, <2>2 DEF Keeps
      <3>2. Range(send'[c]) \subseteq Stream(c) \cup {m}
        BY <1>1 DEF Stream
      <3> QED
        BY <1>3, <1>6, <2>2, <3>1, <3>2 DEF WholeOf
    <2> QED
      BY <1>6, <2>1, <2>2
  <1> QED
    BY <1>0, <1>1, <1>4, <1>5, <1>6 DEF WholeOf

\* A frame that is read is due to everybody whose stream it continues.
LEMMA WholeReads ==
  ASSUME TypeOK, Control, OrderInv, NEW c \in Clients, WholeOf(c), Keeps(c),
         NEW d \in Clients, ReadFrame(d)
  PROVE  WholeOf(c)'
  <1> SUFFICES ASSUME ~done'[c], conn'[c] = "open", Stream(c) # {} PROVE WholeOf(c)'
    BY DEF WholeOf, Stream, ReadFrame
  <1>1. /\ Stream(c)' = Stream(c)
        /\ ~done[c] /\ conn[c] = "open" /\ members' = members /\ slow' = slow
        /\ \A x \in Clients \ {d} : sent'[x] = sent[x] /\ fan'[x] = fan[x]
        /\ sent'[d] = sent[d] + 1 /\ fan'[d] = members \ {d}
        /\ sent[d] \in Nat
    BY DEF ReadFrame, Stream, TypeOK, Keeps
  <1>2. fan[d] = {} /\ slow[d] # c
    <2>1. reader[d] = "reading" /\ ControlOf(d) /\ c # NoClient
      BY RelayAssumption DEF ReadFrame, Control
    <2> QED
      BY <2>1 DEF ControlOf
  <1>3. \A m \in Stream(c) : m.kind = "frame" => m.from \in Clients \ {c}
    BY DEF OrderInv, OrderOf
  <1>4. ASSUME NEW m \in Stream(c), m.kind = "frame", c \in fan'[m.from]
        PROVE  Frame(m.from, sent'[m.from] - 1) \in Stream(c)
    <2>1. CASE m.from = d
      BY <1>1, <1>2, <1>4, <2>1 DEF WholeOf
    <2>2. CASE m.from # d
      BY <1>1, <1>3, <1>4, <2>2 DEF WholeOf
    <2> QED
      BY <2>1, <2>2
  <1>5. ASSUME NEW m \in Stream(c), m.kind = "frame",
               c \in members' \ fan'[m.from], slow'[m.from] # c
        PROVE  Frame(m.from, sent'[m.from]) \in Stream(c)
    <2>1. m.from # d
      BY <1>1, <1>3, <1>5
    <2> QED
      BY <1>1, <1>3, <1>5, <2>1 DEF WholeOf
  <1>6. \A a, b \in Stream(c) : SameSource(a, b) =>
           \A k \in a.n .. b.n : Frame(a.from, k) \in Stream(c)
    BY <1>1 DEF WholeOf
  <1> QED
    BY <1>1, <1>4, <1>5, <1>6 DEF WholeOf

\* A message that is taken out of the queue of a connection that stays up stays
\* in the stream.
LEMMA TakesKeepsStream ==
  ASSUME TypeOK, NEW d \in Clients, Takes(d), NEW c \in Clients, conn'[c] = "open"
  PROVE  Stream(c)' = Stream(c)
  <1>1. CASE c # d
    <2>1. received'[c] = received[c] /\ send'[c] = send[c]
      BY <1>1 DEF Takes, TypeOK
    <2> QED
      BY <2>1 DEF Stream
  <1>2. CASE c = d
    <2>1. /\ send[c] # <<>> /\ send'[c] = Tail(send[c])
          /\ received'[c] = Append(received[c], Head(send[c]))
          /\ received[c] \in Seq(Message) /\ send[c] \in Seq(Message)
      BY <1>2 DEF Takes, TypeOK
    <2>2. Head(send[c]) \in Message /\ Range(send[c]) = Range(Tail(send[c])) \cup {Head(send[c])}
      BY <2>1, TailFacts
    <2>3. Range(Append(received[c], Head(send[c]))) = Range(received[c]) \cup {Head(send[c])}
      BY <2>1, <2>2, AppendFacts
    <2> QED
      BY <2>1, <2>2, <2>3 DEF Stream
  <1> QED
    BY <1>1, <1>2

\* Every step keeps the streams whole.
LEMMA WholeNext ==
  ASSUME TypeOK, Control, OrderInv, WholeInv, [Next]_vars
  PROVE  WholeInv'
  <1> SUFFICES ASSUME NEW c \in Clients PROVE WholeOf(c)'
    BY DEF WholeInv
  <1>0. WholeOf(c) /\ Keeps(c)
    BY KeepsNext DEF WholeInv
  <1>1. CASE Quiet
    BY <1>0, <1>1, WholeStays DEF Quiet, Stream
  <1>2. ASSUME NEW t \in Clients, NEW m \in Message, Queues(t, m) PROVE WholeOf(c)'
    <2>1. CASE t = c
      BY <1>0, <1>2, <2>1, WholeQueues
    <2>2. CASE t # c
      <3>1. Stream(c)' = Stream(c)
        BY <1>2, <2>2 DEF Queues, Enqueue, Stream, TypeOK
      <3> QED
        BY <1>0, <1>2, <3>1, WholeStays DEF Queues
    <2> QED
      BY <2>1, <2>2
  <1>3. ASSUME NEW d \in Clients, Takes(d) PROVE WholeOf(c)'
    <2>1. CASE conn'[c] = "open"
      BY <1>0, <1>3, <2>1, TakesKeepsStream, WholeStays DEF Takes
    <2>2. CASE conn'[c] # "open"
      BY <2>2 DEF WholeOf
    <2> QED
      BY <2>1, <2>2
  <1>4. ASSUME NEW d \in Clients, ReadFrame(d) PROVE WholeOf(c)'
    BY <1>0, <1>4, WholeReads
  <1> QED
    BY <1>1, <1>2, <1>3, <1>4, Moves
\* In the initial state there is no stream.
LEMMA WholeInit == Init => WholeInv
  BY DEF Init, WholeInv, WholeOf, Stream, Range

\* What has been written to a connection has no hole, until done is closed: also
\* when the connection is closed with frames still queued.
GapFree(c) ==
    ~done[c] => \A a, b \in Range(received[c]) : SameSource(a, b) =>
                   \A k \in a.n .. b.n : Frame(a.from, k) \in Range(received[c])
GapInv == \A c \in Clients : GapFree(c)

\* Of a stream without holes the part that has been written has no hole.
Written == \A c \in Clients : conn[c] = "open" => GapFree(c)
LEMMA WrittenWhole == TypeOK /\ OrderInv /\ WholeInv => Written
  <1> SUFFICES ASSUME TypeOK, OrderInv, WholeInv, NEW c \in Clients, conn[c] = "open",
                      ~done[c], NEW a \in Range(received[c]), NEW b \in Range(received[c]),
                      SameSource(a, b), NEW k \in a.n .. b.n
               PROVE  Frame(a.from, k) \in Range(received[c])
    BY DEF Written, GapFree
  <1>1. Frame(a.from, k) \in Stream(c)
    BY DEF WholeInv, WholeOf, Stream
  <1>2. CASE Frame(a.from, k) \in Range(send[c])
    <2>1. PICK i \in DOMAIN received[c], j \in DOMAIN send[c] :
             b = received[c][i] /\ Frame(a.from, k) = send[c][j]
      BY <1>2 DEF Range
    <2>2. SameSource(b, Frame(a.from, k)) /\ Frame(a.from, k).n = k
      BY DEF SameSource, Frame
    <2>3. b.n < k
      BY <2>1, <2>2 DEF OrderInv, OrderOf, Precedes
    <2>4. a \in Message /\ b \in Message
      BY DEF Range, TypeOK
    <2>5. a.n \in Nat /\ b.n \in Nat
      BY <2>4 DEF Message
    <2> QED
      BY <2>3, <2>5
  <1> QED
    BY <1>1, <1>2 DEF Stream

\* So it is after a step.
LEMMA WrittenNext == (TypeOK /\ OrderInv /\ WholeInv)' => Written'
  BY WrittenWhole, PTL

\* Every step keeps what has been written without holes.
LEMMA GapNext ==
  ASSUME TypeOK, Control, OrderInv, WholeInv, GapInv, [Next]_vars
  PROVE  GapInv'
  <1> SUFFICES ASSUME NEW c \in Clients PROVE GapFree(c)'
    BY DEF GapInv
  <1>0. GapFree(c) /\ (done[c] => done'[c])
    BY KeepsNext DEF GapInv
  <1>1. CASE received'[c] = received[c]
    BY <1>0, <1>1 DEF GapFree
  <1>2. CASE conn'[c] = "open"
    <2>1. TypeOK' /\ OrderInv' /\ WholeInv'
      BY TypeNext, OrderNext, WholeNext
    <2> QED
      BY <1>2, <2>1, WrittenNext DEF Written
  <1>3. CASE received'[c] # received[c] /\ conn'[c] # "open"
    <2>1. Takes(c)
      BY <1>3, Moves DEF Quiet, Queues, Takes, ReadFrame, TypeOK
    <2>2. /\ received'[c] = Append(received[c], CloseFrame)
          /\ received[c] \in Seq(Message)
      BY <1>3, <2>1 DEF Takes, TypeOK
    <2>3. Range(received'[c]) = Range(received[c]) \cup {CloseFrame}
      BY <2>2, MessagesTyped, AppendFacts
    <2>4. CloseFrame.kind # "frame"
      BY DEF CloseFrame
    <2> QED
      BY <1>0, <2>3, <2>4 DEF GapFree, SameSource
  <1> QED
    BY <1>1, <1>2, <1>3

\* Nothing has been written at first.
LEMMA GapInit == Init => GapInv
  BY DEF Init, GapInv, GapFree, Range

(***************************************************************************)
(* FR-3.3, Send: a client that is too slow is disconnected rather than      *)
(* served with holes: until a connection is torn down, the frames it got    *)
(* from one sender are consecutive.                                         *)
(***************************************************************************)
THEOREM NoHoles == Spec => []NoGap
  <1> DEFINE I == TypeOK /\ Control /\ OrderInv /\ WholeInv /\ GapInv
  <1>1. Init => I
    BY TypeInit, ControlInit, OrderInit, WholeInit, GapInit
  <1>2. I /\ [Next]_vars => I'
    BY TypeNext, ControlNext, OrderNext, WholeNext, GapNext
  <1>3. I => NoGap
    BY DEF GapInv, GapFree, SameSource, Range, Got, NoGap
  <1> QED
    BY <1>1, <1>2, <1>3, PTL DEF Spec
-----------------------------------------------------------------------------
(* The signals of a closing room.                                           *)

\* done, a closed connection, the reason it ended and the end of its write pump
\* are for good.
ForGood(c) ==
    /\ done[c] => done'[c]
    /\ conn[c] = "closed" => conn'[c] = "closed"
    /\ lost[c] # "no" => lost'[c] # "no"
    /\ writer[c] = "exit" => writer'[c] = "exit"

\* No step takes them back.
LEMMA ForGoodNext ==
  ASSUME TypeOK, Control, [Next]_vars, NEW c \in Clients
  PROVE  ForGood(c)
  <1> USE DEF ForGood, roomVars
  <1>1. CASE CloseAll
    BY <1>1 DEF CloseAll
  <1>2. CASE CloseNext
    BY <1>2 DEF CloseNext
  <1>3. CASE CloseText
    BY <1>3 DEF CloseText
  <1>4. CASE CloseCode
    BY <1>4 DEF CloseCode
  <1>5. CASE CloseDrop
    BY <1>5 DEF CloseDrop, CloseConn, TypeOK, Control, ControlOf, Untouched
  <1>6. CASE CloseDone
    BY <1>6 DEF CloseDone
  <1>7. ASSUME NEW d \in Clients, Connect(d) PROVE ForGood(c)
    BY <1>7 DEF Connect, TypeOK, Control, ControlOf
  <1>8. ASSUME NEW d \in Clients, AuthSucceed(d) PROVE ForGood(c)
    BY <1>8 DEF AuthSucceed, TypeOK
  <1>9. ASSUME NEW d \in Clients, AuthFail(d) PROVE ForGood(c)
    BY <1>9 DEF AuthFail, CloseConn, TypeOK, Control, ControlOf
  <1>10. ASSUME NEW d \in Clients, AddClient(d) PROVE ForGood(c)
    BY <1>10 DEF AddClient, TypeOK, Control, ControlOf, Untouched
  <1>11. ASSUME NEW d \in Clients, ReadFrame(d) PROVE ForGood(c)
    BY <1>11 DEF ReadFrame, TypeOK
  <1>12. ASSUME NEW d \in Clients, FanOut(d) PROVE ForGood(c)
    BY <1>12 DEF FanOut, TypeOK
  <1>13. ASSUME NEW d \in Clients, DropSlow(d) PROVE ForGood(c)
    BY <1>13 DEF DropSlow, CloseConn, TypeOK, Control, ControlOf, Untouched
  <1>14. ASSUME NEW d \in Clients, FanOutDone(d) PROVE ForGood(c)
    BY <1>14 DEF FanOutDone, TypeOK
  <1>15. ASSUME NEW d \in Clients, ReadError(d) PROVE ForGood(c)
    BY <1>15 DEF ReadError, TypeOK, Control, ControlOf
  <1>16. ASSUME NEW d \in Clients, StopWriter(d) PROVE ForGood(c)
    BY <1>16 DEF StopWriter, TypeOK
  <1>17. ASSUME NEW d \in Clients, ReaderExit(d) PROVE ForGood(c)
    BY <1>17 DEF ReaderExit, CloseConn, TypeOK, Control, ControlOf
  <1>18. ASSUME NEW d \in Clients, WriteFrame(d) PROVE ForGood(c)
    BY <1>18 DEF WriteFrame, TypeOK
  <1>19. ASSUME NEW d \in Clients, WriteClose(d) PROVE ForGood(c)
    BY <1>19 DEF WriteClose, TypeOK
  <1>20. ASSUME NEW d \in Clients, WriterExit(d) PROVE ForGood(c)
    BY <1>20 DEF WriterExit, CloseConn, TypeOK, Control, ControlOf, Untouched
  <1>21. ASSUME NEW d \in Clients, PeerGone(d) PROVE ForGood(c)
    BY <1>21 DEF PeerGone, CloseConn, TypeOK
  <1>22. CASE UNCHANGED vars
    BY <1>22 DEF vars
  <1> QED
    BY <1>1, <1>2, <1>3, <1>4, <1>5, <1>6, <1>7, <1>8, <1>9, <1>10, <1>11, <1>12, <1>13, <1>14, <1>15, <1>16, <1>17, <1>18, <1>19, <1>20, <1>21, <1>22
    DEF Next, CloseStep, Serve, Pump

\* What ends a connection gives a reason for it, or is the close frame.
Ended(c) ==
    \/ done[c] \/ reader[c] \in {"leaving", "closing", "exit"}
    \/ conn[c] = "closed" \/ writer[c] = "exit"
GivesReason(c) ==
    Ended(c)' => Ended(c) \/ lost'[c] # "no" \/ CloseFrame \in Range(received'[c])

\* Every step that ends a connection does.
LEMMA GivesReasonNext ==
  ASSUME TypeOK, Control, [Next]_vars, NEW c \in Clients
  PROVE  GivesReason(c)
  <1> USE DEF GivesReason, Ended, roomVars
  <1>1. CASE CloseAll
    BY <1>1 DEF CloseAll
  <1>2. CASE CloseNext
    BY <1>2 DEF CloseNext
  <1>3. CASE CloseText
    BY <1>3 DEF CloseText
  <1>4. CASE CloseCode
    BY <1>4 DEF CloseCode
  <1>5. CASE CloseDrop
    BY <1>5 DEF CloseDrop, CloseConn, TypeOK, Control, ControlOf, Untouched
  <1>6. CASE CloseDone
    BY <1>6 DEF CloseDone
  <1>7. ASSUME NEW d \in Clients, Connect(d) PROVE GivesReason(c)
    BY <1>7 DEF Connect, TypeOK, Control, ControlOf
  <1>8. ASSUME NEW d \in Clients, AuthSucceed(d) PROVE GivesReason(c)
    BY <1>8 DEF AuthSucceed, TypeOK
  <1>9. ASSUME NEW d \in Clients, AuthFail(d) PROVE GivesReason(c)
    BY <1>9 DEF AuthFail, CloseConn, TypeOK, Control, ControlOf
  <1>10. ASSUME NEW d \in Clients, AddClient(d) PROVE GivesReason(c)
    BY <1>10 DEF AddClient, TypeOK, Control, ControlOf, Untouched
  <1>11. ASSUME NEW d \in Clients, ReadFrame(d) PROVE GivesReason(c)
    BY <1>11 DEF ReadFrame, TypeOK
  <1>12. ASSUME NEW d \in Clients, FanOut(d) PROVE GivesReason(c)
    BY <1>12 DEF FanOut, TypeOK
  <1>13. ASSUME NEW d \in Clients, DropSlow(d) PROVE GivesReason(c)
    BY <1>13 DEF DropSlow, CloseConn, TypeOK, Control, ControlOf, Untouched
  <1>14. ASSUME NEW d \in Clients, FanOutDone(d) PROVE GivesReason(c)
    BY <1>14 DEF FanOutDone, TypeOK
  <1>15. ASSUME NEW d \in Clients, ReadError(d) PROVE GivesReason(c)
    BY <1>15 DEF ReadError, TypeOK, Control, ControlOf
  <1>16. ASSUME NEW d \in Clients, StopWriter(d) PROVE GivesReason(c)
    BY <1>16 DEF StopWriter, TypeOK
  <1>17. ASSUME NEW d \in Clients, ReaderExit(d) PROVE GivesReason(c)
    BY <1>17 DEF ReaderExit, CloseConn, TypeOK, Control, ControlOf
  <1>18. ASSUME NEW d \in Clients, WriteFrame(d) PROVE GivesReason(c)
    BY <1>18 DEF WriteFrame, TypeOK, Control, ControlOf, Untouched
  <1>19. ASSUME NEW d \in Clients, WriteClose(d) PROVE GivesReason(c)
    <2>1. CASE c = d /\ conn[d] = "open"
      <3>1. received'[c] = Append(received[c], CloseFrame) /\ received[c] \in Seq(Message)
        BY <1>19, <2>1 DEF WriteClose, TypeOK
      <3>2. CloseFrame \in Range(received'[c])
        BY <3>1, MessagesTyped, AppendFacts
      <3> QED
        BY <3>2
    <2>2. CASE c # d \/ conn[d] # "open"
      BY <1>19, <2>2 DEF WriteClose, TypeOK, Control, ControlOf, Untouched
    <2> QED
      BY <2>1, <2>2
  <1>20. ASSUME NEW d \in Clients, WriterExit(d) PROVE GivesReason(c)
    BY <1>20 DEF WriterExit, CloseConn, TypeOK, Control, ControlOf, Untouched
  <1>21. ASSUME NEW d \in Clients, PeerGone(d) PROVE GivesReason(c)
    BY <1>21 DEF PeerGone, CloseConn, TypeOK
  <1>22. CASE UNCHANGED vars
    BY <1>22 DEF vars
  <1> QED
    BY <1>1, <1>2, <1>3, <1>4, <1>5, <1>6, <1>7, <1>8, <1>9, <1>10, <1>11, <1>12, <1>13, <1>14, <1>15, <1>16, <1>17, <1>18, <1>19, <1>20, <1>21, <1>22
    DEF Next, CloseStep, Serve, Pump

\* The end of a connection keeps its reason.
LEMMA EndedNext ==
  ASSUME TypeOK, Control, [Next]_vars, NEW c \in Clients, EndedOf(c)
  PROVE  EndedOf(c)'
  <1>1. Range(received[c]) \subseteq Range(received'[c])
    <2>1. CASE received'[c] = received[c]
      BY <2>1
    <2>2. CASE received'[c] # received[c]
      <3>1. Takes(c)
        BY <2>2, Moves DEF Quiet, Queues, Takes, ReadFrame, TypeOK
      <3>2. /\ received'[c] = Append(received[c], Head(send[c]))
            /\ received[c] \in Seq(Message) /\ Head(send[c]) \in Message
        BY <2>2, <3>1 DEF Takes, TypeOK
      <3> QED
        BY <3>2, AppendFacts
    <2> QED
      BY <2>1, <2>2
  <1>2. ForGood(c) /\ GivesReason(c)
    BY ForGoodNext, GivesReasonNext
  <1> QED
    BY <1>1, <1>2 DEF EndedOf, Ended, GivesReason, ForGood

\* Steps that write nothing, queue frames at most and leave no signal due.
Plain ==
    /\ UNCHANGED received
    /\ \A c \in Clients :
         \/ send'[c] = send[c]
         \/ \E m \in Message : m.kind = "frame" /\ send'[c] = Append(send[c], m)
    /\ closer' = "code" => closer = "code" /\ target' = target

\* Every other step is one of the write pump or of the closing handler.
LEMMA PlainOrSignal ==
  ASSUME TypeOK, [Next]_vars
  PROVE  \/ Plain \/ CloseText \/ CloseCode \/ CloseDrop
         \/ \E d \in Clients : WriteFrame(d) \/ WriteClose(d)
  <1> USE DEF Plain, roomVars
  <1>1. CASE CloseAll
    BY <1>1 DEF CloseAll
  <1>2. CASE CloseNext
    BY <1>2 DEF CloseNext
  <1>3. CASE CloseDone
    BY <1>3 DEF CloseDone
  <1>4. ASSUME NEW d \in Clients, Connect(d) PROVE Plain
    BY <1>4 DEF Connect
  <1>5. ASSUME NEW d \in Clients, AuthSucceed(d) PROVE Plain
    BY <1>5 DEF AuthSucceed
  <1>6. ASSUME NEW d \in Clients, AuthFail(d) PROVE Plain
    BY <1>6 DEF AuthFail
  <1>7. ASSUME NEW d \in Clients, AddClient(d) PROVE Plain
    BY <1>7 DEF AddClient
  <1>8. ASSUME NEW d \in Clients, ReadFrame(d) PROVE Plain
    BY <1>8 DEF ReadFrame
  <1>9. ASSUME NEW d \in Clients, DropSlow(d) PROVE Plain
    BY <1>9 DEF DropSlow
  <1>10. ASSUME NEW d \in Clients, FanOutDone(d) PROVE Plain
    BY <1>10 DEF FanOutDone
  <1>11. ASSUME NEW d \in Clients, ReadError(d) PROVE Plain
    BY <1>11 DEF ReadError
  <1>12. ASSUME NEW d \in Clients, StopWriter(d) PROVE Plain
    BY <1>12 DEF StopWriter
  <1>13. ASSUME NEW d \in Clients, ReaderExit(d) PROVE Plain
    BY <1>13 DEF ReaderExit
  <1>14. ASSUME NEW d \in Clients, WriterExit(d) PROVE Plain
    BY <1>14 DEF WriterExit
  <1>15. ASSUME NEW d \in Clients, PeerGone(d) PROVE Plain
    BY <1>15 DEF PeerGone
  <1>16. CASE UNCHANGED vars
    BY <1>16 DEF vars
  <1>17. ASSUME NEW d \in Clients, FanOut(d) PROVE Plain
    <2>1. Frame(d, sent[d]) \in Message /\ Frame(d, sent[d]).kind = "frame"
      BY MessagesTyped DEF Frame, TypeOK
    <2>2. UNCHANGED <<received, closer, target>>
      BY <1>17 DEF FanOut
    <2>3. \A c \in Clients : send'[c] = send[c] \/ send'[c] = Append(send[c], Frame(d, sent[d]))
      BY <1>17 DEF FanOut, Enqueue, Ignored, Overflow, TypeOK
    <2> QED
      BY <2>1, <2>2, <2>3
  <1> QED
    BY <1>1, <1>2, <1>3, <1>4, <1>5, <1>6, <1>7, <1>8, <1>9, <1>10, <1>11, <1>12, <1>13, <1>14, <1>15, <1>16, <1>17
    DEF Next, CloseStep, Serve, Pump

\* A queue that is extended by something else than a close directive.
LEMMA QueuedExtend ==
  ASSUME TypeOK, NEW c \in Clients, ForGood(c), CloseQueued(c), received'[c] = received[c],
         \/ send'[c] = send[c]
         \/ \E m \in Message \ {CloseFrame} : send'[c] = Append(send[c], m)
  PROVE  CloseQueued(c)' /\ Stream(c) \subseteq Stream(c)'
  <1>0. send[c] \in Seq(Message)
    BY DEF TypeOK
  <1>1. CASE send'[c] = send[c]
    BY <1>1 DEF CloseQueued, ForGood, Stream
  <1>2. CASE \E m \in Message \ {CloseFrame} : send'[c] = Append(send[c], m)
    <2>1. PICK m \in Message \ {CloseFrame} : send'[c] = Append(send[c], m)
      BY <1>2
    <2>2. /\ DOMAIN send'[c] = DOMAIN send[c] \cup {Len(send[c]) + 1}
          /\ send'[c][Len(send[c]) + 1] = m
          /\ \A i \in DOMAIN send[c] : send'[c][i] = send[c][i]
          /\ Range(send'[c]) = Range(send[c]) \cup {m}
      BY <1>0, <2>1, AppendFacts
    <2>3. CloseQueued(c)'
      BY <2>2 DEF CloseQueued, ForGood
    <2> QED
      BY <2>2, <2>3 DEF Stream
  <1> QED
    BY <1>1, <1>2

\* Steps that are none of the signals' keep them.
LEMMA SignalsPlain ==
  ASSUME TypeOK, NEW c \in Clients, ForGood(c), Plain,
         CloseWritten(c), CloseQueued(c), CloseDue(c)
  PROVE  (CloseWritten(c) /\ CloseQueued(c) /\ CloseDue(c))'
  <1>1. received'[c] = received[c]
    BY DEF Plain
  <1>2. CloseFrame.kind # "frame"
    BY DEF CloseFrame
  <1>3. CloseQueued(c)' /\ Stream(c) \subseteq Stream(c)'
    BY <1>1, <1>2, QueuedExtend DEF Plain
  <1>4. CloseWritten(c)'
    BY <1>1 DEF CloseWritten, ForGood
  <1>5. CloseDue(c)'
    BY <1>3 DEF CloseDue, Plain, ForGood
  <1> QED
    BY <1>3, <1>4, <1>5

\* room-closed is queued, or its queue is full and the connection is closed next.
LEMMA SignalsText ==
  ASSUME TypeOK, NEW c \in Clients, ForGood(c), CloseText,
         CloseWritten(c), CloseQueued(c), CloseDue(c)
  PROVE  (CloseWritten(c) /\ CloseQueued(c) /\ CloseDue(c))'
  <1>1. received'[c] = received[c]
    BY DEF CloseText
  <1>2. RoomClosed \in Message \ {CloseFrame}
    BY MessagesTyped DEF RoomClosed, CloseFrame
  <1>3. send'[c] = send[c] \/ send'[c] = Append(send[c], RoomClosed)
    BY DEF CloseText, Enqueue, Ignored, Overflow, TypeOK
  <1>4. CloseQueued(c)'
    BY <1>1, <1>2, <1>3, QueuedExtend
  <1>5. CloseWritten(c)'
    BY <1>1 DEF CloseWritten, ForGood
  <1>6. CloseDue(c)'
    <2> SUFFICES ASSUME closer' = "code", target' = c, ~done'[c]
                 PROVE  RoomClosed \in Stream(c)'
      BY DEF CloseDue
    <2>1. send'[c] = Append(send[c], RoomClosed)
      BY DEF CloseText, Enqueue, Ignored, Overflow, TypeOK
    <2>2. send[c] \in Seq(Message)
      BY DEF TypeOK
    <2> QED
      BY <1>2, <2>1, <2>2, AppendFacts DEF Stream
  <1> QED
    BY <1>4, <1>5, <1>6

\* The close directive is queued behind room-closed.
LEMMA SignalsCode ==
  ASSUME TypeOK, NEW c \in Clients, ForGood(c), CloseCode,
         CloseWritten(c), CloseQueued(c), CloseDue(c)
  PROVE  (CloseWritten(c) /\ CloseQueued(c) /\ CloseDue(c))'
  <1>1. received'[c] = received[c] /\ closer' # "code" /\ closer = "code"
    BY DEF CloseCode
  <1>2. CloseWritten(c)' /\ CloseDue(c)'
    BY <1>1 DEF CloseWritten, CloseDue, ForGood
  <1>3. CASE send'[c] = send[c]
    BY <1>1, <1>2, <1>3 DEF CloseQueued, ForGood
  <1>4. CASE send'[c] # send[c]
    <2>1. target = c /\ send'[c] = Append(send[c], CloseFrame)
      BY <1>4 DEF CloseCode, Enqueue, Ignored, Overflow, TypeOK
    <2>2. send[c] \in Seq(Message)
      BY DEF TypeOK
    <2>3. /\ DOMAIN send'[c] = DOMAIN send[c] \cup {Len(send[c]) + 1}
          /\ \A i \in DOMAIN send[c] : send'[c][i] = send[c][i] /\ i < Len(send[c]) + 1
      BY <2>1, <2>2, MessagesTyped, AppendFacts
    <2>4. \/ done[c] \/ conn[c] = "closed" \/ RoomClosed \in Range(received[c])
          \/ \E i \in DOMAIN send[c] : send[c][i] = RoomClosed
      BY <1>1, <2>1 DEF CloseDue, Stream, Range
    <2>5. CloseQueued(c)'
      BY <1>1, <2>3, <2>4 DEF CloseQueued, ForGood
    <2> QED
      BY <1>2, <2>5
  <1> QED
    BY <1>3, <1>4

\* The connection of a client whose queue is full is closed.
LEMMA SignalsDrop ==
  ASSUME TypeOK, NEW c \in Clients, ForGood(c), CloseDrop,
         CloseWritten(c), CloseQueued(c), CloseDue(c)
  PROVE  (CloseWritten(c) /\ CloseQueued(c) /\ CloseDue(c))'
  <1>1. received'[c] = received[c] /\ send'[c] = send[c]
    BY DEF CloseDrop
  <1>2. CloseWritten(c)' /\ CloseQueued(c)'
    BY <1>1 DEF CloseWritten, CloseQueued, ForGood
  <1>3. CloseDue(c)'
    BY DEF CloseDue, CloseDrop, CloseConn, TypeOK
  <1> QED
    BY <1>2, <1>3

\* The write pump keeps the signals in order, and writes the close frame only
\* when room-closed has been written or the connection has been given up.
LEMMA SignalsWrite ==
  ASSUME TypeOK, Control, NEW c \in Clients, ForGood(c), EndedOf(c),
         NEW d \in Clients, WriteFrame(d) \/ WriteClose(d),
         CloseWritten(c), CloseQueued(c), CloseDue(c)
  PROVE  (CloseWritten(c) /\ CloseQueued(c) /\ CloseDue(c))'
  <1>0. UNCHANGED <<closer, target, done, lost>>
    BY DEF WriteFrame, WriteClose, roomVars
  <1>1. CASE c # d
    <2>1. received'[c] = received[c] /\ send'[c] = send[c]
      BY <1>1 DEF WriteFrame, WriteClose, TypeOK
    <2> QED
      BY <1>0, <2>1 DEF CloseWritten, CloseQueued, CloseDue, ForGood, Stream
  <1>2. CASE c = d
    <2>1. /\ send[c] # <<>> /\ send'[c] = Tail(send[c]) /\ writer[c] = "run"
          /\ send[c] \in Seq(Message) /\ received[c] \in Seq(Message)
      BY <1>2 DEF WriteFrame, WriteClose, TypeOK
    <2>2. CloseFrame \notin Range(received[c])
      BY <2>1 DEF CloseWritten
    <2>3. CASE conn'[c] # "open"
      <3>1. conn'[c] = "closed"
        BY <1>2, <2>1, <2>3 DEF WriteFrame, WriteClose, TypeOK, Control, ControlOf, Untouched
      <3>2. CloseQueued(c)' /\ CloseDue(c)'
        BY <3>1 DEF CloseQueued, CloseDue
      <3>3. CASE received'[c] = received[c]
        BY <2>2, <3>2, <3>3 DEF CloseWritten
      <3>4. CASE received'[c] # received[c]
        <4>1. /\ WriteClose(c) /\ conn[c] = "open" /\ Head(send[c]) = CloseFrame
              /\ received'[c] = Append(received[c], CloseFrame) /\ writer'[c] = "exit"
          BY <1>2, <2>3, <3>4 DEF WriteFrame, WriteClose, TypeOK
        <4>2. 1 \in DOMAIN send[c] /\ send[c][1] = CloseFrame /\ ~ \E i \in DOMAIN send[c] : i < 1
          BY <2>1, <4>1, TailFacts
        <4>3. done[c] \/ RoomClosed \in Range(received[c])
          BY <4>1, <4>2 DEF CloseQueued
        <4>4. lost[c] # "no" \/ RoomClosed \in Range(received[c])
          BY <2>2, <4>3 DEF EndedOf
        <4>5. /\ Range(received'[c]) = Range(received[c]) \cup {CloseFrame}
              /\ DOMAIN received'[c] = DOMAIN received[c] \cup {Len(received[c]) + 1}
              /\ Len(received'[c]) = Len(received[c]) + 1
              /\ \A i \in DOMAIN received[c] : received'[c][i] = received[c][i]
          BY <2>1, <4>1, MessagesTyped, AppendFacts
        <4>6. \A i \in DOMAIN received[c] : received[c][i] # CloseFrame
          BY <2>2 DEF Range
        <4>7. CloseWritten(c)'
          BY <1>0, <4>1, <4>3, <4>4, <4>5, <4>6 DEF CloseWritten
        <4> QED
          BY <3>2, <4>7
      <3> QED
        BY <3>3, <3>4
    <2>4. CASE conn'[c] = "open"
      <3>1. /\ Head(send[c]) # CloseFrame /\ conn[c] = "open"
            /\ received'[c] = Append(received[c], Head(send[c]))
        BY <1>2, <2>4 DEF WriteFrame, WriteClose, TypeOK
      <3>2. Head(send[c]) \in Message /\ Range(send[c]) = Range(Tail(send[c])) \cup {Head(send[c])}
        BY <2>1, TailFacts
      <3>3. Range(received'[c]) = Range(received[c]) \cup {Head(send[c])}
        BY <2>1, <3>1, <3>2, AppendFacts
      <3>4. CloseWritten(c)'
        BY <2>2, <3>1, <3>3 DEF CloseWritten
      <3>5. CloseDue(c)'
        BY <1>0, <2>1, <3>1, <3>2, <3>3 DEF CloseDue, Stream
      <3>6. CloseQueued(c)'
        <4> SUFFICES ASSUME NEW j \in DOMAIN send'[c], send'[c][j] = CloseFrame,
                            ~done[c], RoomClosed \notin Range(received'[c])
                     PROVE  \E i \in DOMAIN send'[c] : i < j /\ send'[c][i] = RoomClosed
          BY <1>0 DEF CloseQueued
        <4>1. j + 1 \in DOMAIN send[c] /\ send[c][j + 1] = CloseFrame
          BY <2>1, TailFacts
        <4>2. PICK i \in DOMAIN send[c] : i < j + 1 /\ send[c][i] = RoomClosed
          BY <3>1, <3>3, <4>1 DEF CloseQueued
        <4>3. i # 1
          BY <2>1, <3>3, <4>2, TailFacts
        <4>4. i - 1 \in DOMAIN send'[c] /\ send'[c][i - 1] = RoomClosed
          BY <2>1, <4>2, <4>3, TailFacts
        <4>5. i \in Nat /\ j \in Nat
          BY <2>1
        <4> QED
          BY <4>2, <4>4, <4>5
      <3> QED
        BY <3>4, <3>5, <3>6
    <2> QED
      BY <2>3, <2>4
  <1> QED
    BY <1>1, <1>2

\* Every step keeps the signals in order.
LEMMA SignalsNext ==
  ASSUME TypeOK, Control, SignalsInv, [Next]_vars
  PROVE  SignalsInv'
  <1> SUFFICES ASSUME NEW c \in Clients
               PROVE  (CloseWritten(c) /\ CloseQueued(c) /\ CloseDue(c) /\ EndedOf(c))'
    BY DEF SignalsInv
  <1>1. CloseWritten(c) /\ CloseQueued(c) /\ CloseDue(c) /\ EndedOf(c)
    BY DEF SignalsInv
  <1>2. EndedOf(c)' /\ ForGood(c)
    BY <1>1, EndedNext, ForGoodNext
  <1>3. (CloseWritten(c) /\ CloseQueued(c) /\ CloseDue(c))'
    BY <1>1, <1>2, PlainOrSignal, SignalsPlain, SignalsText, SignalsCode, SignalsDrop,
       SignalsWrite
  <1> QED
    BY <1>2, <1>3

\* There are no signals at first.
LEMMA SignalsInit == Init => SignalsInv
  BY DEF Init, SignalsInv, CloseWritten, CloseQueued, CloseDue, EndedOf, Range

\* The signals are in order in every reachable state.
LEMMA SignalsInvariant == Spec => [](TypeOK /\ Control /\ SignalsInv)
  <1>1. Init => TypeOK /\ Control /\ SignalsInv
    BY TypeInit, ControlInit, SignalsInit
  <1>2. TypeOK /\ Control /\ SignalsInv /\ [Next]_vars => (TypeOK /\ Control /\ SignalsInv)'
    BY TypeNext, ControlNext, SignalsNext
  <1> QED
    BY <1>1, <1>2, PTL DEF Spec

(***************************************************************************)
(* CloseWithCode: nothing is written after the close frame, and room-closed *)
(* was written before it, unless the connection was going down.             *)
(***************************************************************************)
THEOREM CloseIsLast == Spec => []CloseComesLast
  <1>1. SignalsInv => CloseComesLast
    BY DEF SignalsInv, CloseWritten, CloseComesLast, Got, Range
  <1> QED
    BY <1>1, SignalsInvariant, PTL

(***************************************************************************)
(* FR-2.7: once the room is closed, a member whose write pump has ended has *)
(* been sent both signals, or its connection broke or was given up as slow. *)
(***************************************************************************)
THEOREM EveryMemberSignalled == Spec => []MembersSignalled
  <1>1. TypeOK /\ SignalsInv => MembersSignalled
    <2> SUFFICES ASSUME TypeOK, SignalsInv, NEW c \in closedWith, writer[c] = "exit"
                 PROVE  Signalled(c) \/ lost[c] # "no"
      BY DEF MembersSignalled
    <2>1. c \in Clients
      BY DEF TypeOK
    <2>2. lost[c] # "no" \/ CloseFrame \in Range(received[c])
      BY <2>1 DEF SignalsInv, EndedOf
    <2>3. CloseFrame \in Range(received[c]) => lost[c] # "no" \/ RoomClosed \in Range(received[c])
      BY <2>1 DEF SignalsInv, CloseWritten
    <2> QED
      BY <2>2, <2>3 DEF Signalled, Got, Range
  <1> QED
    BY <1>1, SignalsInvariant, PTL
=============================================================================
