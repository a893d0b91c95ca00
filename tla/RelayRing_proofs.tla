-------------------------- MODULE RelayRing_proofs --------------------------
(***************************************************************************)
(* Proofs about RelayRing for every buffer size and every stream length.   *)
(***************************************************************************)
EXTENDS RelayRing, SequenceTheorems, TLAPS

USE BufferSizeAssumption, StreamLengthAssumption
-----------------------------------------------------------------------------
\* Bytes whose receive, respectively send, a handler has taken note of.
Taken == received - recvDone
Given == Len(out) - sendDone

\* Number of bytes in the buffer as the handlers see it: none when no send is
\* outstanding, else those from send_buf around to recv_buf.
Unsent == IF send_len = 0 THEN 0
          ELSE IF send_buf < recv_buf THEN recv_buf - send_buf
               ELSE BufferSize - send_buf + recv_buf

\* How far after send_buf the cell c lies.
Ahead(c) == IF c >= send_buf THEN c - send_buf
                             ELSE c + BufferSize - send_buf

\* A queued send completion is for bytes that lie before the buffer's end.
SendDoneInBounds == sendDone > 0 => /\ send_buf \in Cells
                                    /\ send_buf + sendDone =< BufferSize

\* Number of bytes, positions and lengths agree.
Lengths ==
    /\ Taken = Given + Unsent
    /\ recvDone =< recv_len /\ sendDone =< send_len
    /\ send_len > 0 => /\ send_buf \in Cells
                       /\ send_len =< Unsent
                       /\ send_buf + send_len =< BufferSize
    /\ recv_len = 0 => send_len > 0 /\ recv_buf = send_buf
    /\ recv_len > 0 =>
          /\ recv_buf + recv_len =< BufferSize
          /\ send_len > 0 /\ recv_buf =< send_buf =>
                recv_buf + recv_len =< send_buf

\* The unsent cells hold the stream's next bytes, in order.
UnsentBytes ==
    send_len > 0 =>
        \A c \in Cells : Ahead(c) < Unsent => mem[c] = Given + 1 + Ahead(c)

\* The cells of a queued receive completion hold the bytes after those.
ReceivedBytes ==
    \A c \in Cells : recv_buf =< c /\ c < recv_buf + recvDone =>
        mem[c] = Taken + 1 + (c - recv_buf)

OpenInv == Lengths /\ UnsentBytes /\ ReceivedBytes

IInv == /\ TypeOK
        /\ SendDoneInBounds
        /\ RelayedInOrder
        /\ open => OpenInv
-----------------------------------------------------------------------------
\* RecvPos and RecvLen (process_receive_buffer_complete): the next receive
\* stays within the buffer and never reaches the unsent data that begin at s;
\* there is no room only when the receive pointer has come round to s.
LEMMA RecvRoom ==
  ASSUME NEW r \in 1 .. BufferSize, NEW s \in Cells
  PROVE  /\ RecvPos(r, s) = IF r = BufferSize THEN 0 ELSE r
         /\ RecvPos(r, s) \in Cells
         /\ RecvLen(r, s) \in 0 .. BufferSize
         /\ RecvLen(r, s) = 0 => RecvPos(r, s) = s
         /\ RecvPos(r, s) + RecvLen(r, s) =< BufferSize
         /\ RecvPos(r, s) =< s => RecvPos(r, s) + RecvLen(r, s) =< s
BY DEF RecvPos, RecvLen, Cells

\* SendLen (process_send_buffer_complete): the next send stays within the
\* buffer and the data received, and is empty only when all data are sent.
LEMMA SendTodo ==
  ASSUME NEW s \in Cells, NEW r \in Cells
  PROVE  /\ SendLen(s, r) \in 0 .. BufferSize
         /\ SendLen(s, r) = 0 <=> s = r
         /\ s + SendLen(s, r) =< BufferSize
         /\ SendLen(s, r) =< IF s < r THEN r - s ELSE BufferSize - s + r
BY DEF SendLen, Cells

\* start_data_relay posts the first receive into an empty ring: the inductive
\* invariant holds initially.
LEMMA InitIInv == Init => IInv
<1> SUFFICES ASSUME Init PROVE IInv
  OBVIOUS
<1>1. TypeOK
  BY EmptySeq DEF Init, TypeOK, Cells, NullPtr
<1>2. SendDoneInBounds /\ RelayedInOrder
  BY EmptySeq DEF Init, SendDoneInBounds, RelayedInOrder
<1>3. OpenInv
  BY EmptySeq DEF Init, OpenInv, Lengths, UnsentBytes, ReceivedBytes, Taken,
                  Given, Unsent, Cells
<1>4. QED
  BY <1>1, <1>2, <1>3 DEF IInv

\* Where the buffer is read and written: the bytes of a receive completion do
\* not lie among the unsent ones.
LEMMA ReceivedNotUnsent ==
  ASSUME IInv, open, send_len > 0, NEW c \in Cells,
         recv_buf =< c, c < recv_buf + recv_len
  PROVE  Ahead(c) >= Unsent
BY DEF IInv, OpenInv, Lengths, Ahead, Unsent, TypeOK, Cells, NullPtr

\* A completing receive writes only free cells, and the unsent bytes that it
\* leaves in the buffer are still the ones the stream position says.
LEMMA KernelRecvIInv == IInv /\ KernelRecv => IInv'
<1> SUFFICES ASSUME IInv, KernelRecv PROVE IInv'
  OBVIOUS
<1> USE DEF KernelRecv, buffers
<1>1. PICK k \in 1 .. recv_len :
        /\ received + k =< StreamLength
        /\ mem' = [c \in Cells |-> IF c \in recv_buf .. recv_buf + k - 1
                                   THEN received + 1 + (c - recv_buf)
                                   ELSE mem[c]]
        /\ recvDone' = k
        /\ received' = received + k
  OBVIOUS
<1>2. TypeOK'
  BY <1>1 DEF IInv, TypeOK, Cells
<1>3. SendDoneInBounds' /\ RelayedInOrder'
  BY <1>1 DEF IInv, TypeOK, SendDoneInBounds, RelayedInOrder
<1>4. Lengths'
  BY <1>1 DEF IInv, TypeOK, OpenInv, Lengths, Taken, Given, Unsent
<1>5. ASSUME NEW c \in Cells, send_len > 0, Ahead(c) < Unsent
      PROVE  mem'[c] = Given + 1 + Ahead(c)
  <2>1. c \notin recv_buf .. recv_buf + k - 1
    <3> SUFFICES ASSUME c \in recv_buf .. recv_buf + k - 1 PROVE FALSE
      OBVIOUS
    <3>1. c \in Int /\ recv_buf =< c /\ c < recv_buf + recv_len
      BY DEF IInv, TypeOK, Cells
    <3>2. Ahead(c) >= Unsent
      BY <1>5, <3>1, ReceivedNotUnsent
    <3>3. Ahead(c) \in Int /\ Unsent \in Int
      BY <1>5, <3>1 DEF IInv, TypeOK, OpenInv, Lengths, Cells, Ahead, Unsent
    <3>4. QED
      BY <1>5, <3>2, <3>3
  <2>2. mem'[c] = mem[c]
    BY <1>1, <2>1
  <2>3. QED
    BY <1>5, <2>2 DEF IInv, OpenInv, UnsentBytes
<1>6. UnsentBytes'
  BY <1>5 DEF UnsentBytes, Unsent, Ahead, Given
<1>7. ReceivedBytes'
  BY <1>1 DEF ReceivedBytes, Taken, IInv, TypeOK, Cells
<1>8. QED
  BY <1>2, <1>3, <1>4, <1>6, <1>7 DEF IInv, OpenInv

\* A completing send takes the oldest unsent bytes from the buffer, in order.
LEMMA KernelSendIInv == IInv /\ KernelSend => IInv'
<1> SUFFICES ASSUME IInv, KernelSend PROVE IInv'
  OBVIOUS
<1> USE DEF KernelSend, buffers
<1>1. PICK k \in 1 .. send_len :
        /\ out' = out \o [j \in 1 .. k |-> mem[send_buf + j - 1]]
        /\ sendDone' = k
  OBVIOUS
<1> DEFINE sent == [j \in 1 .. k |-> mem[send_buf + j - 1]]
<1>2. /\ send_buf \in Cells
      /\ send_buf + k =< BufferSize
      /\ k =< Unsent
      /\ k \in Nat
      /\ Unsent \in Nat
      /\ received = Len(out) + Unsent + recvDone
      /\ Len(out) \in Nat
  BY DEF IInv, TypeOK, OpenInv, Lengths, Taken, Given, Unsent, Cells
<1>3. ASSUME NEW j \in 1 .. k
      PROVE  /\ send_buf + j - 1 \in Cells
             /\ sent[j] = Len(out) + j
  <2>1. send_buf + j - 1 \in Cells
    BY <1>2 DEF Cells
  <2>2. Ahead(send_buf + j - 1) = j - 1
    BY <1>2 DEF Ahead, Cells
  <2>3. mem[send_buf + j - 1] = Given + 1 + (j - 1)
    BY <1>2, <2>1, <2>2 DEF IInv, OpenInv, UnsentBytes
  <2>4. QED
    BY <1>2, <2>1, <2>3 DEF Given
<1>4. sent \in Seq(Nat) /\ Len(sent) = k
  BY <1>2, <1>3, IsASeq DEF IInv, TypeOK
<1>5a. out' = out \o sent
  BY <1>1
<1> HIDE DEF sent
<1>5b. out \in Seq(Nat)
  BY DEF IInv, TypeOK
<1>5. /\ out' \in Seq(Nat)
      /\ Len(out') = Len(out) + k
      /\ \A i \in 1 .. Len(out) + k :
            out'[i] = IF i =< Len(out) THEN out[i] ELSE sent[i - Len(out)]
  BY <1>4, <1>5a, <1>5b, ConcatProperties
<1>6. TypeOK' /\ SendDoneInBounds'
  BY <1>1, <1>2, <1>5 DEF IInv, TypeOK, SendDoneInBounds
<1>7. RelayedInOrder'
  <2>1. ASSUME NEW i \in 1 .. Len(out')
        PROVE  out'[i] = i
    <3>1. CASE i =< Len(out)
      BY <1>2, <1>5, <3>1 DEF IInv, RelayedInOrder
    <3>2. CASE i > Len(out)
      <4>1. i - Len(out) \in 1 .. k
        BY <1>2, <1>5, <3>2
      <4>2. sent[i - Len(out)] = Len(out) + (i - Len(out))
        BY <1>3, <4>1
      <4>3. out'[i] = sent[i - Len(out)]
        <5>1. i \in 1 .. Len(out) + k /\ ~(i =< Len(out))
          BY <1>2, <1>5, <3>2
        <5>2. QED
          BY <1>5, <5>1
      <4>4. QED
        BY <1>2, <1>5, <4>2, <4>3
    <3>3. QED
      BY <1>2, <1>5, <3>1, <3>2
  <2>2. QED
    BY <1>2, <1>5, <2>1 DEF RelayedInOrder, IInv, TypeOK
<1>8. Given' = Given /\ Taken' = Taken /\ Unsent' = Unsent
  BY <1>1, <1>2, <1>5 DEF Given, Taken, Unsent
<1>9. Lengths'
  BY <1>1, <1>8 DEF IInv, TypeOK, OpenInv, Lengths
<1>10. UnsentBytes' /\ ReceivedBytes'
  BY <1>8 DEF IInv, OpenInv, UnsentBytes, ReceivedBytes, Ahead
<1>11. QED
  BY <1>6, <1>7, <1>9, <1>10 DEF IInv, OpenInv

\* What only closes the connection or clears a length leaves the invariant.
LEMMA CloseIInv ==
  ASSUME IInv, RecvEnds \/ SendFails \/ CloseElsewhere
  PROVE  IInv'
<1>1. TypeOK'
  <2>1. CASE RecvEnds
    BY <2>1 DEF IInv, TypeOK, RecvEnds
  <2>2. CASE SendFails
    BY <2>2 DEF IInv, TypeOK, SendFails
  <2>3. CASE CloseElsewhere
    <3>1. send_len' \in 0 .. BufferSize
      BY <2>3 DEF IInv, TypeOK, CloseElsewhere
    <3>2. open' \in BOOLEAN
      BY <2>3 DEF CloseElsewhere
    <3>3. QED
      BY <2>3, <3>1, <3>2 DEF IInv, TypeOK, CloseElsewhere
  <2>4. QED
    BY <2>1, <2>2, <2>3
<1>2. SendDoneInBounds' /\ RelayedInOrder'
  BY DEF IInv, SendDoneInBounds, RelayedInOrder, RecvEnds, SendFails,
         CloseElsewhere
<1>3. ~open'
  BY DEF RecvEnds, SendFails, CloseElsewhere
<1>4. QED
  BY <1>1, <1>2, <1>3 DEF IInv

\* process_receive_buffer_complete, whatever its WSASend and WSARecv return,
\* hands on exactly the bytes received and posts the receive in free cells.
LEMMA ReceiveIInv == IInv /\ ProcessReceive => IInv'
<1> SUFFICES ASSUME IInv, ProcessReceive PROVE IInv'
  OBVIOUS
<1> DEFINE s == IF send_len = 0 THEN recv_buf ELSE send_buf
           r == recv_buf + recvDone
<1>1. /\ open /\ OpenInv /\ TypeOK
      /\ recvDone \in 1 .. BufferSize /\ recvDone' = 0
      /\ send_buf' = s /\ recv_buf' = RecvPos(r, s)
      /\ UNCHANGED <<mem, sendDone, received, out>>
  BY DEF IInv, ProcessReceive, TypeOK
<1>2. \/ /\ open' = TRUE
         /\ send_len' = IF send_len = 0 THEN recvDone ELSE send_len
         /\ recv_len' = RecvLen(r, s)
      \/ /\ open' = FALSE
         /\ send_len' = 0 \/ send_len' = send_len \/ send_len' = recvDone
         /\ recv_len' = 0
  BY DEF ProcessReceive
<1>3. /\ s \in Cells
      /\ r \in 1 .. BufferSize
      /\ r =< s => recv_buf < s
      /\ Len(out) \in Nat
      /\ recv_buf \in Cells
  BY <1>1 DEF TypeOK, OpenInv, Lengths, Cells, NullPtr
<1>4. RecvPos(r, s) \in Cells /\ RecvLen(r, s) \in 0 .. BufferSize
  BY <1>3, RecvRoom
<1>5. open' \in BOOLEAN
  BY <1>2
<1>6. TypeOK'
  <2>1. send_len' \in 0 .. BufferSize /\ recv_len' \in 0 .. BufferSize
    BY <1>1, <1>2, <1>4 DEF TypeOK
  <2>2. QED
    BY <1>1, <1>3, <1>4, <1>5, <2>1 DEF TypeOK, Cells
<1>7. SendDoneInBounds'
  BY <1>1 DEF IInv, TypeOK, SendDoneInBounds, OpenInv, Lengths
<1>8. RelayedInOrder'
  BY <1>1 DEF IInv, RelayedInOrder
<1>9. CASE open'
  <2>1. /\ send_len' = IF send_len = 0 THEN recvDone ELSE send_len
        /\ recv_len' = RecvLen(r, s)
    BY <1>2, <1>9
  <2>2. /\ Given' = Given
        /\ Taken' = Taken + recvDone
        /\ Unsent' = Unsent + recvDone
    BY <1>1, <1>3, <2>1
       DEF OpenInv, Lengths, TypeOK, Cells, Given, Taken, Unsent, RecvPos
  <2>3. /\ Unsent \in Nat /\ Given \in Int /\ Taken = Given + Unsent
        /\ send_len = 0 => Unsent = 0
        /\ send_len \in Nat /\ sendDone =< send_len
        /\ send_len > 0 => send_len =< Unsent /\ s + send_len =< BufferSize
    BY <1>1, <1>3
       DEF OpenInv, Lengths, TypeOK, Cells, Given, Taken, Unsent
  <2>4. Lengths'
    <3>1. Taken' = Given' + Unsent'
      BY <1>1, <2>2, <2>3
    <3>2. /\ recvDone' =< recv_len' /\ sendDone' =< send_len'
          /\ send_len' > 0
      BY <1>1, <1>4, <2>1, <2>3 DEF TypeOK
    <3>3. /\ send_buf' \in Cells
          /\ send_len' =< Unsent'
          /\ send_buf' + send_len' =< BufferSize
      BY <1>1, <1>3, <2>1, <2>2, <2>3
    <3>4. recv_len' = 0 => recv_buf' = send_buf'
      BY <1>1, <1>3, <2>1, RecvRoom
    <3>5. /\ recv_buf' + recv_len' =< BufferSize
          /\ recv_buf' =< send_buf' => recv_buf' + recv_len' =< send_buf'
      BY <1>1, <1>3, <2>1, RecvRoom
    <3>6. QED
      BY <3>1, <3>2, <3>3, <3>4, <3>5 DEF Lengths
  <2>5. UnsentBytes'
    <3> SUFFICES ASSUME NEW c \in Cells, Ahead(c)' < Unsent'
                 PROVE  mem[c] = Given + 1 + Ahead(c)'
      BY <1>1, <2>2 DEF UnsentBytes
    <3>1. CASE recv_buf =< c /\ c < recv_buf + recvDone
      <4>1. mem[c] = Taken + 1 + (c - recv_buf)
        BY <1>1, <3>1 DEF OpenInv, ReceivedBytes
      <4>2. Ahead(c)' = Unsent + (c - recv_buf)
        BY <1>1, <1>3, <3>1
           DEF OpenInv, Lengths, TypeOK, Cells, Ahead, Unsent
      <4>3. c - recv_buf \in Int
        BY <1>3 DEF Cells
      <4>4. QED
        BY <2>3, <4>1, <4>2, <4>3
    <3>2. CASE ~(recv_buf =< c /\ c < recv_buf + recvDone)
      <4>1. send_len > 0
        BY <1>1, <1>3, <2>2, <2>3, <3>2 DEF Cells, Ahead, TypeOK
      <4>2. Ahead(c)' = Ahead(c)
        BY <1>1, <4>1 DEF Ahead
      <4>3. Ahead(c) < Unsent + recvDone
        BY <2>2, <4>2
      <4>4. Ahead(c) < Unsent
        BY <1>1, <1>3, <3>2, <4>1, <4>3 DEF TypeOK, Cells, Ahead, Unsent
      <4>5. QED
        BY <1>1, <4>1, <4>2, <4>4 DEF OpenInv, UnsentBytes
    <3>3. QED
      BY <3>1, <3>2
  <2>6. ReceivedBytes'
    BY <1>1, <1>4 DEF ReceivedBytes, Cells
  <2>7. QED
    BY <1>6, <1>7, <1>8, <2>4, <2>5, <2>6 DEF IInv, OpenInv
<1>10. QED
  BY <1>6, <1>7, <1>8, <1>9 DEF IInv

\* process_send_buffer_complete gives back exactly the cells sent, posts the
\* receive again if the buffer was full, and sends what lies next.
LEMMA SendIInv == IInv /\ ProcessSend => IInv'
<1> SUFFICES ASSUME IInv, ProcessSend PROVE IInv'
  OBVIOUS
<1> DEFINE r == IF recv_len = 0 THEN send_buf ELSE recv_buf
           s == SendPos(send_buf + sendDone)
<1>1. /\ open /\ OpenInv /\ TypeOK
      /\ sendDone \in 1 .. BufferSize /\ sendDone' = 0
      /\ send_buf' = s /\ recv_buf' = r
      /\ UNCHANGED <<mem, recvDone, received, out>>
  BY DEF IInv, ProcessSend, TypeOK
<1>2. \/ /\ open' = TRUE
         /\ recv_len' = IF recv_len = 0 THEN sendDone ELSE recv_len
         /\ send_len' = SendLen(s, r)
      \/ /\ open' = FALSE
         /\ recv_len' = 0 \/ recv_len' = recv_len \/ recv_len' = sendDone
         /\ send_len' = 0
  BY DEF ProcessSend
<1>3. /\ send_len > 0 /\ sendDone =< send_len /\ send_len =< Unsent
      /\ send_buf \in Cells
      /\ send_buf + sendDone =< BufferSize
      /\ s \in Cells /\ r \in Cells /\ r = recv_buf
      /\ Len(out) \in Nat
  BY <1>1 DEF TypeOK, OpenInv, Lengths, Cells, SendPos
<1>4. SendLen(s, r) \in 0 .. BufferSize
  BY <1>3, SendTodo
<1>5. open' \in BOOLEAN
  BY <1>2
<1>6. TypeOK'
  <2>1. send_len' \in 0 .. BufferSize /\ recv_len' \in 0 .. BufferSize
    BY <1>1, <1>2, <1>4 DEF TypeOK
  <2>2. QED
    BY <1>1, <1>3, <1>5, <2>1 DEF TypeOK, Cells
<1>7. SendDoneInBounds'
  BY <1>1 DEF SendDoneInBounds
<1>8. RelayedInOrder'
  BY <1>1 DEF IInv, RelayedInOrder
<1>9. CASE open'
  <2>1. /\ recv_len' = IF recv_len = 0 THEN sendDone ELSE recv_len
        /\ send_len' = SendLen(s, r)
    BY <1>2, <1>9
  <2>2. /\ Taken' = Taken
        /\ Given' = Given + sendDone
        /\ Unsent' = Unsent - sendDone
    BY <1>1, <1>3, <2>1
       DEF OpenInv, Lengths, TypeOK, Cells, Given, Taken, Unsent, SendPos,
           SendLen
  <2>3. Lengths'
    <3>1. Taken' = Given' + Unsent'
      <4>1. Unsent \in Nat /\ Given \in Int /\ Taken = Given + Unsent
        BY <1>1, <1>3
           DEF OpenInv, Lengths, TypeOK, Cells, Given, Taken, Unsent
      <4>2. QED
        BY <1>1, <2>2, <4>1
    <3>2. /\ recvDone' =< recv_len' /\ sendDone' =< send_len'
          /\ recv_len' > 0
      BY <1>1, <1>4, <2>1 DEF TypeOK, OpenInv, Lengths
    <3>3. send_len' > 0 => /\ send_buf' \in Cells
                           /\ send_len' =< Unsent'
                           /\ send_buf' + send_len' =< BufferSize
      BY <1>1, <1>3, <2>1, SendTodo DEF Unsent
    <3>4. recv_buf' + recv_len' =< BufferSize
      BY <1>1, <1>3, <2>1 DEF OpenInv, Lengths, TypeOK
    <3>5. send_len' > 0 /\ recv_buf' =< send_buf' =>
              recv_buf' + recv_len' =< send_buf'
      <4> SUFFICES ASSUME s # r, r =< s
                   PROVE  r + recv_len' =< s
        BY <1>1, <1>3, <2>1, SendTodo
      <4>1. s = send_buf + sendDone
        <5>1. s = 0 => r =< 0 /\ r >= 0
          BY <1>3 DEF Cells
        <5>2. s # 0
          BY <1>3, <5>1 DEF Cells
        <5>3. QED
          BY <5>2 DEF SendPos
      <4>2. CASE recv_len = 0
        BY <1>1, <1>3, <2>1, <4>1, <4>2 DEF OpenInv, Lengths, Cells
      <4>3. CASE recv_len > 0
        <5>1. recv_buf =< send_buf
          BY <1>1, <1>3, <4>1 DEF Unsent, Cells, TypeOK
        <5>2. QED
          BY <1>1, <1>3, <2>1, <4>1, <4>3, <5>1
             DEF OpenInv, Lengths, TypeOK, Cells
      <4>4. QED
        BY <1>1, <4>2, <4>3 DEF TypeOK
    <3>6. QED
      BY <3>1, <3>2, <3>3, <3>4, <3>5 DEF Lengths
  <2>4. UnsentBytes'
    <3> SUFFICES ASSUME NEW c \in Cells, Ahead(c)' < Unsent'
                 PROVE  mem[c] = Given + sendDone + 1 + Ahead(c)'
      BY <1>1, <2>2 DEF UnsentBytes
    <3>1. Ahead(c) = Ahead(c)' + sendDone /\ Ahead(c) < Unsent
      BY <1>1, <1>3, <2>2
         DEF OpenInv, Lengths, TypeOK, Cells, Ahead, Unsent, SendPos
    <3>2. mem[c] = Given + 1 + Ahead(c)
      BY <1>1, <1>3, <3>1 DEF OpenInv, UnsentBytes
    <3>3. Ahead(c)' \in Int /\ Given \in Int
      BY <1>1, <1>3 DEF TypeOK, Cells, Ahead, Given
    <3>4. QED
      BY <1>1, <3>1, <3>2, <3>3
  <2>5. ReceivedBytes'
    BY <1>1, <1>3, <2>2 DEF OpenInv, ReceivedBytes
  <2>6. QED
    BY <1>6, <1>7, <1>8, <2>3, <2>4, <2>5 DEF IInv, OpenInv
<1>10. QED
  BY <1>6, <1>7, <1>8, <1>9 DEF IInv

\* The handlers of a completed connection leave the bytes alone.
LEMMA ClosedHandlersIInv ==
  ASSUME IInv, ProcessReceiveClosed \/ ProcessSendClosed
  PROVE  IInv'
<1>1. CASE ProcessReceiveClosed
  <2>1. TypeOK' /\ SendDoneInBounds' /\ RelayedInOrder' /\ ~open'
    BY <1>1 DEF IInv, TypeOK, SendDoneInBounds, RelayedInOrder,
                ProcessReceiveClosed
  <2>2. QED
    BY <2>1 DEF IInv
<1>2. CASE ProcessSendClosed
  <2>1. SendPos(send_buf + sendDone) \in Cells
    BY <1>2 DEF IInv, TypeOK, SendDoneInBounds, ProcessSendClosed, SendPos,
                Cells
  <2>2. TypeOK' /\ SendDoneInBounds' /\ RelayedInOrder' /\ ~open'
    BY <1>2, <2>1 DEF IInv, TypeOK, SendDoneInBounds, RelayedInOrder,
                      ProcessSendClosed
  <2>3. QED
    BY <2>2 DEF IInv
<1>3. QED
  BY <1>1, <1>2
-----------------------------------------------------------------------------

\* The invariant is inductive: every step of the relay preserves it.
LEMMA NextIInv == IInv /\ [Next]_vars => IInv'
<1> SUFFICES ASSUME IInv, [Next]_vars PROVE IInv'
  OBVIOUS
<1>1. CASE KernelRecv
  BY <1>1, KernelRecvIInv
<1>2. CASE KernelSend
  BY <1>2, KernelSendIInv
<1>3. CASE RecvEnds \/ SendFails \/ CloseElsewhere
  BY <1>3, CloseIInv
<1>4. CASE ProcessReceive
  BY <1>4, ReceiveIInv
<1>5. CASE ProcessSend
  BY <1>5, SendIInv
<1>6. CASE ProcessReceiveClosed \/ ProcessSendClosed
  BY <1>6, ClosedHandlersIInv
<1>7. CASE UNCHANGED vars
  BY <1>7 DEF vars, buffers, IInv, TypeOK, SendDoneInBounds, RelayedInOrder,
              OpenInv, Lengths, UnsentBytes, ReceivedBytes, Taken, Given,
              Unsent, Ahead
<1>8. QED
  BY <1>1, <1>2, <1>3, <1>4, <1>5, <1>6, <1>7 DEF Next, Kernel, Handlers

\* The inductive invariant holds throughout: the basis of all that follows.
THEOREM Invariance == Spec => []IInv
BY InitIInv, NextIInv, PTL DEF Spec

\* Every variable keeps its type: the handlers' pointer arithmetic never
\* leaves the buffer (tcp_proxy_socket's process_*_buffer_complete).
THEOREM TypeCorrect == Spec => []TypeOK
<1>1. IInv => TypeOK
  BY DEF IInv
<1>2. QED
  BY <1>1, Invariance, PTL

\* Whatever the buffer size, the length of the stream, the sizes of the
\* partial transfers and the moment of closing, the receiver sees a prefix of
\* the sender's stream.
THEOREM InOrder == Spec => []RelayedInOrder
<1>1. IInv => RelayedInOrder
  BY DEF IInv
<1>2. QED
  BY <1>1, Invariance, PTL

\* The outstanding receive and the outstanding send of one direction never
\* overlap in the cyclic buffer.
THEOREM Disjoint == Spec => []RecvSendDisjoint
<1>1. IInv => RecvSendDisjoint
  BY DEF IInv, OpenInv, Lengths, RecvSendDisjoint, TypeOK, Unsent, Cells
<1>2. QED
  BY <1>1, Invariance, PTL

\* An open connection always has an operation outstanding, and a send
\* outstanding while it holds bytes that were received and not sent.
THEOREM NoStall == Spec => []NeverStalls
<1>1. IInv => NeverStalls
  BY DEF IInv, OpenInv, Lengths, NeverStalls, TypeOK, Unsent, Taken, Given
<1>2. QED
  BY <1>1, Invariance, PTL
-----------------------------------------------------------------------------
\* No more bytes are under way than the buffer holds, and a receive is only
\* posted for the room that is left.
LEMMA Capacity ==
  ASSUME IInv, open
  PROVE  /\ received - Len(out) \in 0 .. BufferSize
         /\ recv_len > 0 /\ recvDone = 0 =>
                received + recv_len - Len(out) =< BufferSize
BY DEF IInv, OpenInv, Lengths, TypeOK, Unsent, Taken, Given, Cells

\* Each step of the ring is a step of the bounded channel or changes nothing
\* that the channel shows.
LEMMA StepSimulation ==
  IInv /\ IInv' /\ [Next]_vars => [Channel!Next]_Channel!vars
<1> SUFFICES ASSUME IInv, IInv', [Next]_vars
             PROVE  [Channel!Next]_Channel!vars
  OBVIOUS
<1> USE DEF Channel!vars, buffers
<1>1. CASE KernelRecv
  <2>1. PICK k \in 1 .. recv_len :
          /\ received + k =< StreamLength
          /\ received' = received + k
    BY <1>1 DEF KernelRecv
  <2>2. received \in Nat /\ Len(out) \in Nat /\ recv_len \in Nat
    BY DEF IInv, TypeOK
  <2>3. received + recv_len - Len(out) =< BufferSize
    BY <1>1, Capacity DEF KernelRecv
  <2>4. /\ received' \in received + 1 .. StreamLength
        /\ received' - Len(out) =< BufferSize
    BY <2>1, <2>2, <2>3
  <2>5. Channel!Accept
    BY <1>1, <2>4 DEF KernelRecv, Channel!Accept
  <2>6. QED
    BY <2>5 DEF Channel!Next
<1>2. CASE KernelSend
  <2>1. PICK k \in 1 .. send_len :
          out' = out \o [j \in 1 .. k |-> mem[send_buf + j - 1]]
    BY <1>2 DEF KernelSend
  <2>2. Len(out') \in Nat /\ Len(out) \in Nat /\ received \in Nat
        /\ out' \in Seq(Nat) /\ Len(out') =< received
    BY <1>2 DEF KernelSend, IInv, TypeOK, RelayedInOrder
  <2>3. sendDone' > 0 /\ sendDone = 0 /\ sendDone' = Len(out') - Len(out)
    <3>1. Taken' = Given' + Unsent' /\ Taken = Given + Unsent
          /\ open' /\ open
      BY <1>2 DEF KernelSend, IInv, OpenInv, Lengths
    <3>2. Taken' = Taken /\ Unsent' = Unsent
      BY <1>2 DEF KernelSend, Taken, Unsent
    <3>3. sendDone' \in Nat \ {0} /\ sendDone = 0
      BY <1>2 DEF KernelSend, IInv, TypeOK
    <3>4. Unsent \in Int
      BY DEF IInv, TypeOK, Unsent, Cells, NullPtr
    <3>5. QED
      BY <2>2, <3>1, <3>2, <3>3, <3>4, SMTT(30) DEF Given
  <2>4. Len(out') \in Len(out) + 1 .. received
    BY <2>2, <2>3
  <2>5. out' = Channel!Stream(Len(out'))
    <3>1. out' = [i \in 1 .. Len(out') |-> out'[i]]
      BY <2>2, LenProperties
    <3>2. \A i \in 1 .. Len(out') : out'[i] = i
      BY DEF IInv, RelayedInOrder
    <3>3. QED
      BY <3>1, <3>2 DEF Channel!Stream
  <2>6. Channel!Deliver
    BY <1>2, <2>4, <2>5 DEF KernelSend, Channel!Deliver
  <2>7. QED
    BY <2>6 DEF Channel!Next
<1>3. CASE RecvEnds \/ SendFails \/ CloseElsewhere
  BY <1>3 DEF RecvEnds, SendFails, CloseElsewhere, Channel!Next, Channel!Close
<1>4. CASE ProcessReceive
  <2>1. open /\ (open' = TRUE \/ open' = FALSE)
    BY <1>4 DEF ProcessReceive
  <2>2. QED
    BY <1>4, <2>1 DEF ProcessReceive, IInv, TypeOK, Channel!Next, Channel!Close
<1>5. CASE ProcessSend
  <2>1. open /\ (open' = TRUE \/ open' = FALSE)
    BY <1>5 DEF ProcessSend
  <2>2. QED
    BY <1>5, <2>1 DEF ProcessSend, IInv, TypeOK, Channel!Next, Channel!Close
<1>6. CASE ProcessReceiveClosed \/ ProcessSendClosed
  BY <1>6 DEF ProcessReceiveClosed, ProcessSendClosed
<1>7. CASE UNCHANGED vars
  BY <1>7 DEF vars
<1>8. QED
  BY <1>1, <1>2, <1>3, <1>4, <1>5, <1>6, <1>7 DEF Next, Kernel, Handlers

\* For every buffer size the cyclic buffer with its partial transfers, wraps
\* and closes is a first-in first-out channel of that capacity.
THEOREM Refinement == Spec => ImplementsChannel
<1>1. Init => Channel!Init
  BY DEF Init, Channel!Init
<1>2. QED
  BY <1>1, StepSimulation, Invariance, PTL
     DEF Spec, ImplementsChannel, Channel!Spec
=============================================================================
