----------------------- MODULE TcpProxySocket_proofs -----------------------
(***************************************************************************)
(* For every size of the buffers: a tcp_proxy_socket is destroyed only when *)
(* it is unused, its lengths say what is outstanding, no operation is      *)
(* posted twice, and none leaves its buffer.                               *)
(*                                                                         *)
(* The invariant relates, for each of the four operations, the length in   *)
(* its WSABUF with what the kernel and the completion port do with it.  A  *)
(* handler or close_client either keeps both, ends or posts the operation, *)
(* or clears the length alone, which happens to sends of closed connections. *)
(*                                                                         *)
(* It gives what the second invariant needs, that no WSABUF is moved while *)
(* the kernel or a completion still refers to it: all of them stay inside  *)
(* the buffer of their direction.                                          *)
(***************************************************************************)
EXTENDS TcpProxySocket, TLAPS

\* The types, with positions and lengths any integers: that they lie inside the
\* buffer is InBuffer, below, and which bytes they name is the subject of
\* RelayRing_proofs.
Wsabufs == [Sides -> [buf : Int, len : Int]]

Conns == [sock : [Sides -> {"open", "invalid"}],
          status : {"established", "completed"},
          recv : Wsabufs, send : Wsabufs]

Completions == {Idle, Pending, Failed} \cup {Done(k) : k \in Nat \ {0}}

Shape == /\ conn \in Conns
         /\ io \in [Ops -> Completions]
         /\ phase \in {"negotiating", "starting", "relaying", "over"}
         /\ swept \in BOOLEAN /\ removed \in BOOLEAN

\* Both sockets are closed together, and the status tells.
Paired(c) == \A x \in Sides : c.sock[x] = "open" <=> c.status = "established"

Outstanding(op) == io[op] # Idle => Length(conn, op) > 0
Meant(op) == Length(conn, op) > 0 => io[op] # Idle

RecvsOutstanding == \A x \in Sides : Outstanding(<<"recv", x>>)
LocalSendOutstanding == ~swept => Outstanding(<<"send", "local">>)

\* What the phase says of the operations.
PhaseInv ==
    /\ phase = "negotiating" =>
         /\ \A op \in Ops : io[op] = Idle
         /\ \A x \in Sides : /\ Length(conn, <<"recv", x>>) > 0
                             /\ Length(conn, <<"send", x>>) = 0
    /\ phase = "starting" =>
         /\ io[<<"recv", "remote">>] = Idle /\ io[<<"send", "local">>] = Idle
         /\ Length(conn, <<"recv", "remote">>) > 0
         /\ \A op \in Ops : op # <<"recv", "remote">> => Meant(op)
    /\ phase = "relaying" => \A op \in Ops : Meant(op)

Erased == removed => Closed(conn) /\ AllLengthsZero(conn)

IInv == Shape /\ Paired(conn) /\ NeverPostedTwice /\ RecvsOutstanding
          /\ LocalSendOutstanding /\ PhaseInv /\ Erased

\* What a step may do to an operation.
Keeps(op) == io'[op] = io[op] /\ Length(conn', op) = Length(conn, op)
Ends(op) == io'[op] = Idle /\ Length(conn', op) =< 0
Posts(op) == io'[op] # Idle /\ Length(conn', op) > 0
Clears(op) == io'[op] = io[op] /\ Length(conn', op) = 0
-----------------------------------------------------------------------------
\* The two sides and the four operations, written out.
LEMMA SidesFacts ==
  /\ Sides = {"local", "remote"}
  /\ \A x \in Sides : Other(x) \in Sides /\ Other(x) # x
  /\ Ops = {<<"recv", "local">>, <<"recv", "remote">>,
            <<"send", "local">>, <<"send", "remote">>}
  /\ \A x \in Sides : <<"recv", x>> \in Ops /\ <<"send", x>> \in Ops
BY DEF Sides, Other, Ops

\* The states of an operation are distinct.
LEMMA CompletionFacts ==
  /\ Idle # Pending /\ Idle # Failed
  /\ \A k \in Nat \ {0} : Done(k) \in Completions /\ Done(k) # Idle
  /\ \A e \in Completions :
       /\ e.st = "done" => e.n \in Nat \ {0} /\ e # Idle
       /\ e.st = "idle" <=> e = Idle
       /\ e.st = "pending" <=> e = Pending
       /\ e.st = "failed" <=> e = Failed
<1>1. /\ Idle.st = "idle" /\ Pending.st = "pending" /\ Failed.st = "failed"
      /\ \A k \in Nat \ {0} : Done(k).st = "done" /\ Done(k).n = k
  BY DEF Idle, Pending, Failed, Done
<1>2. \A k \in Nat \ {0} : Done(k) \in Completions
  BY DEF Completions
<1>3. ASSUME NEW e \in Completions
      PROVE  /\ e.st = "done" => e.n \in Nat \ {0} /\ e # Idle
             /\ e.st = "idle" <=> e = Idle
             /\ e.st = "pending" <=> e = Pending
             /\ e.st = "failed" <=> e = Failed
  <2>1. CASE e \in {Idle, Pending, Failed}
    BY <2>1, <1>1
  <2>2. CASE \E k \in Nat \ {0} : e = Done(k)
    BY <2>2, <1>1
  <2> QED
    BY <2>1, <2>2 DEF Completions
<1> QED
  BY <1>1, <1>2, <1>3

\* The lengths are integers.
LEMMA LengthType ==
  ASSUME NEW c \in Conns, NEW op \in Ops
  PROVE  Length(c, op) \in Int
BY DEF Conns, Wsabufs, Length, Ops

\* close_client: both sockets are closed, and the one length is cleared.
LEMMA CloseClientFacts ==
  ASSUME NEW c \in Conns, Paired(c), NEW b \in BOOLEAN, NEW x \in Sides
  PROVE  /\ CloseClient(c, b, x) \in Conns
         /\ Paired(CloseClient(c, b, x)) /\ Closed(CloseClient(c, b, x))
         /\ CloseClient(c, b, x).status = "completed"
         /\ \A op \in Ops : Length(CloseClient(c, b, x), op) =
              IF op = <<IF b THEN "recv" ELSE "send", x>> THEN 0
                                                          ELSE Length(c, op)
<1> DEFINE d == CloseClient(c, b, x)
           R == [c.recv EXCEPT ![x].len = IF b THEN 0 ELSE c.recv[x].len]
           S == [c.send EXCEPT ![x].len = IF b THEN c.send[x].len ELSE 0]
<1>1. d = [c EXCEPT !.sock = [y \in Sides |-> "invalid"],
                    !.status = IF c.sock[x] = "open" THEN "completed"
                                                     ELSE c.status,
                    !.recv = R, !.send = S]
  BY DEF CloseClient, Conns
<1>2. /\ c.recv \in Wsabufs /\ c.send \in Wsabufs
      /\ c.status \in {"established", "completed"}
  BY DEF Conns
<1>3. /\ R \in Wsabufs /\ S \in Wsabufs
      /\ \A y \in Sides :
           /\ R[y].len = IF b /\ y = x THEN 0 ELSE c.recv[y].len
           /\ S[y].len = IF ~b /\ y = x THEN 0 ELSE c.send[y].len
  BY <1>2 DEF Wsabufs
<1> HIDE DEF R, S, d
<1>4. /\ d \in Conns /\ d.recv = R /\ d.send = S
      /\ d.sock = [y \in Sides |-> "invalid"]
      /\ d.status = IF c.sock[x] = "open" THEN "completed" ELSE c.status
  BY <1>1, <1>2, <1>3 DEF Conns
<1>5. d.status = "completed"
  BY <1>2, <1>4 DEF Paired
<1>6. Paired(d) /\ Closed(d)
  BY <1>4, <1>5 DEF Paired, Closed
<1>7. ASSUME NEW op \in Ops
      PROVE  Length(d, op) = IF op = <<IF b THEN "recv" ELSE "send", x>>
                             THEN 0 ELSE Length(c, op)
  <2>1. PICK a \in {"recv", "send"}, y \in Sides : op = <<a, y>>
    BY DEF Ops
  <2> QED
    BY <2>1, <1>3, <1>4 DEF Length
<1> QED
  BY <1>4, <1>5, <1>6, <1>7 DEF d

\* close_client(true, x) clears the length of x's receive only.
LEMMA CloseRecvFacts ==
  ASSUME NEW c \in Conns, Paired(c), NEW x \in Sides
  PROVE  LET d == CloseClient(c, TRUE, x)
         IN  /\ d \in Conns /\ Paired(d) /\ Closed(d) /\ d.status = "completed"
             /\ \A op \in Ops : Length(d, op) =
                  IF op = <<"recv", x>> THEN 0 ELSE Length(c, op)
<1>1. LET d == CloseClient(c, TRUE, x)
      IN  /\ d \in Conns /\ Paired(d) /\ Closed(d) /\ d.status = "completed"
          /\ \A op \in Ops : Length(d, op) =
               IF op = <<IF TRUE THEN "recv" ELSE "send", x>>
               THEN 0 ELSE Length(c, op)
  BY CloseClientFacts
<1> QED
  BY <1>1

\* close_client(false, x) clears the length of x's send only.
LEMMA CloseSendFacts ==
  ASSUME NEW c \in Conns, Paired(c), NEW x \in Sides
  PROVE  LET d == CloseClient(c, FALSE, x)
         IN  /\ d \in Conns /\ Paired(d) /\ Closed(d) /\ d.status = "completed"
             /\ \A op \in Ops : Length(d, op) =
                  IF op = <<"send", x>> THEN 0 ELSE Length(c, op)
<1>1. LET d == CloseClient(c, FALSE, x)
      IN  /\ d \in Conns /\ Paired(d) /\ Closed(d) /\ d.status = "completed"
          /\ \A op \in Ops : Length(d, op) =
               IF op = <<IF FALSE THEN "recv" ELSE "send", x>>
               THEN 0 ELSE Length(c, op)
  BY CloseClientFacts
<1> QED
  BY <1>1

\* The two ways a handler moves a WSABUF.
LEMMA SetRecvFacts ==
  ASSUME NEW c \in Conns, NEW x \in Sides, NEW w \in [buf : Int, len : Int]
  PROVE  LET d == [c EXCEPT !.recv[x] = w]
         IN  /\ d \in Conns /\ d.sock = c.sock /\ d.status = c.status
             /\ \A op \in Ops : Length(d, op) =
                  IF op = <<"recv", x>> THEN w.len ELSE Length(c, op)
<1> DEFINE d == [c EXCEPT !.recv[x] = w]
<1>1. /\ d \in Conns /\ d.sock = c.sock /\ d.status = c.status
      /\ d.send = c.send
      /\ \A y \in Sides : d.recv[y] = IF y = x THEN w ELSE c.recv[y]
  BY DEF Conns, Wsabufs
<1> HIDE DEF d
<1>2. ASSUME NEW op \in Ops
      PROVE  Length(d, op) = IF op = <<"recv", x>> THEN w.len
                                                   ELSE Length(c, op)
  <2>1. PICK a \in {"recv", "send"}, y \in Sides : op = <<a, y>>
    BY DEF Ops
  <2> QED
    BY <2>1, <1>1 DEF Length
<1> QED
  BY <1>1, <1>2 DEF d

\* A new buffer for a send changes the length of that send only.
LEMMA SetSendFacts ==
  ASSUME NEW c \in Conns, NEW x \in Sides, NEW w \in [buf : Int, len : Int]
  PROVE  LET d == [c EXCEPT !.send[x] = w]
         IN  /\ d \in Conns /\ d.sock = c.sock /\ d.status = c.status
             /\ \A op \in Ops : Length(d, op) =
                  IF op = <<"send", x>> THEN w.len ELSE Length(c, op)
<1> DEFINE d == [c EXCEPT !.send[x] = w]
<1>1. /\ d \in Conns /\ d.sock = c.sock /\ d.status = c.status
      /\ d.recv = c.recv
      /\ \A y \in Sides : d.send[y] = IF y = x THEN w ELSE c.send[y]
  BY DEF Conns, Wsabufs
<1> HIDE DEF d
<1>2. ASSUME NEW op \in Ops
      PROVE  Length(d, op) = IF op = <<"send", x>> THEN w.len
                                                   ELSE Length(c, op)
  <2>1. PICK a \in {"recv", "send"}, y \in Sides : op = <<a, y>>
    BY DEF Ops
  <2> QED
    BY <2>1, <1>1 DEF Length
<1> QED
  BY <1>1, <1>2 DEF d

\* A WSARecv or WSASend: accepted and nothing else changes, or refused, the
\* connection closed and the length cleared.
LEMMA PostRecvFacts ==
  ASSUME NEW c \in Conns, Paired(c), NEW x \in Sides, NEW ok \in BOOLEAN
  PROVE  LET d == PostRecv(c, x, ok)
         IN  /\ d \in Conns /\ Paired(d)
             /\ d.status = "established" => c.status = "established"
             /\ Accepted(c, x, ok) => d = c
             /\ ~Accepted(c, x, ok) => d.status = "completed"
             /\ \A op \in Ops : Length(d, op) =
                  IF op = <<"recv", x>> /\ ~Accepted(c, x, ok)
                  THEN 0 ELSE Length(c, op)
<1>1. CASE Accepted(c, x, ok)
  BY <1>1 DEF PostRecv
<1>2. CASE ~Accepted(c, x, ok)
  BY <1>2, CloseRecvFacts DEF PostRecv
<1> QED
  BY <1>1, <1>2

\* A send that is refused closes the connection and clears its length.
LEMMA PostSendFacts ==
  ASSUME NEW c \in Conns, Paired(c), NEW x \in Sides, NEW ok \in BOOLEAN
  PROVE  LET d == PostSend(c, x, ok)
         IN  /\ d \in Conns /\ Paired(d)
             /\ d.status = "established" => c.status = "established"
             /\ Accepted(c, x, ok) => d = c
             /\ ~Accepted(c, x, ok) => d.status = "completed"
             /\ \A op \in Ops : Length(d, op) =
                  IF op = <<"send", x>> /\ ~Accepted(c, x, ok)
                  THEN 0 ELSE Length(c, op)
<1>1. CASE Accepted(c, x, ok)
  BY <1>1 DEF PostSend
<1>2. CASE ~Accepted(c, x, ok)
  BY <1>2, CloseSendFacts DEF PostSend
<1> QED
  BY <1>1, <1>2

\* The pointer arithmetic yields integers.
LEMMA BufferTypes ==
  ASSUME NEW r \in Int, NEW s \in Int
  PROVE  /\ RecvPos(r, s) \in Int /\ RecvLen(r, s) \in Int
         /\ SendPos(s) \in Int /\ SendLen(s, r) \in Int
BY BufferSizeAssumption DEF BufferSizeAssumption, RecvPos, RecvLen, SendPos, SendLen
-----------------------------------------------------------------------------
\* A handler changes the operations of A, and at most clears the length of the
\* remote send, on a connection that is completed.
Changes(A) ==
    /\ \A op \in A : Keeps(op) \/ Ends(op) \/ Posts(op)
    /\ \A op \in Ops \ A :
         \/ Keeps(op)
         \/ /\ op = <<"send", "remote">> /\ Clears(op)
            /\ conn'.status = "completed"

\* What every handler does to the object as a whole.
Handles ==
    /\ conn' \in Conns /\ io' \in [Ops -> Completions] /\ Paired(conn')
    /\ conn'.status = "established" => conn.status = "established"
    /\ UNCHANGED <<phase, swept, removed>> /\ ~removed

\* What a handler has to do for the invariant to be kept.
LEMMA HandlersKeepIInv ==
  ASSUME IInv, NEW A \in SUBSET Ops, Handles, Changes(A),
         phase # "negotiating",
         phase = "starting" => <<"recv", "remote">> \notin A
                               /\ <<"send", "local">> \notin A
  PROVE  IInv'
<1> USE SidesFacts
<1>1. Shape' /\ Paired(conn)' /\ Erased'
  BY DEF Handles, IInv, Shape, Erased
<1>2. \A op \in Ops : Keeps(op) \/ Ends(op) \/ Posts(op) \/ Clears(op)
  BY DEF Changes
<1>3. \A op \in Ops : Keeps(op) \/ Ends(op) \/ Posts(op)
                       \/ op = <<"send", "remote">>
  BY DEF Changes
<1>4. NeverPostedTwice'
  <2>1. ASSUME NEW op \in Ops, conn'.status = "established"
        PROVE  Outstanding(op)'
    <3>1. Outstanding(op)
      BY <2>1 DEF Handles, IInv, NeverPostedTwice, Outstanding
    <3>2. Keeps(op) \/ Ends(op) \/ Posts(op)
      BY <2>1 DEF Changes
    <3> QED
      BY <3>1, <3>2 DEF Keeps, Ends, Posts, Outstanding
  <2> QED
    BY <2>1 DEF NeverPostedTwice, Outstanding
<1>5. RecvsOutstanding'
  BY <1>3 DEF IInv, RecvsOutstanding, Outstanding, Keeps, Ends, Posts
<1>6. LocalSendOutstanding'
  BY <1>3 DEF Handles, IInv, LocalSendOutstanding, Outstanding, Keeps, Ends, Posts
<1>7. ASSUME NEW op \in Ops, Meant(op)
      PROVE  Meant(op)'
  <2>1. Length(conn', op) \in Int
    BY LengthType DEF Handles
  <2> QED
    BY <1>2, <1>7, <2>1 DEF Meant, Keeps, Ends, Posts, Clears
<1>8. PhaseInv'
  <2>1. CASE phase = "starting"
    <3>1. Keeps(<<"recv", "remote">>) /\ Keeps(<<"send", "local">>)
      BY <2>1 DEF Changes
    <3> QED
      BY <1>7, <2>1, <3>1 DEF Handles, IInv, PhaseInv, Keeps
  <2>2. CASE phase # "starting"
    BY <1>7, <2>2 DEF Handles, IInv, PhaseInv
  <2> QED
    BY <2>1, <2>2
<1> QED
  BY <1>1, <1>4, <1>5, <1>6, <1>8 DEF IInv

\* An operation whose completion is handled is not one of a negotiation, nor
\* one that start_data_relay has yet to post.
LEMMA HandledOps ==
  ASSUME IInv, NEW x \in Sides,
         io[<<"recv", x>>] # Idle \/ io[<<"send", Other(x)>>] # Idle
  PROVE  /\ phase # "negotiating"
         /\ phase = "starting" => x = "local"
BY SidesFacts DEF IInv, PhaseInv, Other
-----------------------------------------------------------------------------
\* process_receive_buffer_complete.
LEMMA ProcessReceiveStep ==
  ASSUME IInv, NEW x \in Sides, ProcessReceive(x)
  PROVE  IInv'
<1> DEFINE y  == Other(x)
           op == <<"recv", x>>
           A  == {op, <<"send", y>>}
<1>1. /\ y \in Sides /\ op \in Ops /\ <<"send", y>> \in Ops
      /\ op # <<"send", y>> /\ A \in SUBSET Ops
  BY SidesFacts
<1>2. /\ conn \in Conns /\ io \in [Ops -> Completions] /\ Paired(conn)
      /\ io[op] \in Completions /\ ~removed
      /\ UNCHANGED <<phase, swept, removed>>
  BY <1>1 DEF IInv, Shape, ProcessReceive
<1>3. io[op] # Idle /\ io[op].n \in Nat \ {0}
  BY <1>2, CompletionFacts DEF ProcessReceive
<1>4. Handles /\ Changes(A)
  <2>1. CASE conn.status = "completed"
    <3>1. /\ conn' = [conn EXCEPT !.recv[x].len = 0]
          /\ io' = [io EXCEPT ![op] = Idle]
      BY <2>1 DEF ProcessReceive
    <3> DEFINE w == [buf |-> conn.recv[x].buf, len |-> 0]
    <3>2. /\ w \in [buf : Int, len : Int] /\ w.len = 0
          /\ conn' = [conn EXCEPT !.recv[x] = w]
      <4>1. conn.recv[x] \in [buf : Int, len : Int]
        BY <1>2 DEF Conns, Wsabufs
      <4>2. [conn.recv[x] EXCEPT !.len = 0] = w
        BY <4>1
      <4> QED
        BY <3>1, <4>1, <4>2
    <3> HIDE DEF w
    <3>3. /\ conn' \in Conns /\ conn'.sock = conn.sock
          /\ conn'.status = conn.status
          /\ \A o \in Ops : Length(conn', o) =
               IF o = op THEN 0 ELSE Length(conn, o)
      BY <1>2, <3>2, SetRecvFacts
    <3>4. /\ io' \in [Ops -> Completions] /\ io'[op] = Idle
          /\ \A o \in Ops \ {op} : io'[o] = io[o]
      BY <1>1, <1>2, <3>1 DEF Completions
    <3> QED
      BY <1>1, <1>2, <3>3, <3>4 DEF Handles, Changes, Keeps, Ends, Paired
  <2>2. CASE conn.status = "established"
    <3> DEFINE k    == io[op].n
               idle == conn.send[y].len = 0
               w1   == [buf |-> conn.recv[x].buf, len |-> k]
               c1   == [conn EXCEPT !.send[y] = w1]
    <3>1. PICK sendOk \in BOOLEAN, recvOk \in BOOLEAN :
             LET c2   == IF idle THEN PostSend(c1, y, sendOk) ELSE conn
                 r    == c2.recv[x].buf + k
                 s    == c2.send[y].buf
                 c3   == [c2 EXCEPT !.recv[x] =
                             [buf |-> RecvPos(r, s), len |-> RecvLen(r, s)]]
                 room == RecvLen(r, s) > 0
             IN /\ conn' = IF room THEN PostRecv(c3, x, recvOk) ELSE c3
                /\ io' = [io EXCEPT
                     ![op] = IF room /\ Accepted(c3, x, recvOk)
                             THEN Pending ELSE Idle,
                     ![<<"send", y>>] = IF idle /\ Accepted(c1, y, sendOk)
                                        THEN Pending ELSE @]
      BY <2>2 DEF ProcessReceive
    <3> DEFINE c2   == IF idle THEN PostSend(c1, y, sendOk) ELSE conn
               r    == c2.recv[x].buf + k
               s    == c2.send[y].buf
               w3   == [buf |-> RecvPos(r, s), len |-> RecvLen(r, s)]
               c3   == [c2 EXCEPT !.recv[x] = w3]
               room == RecvLen(r, s) > 0
               posted == idle /\ Accepted(c1, y, sendOk)
               again  == room /\ Accepted(c3, x, recvOk)
    <3>2. /\ conn' = IF room THEN PostRecv(c3, x, recvOk) ELSE c3
          /\ io' = [io EXCEPT ![op] = IF again THEN Pending ELSE Idle,
                              ![<<"send", y>>] = IF posted THEN Pending ELSE @]
      BY <3>1
    <3>3. /\ c1 \in Conns /\ c1.sock = conn.sock /\ c1.status = conn.status
          /\ \A o \in Ops : Length(c1, o) =
               IF o = <<"send", y>> THEN k ELSE Length(conn, o)
      <4>1. w1 \in [buf : Int, len : Int] /\ w1.len = k
        BY <1>2, <1>3 DEF Conns, Wsabufs
      <4> HIDE DEF w1
      <4> QED
        BY <1>1, <1>2, <4>1, SetSendFacts
    <3>4. /\ c2 \in Conns /\ Paired(c2)
          /\ \A o \in Ops \ {<<"send", y>>} : Length(c2, o) = Length(conn, o)
          /\ Length(c2, <<"send", y>>) =
               IF posted THEN k ELSE IF idle THEN 0
                                             ELSE Length(conn, <<"send", y>>)
      <4>1. Paired(c1)
        BY <1>2, <3>3 DEF Paired
      <4> HIDE DEF c1, r, s, w3, c3, room, again
      <4>2. CASE idle
        <5>1. c2 = PostSend(c1, y, sendOk)
          BY <4>2
        <5>2. /\ PostSend(c1, y, sendOk) \in Conns
              /\ Paired(PostSend(c1, y, sendOk))
              /\ \A o \in Ops : Length(PostSend(c1, y, sendOk), o) =
                   IF o = <<"send", y>> /\ ~Accepted(c1, y, sendOk)
                   THEN 0 ELSE Length(c1, o)
          BY <1>1, <3>3, <4>1, PostSendFacts
        <5> HIDE DEF c2
        <5> QED
          BY <1>1, <3>3, <4>2, <5>1, <5>2
      <4>3. CASE ~idle
        BY <1>1, <1>2, <4>3
      <4> QED
        BY <4>2, <4>3
    <3> HIDE DEF c2
    <3>5. /\ c3 \in Conns /\ Paired(c3) /\ RecvLen(r, s) \in Int
          /\ \A o \in Ops : Length(c3, o) =
               IF o = op THEN RecvLen(r, s) ELSE Length(c2, o)
      <4>1. r \in Int /\ s \in Int
        BY <1>1, <1>3, <3>4 DEF Conns, Wsabufs
      <4>2. w3 \in [buf : Int, len : Int] /\ w3.len = RecvLen(r, s)
        BY <4>1, BufferTypes
      <4>3. RecvLen(r, s) \in Int
        BY <4>1, BufferTypes
      <4> HIDE DEF w3, r, s
      <4> QED
        BY <3>4, <4>2, <4>3, SetRecvFacts DEF Paired
    <3> HIDE DEF c3, r, s, k
    <3>6. /\ conn' \in Conns /\ Paired(conn')
          /\ \A o \in Ops \ {op} : Length(conn', o) = Length(c2, o)
          /\ IF again THEN Length(conn', op) > 0 ELSE Length(conn', op) =< 0
      BY <1>1, <3>2, <3>5, PostRecvFacts
    <3>7. /\ io' \in [Ops -> Completions]
          /\ io'[op] = IF again THEN Pending ELSE Idle
          /\ io'[<<"send", y>>] = IF posted THEN Pending ELSE io[<<"send", y>>]
          /\ \A o \in Ops \ A : io'[o] = io[o]
      <4> HIDE DEF posted, again
      <4> QED
        BY <1>1, <1>2, <3>2 DEF Completions
    <3>8. Posts(op) \/ Ends(op)
      BY <3>6, <3>7, CompletionFacts DEF Posts, Ends
    <3>9. Posts(<<"send", y>>) \/ Keeps(<<"send", y>>) \/ Ends(<<"send", y>>)
      <4>1. idle => io[<<"send", y>>] = Idle
        BY <1>1, <2>2 DEF IInv, NeverPostedTwice, Length
      <4>2. k > 0
        BY <1>3 DEF k
      <4> HIDE DEF idle
      <4> QED
        BY <1>1, <3>4, <3>6, <3>7, <4>1, <4>2, CompletionFacts
           DEF Posts, Keeps, Ends
    <3>10. \A o \in Ops \ A : Keeps(o)
      BY <1>1, <3>4, <3>6, <3>7 DEF Keeps
    <3> QED
      BY <1>2, <2>2, <3>6, <3>7, <3>8, <3>9, <3>10 DEF Handles, Changes
  <2> QED
    BY <1>2, <2>1, <2>2 DEF Conns
<1> QED
  BY <1>1, <1>3, <1>4, HandledOps, HandlersKeepIInv, SidesFacts DEF Other

\* process_send_buffer_complete.
LEMMA ProcessSendStep ==
  ASSUME IInv, NEW x \in Sides, ProcessSend(x)
  PROVE  IInv'
<1> DEFINE y  == Other(x)
           op == <<"send", x>>
           A  == {op, <<"recv", y>>}
<1>1. /\ y \in Sides /\ op \in Ops /\ <<"recv", y>> \in Ops
      /\ op # <<"recv", y>> /\ A \in SUBSET Ops
      /\ <<"send", "remote">> \in Ops /\ <<"send", "remote">> # <<"recv", y>>
      /\ "remote" \in Sides
  BY SidesFacts
<1>2. /\ conn \in Conns /\ io \in [Ops -> Completions] /\ Paired(conn)
      /\ io[op] \in Completions /\ ~removed
      /\ UNCHANGED <<phase, swept, removed>>
  BY <1>1 DEF IInv, Shape, ProcessSend
<1>3. io[op] # Idle /\ io[op].n \in Nat \ {0}
  BY <1>2, CompletionFacts DEF ProcessSend
<1> DEFINE k     == io[op].n
           rearm == conn.status # "completed" /\ conn.recv[y].len = 0
           w1    == [buf |-> conn.send[x].buf, len |-> k]
           c1    == [conn EXCEPT !.recv[y] = w1]
<1>4. PICK sendOk \in BOOLEAN, recvOk \in BOOLEAN :
         LET c2   == IF rearm THEN PostRecv(c1, y, recvOk) ELSE conn
             s    == SendPos(conn.send[x].buf + k)
             todo == SendLen(s, c2.recv[y].buf)
             c3   == [c2 EXCEPT !.send[x] = [buf |-> s, len |-> todo]]
         IN /\ conn' = IF todo > 0 THEN PostSend(c3, x, sendOk)
                       ELSE IF c2.status = "completed"
                            THEN CloseClient(c3, FALSE, "remote")
                            ELSE c3
            /\ io' = [io EXCEPT
                 ![op] = IF todo > 0 /\ Accepted(c3, x, sendOk)
                         THEN Pending ELSE Idle,
                 ![<<"recv", y>>] = IF rearm /\ Accepted(c1, y, recvOk)
                                    THEN Pending ELSE @]
  BY DEF ProcessSend
<1> DEFINE c2     == IF rearm THEN PostRecv(c1, y, recvOk) ELSE conn
           s      == SendPos(conn.send[x].buf + k)
           todo   == SendLen(s, c2.recv[y].buf)
           w3     == [buf |-> s, len |-> todo]
           c3     == [c2 EXCEPT !.send[x] = w3]
           posted == rearm /\ Accepted(c1, y, recvOk)
           again  == todo > 0 /\ Accepted(c3, x, sendOk)
<1>5. /\ conn' = IF todo > 0 THEN PostSend(c3, x, sendOk)
                 ELSE IF c2.status = "completed"
                      THEN CloseClient(c3, FALSE, "remote")
                      ELSE c3
      /\ io' = [io EXCEPT ![op] = IF again THEN Pending ELSE Idle,
                          ![<<"recv", y>>] = IF posted THEN Pending ELSE @]
  BY <1>4
<1>6. /\ c1 \in Conns /\ c1.sock = conn.sock /\ c1.status = conn.status
      /\ \A o \in Ops : Length(c1, o) =
           IF o = <<"recv", y>> THEN k ELSE Length(conn, o)
  <2>1. w1 \in [buf : Int, len : Int] /\ w1.len = k
    BY <1>2, <1>3 DEF Conns, Wsabufs
  <2> HIDE DEF w1
  <2> QED
    BY <1>1, <1>2, <2>1, SetRecvFacts
<1>7. /\ c2 \in Conns /\ Paired(c2)
      /\ c2.status = "established" => conn.status = "established"
      /\ \A o \in Ops \ {<<"recv", y>>} : Length(c2, o) = Length(conn, o)
      /\ Length(c2, <<"recv", y>>) =
           IF posted THEN k ELSE IF rearm THEN 0
                                          ELSE Length(conn, <<"recv", y>>)
  <2>1. Paired(c1)
    BY <1>2, <1>6 DEF Paired
  <2> HIDE DEF c1
  <2>2. CASE rearm
    <3> HIDE DEF y, rearm
    <3>1. c2 = PostRecv(c1, y, recvOk)
      BY <2>2
    <3>2. y \in Sides /\ c1 \in Conns
      BY <1>1, <1>6
    <3>3. /\ c2 \in Conns /\ Paired(c2)
          /\ c2.status = "established" => c1.status = "established"
          /\ \A o \in Ops : Length(c2, o) =
               IF o = <<"recv", y>> /\ ~Accepted(c1, y, recvOk)
               THEN 0 ELSE Length(c1, o)
      BY <2>1, <3>1, <3>2, PostRecvFacts
    <3> QED
      BY <1>1, <1>6, <2>2, <3>3
  <2>3. CASE ~rearm
    BY <1>1, <1>2, <2>3
  <2> QED
    BY <2>2, <2>3
<1> HIDE DEF c2
<1>8. /\ c3 \in Conns /\ Paired(c3) /\ todo \in Int /\ c3.status = c2.status
      /\ \A o \in Ops : Length(c3, o) =
           IF o = op THEN todo ELSE Length(c2, o)
  <2>1. conn.send[x].buf + k \in Int /\ c2.recv[y].buf \in Int
    BY <1>1, <1>2, <1>3, <1>7 DEF Conns, Wsabufs
  <2>2. s \in Int /\ todo \in Int
    BY <2>1, BufferTypes
  <2>3. w3 \in [buf : Int, len : Int] /\ w3.len = todo
    BY <2>2
  <2> HIDE DEF w3, todo, s
  <2> QED
    BY <1>7, <2>2, <2>3, SetSendFacts DEF Paired
<1> HIDE DEF c3, todo, s, k
<1>9. /\ conn' \in Conns /\ Paired(conn')
      /\ conn'.status = "established" => conn.status = "established"
      /\ IF again THEN Length(conn', op) > 0 ELSE Length(conn', op) =< 0
      /\ \A o \in Ops \ {op} :
           \/ Length(conn', o) = Length(c2, o)
           \/ /\ o = <<"send", "remote">> /\ Length(conn', o) = 0
              /\ conn'.status = "completed"
  <2>1. CASE todo > 0
    <3>1. conn' = PostSend(c3, x, sendOk)
      BY <1>5, <2>1
    <3>2. /\ conn' \in Conns /\ Paired(conn')
          /\ conn'.status = "established" => c3.status = "established"
          /\ \A o \in Ops : Length(conn', o) =
               IF o = op /\ ~Accepted(c3, x, sendOk) THEN 0 ELSE Length(c3, o)
      BY <1>8, <3>1, PostSendFacts
    <3> QED
      BY <1>1, <1>7, <1>8, <2>1, <3>2
  <2>2. CASE ~(todo > 0) /\ c2.status = "completed"
    <3>1. conn' = CloseClient(c3, FALSE, "remote")
      BY <1>5, <2>2
    <3>2. /\ conn' \in Conns /\ Paired(conn') /\ conn'.status = "completed"
          /\ \A o \in Ops : Length(conn', o) =
               IF o = <<"send", "remote">> THEN 0 ELSE Length(c3, o)
      BY <1>1, <1>8, <3>1, CloseSendFacts
    <3> QED
      BY <1>1, <1>8, <2>2, <3>2
  <2>3. CASE ~(todo > 0) /\ c2.status # "completed"
    BY <1>1, <1>5, <1>7, <1>8, <2>3
  <2> QED
    BY <2>1, <2>2, <2>3
<1>10. /\ io' \in [Ops -> Completions]
       /\ io'[op] = IF again THEN Pending ELSE Idle
       /\ io'[<<"recv", y>>] = IF posted THEN Pending ELSE io[<<"recv", y>>]
       /\ \A o \in Ops \ A : io'[o] = io[o]
  <2> HIDE DEF posted, again
  <2> QED
    BY <1>1, <1>2, <1>5 DEF Completions
<1>11. Posts(op) \/ Ends(op)
  BY <1>9, <1>10, CompletionFacts DEF Posts, Ends
<1>12. Posts(<<"recv", y>>) \/ Keeps(<<"recv", y>>) \/ Ends(<<"recv", y>>)
  <2>1. rearm => io[<<"recv", y>>] = Idle
    BY <1>1 DEF IInv, RecvsOutstanding, Outstanding, Length
  <2>2. k > 0
    BY <1>3 DEF k
  <2> HIDE DEF rearm
  <2> QED
    BY <1>1, <1>7, <1>9, <1>10, <2>1, <2>2, CompletionFacts
       DEF Posts, Keeps, Ends
<1>13. \A o \in Ops \ A : \/ Keeps(o)
                          \/ /\ o = <<"send", "remote">> /\ Clears(o)
                             /\ conn'.status = "completed"
  BY <1>1, <1>7, <1>9, <1>10 DEF Keeps, Clears
<1>14. Handles /\ Changes(A)
  BY <1>2, <1>9, <1>10, <1>11, <1>12, <1>13 DEF Handles, Changes
<1>15. phase # "negotiating" /\ (phase = "starting" => x = "remote")
  BY <1>1, <1>3, HandledOps, SidesFacts DEF Other
<1> QED
  BY <1>1, <1>14, <1>15, HandlersKeepIInv, SidesFacts DEF Other

\* The completion callback of a failed operation.
LEMMA DispatchFailureStep ==
  ASSUME IInv, NEW op \in Ops, DispatchFailure(op)
  PROVE  IInv'
<1>1. PICK a \in {"recv", "send"}, x \in Sides : op = <<a, x>>
  BY DEF Ops
<1>2. /\ conn \in Conns /\ io \in [Ops -> Completions] /\ Paired(conn)
      /\ io[op] # Idle /\ ~removed /\ UNCHANGED <<phase, swept, removed>>
  BY CompletionFacts DEF IInv, Shape, DispatchFailure
<1>3. /\ conn' \in Conns /\ Paired(conn') /\ conn'.status = "completed"
      /\ \A o \in Ops : Length(conn', o) = IF o = op THEN 0 ELSE Length(conn, o)
  <2>1. CASE a = "recv"
    BY <1>1, <1>2, <2>1, CloseRecvFacts DEF DispatchFailure
  <2>2. CASE a = "send"
    BY <1>1, <1>2, <2>2, CloseSendFacts DEF DispatchFailure
  <2> QED
    BY <2>1, <2>2
<1>4. /\ io' \in [Ops -> Completions] /\ io'[op] = Idle
      /\ \A o \in Ops \ {op} : io'[o] = io[o]
  BY <1>2 DEF DispatchFailure, Completions
<1>5. Handles /\ Changes({op})
  BY <1>2, <1>3, <1>4 DEF Handles, Changes, Keeps, Ends
<1>6. /\ phase # "negotiating"
      /\ phase = "starting" => op # <<"recv", "remote">>
                               /\ op # <<"send", "local">>
  BY <1>2 DEF IInv, PhaseInv
<1> QED
  BY <1>5, <1>6, HandlersKeepIInv
-----------------------------------------------------------------------------
\* The kernel gives an operation a result; it stays outstanding.
LEMMA KernelStep ==
  ASSUME IInv, NEW op \in Ops, KernelCompletes(op) \/ KernelFails(op)
  PROVE  IInv'
<1>1. /\ io \in [Ops -> Completions] /\ io[op] # Idle
      /\ UNCHANGED <<conn, phase, swept, removed>>
  BY CompletionFacts DEF IInv, Shape, KernelCompletes, KernelFails
<1>2. PICK e \in Completions : e # Idle /\ io' = [io EXCEPT ![op] = e]
  <2>1. CASE KernelCompletes(op)
    <3>1. PICK k \in 1 .. Length(conn, op) : io' = [io EXCEPT ![op] = Done(k)]
      BY <2>1 DEF KernelCompletes
    <3>2. k \in Nat \ {0}
      BY LengthType DEF IInv, Shape
    <3> QED
      BY <3>1, <3>2, CompletionFacts
  <2>2. CASE KernelFails(op)
    BY <2>2, CompletionFacts DEF KernelFails, Completions
  <2> QED
    BY <2>1, <2>2
<1>3. /\ io' \in [Ops -> Completions]
      /\ \A o \in Ops : io'[o] = Idle <=> io[o] = Idle
  BY <1>1, <1>2
<1>4. Shape' /\ Paired(conn)' /\ Erased'
  BY <1>1, <1>3 DEF IInv, Shape, Erased
<1>5. NeverPostedTwice' /\ RecvsOutstanding' /\ LocalSendOutstanding'
  BY <1>1, <1>3, SidesFacts DEF IInv, NeverPostedTwice, RecvsOutstanding,
                                LocalSendOutstanding, Outstanding
<1>6. PhaseInv'
  BY <1>1, <1>3, SidesFacts DEF IInv, PhaseInv, Meant
<1> QED
  BY <1>4, <1>5, <1>6 DEF IInv

\* The negotiation fails, or one of its requests.
LEMMA NegotiationStep ==
  ASSUME IInv, NegotiationFails \/ RequestFails
  PROVE  IInv'
<1>1. /\ conn \in Conns /\ Paired(conn) /\ "remote" \in Sides
      /\ phase = "negotiating" /\ ~removed /\ UNCHANGED <<io, swept, removed>>
      /\ \/ phase' = "over"
         \/ phase' = "negotiating" /\ conn' = CloseClient(conn, FALSE, "remote")
  BY SidesFacts DEF IInv, Shape, NegotiationFails, RequestFails
<1>2. /\ conn' \in Conns /\ Paired(conn') /\ conn'.status = "completed"
  BY <1>1, CloseRecvFacts, CloseSendFacts DEF NegotiationFails, RequestFails
<1>3. \A op \in Ops : io[op] = Idle
  BY <1>1 DEF IInv, PhaseInv
<1>4. PhaseInv'
  <2>1. CASE phase' = "over"
    BY <2>1 DEF PhaseInv
  <2>2. CASE phase' = "negotiating" /\ conn' = CloseClient(conn, FALSE, "remote")
    <3>1. \A op \in Ops : Length(conn', op) =
             IF op = <<"send", "remote">> THEN 0 ELSE Length(conn, op)
      BY <1>1, <2>2, CloseSendFacts
    <3> QED
      BY <1>1, <1>3, <2>2, <3>1, SidesFacts DEF IInv, PhaseInv
  <2> QED
    BY <1>1, <2>1, <2>2
<1>5. Shape' /\ Paired(conn)' /\ Erased'
  BY <1>1, <1>2 DEF IInv, Shape, Erased
<1>6. NeverPostedTwice' /\ RecvsOutstanding' /\ LocalSendOutstanding'
  BY <1>1, <1>3, SidesFacts DEF NeverPostedTwice, RecvsOutstanding,
                                LocalSendOutstanding, Outstanding
<1> QED
  BY <1>4, <1>5, <1>6 DEF IInv

\* start_data_relay posts the local receive, or closes the connection.
LEMMA StartLocalStep ==
  ASSUME IInv, StartLocal
  PROVE  IInv'
<1> DEFINE op == <<"recv", "local">>
<1>1. /\ conn \in Conns /\ Paired(conn) /\ io \in [Ops -> Completions]
      /\ phase = "negotiating" /\ ~removed /\ UNCHANGED <<swept, removed>>
      /\ \A o \in Ops : io[o] = Idle
  BY DEF IInv, Shape, PhaseInv, StartLocal
<1>2. PICK ok \in BOOLEAN :
        LET c == PostRecv(conn, "local", ok)
        IN IF Accepted(conn, "local", ok)
           THEN /\ io' = [io EXCEPT ![op] = Pending]
                /\ phase' = "starting"
                /\ UNCHANGED conn
           ELSE /\ conn' = [c EXCEPT !.recv["remote"].len = 0]
                /\ phase' = "over"
                /\ UNCHANGED io
  BY DEF StartLocal
<1>3. CASE Accepted(conn, "local", ok)
  <2>1. /\ io' = [io EXCEPT ![op] = Pending]
        /\ phase' = "starting" /\ conn' = conn
    BY <1>2, <1>3
  <2>2. /\ io' \in [Ops -> Completions] /\ io'[op] # Idle
        /\ \A o \in Ops \ {op} : io'[o] = Idle
    BY <1>1, <2>1, SidesFacts, CompletionFacts DEF Completions
  <2>3. Shape' /\ Paired(conn)' /\ Erased'
    BY <1>1, <2>1, <2>2 DEF IInv, Shape, Erased
  <2>4. /\ \A x \in Sides : /\ Length(conn', <<"recv", x>>) > 0
                            /\ Length(conn', <<"send", x>>) = 0
    BY <1>1, <2>1 DEF IInv, PhaseInv
  <2>5. \A o \in Ops : Outstanding(o)'
    BY <2>2, <2>4, SidesFacts DEF Outstanding
  <2>6. NeverPostedTwice' /\ RecvsOutstanding' /\ LocalSendOutstanding'
    BY <2>5, SidesFacts DEF NeverPostedTwice, RecvsOutstanding,
                            LocalSendOutstanding, Outstanding
  <2>7. PhaseInv'
    BY <2>1, <2>2, <2>4, SidesFacts DEF PhaseInv, Meant
  <2> QED
    BY <2>3, <2>6, <2>7 DEF IInv
<1>4. CASE ~Accepted(conn, "local", ok)
  <2> DEFINE c == PostRecv(conn, "local", ok)
             w == [buf |-> c.recv["remote"].buf, len |-> 0]
  <2>1. /\ conn' = [c EXCEPT !.recv["remote"].len = 0]
        /\ phase' = "over" /\ io' = io
    BY <1>2, <1>4
  <2>2. c \in Conns /\ Paired(c) /\ c.status = "completed"
    BY <1>1, <1>4, PostRecvFacts, SidesFacts
  <2> HIDE DEF c
  <2>3. w \in [buf : Int, len : Int] /\ conn' = [c EXCEPT !.recv["remote"] = w]
    <3>1. c.recv["remote"] \in [buf : Int, len : Int]
      BY <2>2, SidesFacts DEF Conns, Wsabufs
    <3>2. [c.recv["remote"] EXCEPT !.len = 0] = w
      BY <3>1
    <3> QED
      BY <2>1, <3>1, <3>2
  <2> HIDE DEF w
  <2>4. conn' \in Conns /\ conn'.sock = c.sock /\ conn'.status = c.status
    BY <2>2, <2>3, SetRecvFacts, SidesFacts
  <2>5. Shape' /\ Paired(conn)' /\ Erased'
    BY <1>1, <2>1, <2>2, <2>4 DEF IInv, Shape, Erased, Paired
  <2>6. NeverPostedTwice' /\ RecvsOutstanding' /\ LocalSendOutstanding'
    BY <1>1, <2>1, SidesFacts DEF NeverPostedTwice, RecvsOutstanding,
                                  LocalSendOutstanding, Outstanding
  <2>7. PhaseInv'
    BY <2>1 DEF PhaseInv
  <2> QED
    BY <2>5, <2>6, <2>7 DEF IInv
<1> QED
  BY <1>3, <1>4

\* It posts the remote receive, or closes the connection, which its other
\* operations may still use.
LEMMA StartRemoteStep ==
  ASSUME IInv, StartRemote
  PROVE  IInv'
<1> DEFINE op == <<"recv", "remote">>
<1>1. /\ conn \in Conns /\ Paired(conn) /\ io \in [Ops -> Completions]
      /\ phase = "starting" /\ ~removed /\ UNCHANGED <<swept, removed>>
      /\ op \in Ops /\ "remote" \in Sides
  BY SidesFacts DEF IInv, Shape, StartRemote
<1>2. /\ io[op] = Idle /\ Length(conn, op) > 0
      /\ \A o \in Ops : o # op => Meant(o)
  BY <1>1 DEF IInv, PhaseInv
<1>3. PICK ok \in BOOLEAN :
        IF Accepted(conn, "remote", ok)
        THEN /\ io' = [io EXCEPT ![op] = Pending]
             /\ phase' = "relaying"
             /\ UNCHANGED conn
        ELSE /\ conn' = CloseClient(conn, TRUE, "remote")
             /\ phase' = "over"
             /\ UNCHANGED io
  BY DEF StartRemote
<1>4. CASE Accepted(conn, "remote", ok)
  <2>1. /\ io' = [io EXCEPT ![op] = Pending]
        /\ phase' = "relaying" /\ conn' = conn
    BY <1>3, <1>4
  <2>2. /\ io' \in [Ops -> Completions] /\ io'[op] # Idle
        /\ \A o \in Ops \ {op} : io'[o] = io[o]
    BY <1>1, <2>1, CompletionFacts DEF Completions
  <2>3. Shape' /\ Paired(conn)' /\ Erased'
    BY <1>1, <2>1, <2>2 DEF IInv, Shape, Erased
  <2>4. NeverPostedTwice' /\ RecvsOutstanding' /\ LocalSendOutstanding'
    BY <1>1, <1>2, <2>1, <2>2, SidesFacts
       DEF IInv, NeverPostedTwice, RecvsOutstanding, LocalSendOutstanding,
           Outstanding
  <2>5. PhaseInv'
    BY <1>2, <2>1, <2>2 DEF PhaseInv, Meant
  <2> QED
    BY <2>3, <2>4, <2>5 DEF IInv
<1>5. CASE ~Accepted(conn, "remote", ok)
  <2>1. /\ conn' = CloseClient(conn, TRUE, "remote")
        /\ phase' = "over" /\ io' = io
    BY <1>3, <1>5
  <2>2. /\ conn' \in Conns /\ Paired(conn') /\ conn'.status = "completed"
        /\ \A o \in Ops \ {op} : Length(conn', o) = Length(conn, o)
    BY <1>1, <2>1, CloseRecvFacts
  <2>3. Shape' /\ Paired(conn)' /\ Erased'
    BY <1>1, <2>1, <2>2 DEF IInv, Shape, Erased
  <2>4. NeverPostedTwice' /\ RecvsOutstanding' /\ LocalSendOutstanding'
    BY <1>1, <1>2, <2>1, <2>2, SidesFacts
       DEF IInv, NeverPostedTwice, RecvsOutstanding, LocalSendOutstanding,
           Outstanding
  <2>5. PhaseInv'
    BY <2>1 DEF PhaseInv
  <2> QED
    BY <2>3, <2>4, <2>5 DEF IInv
<1> QED
  BY <1>4, <1>5

\* The sweep closes the connection, or clears the receive lengths of one that
\* is closed, and of which nothing is outstanding.
LEMMA SweepStep ==
  ASSUME IInv, Sweep
  PROVE  IInv'
<1>1. /\ conn \in Conns /\ Paired(conn) /\ io \in [Ops -> Completions]
      /\ "local" \in Sides /\ "remote" \in Sides
      /\ ~removed /\ swept' = TRUE /\ UNCHANGED <<io, phase, removed>>
      /\ phase # "starting" /\ (Closed(conn) => phase # "negotiating")
      /\ Closed(conn) => \A op \in Ops : io[op] = Idle
  BY SidesFacts DEF IInv, Shape, Sweep, Quiet
<1>2. CASE Closed(conn)
  <2> DEFINE c == CloseClient(conn, TRUE, "local")
  <2>1. conn' = CloseClient(c, TRUE, "remote")
    BY <1>2 DEF Sweep
  <2>2. /\ c \in Conns /\ Paired(c)
        /\ \A op \in Ops : Length(c, op) =
             IF op = <<"recv", "local">> THEN 0 ELSE Length(conn, op)
    BY <1>1, CloseRecvFacts
  <2> HIDE DEF c
  <2>3. /\ conn' \in Conns /\ Paired(conn') /\ conn'.status = "completed"
        /\ \A op \in Ops : Length(conn', op) =
             IF op = <<"recv", "remote">> THEN 0 ELSE Length(c, op)
    BY <1>1, <2>1, <2>2, CloseRecvFacts
  <2>4. \A op \in Ops : Length(conn', op) = 0 \/ Length(conn', op) = Length(conn, op)
    BY <2>2, <2>3
  <2>5. Shape' /\ Paired(conn)' /\ Erased'
    BY <1>1, <2>3 DEF IInv, Shape, Erased
  <2>6. NeverPostedTwice' /\ RecvsOutstanding' /\ LocalSendOutstanding'
    BY <1>1, <1>2, <2>3, SidesFacts
       DEF NeverPostedTwice, RecvsOutstanding, LocalSendOutstanding, Outstanding
  <2>7. PhaseInv'
    BY <1>1, <1>2, <2>4 DEF IInv, PhaseInv, Meant
  <2> QED
    BY <2>5, <2>6, <2>7 DEF IInv
<1>3. CASE ~Closed(conn)
  <2> DEFINE c == CloseClient(conn, FALSE, "local")
  <2>1. conn' = CloseClient(c, FALSE, "remote")
    BY <1>3 DEF Sweep
  <2>2. /\ c \in Conns /\ Paired(c)
        /\ \A op \in Ops : Length(c, op) =
             IF op = <<"send", "local">> THEN 0 ELSE Length(conn, op)
    BY <1>1, CloseSendFacts
  <2> HIDE DEF c
  <2>3. /\ conn' \in Conns /\ Paired(conn') /\ conn'.status = "completed"
        /\ \A op \in Ops : Length(conn', op) =
             IF op = <<"send", "remote">> THEN 0 ELSE Length(c, op)
    BY <1>1, <2>1, <2>2, CloseSendFacts
  <2>4. \A op \in Ops : \/ Length(conn', op) = 0 /\ op[1] = "send"
                        \/ Length(conn', op) = Length(conn, op)
    BY <2>2, <2>3
  <2>5. Shape' /\ Paired(conn)' /\ Erased'
    BY <1>1, <2>3 DEF IInv, Shape, Erased
  <2>6. NeverPostedTwice' /\ RecvsOutstanding' /\ LocalSendOutstanding'
    BY <1>1, <2>3, <2>4, SidesFacts
       DEF IInv, NeverPostedTwice, RecvsOutstanding, LocalSendOutstanding,
           Outstanding
  <2>7. PhaseInv'
    BY <1>1, <2>2, <2>3, <2>4, SidesFacts DEF IInv, PhaseInv, Meant
  <2> QED
    BY <2>5, <2>6, <2>7 DEF IInv
<1> QED
  BY <1>2, <1>3

\* clear_thread erases a connection whose sockets are closed and lengths zero.
LEMMA RemoveStep ==
  ASSUME IInv, Remove
  PROVE  IInv'
<1>1. removed' \in BOOLEAN /\ UNCHANGED <<conn, io, phase, swept>>
  BY DEF Remove
<1>2. Erased'
  BY <1>1 DEF Remove, Erased
<1> QED
  BY <1>1, <1>2 DEF IInv, Shape, NeverPostedTwice, RecvsOutstanding,
     LocalSendOutstanding, Outstanding, PhaseInv, Meant
-----------------------------------------------------------------------------
\* A connection that has just been adopted.
LEMMA InitIInv == Init => IInv
<1> SUFFICES ASSUME Init PROVE IInv
  OBVIOUS
<1>1. conn \in Conns /\ Paired(conn)
  BY BufferSizeAssumption DEF BufferSizeAssumption, Init, Conns, Wsabufs,
     NullPtr, Paired
<1>2. \A x \in Sides : /\ Length(conn, <<"recv", x>>) > 0
                       /\ Length(conn, <<"send", x>>) = 0
  BY BufferSizeAssumption DEF BufferSizeAssumption, Init, Length
<1>3. /\ \A op \in Ops : io[op] = Idle
      /\ io \in [Ops -> Completions] /\ phase = "negotiating" /\ ~removed
      /\ swept \in BOOLEAN /\ removed \in BOOLEAN
  BY DEF Init, Completions
<1> QED
  BY <1>1, <1>2, <1>3, SidesFacts
     DEF IInv, Shape, NeverPostedTwice, RecvsOutstanding,
         LocalSendOutstanding, Outstanding, PhaseInv, Erased

\* Every step preserves the invariant.
LEMMA NextIInv == IInv /\ [Next]_vars => IInv'
<1> SUFFICES ASSUME IInv, [Next]_vars PROVE IInv'
  OBVIOUS
<1>1. ASSUME NEW op \in Ops, KernelCompletes(op) \/ KernelFails(op)
      PROVE  IInv'
  BY <1>1, KernelStep
<1>2. ASSUME NEW op \in Ops, DispatchFailure(op) PROVE IInv'
  BY <1>2, DispatchFailureStep
<1>3. ASSUME NEW x \in Sides, ProcessReceive(x) PROVE IInv'
  BY <1>3, ProcessReceiveStep
<1>4. ASSUME NEW x \in Sides, ProcessSend(x) PROVE IInv'
  BY <1>4, ProcessSendStep
<1>5. CASE RequestFails \/ NegotiationFails
  BY <1>5, NegotiationStep
<1>6. CASE StartLocal
  BY <1>6, StartLocalStep
<1>7. CASE StartRemote
  BY <1>7, StartRemoteStep
<1>8. CASE Sweep
  BY <1>8, SweepStep
<1>9. CASE Remove
  BY <1>9, RemoveStep
<1>10. CASE UNCHANGED vars
  BY <1>10 DEF vars, IInv, Shape, NeverPostedTwice, RecvsOutstanding,
     LocalSendOutstanding, Outstanding, PhaseInv, Meant, Erased
<1> QED
  BY <1>1, <1>2, <1>3, <1>4, <1>5, <1>6, <1>7, <1>8, <1>9, <1>10 DEF Next

\* Throughout the life of a connection, a length that is zero means that the
\* operation is not outstanding, as far as the sweep relies on it.
THEOREM ConnectionInvariant == Spec => []IInv
BY InitIInv, NextIInv, PTL DEF Spec

\* The sweep destroys a tcp_proxy_socket only when neither its receives nor, if
\* the sweep has not closed it, its local send are outstanding, and when no
\* thread is or will be in start_data_relay.
THEOREM ConnectionRemovedWhenUnused == Spec => []RemovedWhenUnused
<1>1. IInv => RemovedWhenUnused
  <2> SUFFICES ASSUME IInv, removed PROVE RemovedWhenUnused
    BY DEF RemovedWhenUnused
  <2>1. \A op \in Ops : Length(conn, op) = 0
    BY DEF IInv, Erased, AllLengthsZero
  <2>2. /\ \A x \in Sides : io[<<"recv", x>>] = Idle
        /\ ~swept => io[<<"send", "local">>] = Idle
    BY <2>1, SidesFacts DEF IInv, RecvsOutstanding, LocalSendOutstanding,
                            Outstanding
  <2>3. phase \notin {"negotiating", "starting"}
    BY <2>1, SidesFacts DEF IInv, PhaseInv
  <2> QED
    BY <2>2, <2>3 DEF RemovedWhenUnused
<1> QED
  BY <1>1, ConnectionInvariant, PTL

\* While a connection relays, the lengths of its WSABUFs are nonzero exactly for
\* the operations that are outstanding, as far as the handlers rely on it.
THEOREM ConnectionLengthsTell == Spec => []LengthsTell
<1>1. IInv => LengthsTell
  BY DEF IInv, PhaseInv, Meant, LengthsTell, LengthMeansOutstanding
<1> QED
  BY <1>1, ConnectionInvariant, PTL
-----------------------------------------------------------------------------
\* The WSABUF of an operation, and that one with its length possibly cleared,
\* which is all close_client does to it.
Wsabuf(c, op) == IF op[1] = "recv" THEN c.recv[op[2]] ELSE c.send[op[2]]
Cut(v, w) == v.buf = w.buf /\ v.len \in {0, w.len}

\* A WSABUF inside the buffer, and the bytes of its completion with it.  A
\* send has none before the first receive.
Placed(w) == w.buf \in Cells /\ w.len \in Nat /\ w.buf + w.len =< BufferSize
Fits(op, w, e) ==
    \/ Placed(w) /\ (e.st = "done" => w.buf + e.n =< BufferSize)
    \/ op[1] = "send" /\ w.buf = NullPtr /\ w.len = 0 /\ e = Idle

InBuffer == \A op \in Ops : Fits(op, Wsabuf(conn, op), io[op])

\* Clearing a length takes nothing out of the buffer.
LEMMA CutPlaced ==
  ASSUME NEW w, NEW v, Placed(w), Cut(v, w)
  PROVE  Placed(v)
<1>1. v.buf = w.buf /\ (v.len = 0 \/ v.len = w.len)
  BY DEF Cut
<1> QED
  BY <1>1, BufferSizeAssumption DEF BufferSizeAssumption, Placed, Cells

\* What has completed is still there.
LEMMA CutFits ==
  ASSUME NEW op, NEW w, NEW v, NEW e, Fits(op, w, e), Cut(v, w)
  PROVE  Fits(op, v, e)
<1>1. v.buf = w.buf /\ (v.len = 0 \/ v.len = w.len)
  BY DEF Cut
<1>2. CASE Placed(w) /\ (e.st = "done" => w.buf + e.n =< BufferSize)
  BY <1>1, <1>2, CutPlaced DEF Fits
<1>3. CASE op[1] = "send" /\ w.buf = NullPtr /\ w.len = 0 /\ e = Idle
  BY <1>1, <1>3 DEF Fits
<1> QED
  BY <1>2, <1>3 DEF Fits

\* What is inside the buffer may be posted, or left alone.
LEMMA PlacedFits ==
  ASSUME NEW op, NEW w, NEW v, NEW e, Placed(w), Cut(v, w), e.st # "done"
  PROVE  Fits(op, v, e)
BY CutPlaced DEF Fits

\* close_client moves no WSABUF.
LEMMA CloseClientCuts ==
  ASSUME NEW c \in Conns, NEW b \in BOOLEAN, NEW x \in Sides, NEW op \in Ops
  PROVE  Cut(Wsabuf(CloseClient(c, b, x), op), Wsabuf(c, op))
<1> DEFINE d == CloseClient(c, b, x)
           R == [c.recv EXCEPT ![x].len = IF b THEN 0 ELSE c.recv[x].len]
           S == [c.send EXCEPT ![x].len = IF b THEN c.send[x].len ELSE 0]
<1>1. c.recv \in Wsabufs /\ c.send \in Wsabufs
  BY DEF Conns
<1>2. d.recv = R /\ d.send = S
  BY DEF CloseClient, Conns
<1>3. \A y \in Sides : Cut(R[y], c.recv[y]) /\ Cut(S[y], c.send[y])
  BY <1>1 DEF Wsabufs, Cut
<1> HIDE DEF d, R, S
<1>4. PICK a \in {"recv", "send"}, y \in Sides : op = <<a, y>>
  BY DEF Ops
<1>5. Cut(Wsabuf(d, op), Wsabuf(c, op))
  BY <1>2, <1>3, <1>4 DEF Wsabuf
<1> QED
  BY <1>5 DEF d

\* Neither does posting one.
LEMMA PostCuts ==
  ASSUME NEW c \in Conns, NEW ok \in BOOLEAN, NEW x \in Sides, NEW op \in Ops
  PROVE  /\ Cut(Wsabuf(PostRecv(c, x, ok), op), Wsabuf(c, op))
         /\ Cut(Wsabuf(PostSend(c, x, ok), op), Wsabuf(c, op))
<1>1. Cut(Wsabuf(c, op), Wsabuf(c, op))
  BY DEF Cut
<1> QED
  BY <1>1, CloseClientCuts DEF PostRecv, PostSend

\* Cutting twice is cutting.
LEMMA CutTwice ==
  ASSUME NEW u, NEW v, NEW w, Cut(u, v), Cut(v, w)
  PROVE  Cut(u, w)
BY DEF Cut

\* A handler sets one WSABUF.
SetRecv(c, x, w) == [c EXCEPT !.recv[x] = w]
SetSend(c, x, w) == [c EXCEPT !.send[x] = w]

LEMMA SetWsabuf ==
  ASSUME NEW c \in Conns, NEW x \in Sides, NEW w, NEW op \in Ops
  PROVE  /\ Wsabuf(SetRecv(c, x, w), op) =
              IF op = <<"recv", x>> THEN w ELSE Wsabuf(c, op)
         /\ Wsabuf(SetSend(c, x, w), op) =
              IF op = <<"send", x>> THEN w ELSE Wsabuf(c, op)
<1>1. PICK a \in {"recv", "send"}, y \in Sides : op = <<a, y>>
  BY DEF Ops
<1> QED
  BY <1>1 DEF Wsabuf, Conns, Wsabufs, SetRecv, SetSend

\* The next receive and the next send stay inside the buffer.
LEMMA NextPlaced ==
  /\ \A r \in 1 .. BufferSize, s \in Cells :
       Placed([buf |-> RecvPos(r, s), len |-> RecvLen(r, s)])
  /\ \A s \in 1 .. BufferSize, r \in Cells :
       Placed([buf |-> SendPos(s), len |-> SendLen(SendPos(s), r)])
BY BufferSizeAssumption
   DEF BufferSizeAssumption, Placed, Cells, RecvPos, RecvLen, SendPos, SendLen
-----------------------------------------------------------------------------
\* Steps that move no WSABUF and end, or post again, what has a place.
LEMMA CutStep ==
  ASSUME InBuffer,
         \A op \in Ops : /\ Cut(Wsabuf(conn', op), Wsabuf(conn, op))
                         /\ \/ io'[op] = io[op]
                            \/ /\ io'[op].st # "done"
                               /\ op[1] = "recv" \/ io[op] # Idle
  PROVE  InBuffer'
<1> SUFFICES ASSUME NEW op \in Ops PROVE Fits(op, Wsabuf(conn', op), io'[op])
  BY DEF InBuffer
<1>1. Fits(op, Wsabuf(conn, op), io[op]) /\ Cut(Wsabuf(conn', op), Wsabuf(conn, op))
  BY DEF InBuffer
<1>2. CASE io'[op] = io[op]
  BY <1>1, <1>2, CutFits
<1>3. CASE io'[op].st # "done" /\ (op[1] = "recv" \/ io[op] # Idle)
  <2>1. Placed(Wsabuf(conn, op))
    BY <1>1, <1>3 DEF Fits
  <2> QED
    BY <1>1, <1>3, <2>1, PlacedFits
<1> QED
  BY <1>2, <1>3

\* Everything but the data handlers and a completion.
LEMMA QuietSteps ==
  ASSUME IInv, InBuffer,
         \/ \E op \in Ops : KernelFails(op) \/ DispatchFailure(op)
         \/ RequestFails \/ NegotiationFails \/ StartLocal \/ StartRemote
         \/ Sweep \/ Remove \/ UNCHANGED vars
  PROVE  InBuffer'
<1>1. conn \in Conns /\ Paired(conn) /\ io \in [Ops -> Completions]
  BY DEF IInv, Shape
<1>2. \A c, op : Cut(Wsabuf(c, op), Wsabuf(c, op))
  BY DEF Cut
<1>3. /\ Idle.st # "done" /\ Pending.st # "done" /\ Failed.st # "done"
      /\ Idle.st = "idle"
  BY DEF Idle, Pending, Failed
<1>4. ASSUME NEW op \in Ops, KernelFails(op) PROVE InBuffer'
  <2>1. conn' = conn /\ io' = [io EXCEPT ![op] = Failed] /\ io[op] # Idle
    BY <1>3, <1>4 DEF KernelFails
  <2>2. \A o \in Ops : io'[o] = io[o] \/ (io'[o].st # "done" /\ io[o] # Idle)
    BY <1>1, <1>3, <2>1
  <2> QED
    BY <1>2, <2>1, <2>2, CutStep
<1>5. ASSUME NEW op \in Ops, DispatchFailure(op) PROVE InBuffer'
  <2>1. /\ conn' = CloseClient(conn, op[1] = "recv", op[2])
        /\ io' = [io EXCEPT ![op] = Idle] /\ io[op] # Idle
    BY <1>3, <1>5 DEF DispatchFailure
  <2>2. \A o \in Ops : io'[o] = io[o] \/ (io'[o].st # "done" /\ io[o] # Idle)
    BY <1>1, <1>3, <2>1
  <2>3. op[2] \in Sides /\ (op[1] = "recv") \in BOOLEAN
    BY DEF Ops
  <2>4. \A o \in Ops : Cut(Wsabuf(conn', o), Wsabuf(conn, o))
    BY <1>1, <2>1, <2>3, CloseClientCuts
  <2> QED
    BY <2>2, <2>4, CutStep
<1>6. CASE RequestFails \/ NegotiationFails
  <2>1. /\ io' = io
        /\ \E b \in BOOLEAN : conn' = CloseClient(conn, b, "remote")
    BY <1>6 DEF RequestFails, NegotiationFails
  <2>2. \A o \in Ops : Cut(Wsabuf(conn', o), Wsabuf(conn, o))
    BY <1>1, <2>1, CloseClientCuts, SidesFacts
  <2> QED
    BY <2>1, <2>2, CutStep
<1>7. CASE StartLocal
  <2>1. PICK ok \in BOOLEAN :
          IF Accepted(conn, "local", ok)
          THEN io' = [io EXCEPT ![<<"recv", "local">>] = Pending] /\ conn' = conn
          ELSE /\ conn' = [PostRecv(conn, "local", ok) EXCEPT
                             !.recv["remote"].len = 0]
               /\ io' = io
    BY <1>7 DEF StartLocal
  <2>2. CASE Accepted(conn, "local", ok)
    <3>1. \A o \in Ops : io'[o] = io[o] \/ (io'[o].st # "done" /\ o[1] = "recv")
      BY <1>1, <1>3, <2>1, <2>2
    <3> QED
      BY <1>2, <2>1, <2>2, <3>1, CutStep
  <2>3. CASE ~Accepted(conn, "local", ok)
    <3> DEFINE c == PostRecv(conn, "local", ok)
               w == [c.recv["remote"] EXCEPT !.len = 0]
    <3>1. c \in Conns /\ \A o \in Ops : Cut(Wsabuf(c, o), Wsabuf(conn, o))
      BY <1>1, PostRecvFacts, PostCuts, SidesFacts
    <3> HIDE DEF c
    <3>2. /\ conn' = [c EXCEPT !.recv["remote"] = w]
          /\ Cut(w, c.recv["remote"])
      BY <2>1, <2>3, <3>1, SidesFacts DEF c, Conns, Wsabufs, Cut
    <3> HIDE DEF w
    <3>3. \A o \in Ops : Cut(Wsabuf(conn', o), Wsabuf(c, o))
      <4> SUFFICES ASSUME NEW o \in Ops PROVE Cut(Wsabuf(conn', o), Wsabuf(c, o))
        OBVIOUS
      <4>1. Wsabuf(conn', o) = IF o = <<"recv", "remote">> THEN w ELSE Wsabuf(c, o)
        <5>1. "remote" \in Sides /\ c \in Conns
          BY <3>1, SidesFacts
        <5>2. Wsabuf(SetRecv(c, "remote", w), o) =
                IF o = <<"recv", "remote">> THEN w ELSE Wsabuf(c, o)
          BY <5>1, SetWsabuf
        <5> QED
          BY <3>2, <5>2 DEF SetRecv
      <4>2. Wsabuf(c, <<"recv", "remote">>) = c.recv["remote"]
        BY DEF Wsabuf
      <4> QED
        BY <1>2, <3>2, <4>1, <4>2
    <3> QED
      BY <2>1, <2>3, <3>1, <3>3, CutTwice, CutStep
  <2> QED
    BY <2>2, <2>3
<1>8. CASE StartRemote
  <2>1. \/ io' = [io EXCEPT ![<<"recv", "remote">>] = Pending] /\ conn' = conn
        \/ conn' = CloseClient(conn, TRUE, "remote") /\ io' = io
    BY <1>8 DEF StartRemote
  <2>2. ASSUME NEW o \in Ops
        PROVE  io'[o] = io[o] \/ (io'[o].st # "done" /\ o[1] = "recv")
    <3>1. CASE o = <<"recv", "remote">>
      <4>1. o[1] = "recv"
        BY <3>1
      <4>2. io'[o] \in {io[o], Pending}
        BY <1>1, <2>1, <3>1
      <4> QED
        BY <1>3, <4>1, <4>2
    <3>2. CASE o # <<"recv", "remote">>
      BY <1>1, <2>1, <3>2
    <3> QED
      BY <3>1, <3>2
  <2>3. \A o \in Ops : Cut(Wsabuf(conn', o), Wsabuf(conn, o))
    BY <1>1, <1>2, <2>1, CloseClientCuts, SidesFacts
  <2> QED
    BY <2>2, <2>3, CutStep
<1>9. CASE Sweep
  <2>1. /\ io' = io
        /\ \E b \in BOOLEAN :
             conn' = CloseClient(CloseClient(conn, b, "local"), b, "remote")
    BY <1>9 DEF Sweep
  <2>2. PICK b \in BOOLEAN :
             conn' = CloseClient(CloseClient(conn, b, "local"), b, "remote")
    BY <2>1
  <2> DEFINE c == CloseClient(conn, b, "local")
  <2>3. c \in Conns /\ \A o \in Ops : Cut(Wsabuf(c, o), Wsabuf(conn, o))
    BY <1>1, CloseClientFacts, CloseClientCuts, SidesFacts
  <2>4. conn' = CloseClient(c, b, "remote")
    BY <2>2
  <2> HIDE DEF c
  <2>5. \A o \in Ops : Cut(Wsabuf(conn', o), Wsabuf(c, o))
    BY <2>3, <2>4, CloseClientCuts, SidesFacts
  <2> QED
    BY <2>1, <2>3, <2>5, CutTwice, CutStep
<1>10. CASE Remove \/ UNCHANGED vars
  <2>1. io' = io /\ conn' = conn
    BY <1>10 DEF Remove, vars
  <2> QED
    BY <1>2, <2>1, CutStep
<1> QED
  BY <1>4, <1>5, <1>6, <1>7, <1>8, <1>9, <1>10

\* A completion has as many bytes as there was room for.
LEMMA CompletesInBuffer ==
  ASSUME IInv, InBuffer, NEW op \in Ops, KernelCompletes(op)
  PROVE  InBuffer'
<1>1. PICK k \in 1 .. Length(conn, op) : io' = [io EXCEPT ![op] = Done(k)]
  BY DEF KernelCompletes
<1>2. /\ conn' = conn /\ io[op] # Idle /\ Length(conn, op) \in Int
      /\ io \in [Ops -> Completions]
  BY LengthType DEF KernelCompletes, Idle, IInv, Shape
<1>3. Wsabuf(conn, op).len = Length(conn, op)
  BY DEF Wsabuf, Length, Ops
<1>4. Placed(Wsabuf(conn, op))
  BY <1>2 DEF InBuffer, Fits
<1>5. Fits(op, Wsabuf(conn, op), Done(k))
  <2> DEFINE w == Wsabuf(conn, op)
  <2>1. k \in Int /\ k =< w.len /\ Done(k).n = k
    BY <1>1, <1>2, <1>3 DEF Done
  <2>2. Placed(w)
    BY <1>4
  <2> HIDE DEF w
  <2>3. w.buf + Done(k).n =< BufferSize
    BY <2>1, <2>2, BufferSizeAssumption
       DEF BufferSizeAssumption, Placed, Cells
  <2>4. Fits(op, w, Done(k))
    BY <2>2, <2>3 DEF Fits
  <2> QED
    BY <2>4 DEF w
<1>6. \A o \in Ops : io'[o] = IF o = op THEN Done(k) ELSE io[o]
  BY <1>1, <1>2
<1> QED
  BY <1>2, <1>5, <1>6 DEF InBuffer

\* process_receive_buffer_complete: the data of the receive become the next
\* send, or follow it, and the next receive begins behind them.
LEMMA ReceiveInBuffer ==
  ASSUME IInv, InBuffer, NEW x \in Sides, ProcessReceive(x)
  PROVE  InBuffer'
<1> DEFINE y  == Other(x)
           op == <<"recv", x>>
           k  == io[op].n
<1>1. /\ y \in Sides /\ op \in Ops /\ <<"send", y>> \in Ops
      /\ op # <<"send", y>> /\ op[1] = "recv" /\ <<"send", y>>[1] = "send"
      /\ Wsabuf(conn, op) = conn.recv[x]
      /\ Wsabuf(conn, <<"send", y>>) = conn.send[y]
  BY SidesFacts DEF Wsabuf
<1>2. /\ conn \in Conns /\ io \in [Ops -> Completions] /\ Paired(conn)
      /\ io[op].st = "done" /\ k \in Nat \ {0}
  BY <1>1, CompletionFacts DEF IInv, Shape, ProcessReceive
<1>3. /\ Placed(conn.recv[x]) /\ conn.recv[x].buf + k =< BufferSize
      /\ conn.recv[x].buf \in Cells
  BY <1>1, <1>2 DEF InBuffer, Fits, Placed
<1>4. /\ Idle.st # "done" /\ Pending.st # "done" /\ Idle.st = "idle"
      /\ \A w : Cut(w, w)
  BY DEF Idle, Pending, Cut
<1>5. CASE conn.status = "completed"
  <2> DEFINE w == [conn.recv[x] EXCEPT !.len = 0]
  <2>1. /\ conn' = SetRecv(conn, x, w) /\ Cut(w, conn.recv[x])
        /\ io' = [io EXCEPT ![op] = Idle]
    BY <1>2, <1>5 DEF ProcessReceive, Conns, Wsabufs, Cut, SetRecv
  <2> HIDE DEF w
  <2>2. \A o \in Ops : Cut(Wsabuf(conn', o), Wsabuf(conn, o))
    BY <1>1, <1>2, <1>4, <2>1, SetWsabuf
  <2>3. \A o \in Ops : io'[o] = io[o] \/ (io'[o].st # "done" /\ io[o] # Idle)
    BY <1>2, <1>4, <2>1
  <2> QED
    BY <2>2, <2>3, CutStep
<1>6. CASE conn.status = "established"
  <2> DEFINE idle == conn.send[y].len = 0
             w1   == [buf |-> conn.recv[x].buf, len |-> k]
             c1   == SetSend(conn, y, w1)
  <2>1. PICK sendOk \in BOOLEAN, recvOk \in BOOLEAN :
           LET c2   == IF idle THEN PostSend(c1, y, sendOk) ELSE conn
               r    == c2.recv[x].buf + k
               s    == c2.send[y].buf
               c3   == SetRecv(c2, x, [buf |-> RecvPos(r, s), len |-> RecvLen(r, s)])
               room == RecvLen(r, s) > 0
           IN /\ conn' = IF room THEN PostRecv(c3, x, recvOk) ELSE c3
              /\ io' = [io EXCEPT
                   ![op] = IF room /\ Accepted(c3, x, recvOk)
                           THEN Pending ELSE Idle,
                   ![<<"send", y>>] = IF idle /\ Accepted(c1, y, sendOk)
                                      THEN Pending ELSE @]
    BY <1>6 DEF ProcessReceive, SetSend, SetRecv
  <2> DEFINE c2   == IF idle THEN PostSend(c1, y, sendOk) ELSE conn
             r    == c2.recv[x].buf + k
             s    == c2.send[y].buf
             w3   == [buf |-> RecvPos(r, s), len |-> RecvLen(r, s)]
             c3   == SetRecv(c2, x, w3)
             room == RecvLen(r, s) > 0
             posted == idle /\ Accepted(c1, y, sendOk)
             again  == room /\ Accepted(c3, x, recvOk)
  <2>2. /\ conn' = IF room THEN PostRecv(c3, x, recvOk) ELSE c3
        /\ io' = [io EXCEPT ![op] = IF again THEN Pending ELSE Idle,
                            ![<<"send", y>>] = IF posted THEN Pending ELSE @]
    BY <2>1
  <2>3. /\ w1 \in [buf : Int, len : Int] /\ Placed(w1)
        /\ w1.buf = conn.recv[x].buf
    BY <1>2, <1>3 DEF Placed, Conns, Wsabufs
  <2>4. /\ c1 \in Conns /\ Paired(c1)
        /\ \A o \in Ops : Wsabuf(c1, o) =
             IF o = <<"send", y>> THEN w1 ELSE Wsabuf(conn, o)
    <3> HIDE DEF w1
    <3>1. c1 \in Conns /\ c1.sock = conn.sock /\ c1.status = conn.status
      BY <1>1, <1>2, <2>3, SetSendFacts DEF SetSend
    <3> QED
      BY <1>1, <1>2, <3>1, SetWsabuf DEF Paired
  \* After the send.
  <2>5. /\ c2 \in Conns /\ Paired(c2)
        /\ \A o \in Ops \ {<<"send", y>>} : Cut(Wsabuf(c2, o), Wsabuf(conn, o))
        /\ IF idle THEN Cut(Wsabuf(c2, <<"send", y>>), w1)
                   ELSE Wsabuf(c2, <<"send", y>>) = Wsabuf(conn, <<"send", y>>)
    <3> HIDE DEF c1, w1
    <3>1. CASE idle
      <4>1. /\ PostSend(c1, y, sendOk) \in Conns
            /\ Paired(PostSend(c1, y, sendOk))
            /\ \A o \in Ops : Cut(Wsabuf(PostSend(c1, y, sendOk), o), Wsabuf(c1, o))
        BY <1>1, <2>4, PostSendFacts, PostCuts
      <4>2. c2 = PostSend(c1, y, sendOk)
        BY <3>1
      <4> HIDE DEF c2
      <4> QED
        BY <1>1, <2>4, <3>1, <4>1, <4>2
    <3>2. CASE ~idle
      BY <1>2, <1>4, <3>2
    <3> QED
      BY <3>1, <3>2
  <2> HIDE DEF c2
  <2>6. /\ Wsabuf(c2, op) = c2.recv[x] /\ Wsabuf(c2, <<"send", y>>) = c2.send[y]
        /\ Wsabuf(c2, op).buf = conn.recv[x].buf
    BY <1>1, <2>5 DEF Wsabuf, Cut
  <2>7. ~idle => Placed(conn.send[y])
    BY <1>1 DEF InBuffer, Fits
  <2>8. Placed(c2.send[y])
    <3>1. CASE idle
      BY <2>3, <2>5, <2>6, <3>1, CutPlaced
    <3>2. CASE ~idle
      BY <1>1, <2>5, <2>6, <2>7, <3>2
    <3> QED
      BY <3>1, <3>2
  <2>9. Placed(w3)
    <3>1. r \in 1 .. BufferSize /\ s \in Cells
      BY <1>2, <1>3, <2>6, <2>8, BufferSizeAssumption
         DEF BufferSizeAssumption, Placed, Cells
    <3> HIDE DEF r, s
    <3> QED
      BY <3>1, NextPlaced
  <2>10. /\ c3 \in Conns
         /\ \A o \in Ops : Wsabuf(c3, o) = IF o = op THEN w3 ELSE Wsabuf(c2, o)
    <3>1. w3 \in [buf : Int, len : Int]
      <4>1. /\ w3.buf \in Int /\ w3.len \in Int
            /\ w3 = [buf |-> w3.buf, len |-> w3.len]
        BY <2>9 DEF Placed, Cells
      <4> HIDE DEF w3
      <4> QED
        BY <4>1
    <3> HIDE DEF w3
    <3>2. c3 \in Conns
      BY <2>5, <3>1, SetRecvFacts DEF SetRecv
    <3> QED
      BY <1>1, <2>5, <3>2, SetWsabuf
  <2> HIDE DEF c3, w3, r, s
  \* After the receive.
  <2>11. \A o \in Ops : Cut(Wsabuf(conn', o), Wsabuf(c3, o))
    BY <1>4, <2>2, <2>10, PostCuts
  <2>12. /\ io'[op] = IF again THEN Pending ELSE Idle
         /\ io'[<<"send", y>>] = IF posted THEN Pending ELSE io[<<"send", y>>]
         /\ \A o \in Ops : o # op /\ o # <<"send", y>> => io'[o] = io[o]
    <3> HIDE DEF posted, again
    <3> QED
      BY <1>1, <1>2, <2>2
  <2>13. Fits(op, Wsabuf(conn', op), io'[op])
    <3>1. Cut(Wsabuf(conn', op), w3) /\ io'[op].st # "done"
      BY <1>1, <1>4, <2>10, <2>11, <2>12
    <3> QED
      BY <2>9, <3>1, PlacedFits
  <2>14. Fits(<<"send", y>>, Wsabuf(conn', <<"send", y>>), io'[<<"send", y>>])
    <3>1. Cut(Wsabuf(conn', <<"send", y>>), c2.send[y])
      BY <1>1, <2>6, <2>10, <2>11
    <3>2. CASE idle
      <4>1. io[<<"send", y>>] = Idle
        BY <1>1, <1>6, <3>2 DEF IInv, NeverPostedTwice, Length
      <4>2. io'[<<"send", y>>].st # "done"
        BY <1>4, <2>12, <4>1
      <4> QED
        BY <2>8, <3>1, <4>2, PlacedFits
    <3>3. CASE ~idle
      <4>1. Fits(<<"send", y>>, c2.send[y], io[<<"send", y>>])
        BY <1>1, <2>5, <2>6, <3>3 DEF InBuffer
      <4>2. io'[<<"send", y>>] = io[<<"send", y>>]
        BY <2>12, <3>3
      <4> QED
        BY <3>1, <4>1, <4>2, CutFits
    <3> QED
      BY <3>2, <3>3
  <2>15. ASSUME NEW o \in Ops, o # op, o # <<"send", y>>
         PROVE  Fits(o, Wsabuf(conn', o), io'[o])
    <3>1. Cut(Wsabuf(conn', o), Wsabuf(conn, o))
      BY <2>5, <2>10, <2>11, <2>15, CutTwice
    <3> QED
      BY <2>12, <2>15, <3>1, CutFits DEF InBuffer
  <2> QED
    BY <2>13, <2>14, <2>15 DEF InBuffer
<1> QED
  BY <1>2, <1>5, <1>6 DEF Conns

\* process_send_buffer_complete: a receive that had stopped gets the room the
\* send has made, and the next send begins behind what was sent.
LEMMA SendInBuffer ==
  ASSUME IInv, InBuffer, NEW x \in Sides, ProcessSend(x)
  PROVE  InBuffer'
<1> DEFINE y     == Other(x)
           op    == <<"send", x>>
           k     == io[op].n
           rearm == conn.status # "completed" /\ conn.recv[y].len = 0
           w1    == [buf |-> conn.send[x].buf, len |-> k]
           c1    == SetRecv(conn, y, w1)
<1>1. /\ y \in Sides /\ op \in Ops /\ <<"recv", y>> \in Ops
      /\ op # <<"recv", y>> /\ op[1] = "send" /\ <<"recv", y>>[1] = "recv"
      /\ Wsabuf(conn, op) = conn.send[x]
      /\ Wsabuf(conn, <<"recv", y>>) = conn.recv[y] /\ "remote" \in Sides
  BY SidesFacts DEF Wsabuf
<1>2. /\ conn \in Conns /\ io \in [Ops -> Completions] /\ Paired(conn)
      /\ io[op].st = "done" /\ k \in Nat \ {0} /\ io[op] # Idle
  BY <1>1, CompletionFacts DEF IInv, Shape, ProcessSend
<1>3. /\ Placed(conn.send[x]) /\ conn.send[x].buf + k =< BufferSize
      /\ conn.send[x].buf \in Cells
  BY <1>1, <1>2 DEF InBuffer, Fits, Placed
<1>4. /\ Idle.st # "done" /\ Pending.st # "done"
      /\ \A w : Cut(w, w)
  BY DEF Idle, Pending, Cut
<1>5. Placed(conn.recv[y])
  BY <1>1 DEF InBuffer, Fits
<1>6. PICK sendOk \in BOOLEAN, recvOk \in BOOLEAN :
         LET c2   == IF rearm THEN PostRecv(c1, y, recvOk) ELSE conn
             s    == SendPos(conn.send[x].buf + k)
             todo == SendLen(s, c2.recv[y].buf)
             c3   == SetSend(c2, x, [buf |-> s, len |-> todo])
         IN /\ conn' = IF todo > 0 THEN PostSend(c3, x, sendOk)
                       ELSE IF c2.status = "completed"
                            THEN CloseClient(c3, FALSE, "remote")
                            ELSE c3
            /\ io' = [io EXCEPT
                 ![op] = IF todo > 0 /\ Accepted(c3, x, sendOk)
                         THEN Pending ELSE Idle,
                 ![<<"recv", y>>] = IF rearm /\ Accepted(c1, y, recvOk)
                                    THEN Pending ELSE @]
  BY DEF ProcessSend, SetSend, SetRecv
<1> DEFINE c2     == IF rearm THEN PostRecv(c1, y, recvOk) ELSE conn
           s      == SendPos(conn.send[x].buf + k)
           todo   == SendLen(s, c2.recv[y].buf)
           w3     == [buf |-> s, len |-> todo]
           c3     == SetSend(c2, x, w3)
           posted == rearm /\ Accepted(c1, y, recvOk)
           again  == todo > 0 /\ Accepted(c3, x, sendOk)
<1>7. /\ \/ conn' = PostSend(c3, x, sendOk)
         \/ conn' = CloseClient(c3, FALSE, "remote")
         \/ conn' = c3
      /\ io' = [io EXCEPT ![op] = IF again THEN Pending ELSE Idle,
                          ![<<"recv", y>>] = IF posted THEN Pending ELSE @]
  BY <1>6
<1>8. w1 \in [buf : Int, len : Int] /\ Placed(w1)
  BY <1>2, <1>3 DEF Placed, Conns, Wsabufs
<1>9. /\ c1 \in Conns /\ Paired(c1)
      /\ \A o \in Ops : Wsabuf(c1, o) =
           IF o = <<"recv", y>> THEN w1 ELSE Wsabuf(conn, o)
  <2> HIDE DEF w1
  <2>1. c1 \in Conns /\ c1.sock = conn.sock /\ c1.status = conn.status
    BY <1>1, <1>2, <1>8, SetRecvFacts DEF SetRecv
  <2> QED
    BY <1>1, <1>2, <2>1, SetWsabuf DEF Paired
\* After the receive.
<1>10. /\ c2 \in Conns /\ Paired(c2)
       /\ \A o \in Ops \ {<<"recv", y>>} : Cut(Wsabuf(c2, o), Wsabuf(conn, o))
       /\ IF rearm THEN Cut(Wsabuf(c2, <<"recv", y>>), w1)
                   ELSE Wsabuf(c2, <<"recv", y>>) = Wsabuf(conn, <<"recv", y>>)
  <2> HIDE DEF c1, w1, rearm
  <2>1. CASE rearm
    <3>1. /\ PostRecv(c1, y, recvOk) \in Conns
          /\ Paired(PostRecv(c1, y, recvOk))
          /\ \A o \in Ops : Cut(Wsabuf(PostRecv(c1, y, recvOk), o), Wsabuf(c1, o))
      BY <1>1, <1>9, PostRecvFacts, PostCuts
    <3>2. c2 = PostRecv(c1, y, recvOk)
      BY <2>1
    <3> HIDE DEF c2
    <3> QED
      BY <1>1, <1>9, <2>1, <3>1, <3>2
  <2>2. CASE ~rearm
    BY <1>2, <1>4, <2>2
  <2> QED
    BY <2>1, <2>2
<1> HIDE DEF c2
<1>11. /\ Wsabuf(c2, <<"recv", y>>) = c2.recv[y]
       /\ Placed(c2.recv[y])
  <2>1. Wsabuf(c2, <<"recv", y>>) = c2.recv[y]
    BY DEF Wsabuf
  <2>2. CASE rearm
    BY <1>8, <1>10, <2>1, <2>2, CutPlaced
  <2>3. CASE ~rearm
    BY <1>1, <1>5, <1>10, <2>1, <2>3
  <2> QED
    BY <2>1, <2>2, <2>3
<1>12. Placed(w3)
  <2>1. conn.send[x].buf + k \in 1 .. BufferSize /\ c2.recv[y].buf \in Cells
    BY <1>2, <1>3, <1>11, BufferSizeAssumption
       DEF BufferSizeAssumption, Placed, Cells
  <2> QED
    BY <2>1, NextPlaced
<1> HIDE DEF s, todo
<1>13. /\ c3 \in Conns /\ Paired(c3)
       /\ \A o \in Ops : Wsabuf(c3, o) = IF o = op THEN w3 ELSE Wsabuf(c2, o)
  <2>1. w3 \in [buf : Int, len : Int]
    <3>1. w3.buf \in Int /\ w3.len \in Int
      BY <1>12 DEF Placed, Cells
    <3>2. w3 = [buf |-> w3.buf, len |-> w3.len]
      OBVIOUS
    <3> HIDE DEF w3
    <3> QED
      BY <3>1, <3>2
  <2> HIDE DEF w3
  <2>2. c3 \in Conns /\ c3.sock = c2.sock /\ c3.status = c2.status
    BY <1>10, <2>1, SetSendFacts DEF SetSend
  <2> QED
    BY <1>10, <2>2, SetWsabuf DEF Paired
<1> HIDE DEF c3, w3
\* After the send.
<1>14. \A o \in Ops : Cut(Wsabuf(conn', o), Wsabuf(c3, o))
  BY <1>1, <1>4, <1>7, <1>13, PostCuts, CloseClientCuts
<1>15. /\ io'[op] = IF again THEN Pending ELSE Idle
       /\ io'[<<"recv", y>>] = IF posted THEN Pending ELSE io[<<"recv", y>>]
       /\ \A o \in Ops : o # op /\ o # <<"recv", y>> => io'[o] = io[o]
  <2> HIDE DEF posted, again
  <2> QED
    BY <1>1, <1>2, <1>7
<1>16. Fits(op, Wsabuf(conn', op), io'[op])
  <2>1. Cut(Wsabuf(conn', op), w3) /\ io'[op].st # "done"
    BY <1>1, <1>4, <1>13, <1>14, <1>15
  <2> QED
    BY <1>12, <2>1, PlacedFits
<1>17. Fits(<<"recv", y>>, Wsabuf(conn', <<"recv", y>>), io'[<<"recv", y>>])
  <2>1. Cut(Wsabuf(conn', <<"recv", y>>), c2.recv[y])
    BY <1>1, <1>11, <1>13, <1>14
  <2>2. CASE rearm
    <3>1. io[<<"recv", y>>] = Idle
      BY <1>1, <2>2 DEF IInv, RecvsOutstanding, Outstanding, Length
    <3>2. io'[<<"recv", y>>].st # "done"
      BY <1>4, <1>15, <3>1
    <3> QED
      BY <1>11, <2>1, <3>2, PlacedFits
  <2>3. CASE ~rearm
    <3>1. Fits(<<"recv", y>>, c2.recv[y], io[<<"recv", y>>])
      BY <1>1, <1>10, <1>11, <2>3 DEF InBuffer
    <3>2. io'[<<"recv", y>>] = io[<<"recv", y>>]
      BY <1>15, <2>3
    <3> QED
      BY <2>1, <3>1, <3>2, CutFits
  <2> QED
    BY <2>2, <2>3
<1>18. ASSUME NEW o \in Ops, o # op, o # <<"recv", y>>
       PROVE  Fits(o, Wsabuf(conn', o), io'[o])
  <2>1. Cut(Wsabuf(conn', o), Wsabuf(conn, o))
    BY <1>10, <1>13, <1>14, <1>18, CutTwice
  <2> QED
    BY <1>15, <1>18, <2>1, CutFits DEF InBuffer
<1> QED
  BY <1>16, <1>17, <1>18 DEF InBuffer
-----------------------------------------------------------------------------
\* A connection that has just been adopted receives at the beginning.
LEMMA InitInBuffer == Init => InBuffer
<1> SUFFICES ASSUME Init, NEW op \in Ops
             PROVE  Fits(op, Wsabuf(conn, op), io[op])
  BY DEF InBuffer
<1>1. io[op] = Idle /\ Idle.st # "done"
  BY DEF Init, Idle
<1>2. CASE op[1] = "recv"
  <2>1. Wsabuf(conn, op) = [buf |-> 0, len |-> BufferSize]
    BY <1>2 DEF Init, Wsabuf, Ops
  <2> QED
    BY <1>1, <2>1, BufferSizeAssumption
       DEF BufferSizeAssumption, Fits, Placed, Cells
<1>3. CASE op[1] = "send"
  <2>1. Wsabuf(conn, op) = [buf |-> NullPtr, len |-> 0]
    BY <1>3 DEF Init, Wsabuf, Ops
  <2> QED
    BY <1>1, <1>3, <2>1 DEF Fits
<1> QED
  BY <1>2, <1>3 DEF Ops

\* Every step keeps the WSABUFs inside the buffer.
LEMMA NextInBuffer == IInv /\ InBuffer /\ [Next]_vars => InBuffer'
<1> SUFFICES ASSUME IInv, InBuffer, [Next]_vars PROVE InBuffer'
  OBVIOUS
<1>1. ASSUME NEW x \in Sides, ProcessReceive(x) \/ ProcessSend(x) PROVE InBuffer'
  BY <1>1, ReceiveInBuffer, SendInBuffer
<1>2. ASSUME NEW op \in Ops, KernelCompletes(op) PROVE InBuffer'
  BY <1>2, CompletesInBuffer
<1> QED
  BY <1>1, <1>2, QuietSteps DEF Next

\* What is inside the buffer has the type the model gives it.
LEMMA InBufferTypes == IInv /\ InBuffer => TypeOK
<1> SUFFICES ASSUME IInv, InBuffer PROVE TypeOK
  OBVIOUS
<1>1. conn \in Conns /\ io \in [Ops -> Completions]
  BY DEF IInv, Shape
<1>2. ASSUME NEW op \in Ops PROVE Wsabuf(conn, op) \in Buffer
  <2>1. Wsabuf(conn, op) \in [buf : Int, len : Int]
    BY <1>1 DEF Wsabuf, Conns, Wsabufs, Ops
  <2> DEFINE w == Wsabuf(conn, op)
  <2>2. /\ w.buf \in Cells \cup {NullPtr} /\ w.len \in 0 .. BufferSize
    BY BufferSizeAssumption
       DEF BufferSizeAssumption, InBuffer, Fits, Placed, Cells
  <2> HIDE DEF w
  <2> QED
    BY <2>1, <2>2 DEF Buffer, w
<1>3. ASSUME NEW x \in Sides
      PROVE  conn.recv[x] \in Buffer /\ conn.send[x] \in Buffer
  <2>1. /\ Wsabuf(conn, <<"recv", x>>) = conn.recv[x]
        /\ Wsabuf(conn, <<"send", x>>) = conn.send[x]
    BY DEF Wsabuf
  <2> QED
    BY <1>2, <2>1, SidesFacts
<1>4. conn.recv \in [Sides -> Buffer] /\ conn.send \in [Sides -> Buffer]
  BY <1>1, <1>3 DEF Conns, Wsabufs
<1>5. ASSUME NEW op \in Ops
      PROVE  io[op] \in {Idle, Pending, Failed} \cup {Done(n) : n \in 1 .. BufferSize}
  <2>1. CASE io[op] \in {Idle, Pending, Failed}
    BY <2>1
  <2>2. CASE \E n \in Nat \ {0} : io[op] = Done(n)
    <3>1. PICK n \in Nat \ {0} : io[op] = Done(n)
      BY <2>2
    <3>2. io[op].st = "done" /\ io[op].n = n /\ io[op] # Idle
      BY <3>1 DEF Done, Idle
    <3>3. /\ Placed(Wsabuf(conn, op))
          /\ Wsabuf(conn, op).buf + n =< BufferSize
      BY <3>2 DEF InBuffer, Fits
    <3>4. n \in 1 .. BufferSize
      BY <3>3, BufferSizeAssumption DEF BufferSizeAssumption, Placed, Cells
    <3> QED
      BY <3>1, <3>4
  <2> QED
    BY <1>1, <2>1, <2>2 DEF Completions
<1>6. io \in [Ops -> {Idle, Pending, Failed} \cup {Done(n) : n \in 1 .. BufferSize}]
  BY <1>1, <1>5
<1>7. conn \in [sock   : [Sides -> {"open", "invalid"}],
               status : {"established", "completed"},
               recv   : [Sides -> Buffer],
               send   : [Sides -> Buffer]]
  BY <1>1, <1>4 DEF Conns
<1> QED
  BY <1>6, <1>7 DEF TypeOK, IInv, Shape

\* Whatever the order in which the completions of the two directions are
\* handled and the sockets are closed, no WSARecv and no WSASend names a byte
\* outside the buffer of its direction.
THEOREM ConnectionTypes == Spec => []TypeOK
BY InitIInv, NextIInv, InitInBuffer, NextInBuffer, InBufferTypes, PTL DEF Spec
=============================================================================
