--------------------------- MODULE UdpProxy_proofs ---------------------------
(***************************************************************************)
(* For any numbers of clients, threads, sockets and sends, and whatever    *)
(* fails: the datagrams of a client go through its own association though  *)
(* all share one receive buffer, the server does not fall deaf before it   *)
(* is stopped, every datagram fits its packet, and only listed programs    *)
(* are redirected.  As long as nothing fails, each of their datagrams is,  *)
(* and to a client that does not pause its association is always there.    *)
(*                                                                         *)
(* The first invariant says what the buffer may hold while a thread asks   *)
(* for an association: the datagram for which it asks, as no receive is    *)
(* posted until the answer has come; and that an object is not used for    *)
(* another client as long as a send refers to it.                          *)
(*                                                                         *)
(* Book adds the types: the table has the live objects and no others, and  *)
(* an operation stays completed as long as a thread has it in hands.       *)
(* Steadiness relates three clocks, of the endpoint, of the object and of  *)
(* the client's pause; Listing says what the copy of the system's table    *)
(* may give for a port.                                                    *)
(***************************************************************************)
EXTENDS UdpProxy, SequenceTheorems, FiniteSetTheorems, TLAPS

Clients   == Ports \cup {NoAsk}
Amounts   == 0 .. LargestSize
Datagrams == [port : Clients, length : Amounts, fragment : BOOLEAN,
              new : BOOLEAN]
Objects   == [st : {"unused", "live", "erased"}, client : Clients, to : Clients,
              flagged : BOOLEAN, age : Nat,
              recv : {"off", "posted", "done", "failed"}, length : Amounts]
Sends     == [st : {"free", "sending", "done", "failed"}, sock : 0 .. MaxSockets,
              remote : BOOLEAN, packet : Nat, d : Datagrams]

Types ==
    /\ mapper \subseteq Ports
    /\ net \in Seq(Datagrams)
    /\ server \in [recv : {"posted", "done", "failed", "taken", "off"},
                   d : Datagrams]
    /\ DOMAIN table \subseteq Ports
    /\ table \in [DOMAIN table -> 1 .. MaxSockets]
    /\ sock \in [1 .. MaxSockets -> Objects]
    /\ ctx \in [1 .. MaxSends -> Sends]
    /\ asking \in Clients

Pool == pool \in [Sizes -> Seq(Nat)] /\ PoolOK(pool)

\* The table leads to the object of the client, which sends to that client.
Owners ==
    /\ \A p \in DOMAIN table : sock[table[p]].st = "live"
                               /\ sock[table[p]].client = p
    /\ \A i \in 1 .. MaxSockets : sock[i].st = "live" => sock[i].to = sock[i].client

\* A send that is outstanding is for the client of its object.
Outstanding ==
    \A c \in 1 .. MaxSends :
        /\ ctx[c].st = "free" => ctx[c].sock = 0
        /\ ctx[c].st # "free" => /\ ctx[c].sock # 0
                                 /\ ctx[c].d.port = sock[ctx[c].sock].client
                                 /\ ctx[c].packet >= ctx[c].d.length

\* While a thread asks, the buffer holds the datagram for which it asks.
Asking ==
    /\ asking = NoAsk => server.recv # "taken"
    /\ asking # NoAsk => server.recv = "taken" /\ server.d.port = asking
                         /\ FreeSockets # {}
    /\ phase = "running" => server.recv # "off"

IInv == Types /\ Pool /\ Owners /\ Outstanding /\ Asking
-----------------------------------------------------------------------------
\* The pool: what it gives has room, and it stays as its callers rely on it.

\* A length is a number, at most the largest size.
LEMMA AmountBound ==
  ASSUME NEW n \in Amounts
  PROVE  n \in Nat /\ n <= LargestSize /\ LargestSize \in Nat
<1>1. LargestSize \in Nat
  BY DEF LargestSize
<1> QED
  BY <1>1 DEF Amounts

\* Every length has a size class, with room for it.
LEMMA SizeFacts ==
  ASSUME NEW n \in Amounts
  PROVE  SizeClass(n) \in Sizes /\ SizeClass(n) >= n /\ SizeClass(n) \in Nat
<1>1. \E class \in Sizes : /\ class >= n
                           /\ \A c \in Sizes : c >= n => class <= c
  <2>1. n \in Nat /\ n =< 65536
    BY AmountBound DEF LargestSize
  <2>2. CASE n =< 32
    BY <2>1, <2>2 DEF Sizes
  <2>3. CASE n > 32 /\ n =< 64
    BY <2>1, <2>3 DEF Sizes
  <2>4. CASE n > 64 /\ n =< 128
    BY <2>1, <2>4 DEF Sizes
  <2>5. CASE n > 128 /\ n =< 256
    BY <2>1, <2>5 DEF Sizes
  <2>6. CASE n > 256 /\ n =< 512
    BY <2>1, <2>6 DEF Sizes
  <2>7. CASE n > 512 /\ n =< 1024
    BY <2>1, <2>7 DEF Sizes
  <2>8. CASE n > 1024 /\ n =< 2048
    BY <2>1, <2>8 DEF Sizes
  <2>9. CASE n > 2048
    BY <2>1, <2>9 DEF Sizes
  <2> QED
    BY <2>1, <2>2, <2>3, <2>4, <2>5, <2>6, <2>7, <2>8, <2>9
<1>2. SizeClass(n) \in Sizes /\ SizeClass(n) >= n
  BY <1>1 DEF SizeClass
<1> QED
  BY <1>2 DEF Sizes

\* The packet that is allocated has room for what was asked.
LEMMA AllocateFacts ==
  ASSUME NEW p \in [Sizes -> Seq(Nat)], PoolOK(p), NEW n \in Amounts
  PROVE  /\ Allocate(p, n).packet \in Nat /\ Allocate(p, n).packet >= n
         /\ Allocate(p, n).pool \in [Sizes -> Seq(Nat)]
         /\ PoolOK(Allocate(p, n).pool)
<1> DEFINE k == SizeClass(n)
<1>1. /\ k \in Sizes /\ k >= n /\ k \in Nat
      /\ p[k] \in Seq({k}) /\ Len(p[k]) <= PoolCountLimit
  BY SizeFacts DEF PoolOK
<1>2. ~(n > LargestSize)
  BY AmountBound
<1> HIDE DEF k
<1>3. CASE p[k] = <<>>
  <2>1. Allocate(p, n) = [packet |-> k, pool |-> p]
    BY <1>2, <1>3 DEF Allocate, k
  <2> QED
    BY <1>1, <2>1
<1>4. CASE p[k] # <<>>
  <2> DEFINE q == [p EXCEPT ![k] = SubSeq(p[k], 1, Len(p[k]) - 1)]
  <2>1. Allocate(p, n) = [packet |-> p[k][Len(p[k])], pool |-> q]
    BY <1>2, <1>4 DEF Allocate, k
  <2>2. Len(p[k]) \in Nat \ {0} /\ p[k][Len(p[k])] = k
    BY <1>1, <1>4
  <2>3. /\ SubSeq(p[k], 1, Len(p[k]) - 1) \in Seq({k})
        /\ SubSeq(p[k], 1, Len(p[k]) - 1) \in Seq(Nat)
        /\ Len(SubSeq(p[k], 1, Len(p[k]) - 1)) = Len(p[k]) - 1
    <3> DEFINE s == p[k]
    <3>1. s \in Seq({k}) /\ s \in Seq(Nat) /\ Len(s) \in Nat \ {0}
      BY <1>1, <2>2
    <3> HIDE DEF s
    <3>2. /\ \A i \in 1 .. Len(s) - 1 : s[i] \in {k}
          /\ \A i \in 1 .. Len(s) - 1 : s[i] \in Nat
      BY <3>1
    <3>3. Len(s) - 1 \in Int /\ 1 \in Int /\ Len(s) - 1 \in Nat
      BY <3>1
    <3>4. /\ SubSeq(s, 1, Len(s) - 1) \in Seq({k})
          /\ SubSeq(s, 1, Len(s) - 1) \in Seq(Nat)
      BY <3>2, <3>3, SubSeqProperties
    <3>5. Len(SubSeq(s, 1, Len(s) - 1)) = Len(s) - 1
      <4> DEFINE r == SubSeq(s, 1, Len(s) - 1)
                 m == Len(s) - 1
      <4>1. Len(r) = IF 1 <= m THEN m - 1 + 1 ELSE 0
        BY <3>2, <3>3, SubSeqProperties
      <4>2. m \in Nat
        BY <3>3
      <4> HIDE DEF r, m
      <4>3. Len(r) = m
        BY <4>1, <4>2
      <4> QED
        BY <4>3 DEF r, m
    <3> QED
      BY <3>4, <3>5 DEF s
  <2>4. q \in [Sizes -> Seq(Nat)]
    BY <2>3
  <2>5. \A c \in Sizes : q[c] \in Seq({c}) /\ Len(q[c]) <= PoolCountLimit
    <3>1. \A c \in Sizes \ {k} : q[c] = p[c]
      OBVIOUS
    <3>2. q[k] \in Seq({k}) /\ Len(q[k]) <= PoolCountLimit
      <4>1. q[k] = SubSeq(p[k], 1, Len(p[k]) - 1)
        BY <1>1
      <4> QED
        BY <1>1, <2>2, <2>3, <4>1, PoolAssumption
    <3> QED
      BY <3>1, <3>2 DEF PoolOK
  <2> HIDE DEF q
  <2> QED
    BY <1>1, <2>1, <2>2, <2>4, <2>5 DEF PoolOK
<1> QED
  BY <1>3, <1>4

\* A packet that is freed goes to the stack of its size, or is deleted.
LEMMA FreeFacts ==
  ASSUME NEW p \in [Sizes -> Seq(Nat)], PoolOK(p), NEW k \in Nat
  PROVE  Free(p, k) \in [Sizes -> Seq(Nat)] /\ PoolOK(Free(p, k))
<1>1. CASE k \in Sizes /\ Len(p[k]) < PoolCountLimit
  <2> DEFINE q == [p EXCEPT ![k] = Append(p[k], k)]
  <2>1. Free(p, k) = q
    BY <1>1 DEF Free
  <2>2. /\ Append(p[k], k) \in Seq({k}) /\ Append(p[k], k) \in Seq(Nat)
        /\ Len(Append(p[k], k)) = Len(p[k]) + 1 /\ Len(p[k]) \in Nat
    BY <1>1 DEF PoolOK
  <2>3. q \in [Sizes -> Seq(Nat)]
    BY <2>2
  <2>4. \A c \in Sizes : q[c] \in Seq({c}) /\ Len(q[c]) <= PoolCountLimit
    <3>1. \A c \in Sizes \ {k} : q[c] = p[c]
      OBVIOUS
    <3>2. q[k] = Append(p[k], k)
      BY <1>1
    <3> QED
      BY <1>1, <2>2, <3>1, <3>2, PoolAssumption DEF PoolOK
  <2> HIDE DEF q
  <2> QED
    BY <2>1, <2>3, <2>4 DEF PoolOK
<1>2. CASE ~(k \in Sizes /\ Len(p[k]) < PoolCountLimit)
  BY <1>2 DEF Free
<1> QED
  BY <1>1, <1>2
-----------------------------------------------------------------------------
\* The records that the actions make are of their types.
LEMMA RecordFacts ==
  /\ NoDatagram \in Datagrams /\ NoSocket \in Objects /\ NoSend \in Sends
  /\ NoSend.st = "free" /\ NoSend.sock = 0
  /\ NoAsk \notin Ports
<1>1. LargestSize \in Nat
  BY DEF LargestSize
<1>2. 0 \in Amounts
  BY <1>1 DEF Amounts
<1> QED
  BY <1>2, UdpAssumption
     DEF NoDatagram, NoSocket, NoSend, NoAsk, Datagrams, Objects, Sends,
         Clients, NoPacket

Relays(socks, i, d) == \E remote, ok \in BOOLEAN : Relay(socks, i, remote, d, ok)

\* A datagram is sent for object i: the send refers to it, or is lost.
LEMMA RelayFacts ==
  ASSUME NEW socks \in [1 .. MaxSockets -> Objects], NEW i \in 1 .. MaxSockets,
         NEW d \in Datagrams,
         ctx \in [1 .. MaxSends -> Sends], Pool, Relays(socks, i, d)
  PROVE  /\ Pool'
         /\ sock' \in [1 .. MaxSockets -> Objects]
         /\ \A j \in 1 .. MaxSockets :
              /\ sock'[j].st = socks[j].st /\ sock'[j].client = socks[j].client
              /\ sock'[j].to = socks[j].to /\ sock'[j].recv = socks[j].recv
         /\ ctx' \in [1 .. MaxSends -> Sends]
         /\ \A c \in 1 .. MaxSends :
              \/ ctx'[c] = ctx[c]
              \/ /\ ctx'[c].st = "sending" /\ ctx'[c].sock = i
                 /\ ctx'[c].d = d /\ ctx'[c].packet >= d.length
<1>0. PICK remote \in BOOLEAN, ok \in BOOLEAN : Relay(socks, i, remote, d, ok)
  BY DEF Relays
<1> DEFINE a == Allocate(pool, d.length)
           n == CHOOSE n \in FreeContexts : TRUE
           send == [st |-> "sending", sock |-> i, remote |-> remote,
                    packet |-> a.packet, d |-> d]
<1>1. d.length \in Amounts
  BY DEF Datagrams
<1>2. a.packet \in Nat /\ a.packet >= d.length /\ a.pool \in [Sizes -> Seq(Nat)]
      /\ PoolOK(a.pool)
  BY <1>1, AllocateFacts DEF Pool
<1>3. /\ pool' = a.pool
      /\ ctx' = IF ok THEN [ctx EXCEPT ![n] = send] ELSE ctx
      /\ sock' = [socks EXCEPT ![i].flagged = @ \/ ~ok]
  BY <1>0 DEF Relay
<1> HIDE DEF a, n
<1>4. send \in Sends
  BY <1>2, UdpAssumption DEF Sends
<1>5. /\ send.st = "sending" /\ send.sock = i /\ send.d = d
      /\ send.packet >= d.length
  BY <1>2
<1> HIDE DEF send
<1>6. ctx' \in [1 .. MaxSends -> Sends]
      /\ \A c \in 1 .. MaxSends : ctx'[c] = ctx[c] \/ ctx'[c] = send
  BY <1>3, <1>4
<1>7. Pool'
  BY <1>2, <1>3 DEF Pool
<1>8. /\ sock' \in [1 .. MaxSockets -> Objects]
      /\ \A j \in 1 .. MaxSockets :
              /\ sock'[j].st = socks[j].st /\ sock'[j].client = socks[j].client
              /\ sock'[j].to = socks[j].to /\ sock'[j].recv = socks[j].recv
  <2>1. socks[i] \in Objects /\ [socks[i] EXCEPT !.flagged = @ \/ ~ok] \in Objects
    BY DEF Objects
  <2>2. sock' = [socks EXCEPT ![i] = [socks[i] EXCEPT !.flagged = @ \/ ~ok]]
    BY <1>3
  <2>3. LET r == [socks[i] EXCEPT !.flagged = @ \/ ~ok]
        IN /\ r.st = socks[i].st /\ r.client = socks[i].client
           /\ r.to = socks[i].to /\ r.recv = socks[i].recv
    BY <2>1 DEF Objects
  <2> QED
    BY <2>1, <2>2, <2>3
<1> QED
  BY <1>5, <1>6, <1>7, <1>8
-----------------------------------------------------------------------------
\* A server that has just been started.
LEMMA InitInv == ASSUME Init PROVE IInv
<1>1. Types
  BY RecordFacts DEF Init, Types, Clients
<1>2. Pool
  BY PoolAssumption DEF Init, Pool, PoolOK, EmptyPool
<1>3. Owners /\ Outstanding
  BY RecordFacts DEF Init, Owners, Outstanding, NoSocket
<1>4. Asking
  BY DEF Init, Asking
<1> QED
  BY <1>1, <1>2, <1>3, <1>4 DEF IInv

\* A step that leaves the server and its objects alone.
LEMMA ElsewhereStep ==
  ASSUME IInv, UNCHANGED <<ioVars, asking>>,
         mapper' \subseteq Ports, net' \in Seq(Datagrams),
         phase' = "running" => phase = "running"
  PROVE  IInv'
<1>1. Types' /\ Pool'
  BY DEF IInv, Types, Pool, ioVars
<1>2. Owners' /\ Outstanding'
  BY DEF IInv, Owners, Outstanding, ioVars
<1>3. Asking'
  BY DEF IInv, Asking, ioVars, FreeSockets
<1> QED
  BY <1>1, <1>2, <1>3 DEF IInv

\* A client's datagram has room for the header of the SOCKS protocol.
LEMMA AmountFacts ==
  ASSUME NEW n \in Lengths
  PROVE  n + HeaderLength \in Amounts /\ n \in Amounts
<1>1. Lengths \subseteq 0 .. LargestSize - HeaderLength
  BY UdpAssumption
<1>2. n \in 0 .. LargestSize - HeaderLength
  BY <1>1
<1>3. /\ LargestSize \in Nat /\ HeaderLength \in Nat
      /\ HeaderLength <= LargestSize
  BY DEF LargestSize, HeaderLength
<1> QED
  BY <1>2, <1>3 DEF Amounts

\* A program sends a datagram.
LEMMA SendStep ==
  ASSUME IInv, NEW p \in Ports, NEW n \in Lengths, NEW f \in BOOLEAN,
         Send(p, n, f)
  PROVE  IInv'
<1>1. /\ UNCHANGED <<ioVars, threadVars>>
      /\ mapper' = mapper \cup {p} \/ mapper' = mapper
  BY DEF Send
<1>2. \E d \in Datagrams : \/ net' = net \/ net' = Append(net, d)
  <2>1. PICK ok \in BOOLEAN :
          LET listed == (IF ok THEN Source(p) ELSE SourceFails(p)).process
                           \in Listed
              new    == listed /\ IsNewEndpoint(endpoints, p)
              known  == IF new THEN Refresh(endpoints, p) ELSE endpoints
              d      == [port |-> p, length |-> n, fragment |-> f, new |-> new]
              r      == ClientToServer(known, d)
          IN net' = net \/ (r.done /\ net' = Append(net, r.datagram))
    BY DEF Send
  <2> DEFINE listed == (IF ok THEN Source(p) ELSE SourceFails(p)).process
                           \in Listed
             new    == listed /\ IsNewEndpoint(endpoints, p)
             known  == IF new THEN Refresh(endpoints, p) ELSE endpoints
             d      == [port |-> p, length |-> n, fragment |-> f, new |-> new]
             r      == ClientToServer(known, d)
  <2>2. net' = net \/ (r.done /\ net' = Append(net, r.datagram))
    BY <2>1
  <2>3. new \in BOOLEAN
    OBVIOUS
  <2> HIDE DEF new, known
  <2>4. n + HeaderLength \in Amounts /\ n \in Amounts
    BY AmountFacts
  <2>5. r.done => r.datagram = [d EXCEPT !.length = @ + HeaderLength]
    BY DEF ClientToServer
  <2>6. [d EXCEPT !.length = @ + HeaderLength]
           = [port |-> p, length |-> n + HeaderLength, fragment |-> f,
              new |-> new]
    OBVIOUS
  <2>7. [port |-> p, length |-> n + HeaderLength, fragment |-> f, new |-> new]
           \in Datagrams
    BY <2>3, <2>4 DEF Datagrams, Clients
  <2> HIDE DEF r
  <2> QED
    BY <2>2, <2>5, <2>6, <2>7, RecordFacts
<1>3. net' \in Seq(Datagrams) /\ mapper' \subseteq Ports
  BY <1>1, <1>2 DEF IInv, Types
<1> QED
  BY <1>1, <1>3, ElsewhereStep DEF threadVars

\* The server's receive completes.
LEMMA ReceiveStep ==
  ASSUME IInv, NEW ok \in BOOLEAN, Receive(ok)
  PROVE  IInv'
<1>1. /\ server.recv = "posted" /\ server'.recv \in {"done", "failed"}
      /\ server' \in [recv : {"posted", "done", "failed", "taken", "off"},
                      d : Datagrams]
      /\ net' \in Seq(Datagrams)
  <2>1. CASE ok
    <3>1. Head(net) \in Datagrams /\ Tail(net) \in Seq(Datagrams)
      BY <2>1 DEF Receive, IInv, Types
    <3> QED
      BY <2>1, <3>1 DEF Receive
  <2>2. CASE ~ok
    BY <2>2 DEF Receive, IInv, Types
  <2> QED
    BY <2>1, <2>2
<1>2. UNCHANGED <<mapper, table, sock, ctx, pool, asking, phase>>
  BY DEF Receive, udpVars, lookupVars, threadVars
<1>3. Types' /\ Pool'
  BY <1>1, <1>2 DEF IInv, Types, Pool
<1>4. Owners' /\ Outstanding'
  BY <1>2 DEF IInv, Owners, Outstanding
<1>5. Asking'
  BY <1>1, <1>2 DEF IInv, Asking
<1> QED
  BY <1>3, <1>4, <1>5 DEF IInv

\* A step of an object that keeps its state, its client and its port.
LEMMA SocketsStep ==
  ASSUME IInv, UNCHANGED <<net, mapper, server, table, ctx, pool, asking, phase>>,
         sock' \in [1 .. MaxSockets -> Objects],
         \A i \in 1 .. MaxSockets :
            /\ sock'[i].st = sock[i].st /\ sock'[i].client = sock[i].client
            /\ sock'[i].to = sock[i].to
            /\ sock[i].st # "live" /\ sock[i].recv = "off" => sock'[i].recv = "off"
  PROVE  IInv'
<1>1. Types' /\ Pool'
  BY DEF IInv, Types, Pool
<1>2. Owners'
  <2>1. \A p \in DOMAIN table : table[p] \in 1 .. MaxSockets
    BY DEF IInv, Types
  <2> QED
    BY <2>1 DEF IInv, Owners
<1>3. Outstanding'
  <2>1. \A c \in 1 .. MaxSends : ctx[c].sock # 0 => ctx[c].sock \in 1 .. MaxSockets
    BY UdpAssumption DEF IInv, Types, Sends
  <2> QED
    BY <2>1 DEF IInv, Outstanding
<1>4. FreeSockets # {} => FreeSockets' # {}
  BY DEF FreeSockets, IInv, Types
<1>5. Asking'
  BY <1>4 DEF IInv, Asking
<1> QED
  BY <1>1, <1>2, <1>3, <1>5 DEF IInv

\* The receive of an association completes.
LEMMA AnswerStep ==
  ASSUME IInv, NEW i \in DOMAIN sock, NEW n \in AnswerLengths, NEW ok \in BOOLEAN,
         Answer(i, n, ok)
  PROVE  IInv'
<1>1. i \in 1 .. MaxSockets /\ sock \in [1 .. MaxSockets -> Objects] /\ n \in Amounts
  BY UdpAssumption DEF IInv, Types, Amounts
<1> DEFINE o == [sock[i] EXCEPT !.recv = IF ok THEN "done" ELSE "failed",
                                !.length = IF ok THEN n ELSE @]
<1>2. /\ o \in Objects /\ o.st = sock[i].st /\ o.client = sock[i].client
      /\ o.to = sock[i].to
  <2>1. sock[i] \in Objects
    BY <1>1
  <2> QED
    BY <1>1, <2>1 DEF Objects
<1>3. sock' = [sock EXCEPT ![i] = o] /\ sock[i].st = "live"
  BY DEF Answer
<1>4. UNCHANGED <<net, mapper, server, table, ctx, pool, asking, phase>>
  BY DEF Answer, udpVars, lookupVars, threadVars
<1> HIDE DEF o
<1>5. sock' \in [1 .. MaxSockets -> Objects]
  BY <1>1, <1>2, <1>3
<1>6. \A j \in 1 .. MaxSockets :
            /\ sock'[j].st = sock[j].st /\ sock'[j].client = sock[j].client
            /\ sock'[j].to = sock[j].to
            /\ sock[j].st # "live" /\ sock[j].recv = "off" => sock'[j].recv = "off"
  BY <1>1, <1>2, <1>3
<1> QED
  BY <1>4, <1>5, <1>6, SocketsStep

\* A step in which sends complete, or their contexts are released.
LEMMA ContextsStep ==
  ASSUME IInv, UNCHANGED <<mapper, net, server, table, sock, asking, phase>>,
         Pool',
         ctx' \in [1 .. MaxSends -> Sends],
         \A c \in 1 .. MaxSends :
            \/ ctx'[c] = NoSend
            \/ /\ ctx[c].st # "free" /\ ctx'[c].st # "free"
               /\ ctx'[c].sock = ctx[c].sock /\ ctx'[c].d = ctx[c].d
               /\ ctx'[c].packet = ctx[c].packet
            \/ ctx'[c] = ctx[c]
  PROVE  IInv'
<1>1. Types'
  BY DEF IInv, Types
<1>2. Owners'
  BY DEF IInv, Owners
<1>3. Outstanding'
  BY RecordFacts DEF IInv, Outstanding
<1>4. FreeSockets # {} => FreeSockets' # {}
  <2>1. \A c \in 1 .. MaxSends : ctx'[c].sock \in {0, ctx[c].sock}
    BY RecordFacts
  <2>2. DOMAIN ctx = 1 .. MaxSends /\ DOMAIN ctx' = 1 .. MaxSends
        /\ DOMAIN sock = 1 .. MaxSockets /\ sock' = sock
    BY DEF IInv, Types
  <2>3. ASSUME NEW i \in FreeSockets PROVE i \in FreeSockets'
    <3>1. i # 0
      BY <2>2, UdpAssumption DEF FreeSockets
    <3> QED
      BY <2>1, <2>2, <3>1 DEF FreeSockets
  <2> QED
    BY <2>3
<1>5. Asking'
  BY <1>4 DEF IInv, Asking
<1> QED
  BY <1>1, <1>2, <1>3, <1>5 DEF IInv

\* A send completes.
LEMMA SentStep ==
  ASSUME IInv, NEW c \in DOMAIN ctx, NEW ok \in BOOLEAN, Sent(c, ok)
  PROVE  IInv'
<1>1. c \in 1 .. MaxSends /\ ctx \in [1 .. MaxSends -> Sends]
  BY DEF IInv, Types
<1> DEFINE s == [ctx[c] EXCEPT !.st = IF ok THEN "done" ELSE "failed"]
<1>2. /\ s \in Sends /\ s.st # "free" /\ s.sock = ctx[c].sock
      /\ s.d = ctx[c].d /\ s.packet = ctx[c].packet
  <2>1. ctx[c] \in Sends
    BY <1>1
  <2> QED
    BY <2>1 DEF Sends
<1>3. ctx' = [ctx EXCEPT ![c] = s] /\ ctx[c].st = "sending"
  BY DEF Sent
<1>4. UNCHANGED <<mapper, net, server, table, sock, pool, asking, phase>>
  BY DEF Sent, threadVars
<1> HIDE DEF s
<1>5. ctx' \in [1 .. MaxSends -> Sends]
  BY <1>1, <1>2, <1>3
<1>6. \A x \in 1 .. MaxSends :
         \/ ctx'[x] = ctx[x]
         \/ /\ ctx[x].st # "free" /\ ctx'[x].st # "free"
            /\ ctx'[x].sock = ctx[x].sock /\ ctx'[x].d = ctx[x].d
            /\ ctx'[x].packet = ctx[x].packet
  BY <1>1, <1>2, <1>3
<1>7. Pool'
  BY <1>4 DEF IInv, Pool
<1> QED
  BY <1>4, <1>5, <1>6, <1>7, ContextsStep

\* A completion is dropped.
LEMMA ForgetStep ==
  ASSUME IInv, NEW op \in Completed, Forget(op), phase # "running",
         UNCHANGED <<mapper, net, asking, phase>>
  PROVE  IInv'
<1>1. UNCHANGED <<table, pool>>
  BY DEF Forget
<1>2. \/ op = <<"server", 0>>
      \/ \E i \in 1 .. MaxSockets : op = <<"recv", i>>
      \/ \E c \in 1 .. MaxSends : op = <<"send", c>>
  BY DEF Completed, Ops, ServerOp, RecvOp, SendOp, IInv, Types
<1>3. CASE op = <<"server", 0>>
  <2>1. server.recv \in {"done", "failed"}
    BY <1>3 DEF Completed, State
  <2>2. /\ server' = [server EXCEPT !.recv = "off"] /\ UNCHANGED <<sock, ctx>>
    BY <1>3 DEF Forget, ServerOp
  <2>3. Types' /\ Pool' /\ Owners' /\ Outstanding'
    BY <1>1, <2>2 DEF IInv, Types, Pool, Owners, Outstanding
  <2>4. server'.recv = "off"
    BY <2>2 DEF IInv, Types
  <2>5. Asking'
    BY <2>1, <2>4 DEF IInv, Asking
  <2> QED
    BY <2>3, <2>5 DEF IInv
<1>4. ASSUME NEW i \in 1 .. MaxSockets, op = <<"recv", i>> PROVE IInv'
  <2>1. /\ sock' = [sock EXCEPT ![i].recv = "off"] /\ UNCHANGED <<server, ctx>>
    BY <1>4 DEF Forget, ServerOp
  <2>2. sock[i] \in Objects /\ sock \in [1 .. MaxSockets -> Objects]
    BY DEF IInv, Types
  <2>3. /\ sock' \in [1 .. MaxSockets -> Objects]
        /\ \A j \in 1 .. MaxSockets :
             /\ sock'[j].st = sock[j].st /\ sock'[j].client = sock[j].client
             /\ sock'[j].to = sock[j].to
             /\ sock[j].recv = "off" => sock'[j].recv = "off"
    BY <2>1, <2>2 DEF Objects
  <2> QED
    BY <1>1, <2>1, <2>3, SocketsStep
<1>5. ASSUME NEW c \in 1 .. MaxSends, op = <<"send", c>> PROVE IInv'
  <2>1. /\ ctx' = [ctx EXCEPT ![c] = NoSend] /\ UNCHANGED <<server, sock>>
    BY <1>5 DEF Forget, ServerOp
  <2>2. /\ ctx' \in [1 .. MaxSends -> Sends]
        /\ \A x \in 1 .. MaxSends : ctx'[x] = NoSend \/ ctx'[x] = ctx[x]
    BY <2>1, RecordFacts DEF IInv, Types
  <2>3. Pool'
    BY <1>1 DEF IInv, Pool
  <2> QED
    BY <1>1, <2>1, <2>2, <2>3, ContextsStep
<1> QED
  BY <1>2, <1>3, <1>4, <1>5

\* A pool thread takes the completed receive of the server.
LEMMA DequeueStep ==
  ASSUME IInv, Dequeue
  PROVE  IInv'
<1>1. UNCHANGED <<mapper, net, asking, phase>>
  BY DEF Dequeue, udpVars, lookupVars
<1>2. CASE UNCHANGED ioVars
  BY <1>1, <1>2, ElsewhereStep DEF IInv, Types
<1>3. CASE \E op \in Completed : Forget(op) /\ ~(Active /\ ~EndServer)
  <2>1. phase # "running"
    BY <1>3 DEF Active, EndServer
  <2> QED
    BY <1>1, <1>3, <2>1, ForgetStep
<1> QED
  BY <1>2, <1>3 DEF Dequeue
-----------------------------------------------------------------------------
\* The handlers.

\* A datagram that belongs to the client of a live object is sent for it; the
\* object may be new, and the rest of the objects stay what they are.
LEMMA RelayStep ==
  ASSUME IInv, NEW socks \in [1 .. MaxSockets -> Objects],
         NEW i \in 1 .. MaxSockets, NEW d \in Datagrams, Relays(socks, i, d),
         d.port = socks[i].client,
         \A j \in 1 .. MaxSockets :
            \/ /\ socks[j].st = sock[j].st /\ socks[j].client = sock[j].client
               /\ socks[j].to = sock[j].to
            \/ /\ \A c \in 1 .. MaxSends : ctx[c].sock # j
               /\ sock[j].st # "live" /\ socks[j].to = socks[j].client
  PROVE  /\ Pool' /\ Outstanding'
         /\ ctx' \in [1 .. MaxSends -> Sends]
         /\ sock' \in [1 .. MaxSockets -> Objects]
         /\ \A j \in 1 .. MaxSockets :
              /\ sock'[j].st = socks[j].st /\ sock'[j].client = socks[j].client
              /\ sock'[j].to = socks[j].to
              /\ sock'[j].st = "live" => sock'[j].to = sock'[j].client
<1>1. /\ Pool'
      /\ sock' \in [1 .. MaxSockets -> Objects]
      /\ \A j \in 1 .. MaxSockets :
           /\ sock'[j].st = socks[j].st /\ sock'[j].client = socks[j].client
           /\ sock'[j].to = socks[j].to /\ sock'[j].recv = socks[j].recv
      /\ ctx' \in [1 .. MaxSends -> Sends]
      /\ \A c \in 1 .. MaxSends :
           \/ ctx'[c] = ctx[c]
           \/ /\ ctx'[c].st = "sending" /\ ctx'[c].sock = i
              /\ ctx'[c].d = d /\ ctx'[c].packet >= d.length
  <2>1. ctx \in [1 .. MaxSends -> Sends] /\ Pool
    BY DEF IInv, Types
  <2> QED
    BY <2>1, RelayFacts
<1>2. ASSUME NEW c \in 1 .. MaxSends
      PROVE  /\ ctx'[c].st = "free" => ctx'[c].sock = 0
             /\ ctx'[c].st # "free" => /\ ctx'[c].sock # 0
                                       /\ ctx'[c].d.port = sock'[ctx'[c].sock].client
                                       /\ ctx'[c].packet >= ctx'[c].d.length
  <2>1. CASE ctx'[c] = ctx[c]
    <3>1. ctx[c] \in Sends
      BY DEF IInv, Types
    <3>2. ctx[c].sock # 0 => /\ ctx[c].sock \in 1 .. MaxSockets
                             /\ sock'[ctx[c].sock].client = sock[ctx[c].sock].client
      <4>1. ctx[c].sock # 0 => ctx[c].sock \in 1 .. MaxSockets
        BY <3>1, UdpAssumption DEF Sends
      <4> QED
        BY <1>1, <4>1
    <3> QED
      BY <2>1, <3>2 DEF IInv, Outstanding
  <2>2. CASE /\ ctx'[c].st = "sending" /\ ctx'[c].sock = i
             /\ ctx'[c].d = d /\ ctx'[c].packet >= d.length
    BY <1>1, <2>2
  <2> QED
    BY <1>1, <2>1, <2>2
<1>3. Outstanding'
  BY <1>2 DEF Outstanding
<1>4. \A j \in 1 .. MaxSockets : sock'[j].st = "live" => sock'[j].to = sock'[j].client
  BY <1>1 DEF IInv, Owners
<1> QED
  BY <1>1, <1>3, <1>4

\* process_receive_buffer_complete sets the time only.
LEMMA TouchFacts ==
  ASSUME IInv, NEW i \in 1 .. MaxSockets, NEW b \in BOOLEAN
  PROVE  /\ Touch(i, b) \in [1 .. MaxSockets -> Objects]
         /\ \A j \in 1 .. MaxSockets :
              /\ Touch(i, b)[j].st = sock[j].st
              /\ Touch(i, b)[j].client = sock[j].client
              /\ Touch(i, b)[j].to = sock[j].to
              /\ Touch(i, b)[j].flagged = sock[j].flagged
<1> DEFINE o == [sock[i] EXCEPT !.age = 0]
<1>1. sock[i] \in Objects /\ sock \in [1 .. MaxSockets -> Objects]
  BY DEF IInv, Types
<1>2. o \in Objects /\ o.st = sock[i].st /\ o.client = sock[i].client
      /\ o.to = sock[i].to /\ o.flagged = sock[i].flagged
  BY <1>1 DEF Objects
<1>3. Touch(i, b) = [sock EXCEPT ![i] = o]
  BY DEF Touch
<1> HIDE DEF o
<1> QED
  BY <1>1, <1>2, <1>3

\* The handler of the server's receive.
LEMMA ServerStep ==
  ASSUME IInv, asking = NoAsk, HandleServer, UNCHANGED <<net, phase>>
  PROVE  IInv'
<1> DEFINE d == server.d
<1>1. d \in Datagrams /\ d.port \in Clients
  BY DEF IInv, Types, Datagrams
<1>2. ASSUME Repost, UNCHANGED <<mapper, table, sock, ctx, pool, asking>>
      PROVE  IInv'
  <2>1. server' = [recv |-> "posted", d |-> d]
    BY <1>2 DEF Repost, IInv, Types
  <2>2. Types' /\ Pool' /\ Owners' /\ Outstanding'
    BY <1>1, <1>2, <2>1 DEF IInv, Types, Pool, Owners, Outstanding
  <2>3. Asking'
    BY <1>2, <2>1 DEF Asking
  <2> QED
    BY <2>2, <2>3 DEF IInv
<1>3. CASE /\ server.recv = "done" /\ d.port \in DOMAIN table
           /\ \E ok \in BOOLEAN : Relay(Touch(table[d.port], TRUE), table[d.port],
                                        TRUE, d, ok)
           /\ Repost /\ UNCHANGED <<mapper, table, asking>>
  <2> DEFINE i == table[d.port]
  <2>1. /\ i \in 1 .. MaxSockets /\ sock[i].st = "live"
        /\ sock[i].client = d.port
    BY <1>3 DEF IInv, Types, Owners
  <2> HIDE DEF i
  <2>2. PICK ok \in BOOLEAN : Relay(Touch(i, TRUE), i, TRUE, d, ok)
    BY <1>3 DEF i
  <2> DEFINE socks == Touch(i, TRUE)
  <2>3. /\ socks \in [1 .. MaxSockets -> Objects]
        /\ \A j \in 1 .. MaxSockets :
              /\ socks[j].st = sock[j].st /\ socks[j].client = sock[j].client
              /\ socks[j].to = sock[j].to
    BY <2>1, TouchFacts
  <2> HIDE DEF socks
  <2>4. Relays(socks, i, d)
    BY <2>2 DEF socks, Relays
  <2> HIDE DEF d
  <2>5. /\ Pool' /\ Outstanding'
        /\ ctx' \in [1 .. MaxSends -> Sends]
        /\ sock' \in [1 .. MaxSockets -> Objects]
        /\ \A j \in 1 .. MaxSockets :
              /\ sock'[j].st = sock[j].st /\ sock'[j].client = sock[j].client
              /\ sock'[j].st = "live" => sock'[j].to = sock'[j].client
    BY <1>1, <2>1, <2>3, <2>4, RelayStep
  <2>6. server' = [recv |-> "posted", d |-> d]
    BY <1>3 DEF Repost, IInv, Types, d
  <2>7. Types'
    BY <1>1, <1>3, <2>5, <2>6 DEF IInv, Types
  <2>8. Owners'
    <3>1. \A p \in DOMAIN table : table[p] \in 1 .. MaxSockets
      BY DEF IInv, Types
    <3> QED
      BY <1>3, <2>5, <3>1 DEF IInv, Owners
  <2>9. Asking'
    BY <1>3, <2>6 DEF Asking
  <2> QED
    BY <2>5, <2>7, <2>8, <2>9 DEF IInv
<1>4. CASE /\ server.recv = "done" /\ d.port \in mapper
           /\ FreeSockets # {}
           /\ mapper' = mapper \ {d.port} /\ asking' = d.port
           /\ Ask /\ UNCHANGED <<table, sock, ctx, pool>>
  <2>1. server' = [recv |-> "taken", d |-> d]
    BY <1>4 DEF Ask, IInv, Types
  <2>2. d.port \in Ports /\ d.port # NoAsk
    BY <1>4, RecordFacts DEF IInv, Types
  <2>3. Types' /\ Pool' /\ Owners' /\ Outstanding'
    BY <1>1, <1>4, <2>1 DEF IInv, Types, Pool, Owners, Outstanding
  <2>4. Asking'
    BY <1>4, <2>1, <2>2 DEF Asking, FreeSockets
  <2> QED
    BY <2>3, <2>4 DEF IInv
<1> QED
  BY <1>2, <1>3, <1>4 DEF HandleServer, Refuse

\* The SOCKS server has granted an association.
LEMMA AssociateStep ==
  ASSUME IInv, Associate
  PROVE  IInv'
<1> DEFINE i == CHOOSE n \in FreeSockets : TRUE
           d == server.d
<1>1. /\ asking # NoAsk /\ asking \in Ports /\ d.port = asking /\ d \in Datagrams
      /\ i \in FreeSockets
  BY DEF Associate, IInv, Types, Asking, Clients
<1>2. /\ i \in 1 .. MaxSockets /\ sock[i].st # "live"
      /\ \A c \in 1 .. MaxSends : ctx[c].sock # i
  BY <1>1 DEF FreeSockets, IInv, Types
<1>3. PICK posted \in BOOLEAN, ok \in BOOLEAN :
         LET new == [NoSocket EXCEPT !.st = "live", !.client = asking,
                        !.to = d.port, !.flagged = ~posted,
                        !.recv = IF posted THEN "posted" ELSE "off"]
         IN /\ table' = [p \in DOMAIN table \cup {asking} |->
                            IF p = asking THEN i ELSE table[p]]
            /\ Relay([sock EXCEPT ![i] = new], i, TRUE, d, ok)
  BY DEF Associate
<1> DEFINE new == [NoSocket EXCEPT !.st = "live", !.client = asking,
                        !.to = d.port, !.flagged = ~posted,
                        !.recv = IF posted THEN "posted" ELSE "off"]
           socks == [sock EXCEPT ![i] = new]
<1>4. /\ new \in Objects /\ new.st = "live" /\ new.client = asking
      /\ new.to = asking
  BY <1>1, RecordFacts DEF NoSocket, Objects, Clients
<1>5. Relays(socks, i, d)
  BY <1>3 DEF Relays
<1>6. /\ table' = [p \in DOMAIN table \cup {asking} |->
                     IF p = asking THEN i ELSE table[p]]
      /\ Repost /\ asking' = NoAsk
      /\ UNCHANGED <<mapper, net, phase>>
  BY <1>3 DEF Associate, udpVars, lookupVars
<1> HIDE DEF new, i, d
<1>7. /\ socks \in [1 .. MaxSockets -> Objects] /\ socks[i] = new
      /\ \A j \in 1 .. MaxSockets \ {i} : socks[j] = sock[j]
  BY <1>2, <1>4 DEF IInv, Types
<1> HIDE DEF socks
<1>8. /\ Pool' /\ Outstanding'
      /\ ctx' \in [1 .. MaxSends -> Sends]
      /\ sock' \in [1 .. MaxSockets -> Objects]
      /\ \A j \in 1 .. MaxSockets :
           /\ sock'[j].st = socks[j].st /\ sock'[j].client = socks[j].client
           /\ sock'[j].st = "live" => sock'[j].to = sock'[j].client
  <2>1. d.port = socks[i].client
    BY <1>1, <1>4, <1>7
  <2>2. \A j \in 1 .. MaxSockets :
            \/ /\ socks[j].st = sock[j].st /\ socks[j].client = sock[j].client
               /\ socks[j].to = sock[j].to
            \/ /\ \A c \in 1 .. MaxSends : ctx[c].sock # j
               /\ sock[j].st # "live" /\ socks[j].to = socks[j].client
    BY <1>2, <1>4, <1>7
  <2> QED
    <3>1. /\ Pool' /\ Outstanding'
          /\ ctx' \in [1 .. MaxSends -> Sends]
          /\ sock' \in [1 .. MaxSockets -> Objects]
          /\ \A j \in 1 .. MaxSockets :
              /\ sock'[j].st = socks[j].st /\ sock'[j].client = socks[j].client
              /\ sock'[j].to = socks[j].to
              /\ sock'[j].st = "live" => sock'[j].to = sock'[j].client
      BY <1>1, <1>2, <1>5, <1>7, <2>1, <2>2, RelayStep
    <3> QED
      BY <3>1
<1>9. server' = [recv |-> "posted", d |-> d]
  BY <1>6 DEF Repost, IInv, Types, d
<1>10. Types'
  <2>1. /\ DOMAIN table' \subseteq Ports
        /\ table' \in [DOMAIN table' -> 1 .. MaxSockets]
    BY <1>1, <1>2, <1>6 DEF IInv, Types
  <2> QED
    BY <1>1, <1>6, <1>8, <1>9, <2>1 DEF IInv, Types, Clients
<1>11. Owners'
  <2>1. ASSUME NEW p \in DOMAIN table'
        PROVE  sock'[table'[p]].st = "live" /\ sock'[table'[p]].client = p
    <3>1. CASE p = asking
      BY <1>2, <1>4, <1>6, <1>7, <1>8, <3>1
    <3>2. CASE p # asking
      <4>1. /\ p \in DOMAIN table /\ table'[p] = table[p]
            /\ table[p] \in 1 .. MaxSockets
            /\ sock[table[p]].st = "live" /\ sock[table[p]].client = p
        BY <1>6, <3>2 DEF IInv, Types, Owners
      <4>2. table[p] # i
        BY <1>2, <4>1
      <4> QED
        BY <1>7, <1>8, <4>1, <4>2
    <3> QED
      BY <3>1, <3>2
  <2> QED
    BY <1>8, <2>1 DEF Owners
<1>12. Asking'
  BY <1>6, <1>9 DEF Asking
<1> QED
  BY <1>8, <1>10, <1>11, <1>12 DEF IInv

\* The association has failed.
LEMMA DenyStep ==
  ASSUME IInv, Deny
  PROVE  IInv'
<1>1. /\ server' = [recv |-> "posted", d |-> server.d] /\ asking' = NoAsk
      /\ UNCHANGED <<mapper, net, table, sock, ctx, pool, phase>>
  BY DEF Deny, Refuse, Repost, IInv, Types, udpVars, lookupVars
<1>2. server.d \in Datagrams
  BY DEF IInv, Types
<1>3. Types' /\ Pool' /\ Owners' /\ Outstanding'
  BY <1>1, <1>2 DEF IInv, Types, Pool, Owners, Outstanding, Clients
<1>4. Asking'
  BY <1>1 DEF Asking
<1> QED
  BY <1>3, <1>4 DEF IInv

\* The handler of an association's receive.
LEMMA RecvStep ==
  ASSUME IInv, NEW i \in 1 .. MaxSockets, HandleRecv(i), asking = NoAsk,
         UNCHANGED <<net, phase>>
  PROVE  IInv'
<1>1. /\ UNCHANGED <<mapper, server, table, asking>>
      /\ sock \in [1 .. MaxSockets -> Objects] /\ sock[i] \in Objects
  BY DEF HandleRecv, IInv, Types
<1>2. CASE sock[i].recv = "done" /\ sock[i].st = "live"
  <2>1. PICK ok \in BOOLEAN, posted \in BOOLEAN :
          Relay([Touch(i, FALSE) EXCEPT
                    ![i].recv = IF posted THEN "posted" ELSE "off",
                    ![i].flagged = @ \/ ~posted],
                i, FALSE,
                [NoDatagram EXCEPT !.port = sock[i].to, !.length = sock[i].length],
                ok)
    BY <1>2 DEF HandleRecv
  <2> DEFINE t == Touch(i, FALSE)
             o == [t[i] EXCEPT !.recv = IF posted THEN "posted" ELSE "off",
                               !.flagged = @ \/ ~posted]
             socks == [t EXCEPT ![i].recv = IF posted THEN "posted" ELSE "off",
                                ![i].flagged = @ \/ ~posted]
             d == [NoDatagram EXCEPT !.port = sock[i].to,
                                     !.length = sock[i].length]
  <2>2. d \in Datagrams /\ d.port = sock[i].to
    BY <1>1, RecordFacts DEF Datagrams, Objects
  <2>3. sock[i].to = sock[i].client
    BY <1>2 DEF IInv, Owners
  <2>4. Relays(socks, i, d)
    BY <2>1 DEF Relays
  <2> HIDE DEF d, t
  <2>5. /\ t \in [1 .. MaxSockets -> Objects]
        /\ \A j \in 1 .. MaxSockets :
              /\ t[j].st = sock[j].st /\ t[j].client = sock[j].client
              /\ t[j].to = sock[j].to
    BY TouchFacts DEF t
  <2>6. o \in Objects /\ o.st = t[i].st /\ o.client = t[i].client /\ o.to = t[i].to
    <3>1. t[i] \in Objects
      BY <2>5
    <3> QED
      BY <3>1 DEF Objects
  <2>7. socks = [t EXCEPT ![i] = o]
    BY <2>5
  <2> HIDE DEF o, socks
  <2>8. /\ socks \in [1 .. MaxSockets -> Objects]
        /\ \A j \in 1 .. MaxSockets :
              /\ socks[j].st = sock[j].st /\ socks[j].client = sock[j].client
              /\ socks[j].to = sock[j].to
    BY <2>5, <2>6, <2>7
  <2>9. /\ Pool' /\ Outstanding'
        /\ ctx' \in [1 .. MaxSends -> Sends]
        /\ sock' \in [1 .. MaxSockets -> Objects]
        /\ \A j \in 1 .. MaxSockets :
              /\ sock'[j].st = socks[j].st /\ sock'[j].client = socks[j].client
              /\ sock'[j].to = socks[j].to
              /\ sock'[j].st = "live" => sock'[j].to = sock'[j].client
    <3>1. d.port = socks[i].client
      BY <2>2, <2>3, <2>8
    <3> QED
      BY <2>2, <2>4, <2>8, <3>1, RelayStep
  <2>10. Types'
    BY <1>1, <2>9 DEF IInv, Types
  <2>11. Owners'
    <3>1. \A p \in DOMAIN table : table[p] \in 1 .. MaxSockets
      BY DEF IInv, Types
    <3> QED
      BY <1>1, <2>8, <2>9, <3>1 DEF IInv, Owners
  <2>12. Asking'
    BY <1>1 DEF IInv, Asking
  <2> QED
    BY <2>9, <2>10, <2>11, <2>12 DEF IInv
<1>3. CASE ~(sock[i].recv = "done" /\ sock[i].st = "live")
  <2> DEFINE o == [sock[i] EXCEPT !.recv = "off"]
  <2>1. /\ sock' = [sock EXCEPT ![i] = o] /\ UNCHANGED <<ctx, pool>>
    BY <1>3 DEF HandleRecv
  <2>2. /\ o \in Objects /\ o.st = sock[i].st /\ o.client = sock[i].client
        /\ o.to = sock[i].to /\ o.recv = "off"
    BY <1>1 DEF Objects
  <2> HIDE DEF o
  <2>3. /\ sock' \in [1 .. MaxSockets -> Objects]
        /\ \A j \in 1 .. MaxSockets :
             /\ sock'[j].st = sock[j].st /\ sock'[j].client = sock[j].client
             /\ sock'[j].to = sock[j].to
             /\ sock[j].recv = "off" => sock'[j].recv = "off"
    BY <1>1, <2>1, <2>2
  <2> QED
    BY <1>1, <2>1, <2>3, SocketsStep
<1> QED
  BY <1>2, <1>3

\* The handler of a completed send.
LEMMA SendDoneStep ==
  ASSUME IInv, NEW c \in 1 .. MaxSends, HandleSend(c), UNCHANGED <<net, phase>>
  PROVE  IInv'
<1>1. /\ UNCHANGED <<mapper, server, table, sock, asking>>
      /\ ctx' = [ctx EXCEPT ![c] = NoSend]
      /\ pool' = pool \/ pool' = Free(pool, ctx[c].packet)
  BY DEF HandleSend
<1>2. ctx \in [1 .. MaxSends -> Sends] /\ ctx[c].packet \in Nat
  BY DEF IInv, Types, Sends
<1>3. Pool'
  BY <1>1, <1>2, FreeFacts DEF IInv, Pool
<1>4. /\ ctx' \in [1 .. MaxSends -> Sends]
      /\ \A x \in 1 .. MaxSends : ctx'[x] = NoSend \/ ctx'[x] = ctx[x]
  BY <1>1, <1>2, RecordFacts
<1> QED
  BY <1>1, <1>3, <1>4, ContextsStep

\* Any of the handlers.
LEMMA HandleStep ==
  ASSUME IInv, NEW op \in Ops, Handle(op)
  PROVE  IInv'
<1>1. asking = NoAsk /\ UNCHANGED <<net, phase>>
  BY DEF Handle
<1>2. \/ op = <<"server", 0>>
      \/ \E i \in 1 .. MaxSockets : op = <<"recv", i>>
      \/ \E c \in 1 .. MaxSends : op = <<"send", c>>
  BY DEF Ops, ServerOp, RecvOp, SendOp, IInv, Types
<1>3. CASE op = <<"server", 0>>
  <2>1. HandleServer
    BY <1>3 DEF Handle
  <2> QED
    BY <1>1, <2>1, ServerStep
<1>4. ASSUME NEW i \in 1 .. MaxSockets, op = <<"recv", i>> PROVE IInv'
  <2>1. HandleRecv(i)
    BY <1>4 DEF Handle
  <2> QED
    BY <1>1, <2>1, RecvStep
<1>5. ASSUME NEW c \in 1 .. MaxSends, op = <<"send", c>> PROVE IInv'
  <2>1. HandleSend(c)
    BY <1>5 DEF Handle
  <2> QED
    BY <1>1, <2>1, SendDoneStep
<1> QED
  BY <1>2, <1>3, <1>4, <1>5
-----------------------------------------------------------------------------
\* Removal, time and stop().

LEMMA EraseStep ==
  ASSUME IInv, NEW S, Erase(S), UNCHANGED <<net, mapper, server, pool, asking>>,
         phase' = "running" => phase = "running"
  PROVE  IInv'
<1>1. /\ sock \in [1 .. MaxSockets -> Objects] /\ ctx \in [1 .. MaxSends -> Sends]
      /\ table \in [DOMAIN table -> 1 .. MaxSockets] /\ DOMAIN table \subseteq Ports
  BY DEF IInv, Types
<1> DEFINE o(i) == [sock[i] EXCEPT !.st = "erased", !.flagged = FALSE, !.age = 0,
                        !.recv = IF @ = "posted" THEN "failed" ELSE @]
           s(c) == [ctx[c] EXCEPT !.st = "failed"]
<1>2. /\ table' = [p \in {p \in DOMAIN table : table[p] \notin S} |-> table[p]]
      /\ sock' = [i \in 1 .. MaxSockets |-> IF i \notin S THEN sock[i] ELSE o(i)]
      /\ ctx' = [c \in 1 .. MaxSends |->
                   IF ctx[c].sock \in S /\ ctx[c].remote /\ ctx[c].st = "sending"
                   THEN s(c) ELSE ctx[c]]
  BY <1>1 DEF Erase
<1>3. ASSUME NEW i \in 1 .. MaxSockets
      PROVE  /\ o(i) \in Objects /\ o(i).st = "erased"
             /\ o(i).client = sock[i].client /\ o(i).to = sock[i].to
             /\ sock[i].recv = "off" => o(i).recv = "off"
  <2>1. sock[i] \in Objects
    BY <1>1
  <2> QED
    BY <2>1 DEF Objects
<1>4. ASSUME NEW c \in 1 .. MaxSends
      PROVE  /\ s(c) \in Sends /\ s(c).st = "failed" /\ s(c).sock = ctx[c].sock
             /\ s(c).d = ctx[c].d /\ s(c).packet = ctx[c].packet
  <2>1. ctx[c] \in Sends
    BY <1>1
  <2> QED
    BY <2>1 DEF Sends
<1> HIDE DEF o, s
<1>5. /\ sock' \in [1 .. MaxSockets -> Objects]
      /\ \A i \in 1 .. MaxSockets :
           /\ sock'[i].client = sock[i].client /\ sock'[i].to = sock[i].to
           /\ i \notin S => sock'[i] = sock[i]
           /\ sock'[i].st = "live" => sock[i].st = "live"
           /\ sock[i].st # "live" => sock'[i].st # "live"
           /\ sock[i].recv = "off" => sock'[i].recv = "off"
  BY <1>1, <1>2, <1>3
<1>6. /\ ctx' \in [1 .. MaxSends -> Sends]
      /\ \A c \in 1 .. MaxSends :
           /\ ctx'[c].sock = ctx[c].sock /\ ctx'[c].d = ctx[c].d
           /\ ctx'[c].packet = ctx[c].packet
           /\ ctx'[c].st = "free" <=> ctx[c].st = "free"
  BY <1>1, <1>2, <1>4
<1>7. /\ DOMAIN table' \subseteq DOMAIN table
      /\ table' \in [DOMAIN table' -> 1 .. MaxSockets]
      /\ \A p \in DOMAIN table' : table'[p] = table[p] /\ table[p] \notin S
  BY <1>1, <1>2
<1>8. Types' /\ Pool'
  BY <1>1, <1>5, <1>6, <1>7 DEF IInv, Types, Pool
<1>9. Owners'
  <2>1. \A p \in DOMAIN table' : sock'[table'[p]] = sock[table[p]]
    BY <1>1, <1>5, <1>7
  <2> QED
    BY <1>5, <1>7, <2>1 DEF IInv, Owners
<1>10. Outstanding'
  <2>1. \A c \in 1 .. MaxSends : ctx[c].sock # 0 =>
          sock'[ctx[c].sock].client = sock[ctx[c].sock].client
    <3>1. \A c \in 1 .. MaxSends : ctx[c].sock \in 0 .. MaxSockets
      BY <1>1 DEF Sends
    <3> QED
      BY <1>5, <3>1, UdpAssumption
  <2> QED
    BY <1>6, <2>1 DEF IInv, Outstanding
<1>11. FreeSockets # {} => FreeSockets' # {}
  <2>1. /\ DOMAIN sock' = DOMAIN sock /\ DOMAIN sock = 1 .. MaxSockets
        /\ DOMAIN ctx' = DOMAIN ctx /\ DOMAIN ctx = 1 .. MaxSends
    BY <1>1, <1>5, <1>6
  <2> QED
    BY <1>5, <1>6, <2>1 DEF FreeSockets
<1>12. Asking'
  BY <1>11 DEF IInv, Asking
<1> QED
  BY <1>8, <1>9, <1>10, <1>12 DEF IInv

\* Time passes.
LEMMA TickStep ==
  ASSUME IInv, Tick
  PROVE  IInv'
<1> DEFINE o(i) == [sock[i] EXCEPT !.age = @ + 1]
<1>1. /\ sock \in [1 .. MaxSockets -> Objects]
      /\ sock' = [i \in 1 .. MaxSockets |->
                    IF sock[i].st = "live" THEN o(i) ELSE sock[i]]
  BY DEF Tick, IInv, Types
<1>2. ASSUME NEW i \in 1 .. MaxSockets
      PROVE  /\ o(i) \in Objects /\ o(i).st = sock[i].st /\ o(i).to = sock[i].to
             /\ o(i).client = sock[i].client
  <2>1. sock[i] \in Objects
    BY <1>1
  <2> QED
    BY <2>1 DEF Objects
<1> HIDE DEF o
<1>3. /\ sock' \in [1 .. MaxSockets -> Objects]
      /\ \A i \in 1 .. MaxSockets :
           /\ sock'[i].st = sock[i].st /\ sock'[i].client = sock[i].client
           /\ sock'[i].to = sock[i].to
           /\ sock[i].st # "live" => sock'[i] = sock[i]
  BY <1>1, <1>2
<1>4. UNCHANGED <<net, mapper, server, table, ctx, pool, asking, phase>>
  BY DEF Tick, threadVars
<1> QED
  BY <1>3, <1>4, SocketsStep

\* Every step preserves the invariant.
LEMMA NextInv == ASSUME IInv, [Next]_vars PROVE IInv'
<1>1. CASE \E p \in Ports, n \in Lengths, f \in BOOLEAN : Send(p, n, f)
  BY <1>1, SendStep
<1>2. CASE \E ok \in BOOLEAN : \/ Receive(ok)
                               \/ \E c \in DOMAIN ctx : Sent(c, ok)
                               \/ \E i \in DOMAIN sock, n \in AnswerLengths :
                                    Answer(i, n, ok)
  BY <1>2, ReceiveStep, SentStep, AnswerStep
<1>3. CASE Dequeue \/ Associate \/ Deny \/ (\E op \in Ops : Handle(op)) \/ Tick
  BY <1>3, DequeueStep, AssociateStep, DenyStep, HandleStep, TickStep
<1>4. CASE ClearWake \/ CleanupThread
  <2>1. UNCHANGED <<ioVars, asking, mapper, net, phase>>
    BY <1>4 DEF ClearWake, CleanupThread, udpVars, lookupVars, threadVars
  <2>2. mapper' \subseteq Ports /\ net' \in Seq(Datagrams)
    BY <2>1 DEF IInv, Types
  <2> QED
    BY <2>1, <2>2, ElsewhereStep
<1>5. CASE ClearThread
  BY <1>5, EraseStep DEF ClearThread, udpVars, lookupVars
<1>6. CASE Stop \/ StopStep
  <2>1. UNCHANGED <<mapper, net, asking>> /\ phase' # "running"
    BY <1>6 DEF Stop, StopStep, StopCall, StopClear, StopPool, StopDone, udpVars, lookupVars
  <2>2. CASE StopClear
    BY <2>1, <2>2, EraseStep DEF StopClear
  <2>3. CASE UNCHANGED ioVars
    BY <2>1, <2>3, ElsewhereStep DEF IInv, Types
  <2> QED
    BY <1>6, <2>2, <2>3 DEF Stop, StopStep, StopCall, StopPool, StopDone
<1>7. CASE UNCHANGED vars
  <2>1. UNCHANGED <<ioVars, asking, mapper, net, phase>>
    BY <1>7 DEF vars, udpVars, lookupVars, threadVars
  <2>2. mapper' \subseteq Ports /\ net' \in Seq(Datagrams)
    BY <2>1 DEF IInv, Types
  <2> QED
    BY <2>1, <2>2, ElsewhereStep
<1>8. CASE \E p \in Ports : Rebind(p)
  <2>1. UNCHANGED <<ioVars, asking, mapper, net, phase>>
    BY <1>8 DEF Rebind, threadVars
  <2>2. mapper' \subseteq Ports /\ net' \in Seq(Datagrams)
    BY <2>1 DEF IInv, Types
  <2> QED
    BY <2>1, <2>2, ElsewhereStep
<1> QED
  BY <1>1, <1>2, <1>3, <1>4, <1>5, <1>6, <1>7, <1>8 DEF Next

\* The inductive invariant holds throughout.
THEOREM UdpInvariant == Spec => []IInv
<1>1. IInv /\ [Next]_vars => IInv'
  BY NextInv
<1> QED
  BY <1>1, InitInv, PTL DEF Spec

\* Every datagram that is being sent goes out through the association of the
\* client it came from, or back to the client it is for, however many clients
\* share the server's one buffer and whatever has failed.
THEOREM UdpRightClient == Spec => []RightClient
<1>1. IInv => RightClient
  BY DEF IInv, Types, Owners, Outstanding, RightClient
<1> QED
  BY <1>1, UdpInvariant, PTL

\* Until stop() is called the server has a receive posted, or a completed one
\* that a thread will handle or is handling.
THEOREM UdpServerListens == Spec => []ServerListens
<1>1. IInv => ServerListens
  BY DEF IInv, Types, Asking, ServerListens
<1> QED
  BY <1>1, UdpInvariant, PTL

\* Every packet has room for the datagram in it and the pool's stacks hold
\* packets of their own sizes, for any limit of the pool.
THEOREM UdpPacketsFit == Spec => []PacketsFit
<1>1. IInv => PacketsFit
  BY DEF IInv, Types, Pool, Outstanding, PacketsFit
<1> QED
  BY <1>1, UdpInvariant, PTL
-----------------------------------------------------------------------------
\* Types.  An operation is completed as long as a thread has it in hands, and
\* there is a context for every datagram that has arrived: the numbers say so.

Holds == server.recv \in {"done", "taken"}
DoneReceives == {i \in 1 .. MaxSockets : sock[i].recv = "done"}

Clocks ==
    /\ bound \in Bindings
    /\ endpoints \in [DOMAIN endpoints -> 0 .. EndpointExpired]
    /\ DOMAIN endpoints \subseteq Ports
    /\ gap \in [Ports -> Nat]
    /\ count \in [datagrams : Nat, answers : Nat, failures : Nat, ticks : Nat, rebinds : Nat]
    /\ \A i \in 1 .. MaxSockets : sock[i].age <= SocketExpired

Tabled ==
    /\ \A i \in 1 .. MaxSockets : sock[i].st = "live" =>
           sock[i].client \in DOMAIN table /\ table[sock[i].client] = i
    /\ asking \notin DOMAIN table

InHands ==
    /\ IsFiniteSet(hands)
    /\ hands \subseteq Ops
    /\ ServerOp \in hands => server.recv \in {"done", "failed"}
    /\ \A i \in 1 .. MaxSockets : RecvOp(i) \in hands =>
           sock[i].recv \in {"done", "failed"}
    /\ \A c \in 1 .. MaxSends : SendOp(c) \in hands =>
           ctx[c].st \in {"done", "failed"}

Threads ==
    /\ gone \in Nat
    /\ gone + Cardinality(hands) + (IF asking = NoAsk THEN 0 ELSE 1) <= Workers
    /\ clear \in {"checking", "sleeping", "gone"}

Capacity ==
    Cardinality(FreeContexts) >=
        Cardinality(DoneReceives) + (IF Holds THEN 1 ELSE 0)

Book == Clocks /\ Tabled /\ InHands /\ Threads /\ Capacity

\* The operations are different from each other.
LEMMA OpFacts ==
  ASSUME IInv
  PROVE  /\ ServerOp \in Ops
         /\ \A i \in 1 .. MaxSockets : RecvOp(i) \in Ops
         /\ \A c \in 1 .. MaxSends : SendOp(c) \in Ops
         /\ \A op \in Ops : \/ op = ServerOp
                            \/ \E i \in 1 .. MaxSockets : op = RecvOp(i)
                            \/ \E c \in 1 .. MaxSends : op = SendOp(c)
         /\ \A i \in 1 .. MaxSockets : RecvOp(i) # ServerOp
         /\ \A c \in 1 .. MaxSends : SendOp(c) # ServerOp
         /\ \A i \in 1 .. MaxSockets, c \in 1 .. MaxSends : RecvOp(i) # SendOp(c)
         /\ \A i, j \in 1 .. MaxSockets : RecvOp(i) = RecvOp(j) => i = j
         /\ \A i, j \in 1 .. MaxSends : SendOp(i) = SendOp(j) => i = j
<1>1. DOMAIN sock = 1 .. MaxSockets /\ DOMAIN ctx = 1 .. MaxSends
  BY DEF IInv, Types
<1> QED
  BY <1>1 DEF Ops, ServerOp, RecvOp, SendOp

\* What State says of each operation.
LEMMA StateFacts ==
  /\ State(ServerOp) = server.recv
  /\ \A i \in 1 .. MaxSockets : State(RecvOp(i)) = sock[i].recv
  /\ \A c \in 1 .. MaxSends : State(SendOp(c)) = ctx[c].st
<1>1. ServerOp[1] = "server"
  BY DEF ServerOp
<1>2. \A i \in 1 .. MaxSockets : RecvOp(i)[1] = "recv" /\ RecvOp(i)[2] = i
  BY DEF RecvOp
<1>3. \A c \in 1 .. MaxSends : SendOp(c)[1] = "send" /\ SendOp(c)[2] = c
  BY DEF SendOp
<1> QED
  BY <1>1, <1>2, <1>3 DEF State

\* Counting a failure.
LEMMA CountFacts ==
  ASSUME Clocks, NEW ok \in BOOLEAN, CountFailure(ok)
  PROVE  /\ count' \in [datagrams : Nat, answers : Nat, failures : Nat, ticks : Nat, rebinds : Nat]
         /\ count.failures \in Nat
         /\ count'.failures = 0 => ok /\ count.failures = 0
         /\ ok => count'.failures = count.failures
<1>1. count \in [datagrams : Nat, answers : Nat, failures : Nat, ticks : Nat, rebinds : Nat]
  BY DEF Clocks
<1>2. count' = [count EXCEPT !.failures = count.failures + (IF ok THEN 0 ELSE 1)]
  BY DEF CountFailure, Count
<1> QED
  BY <1>1, <1>2

\* The sets that Capacity compares are finite.
LEMMA FiniteFacts ==
  ASSUME IInv
  PROVE  /\ IsFiniteSet(FreeContexts) /\ IsFiniteSet(DoneReceives)
         /\ Cardinality(FreeContexts) \in Nat /\ Cardinality(DoneReceives) \in Nat
         /\ FreeContexts = {c \in 1 .. MaxSends : ctx[c].st = "free"}
         /\ \A i \in 1 .. MaxSockets : sock[i].recv = "done" =>
              Cardinality(DoneReceives) # 0
         /\ FreeContexts = {} => Cardinality(FreeContexts) = 0
<1>1. IsFiniteSet(1 .. MaxSends) /\ IsFiniteSet(1 .. MaxSockets)
  BY FS_Interval, UdpAssumption
<1>2. /\ FreeContexts = {c \in 1 .. MaxSends : ctx[c].st = "free"}
      /\ DoneReceives \subseteq 1 .. MaxSockets
  BY DEF FreeContexts, DoneReceives, IInv, Types
<1>3. IsFiniteSet(FreeContexts) /\ IsFiniteSet(DoneReceives)
  BY <1>1, <1>2, FS_Subset
<1>4. \A i \in 1 .. MaxSockets : sock[i].recv = "done" => DoneReceives # {}
  BY DEF DoneReceives
<1> QED
  BY <1>2, <1>3, <1>4, FS_CardinalityType, FS_EmptySet

\* The same after a step.
LEMMA FinitePrimed ==
  ASSUME IInv'
  PROVE  /\ IsFiniteSet(FreeContexts') /\ IsFiniteSet(DoneReceives')
         /\ Cardinality(FreeContexts') \in Nat /\ Cardinality(DoneReceives') \in Nat
<1>1. IsFiniteSet(1 .. MaxSends) /\ IsFiniteSet(1 .. MaxSockets)
  BY FS_Interval, UdpAssumption
<1>2. /\ FreeContexts' \subseteq 1 .. MaxSends
      /\ DoneReceives' \subseteq 1 .. MaxSockets
  BY DEF FreeContexts, DoneReceives, IInv, Types
<1>3. IsFiniteSet(FreeContexts') /\ IsFiniteSet(DoneReceives')
  BY <1>1, <1>2, FS_Subset
<1> QED
  BY <1>3, FS_CardinalityType

\* Nothing arrives.
LEMMA CapacityKept ==
  ASSUME IInv, IInv', Capacity,
         FreeContexts \subseteq FreeContexts', DoneReceives' \subseteq DoneReceives,
         Holds' => Holds
  PROVE  Capacity'
<1>1. /\ Cardinality(FreeContexts) \in Nat /\ Cardinality(DoneReceives) \in Nat
      /\ IsFiniteSet(FreeContexts') /\ IsFiniteSet(DoneReceives)
  BY FiniteFacts, FinitePrimed
<1>2. Cardinality(FreeContexts') \in Nat /\ Cardinality(DoneReceives') \in Nat
  BY FinitePrimed
<1>3. /\ Cardinality(FreeContexts) <= Cardinality(FreeContexts')
      /\ Cardinality(DoneReceives') <= Cardinality(DoneReceives)
  BY <1>1, FS_Subset
<1> QED
  BY <1>1, <1>2, <1>3 DEF Capacity

\* A datagram arrives at an object or at the server.
LEMMA CapacityTaken ==
  ASSUME IInv, IInv', CanRelay, FreeContexts' = FreeContexts,
         \/ /\ Holds' => Holds
            /\ \E i \in 1 .. MaxSockets : DoneReceives' \subseteq DoneReceives \cup {i}
         \/ ~Holds /\ DoneReceives' = DoneReceives
  PROVE  Capacity'
<1>1. /\ Cardinality(FreeContexts) \in Nat /\ Cardinality(DoneReceives) \in Nat
      /\ IsFiniteSet(FreeContexts) /\ IsFiniteSet(DoneReceives)
  BY FiniteFacts
<1>2. Cardinality(FreeContexts') \in Nat /\ Cardinality(DoneReceives') \in Nat
  BY FinitePrimed
<1>3. {i \in DOMAIN sock : sock[i].recv = "done"} = DoneReceives
  BY DEF DoneReceives, IInv, Types
<1>4. Cardinality(FreeContexts) > Cardinality(DoneReceives) + (IF Holds THEN 1 ELSE 0)
  BY <1>3 DEF CanRelay, Holds
<1>5. CASE ~Holds /\ DoneReceives' = DoneReceives
  BY <1>1, <1>2, <1>4, <1>5 DEF Capacity
<1>6. CASE /\ Holds' => Holds
           /\ \E i \in 1 .. MaxSockets : DoneReceives' \subseteq DoneReceives \cup {i}
  <2>1. PICK i \in 1 .. MaxSockets : DoneReceives' \subseteq DoneReceives \cup {i}
    BY <1>6
  <2>2. /\ IsFiniteSet(DoneReceives \cup {i})
        /\ Cardinality(DoneReceives \cup {i}) <= Cardinality(DoneReceives) + 1
        /\ Cardinality(DoneReceives \cup {i}) \in Nat
    <3>1. /\ IsFiniteSet(DoneReceives \cup {i})
          /\ Cardinality(DoneReceives \cup {i}) =
               IF i \in DoneReceives THEN Cardinality(DoneReceives)
                                     ELSE Cardinality(DoneReceives) + 1
      BY <1>1, FS_AddElement
    <3> QED
      BY <1>1, <3>1
  <2>3. Cardinality(DoneReceives') <= Cardinality(DoneReceives \cup {i})
    BY <2>1, <2>2, FS_Subset
  <2> QED
    BY <1>1, <1>2, <1>4, <1>6, <2>2, <2>3 DEF Capacity
<1> QED
  BY <1>5, <1>6

\* What has arrived is handled, with a context.
LEMMA CapacityUsed ==
  ASSUME IInv, IInv', Capacity, NEW c, FreeContexts \ {c} \subseteq FreeContexts',
         \/ /\ Holds' => Holds
            /\ \E i \in DoneReceives : DoneReceives' \subseteq DoneReceives \ {i}
         \/ Holds /\ ~Holds' /\ DoneReceives' \subseteq DoneReceives
  PROVE  Capacity'
<1>1. /\ Cardinality(FreeContexts) \in Nat /\ Cardinality(DoneReceives) \in Nat
      /\ IsFiniteSet(FreeContexts) /\ IsFiniteSet(DoneReceives)
  BY FiniteFacts
<1>2. /\ Cardinality(FreeContexts') \in Nat /\ Cardinality(DoneReceives') \in Nat
      /\ IsFiniteSet(FreeContexts')
  BY FinitePrimed
<1>3. Cardinality(FreeContexts) - 1 <= Cardinality(FreeContexts')
  <2>1. /\ Cardinality(FreeContexts \ {c}) \in Nat
        /\ Cardinality(FreeContexts \ {c}) >= Cardinality(FreeContexts) - 1
    <3>1. /\ IsFiniteSet(FreeContexts \ {c})
          /\ Cardinality(FreeContexts \ {c}) =
               IF c \in FreeContexts THEN Cardinality(FreeContexts) - 1
                                     ELSE Cardinality(FreeContexts)
      BY <1>1, FS_RemoveElement
    <3>2. Cardinality(FreeContexts \ {c}) \in Nat
      BY <3>1, FS_CardinalityType
    <3> QED
      BY <1>1, <3>1, <3>2
  <2>2. Cardinality(FreeContexts \ {c}) <= Cardinality(FreeContexts')
    BY <1>2, FS_Subset
  <2> QED
    BY <1>1, <1>2, <2>1, <2>2
<1>4. Cardinality(FreeContexts) >= Cardinality(DoneReceives) + (IF Holds THEN 1 ELSE 0)
  BY DEF Capacity
<1>5. CASE Holds /\ ~Holds' /\ DoneReceives' \subseteq DoneReceives
  <2>1. Cardinality(DoneReceives') <= Cardinality(DoneReceives)
    BY <1>1, <1>5, FS_Subset
  <2> QED
    BY <1>1, <1>2, <1>3, <1>4, <1>5, <2>1 DEF Capacity
<1>6. CASE /\ Holds' => Holds
           /\ \E i \in DoneReceives : DoneReceives' \subseteq DoneReceives \ {i}
  <2>1. PICK i \in DoneReceives : DoneReceives' \subseteq DoneReceives \ {i}
    BY <1>6
  <2>2. /\ IsFiniteSet(DoneReceives \ {i})
        /\ Cardinality(DoneReceives \ {i}) = Cardinality(DoneReceives) - 1
    BY <1>1, FS_RemoveElement
  <2>3. Cardinality(DoneReceives') <= Cardinality(DoneReceives \ {i})
    BY <2>1, <2>2, FS_Subset
  <2> QED
    BY <1>1, <1>2, <1>3, <1>4, <1>6, <2>2, <2>3 DEF Capacity
<1> QED
  BY <1>5, <1>6

\* For what has arrived there is a context.
LEMMA HasContext ==
  ASSUME IInv, Capacity, Holds \/ DoneReceives # {}
  PROVE  FreeContexts # {}
<1>1. /\ IsFiniteSet(DoneReceives)
      /\ Cardinality(FreeContexts) \in Nat /\ Cardinality(DoneReceives) \in Nat
      /\ FreeContexts = {} => Cardinality(FreeContexts) = 0
  BY FiniteFacts
<1>2. DoneReceives # {} => Cardinality(DoneReceives) # 0
  BY <1>1, FS_EmptySet
<1> QED
  BY <1>1, <1>2 DEF Capacity

\* The send of a datagram gets context c, unless it fails at once.
Gains(i, remote, d, ok, c) ==
    /\ ctx[c].st = "free"
    /\ \A x \in 1 .. MaxSends : x # c => ctx'[x] = ctx[x]
    /\ ~ok => ctx'[c] = ctx[c]
    /\ ok => /\ ctx'[c].st = "sending" /\ ctx'[c].sock = i
             /\ ctx'[c].remote = remote /\ ctx'[c].d = d

LEMMA RelayGains ==
  ASSUME IInv, FreeContexts # {}, NEW socks, NEW i, NEW remote, NEW d,
         NEW ok \in BOOLEAN, Relay(socks, i, remote, d, ok)
  PROVE  \E c \in 1 .. MaxSends : Gains(i, remote, d, ok, c)
<1> DEFINE c == CHOOSE n \in FreeContexts : TRUE
           k == Allocate(pool, d.length).packet
<1>1. ctx \in [1 .. MaxSends -> Sends]
  BY DEF IInv, Types
<1>2. c \in FreeContexts /\ c \in 1 .. MaxSends /\ ctx[c].st = "free"
  BY <1>1 DEF FreeContexts
<1>3. ctx' = IF ok THEN [ctx EXCEPT ![c] =
                       [st |-> "sending", sock |-> i, remote |-> remote,
                        packet |-> k, d |-> d]]
                      ELSE ctx
  BY DEF Relay
<1> HIDE DEF c, k
<1>4. /\ \A x \in 1 .. MaxSends : x # c => ctx'[x] = ctx[x]
      /\ ~ok => ctx'[c] = ctx[c]
      /\ ok => ctx'[c] = [st |-> "sending", sock |-> i, remote |-> remote,
                          packet |-> k, d |-> d]
  BY <1>1, <1>2, <1>3
<1>5. Gains(i, remote, d, ok, c)
  BY <1>2, <1>4 DEF Gains
<1> QED
  BY <1>2, <1>5
-----------------------------------------------------------------------------
\* What the steps do.

\* A port is registered, or its time set.
LEMMA RefreshFacts ==
  ASSUME NEW e, NEW p \in Ports, e \in [DOMAIN e -> 0 .. EndpointExpired],
         DOMAIN e \subseteq Ports
  PROVE  /\ DOMAIN Refresh(e, p) = DOMAIN e \cup {p}
         /\ Refresh(e, p)[p] = 0
         /\ \A q \in DOMAIN e : q # p => Refresh(e, p)[q] = e[q]
         /\ Refresh(e, p) \in [DOMAIN Refresh(e, p) -> 0 .. EndpointExpired]
         /\ DOMAIN Refresh(e, p) \subseteq Ports
         /\ Refresh(Refresh(e, p), p) = Refresh(e, p)
<1>1. 0 \in 0 .. EndpointExpired
  BY DEF EndpointExpired
<1> QED
  BY <1>1 DEF Refresh

\* A datagram of a listed program registers its port, if it is new, and goes to
\* the server unless it is a fragment.
Sending(p, n, f, ok, listed, new) ==
    /\ new = (listed /\ p \notin DOMAIN endpoints)
    /\ phase = "running"
    /\ count' = [count EXCEPT !.datagrams = @ + 1,
                   !.failures = IF ok THEN @ ELSE @ + 1]
    /\ mapper' = IF new THEN mapper \cup {p} ELSE mapper
    /\ listed /\ ~f =>
         /\ endpoints' = Refresh(endpoints, p)
         /\ net' = Append(net, [port |-> p, length |-> n + HeaderLength,
                                fragment |-> FALSE, new |-> new])
    /\ listed /\ f =>
         /\ endpoints' = IF new THEN Refresh(endpoints, p) ELSE endpoints
         /\ net' = net
    /\ ~listed => endpoints' = endpoints /\ net' = net
    /\ gap' = [gap EXCEPT ![p] =
          IF new \/ (net' # net /\ Steady(p)) THEN 0 ELSE @]
    /\ harm' \subseteq harm \cup {<<"unlisted", p>>, <<"missed", p>>}

LEMMA SendFacts ==
  ASSUME IInv, Clocks, NEW p \in Ports, NEW n \in Lengths, NEW f \in BOOLEAN,
         Send(p, n, f)
  PROVE  \E ok, listed, new \in BOOLEAN : Sending(p, n, f, ok, listed, new)
<1>0. PICK ok \in BOOLEAN :
       LET listed == (IF ok THEN Source(p) ELSE SourceFails(p)).process
                        \in Listed
           new    == listed /\ IsNewEndpoint(endpoints, p)
           known  == IF new THEN Refresh(endpoints, p) ELSE endpoints
           d      == [port |-> p, length |-> n, fragment |-> f, new |-> new]
           r      == ClientToServer(known, d)
       IN /\ count' = [count EXCEPT !.datagrams = @ + 1,
                          !.failures = IF ok THEN @ ELSE @ + 1]
          /\ mapper' = IF new THEN mapper \cup {p} ELSE mapper
          /\ IF listed
             THEN /\ endpoints' = r.endpoints
                  /\ net' = IF r.done THEN Append(net, r.datagram) ELSE net
             ELSE UNCHANGED <<endpoints, net>>
          /\ gap' = [gap EXCEPT ![p] =
                IF new \/ (net' # net /\ Steady(p)) THEN 0 ELSE @]
          /\ harm' = harm
                \cup Wrong("unlisted", p, listed /\ owned'[p] \cap Listed = {})
                \cup Wrong("missed", p, /\ owned'[p] \subseteq Listed
                                        /\ p \notin lapsed'
                                        /\ ~f /\ net' = net)
  BY DEF Send
<1> DEFINE listed == (IF ok THEN Source(p) ELSE SourceFails(p)).process \in Listed
           new    == listed /\ IsNewEndpoint(endpoints, p)
           known  == IF new THEN Refresh(endpoints, p) ELSE endpoints
           d      == [port |-> p, length |-> n, fragment |-> f, new |-> new]
           r      == ClientToServer(known, d)
           sent   == [port |-> p, length |-> n + HeaderLength,
                      fragment |-> FALSE, new |-> new]
<1>1. listed \in BOOLEAN /\ new \in BOOLEAN
  OBVIOUS
<1>2. new = (listed /\ p \notin DOMAIN endpoints)
  BY DEF IsNewEndpoint
<1>3. /\ count' = [count EXCEPT !.datagrams = @ + 1,
                          !.failures = IF ok THEN @ ELSE @ + 1]
      /\ mapper' = IF new THEN mapper \cup {p} ELSE mapper
      /\ gap' = [gap EXCEPT ![p] =
                IF new \/ (net' # net /\ Steady(p)) THEN 0 ELSE @]
  BY <1>0
<1>4. listed => /\ endpoints' = r.endpoints
                /\ net' = IF r.done THEN Append(net, r.datagram) ELSE net
  BY <1>0
<1>5. ~listed => endpoints' = endpoints /\ net' = net
  BY <1>0
<1>6. harm' \subseteq harm \cup {<<"unlisted", p>>, <<"missed", p>>}
  BY <1>0 DEF Wrong
<1>7. phase = "running"
  BY DEF Send
<1> HIDE DEF listed
<1>8. listed => p \in DOMAIN known /\ Refresh(known, p) = Refresh(endpoints, p)
  <2>1. CASE new
    <3>1. known = Refresh(endpoints, p)
      BY <2>1
    <3>2. /\ DOMAIN Refresh(endpoints, p) = DOMAIN endpoints \cup {p}
          /\ Refresh(Refresh(endpoints, p), p) = Refresh(endpoints, p)
      BY RefreshFacts DEF Clocks
    <3> QED
      BY <3>1, <3>2
  <2>2. CASE ~new
    BY <1>2, <2>2
  <2> QED
    BY <2>1, <2>2
<1> HIDE DEF new, known
<1>9. d.port = p /\ d.fragment = f /\ [d EXCEPT !.length = @ + HeaderLength]
             = [port |-> p, length |-> n + HeaderLength, fragment |-> f, new |-> new]
  OBVIOUS
<1>10. listed /\ ~f => r.done /\ r.endpoints = Refresh(endpoints, p)
                       /\ r.datagram = sent
  BY <1>8, <1>9 DEF ClientToServer, Refused
<1>11. listed /\ f => ~r.done /\ r.endpoints = known
  BY <1>9 DEF ClientToServer, Refused
<1> HIDE DEF r, d
<1>12. listed /\ ~f => /\ endpoints' = Refresh(endpoints, p)
                       /\ net' = Append(net, sent)
  BY <1>4, <1>10
<1>13. listed /\ f =>
                /\ endpoints' = IF new THEN Refresh(endpoints, p) ELSE endpoints
                /\ net' = net
  BY <1>4, <1>11 DEF known
<1>14. Sending(p, n, f, ok, listed, new)
  BY <1>2, <1>3, <1>5, <1>6, <1>7, <1>12, <1>13 DEF Sending
<1> QED
  BY <1>1, <1>14

\* A send completes, and one to the client sets the time of its port.
LEMMA SentFacts ==
  ASSUME IInv, Clocks, NEW c \in DOMAIN ctx, NEW ok \in BOOLEAN, Sent(c, ok)
  PROVE  /\ c \in 1 .. MaxSends /\ ctx[c].st = "sending"
         /\ \A x \in 1 .. MaxSends : x # c => ctx'[x] = ctx[x]
         /\ ctx'[c] = [ctx[c] EXCEPT !.st = IF ok THEN "done" ELSE "failed"]
         /\ ctx'[c].st = (IF ok THEN "done" ELSE "failed")
         /\ ctx'[c].sock = ctx[c].sock /\ ctx'[c].remote = ctx[c].remote
         /\ ctx'[c].d = ctx[c].d
         /\ CountFailure(ok)
         /\ ctx[c].d.port \in Clients
         /\ \/ endpoints' = endpoints
            \/ /\ ctx[c].d.port \in DOMAIN endpoints
               /\ endpoints' = Refresh(endpoints, ctx[c].d.port)
         /\ ok /\ ~ctx[c].remote /\ ~ctx[c].d.fragment
              /\ ctx[c].d.port \in DOMAIN endpoints =>
              endpoints' = Refresh(endpoints, ctx[c].d.port)
<1>1. /\ c \in 1 .. MaxSends /\ ctx \in [1 .. MaxSends -> Sends]
      /\ ctx[c] \in Sends
  BY DEF IInv, Types
<1>2. ctx[c].d.port \in Clients
  BY <1>1 DEF Sends, Datagrams
<1>3. ctx' = [ctx EXCEPT ![c] = [ctx[c] EXCEPT !.st = IF ok THEN "done" ELSE "failed"]]
      /\ ctx[c].st = "sending" /\ CountFailure(ok)
  BY DEF Sent
<1>4. /\ ctx'[c] = [ctx[c] EXCEPT !.st = IF ok THEN "done" ELSE "failed"]
      /\ \A x \in 1 .. MaxSends : x # c => ctx'[x] = ctx[x]
  BY <1>1, <1>3
<1>5. /\ ctx'[c].st = (IF ok THEN "done" ELSE "failed")
      /\ ctx'[c].sock = ctx[c].sock /\ ctx'[c].remote = ctx[c].remote
      /\ ctx'[c].d = ctx[c].d
  BY <1>1, <1>4 DEF Sends
<1>6. IF ok /\ ~ctx[c].remote
       THEN endpoints' = ServerToClient(endpoints, ctx[c].d).endpoints
       ELSE endpoints' = endpoints
  BY DEF Sent
<1>7. ServerToClient(endpoints, ctx[c].d).endpoints =
        IF ctx[c].d.fragment \/ ctx[c].d.port \notin DOMAIN endpoints
        THEN endpoints ELSE Refresh(endpoints, ctx[c].d.port)
  BY DEF ServerToClient, Refused
<1> QED
  BY <1>1, <1>2, <1>3, <1>4, <1>5, <1>6, <1>7

\* A step that changes neither the threads nor the table keeps the book, if it
\* keeps what is in hands.
LEMMA BookKept ==
  ASSUME IInv, IInv', Book, bound' = bound \/ bound' \in Bindings,
         UNCHANGED <<table, hands, asking, gone>>,
         endpoints' \in [DOMAIN endpoints' -> 0 .. EndpointExpired],
         DOMAIN endpoints' \subseteq Ports, gap' \in [Ports -> Nat],
         count' \in [datagrams : Nat, answers : Nat, failures : Nat, ticks : Nat, rebinds : Nat],
         clear' \in {"checking", "sleeping", "gone"},
         server.recv \in {"done", "failed"} => server'.recv \in {"done", "failed"},
         \A i \in 1 .. MaxSockets :
            /\ sock'[i].age <= SocketExpired
            /\ sock'[i].st = "live" => sock[i].st = "live"
            /\ sock'[i].client = sock[i].client
            /\ sock[i].recv \in {"done", "failed"} =>
                 sock'[i].recv \in {"done", "failed"},
         \A c \in 1 .. MaxSends : ctx[c].st \in {"done", "failed"} =>
            ctx'[c].st \in {"done", "failed"},
         Capacity'
  PROVE  Book'
<1>1. Clocks'
  BY DEF Book, Clocks
<1>2. Tabled'
  BY DEF Book, Tabled
<1>3. InHands'
  <2>1. Ops' = Ops
    <3>1. /\ DOMAIN sock = 1 .. MaxSockets /\ DOMAIN sock' = 1 .. MaxSockets
          /\ DOMAIN ctx = 1 .. MaxSends /\ DOMAIN ctx' = 1 .. MaxSends
      BY DEF IInv, Types
    <3> QED
      BY <3>1 DEF Ops, ServerOp, RecvOp, SendOp
  <2> QED
    BY <2>1 DEF Book, InHands, ServerOp, RecvOp, SendOp
<1>4. Threads'
  BY DEF Book, Threads
<1> QED
  BY <1>1, <1>2, <1>3, <1>4 DEF Book
\* A router just started.
LEMMA InitBook == ASSUME Init PROVE Book
<1>0. IInv
  BY InitInv
<1>1. Clocks
  BY DEF Init, Clocks, NoSocket, SocketExpired, EndpointExpired
<1>2. Tabled
  BY DEF Init, Tabled, NoSocket
<1>3. InHands
  BY FS_EmptySet DEF Init, InHands
<1>4. Threads
  BY FS_EmptySet, UdpAssumption DEF Init, Threads
<1>5. Capacity
  <2>1. DoneReceives = {} /\ ~Holds
    BY DEF Init, DoneReceives, NoSocket, Holds
  <2>2. Cardinality(DoneReceives) = 0 /\ Cardinality(FreeContexts) \in Nat
    BY <1>0, <2>1, FiniteFacts, FS_EmptySet
  <2> QED
    BY <2>1, <2>2 DEF Capacity
<1> QED
  BY <1>1, <1>2, <1>3, <1>4, <1>5 DEF Book

\* A step that leaves the objects, the sends and the server alone.
LEMMA BookElsewhere ==
  ASSUME IInv, IInv', Book, bound' = bound \/ bound' \in Bindings,
         UNCHANGED <<ioVars, hands, asking, gone>>,
         endpoints' \in [DOMAIN endpoints' -> 0 .. EndpointExpired],
         DOMAIN endpoints' \subseteq Ports, gap' \in [Ports -> Nat],
         count' \in [datagrams : Nat, answers : Nat, failures : Nat, ticks : Nat, rebinds : Nat],
         clear' \in {"checking", "sleeping", "gone"}
  PROVE  Book'
<1>1. FreeContexts' = FreeContexts /\ DoneReceives' = DoneReceives /\ Holds' = Holds
  BY DEF ioVars, FreeContexts, DoneReceives, Holds
<1>2. Capacity'
  BY <1>1 DEF Book, Capacity
<1>3. UNCHANGED <<server, table, sock, ctx>>
  BY DEF ioVars
<1>4. \A i \in 1 .. MaxSockets : sock'[i].age <= SocketExpired
  BY <1>3 DEF Book, Clocks
<1> QED
  BY <1>2, <1>3, <1>4, BookKept

LEMMA SendBook ==
  ASSUME IInv, IInv', Book, NEW p \in Ports, NEW n \in Lengths, NEW f \in BOOLEAN,
         Send(p, n, f)
  PROVE  Book'
<1>1. PICK ok \in BOOLEAN, listed \in BOOLEAN, new \in BOOLEAN :
         Sending(p, n, f, ok, listed, new)
  BY SendFacts DEF Book
<1>2. /\ endpoints \in [DOMAIN endpoints -> 0 .. EndpointExpired]
      /\ DOMAIN endpoints \subseteq Ports /\ gap \in [Ports -> Nat]
      /\ count \in [datagrams : Nat, answers : Nat, failures : Nat, ticks : Nat, rebinds : Nat]
  BY DEF Book, Clocks
<1>3. endpoints' = endpoints \/ endpoints' = Refresh(endpoints, p)
  BY <1>1 DEF Sending
<1>4. /\ endpoints' \in [DOMAIN endpoints' -> 0 .. EndpointExpired]
      /\ DOMAIN endpoints' \subseteq Ports
  <2> DEFINE e == Refresh(endpoints, p)
  <2>1. e \in [DOMAIN e -> 0 .. EndpointExpired] /\ DOMAIN e \subseteq Ports
    BY <1>2, RefreshFacts
  <2> HIDE DEF e
  <2>2. endpoints' = endpoints \/ endpoints' = e
    BY <1>3 DEF e
  <2> QED
    BY <1>2, <2>1, <2>2
<1>5. gap' \in [Ports -> Nat]
  BY <1>1, <1>2 DEF Sending
<1>6. count' \in [datagrams : Nat, answers : Nat, failures : Nat, ticks : Nat, rebinds : Nat]
  <2>1. /\ count.datagrams \in Nat /\ count.answers \in Nat
        /\ count.failures \in Nat /\ count.ticks \in Nat /\ count.rebinds \in Nat
    BY <1>2
  <2>2. count' = [datagrams |-> count.datagrams + 1, answers |-> count.answers,
                  failures |-> IF ok THEN count.failures ELSE count.failures + 1,
                  ticks |-> count.ticks, rebinds |-> count.rebinds]
    BY <1>1, <1>2 DEF Sending
  <2> QED
    BY <2>1, <2>2
<1>7. UNCHANGED <<bound, ioVars, hands, asking, gone, clear>>
  BY DEF Send, threadVars
<1>8. clear' \in {"checking", "sleeping", "gone"}
  BY <1>7 DEF Book, Threads
<1> QED
  BY <1>4, <1>5, <1>6, <1>7, <1>8, BookElsewhere

LEMMA ReceiveBook ==
  ASSUME IInv, IInv', Book, NEW ok \in BOOLEAN, Receive(ok)
  PROVE  Book'
<1>1. /\ UNCHANGED <<bound, endpoints, gap, table, sock, ctx, hands, asking, gone,
                     clear>>
      /\ server.recv = "posted" /\ CountFailure(ok)
      /\ ok => CanRelay
  BY DEF Receive, udpVars, lookupVars, threadVars, ghosts
<1>2. count' \in [datagrams : Nat, answers : Nat, failures : Nat, ticks : Nat, rebinds : Nat]
  BY <1>1, CountFacts DEF Book
<1>3. /\ FreeContexts' = FreeContexts /\ DoneReceives' = DoneReceives
      /\ ~Holds
  BY <1>1 DEF FreeContexts, DoneReceives, Holds
<1>4. Capacity'
  <2>1. CASE ok
    BY <1>1, <1>3, <2>1, CapacityTaken
  <2>2. CASE ~ok
    <3>1. ~Holds'
      BY <2>2 DEF Receive, Holds, IInv, Types
    <3> QED
      BY <1>3, <3>1, CapacityKept DEF Book
  <2> QED
    BY <2>1, <2>2
<1>5. /\ endpoints' \in [DOMAIN endpoints' -> 0 .. EndpointExpired]
      /\ DOMAIN endpoints' \subseteq Ports /\ gap' \in [Ports -> Nat]
      /\ \A i \in 1 .. MaxSockets : sock'[i].age <= SocketExpired
      /\ clear' \in {"checking", "sleeping", "gone"}
  BY <1>1 DEF Book, Clocks, Threads
<1> QED
  BY <1>1, <1>2, <1>4, <1>5, BookKept

LEMMA AnswerBook ==
  ASSUME IInv, IInv', Book, NEW i \in DOMAIN sock, NEW n \in AnswerLengths,
         NEW ok \in BOOLEAN, Answer(i, n, ok)
  PROVE  Book'
<1>1. /\ UNCHANGED <<bound, endpoints, gap, server, table, ctx, hands, asking, gone,
                     clear>>
      /\ sock[i].st = "live" /\ sock[i].recv = "posted" /\ CanRelay
      /\ i \in 1 .. MaxSockets /\ sock \in [1 .. MaxSockets -> Objects]
  BY DEF Answer, udpVars, lookupVars, threadVars, ghosts, IInv, Types
<1>2. count' \in [datagrams : Nat, answers : Nat, failures : Nat, ticks : Nat, rebinds : Nat]
  <2>1. count \in [datagrams : Nat, answers : Nat, failures : Nat, ticks : Nat, rebinds : Nat]
    BY DEF Book, Clocks
  <2>2. count' = [count EXCEPT !.answers = @ + 1,
                               !.failures = IF ok THEN @ ELSE @ + 1]
    BY DEF Answer
  <2>3. /\ count.datagrams \in Nat /\ count.answers \in Nat
        /\ count.failures \in Nat /\ count.ticks \in Nat /\ count.rebinds \in Nat
    BY <2>1
  <2>4. count' = [datagrams |-> count.datagrams, answers |-> count.answers + 1,
                  failures |-> IF ok THEN count.failures ELSE count.failures + 1,
                  ticks |-> count.ticks, rebinds |-> count.rebinds]
    BY <2>1, <2>2
  <2> QED
    BY <2>3, <2>4
<1> DEFINE o == [sock[i] EXCEPT !.recv = IF ok THEN "done" ELSE "failed",
                                !.length = IF ok THEN n ELSE @]
<1>3. /\ o.st = sock[i].st /\ o.client = sock[i].client /\ o.age = sock[i].age
      /\ o.recv = IF ok THEN "done" ELSE "failed"
  BY <1>1 DEF Objects
<1>4. sock' = [sock EXCEPT ![i] = o]
  BY DEF Answer
<1> HIDE DEF o
<1>5. /\ sock'[i] = o /\ \A j \in 1 .. MaxSockets : j # i => sock'[j] = sock[j]
  BY <1>1, <1>4
<1>6. /\ FreeContexts' = FreeContexts /\ Holds' = Holds
      /\ DoneReceives' \subseteq DoneReceives \cup {i}
  BY <1>1, <1>5 DEF FreeContexts, DoneReceives, Holds
<1>7. Capacity'
  BY <1>1, <1>6, CapacityTaken
<1>8. /\ endpoints' \in [DOMAIN endpoints' -> 0 .. EndpointExpired]
      /\ DOMAIN endpoints' \subseteq Ports /\ gap' \in [Ports -> Nat]
      /\ clear' \in {"checking", "sleeping", "gone"}
  BY <1>1 DEF Book, Clocks, Threads
<1>9. \A j \in 1 .. MaxSockets : sock[j].age <= SocketExpired
  BY DEF Book, Clocks
<1>10. \A j \in 1 .. MaxSockets :
            /\ sock'[j].age <= SocketExpired
            /\ sock'[j].st = "live" => sock[j].st = "live"
            /\ sock'[j].client = sock[j].client
            /\ sock[j].recv \in {"done", "failed"} =>
                 sock'[j].recv \in {"done", "failed"}
  BY <1>1, <1>3, <1>5, <1>9
<1> QED
  BY <1>1, <1>2, <1>7, <1>8, <1>10, BookKept

LEMMA SentBook ==
  ASSUME IInv, IInv', Book, NEW c \in DOMAIN ctx, NEW ok \in BOOLEAN, Sent(c, ok)
  PROVE  Book'
<1>1. UNCHANGED <<bound, gap, server, table, sock, hands, asking, gone, clear>>
  BY DEF Sent, threadVars
<1>2. Clocks
  BY DEF Book
<1>3. /\ c \in 1 .. MaxSends /\ ctx[c].st = "sending"
      /\ \A x \in 1 .. MaxSends : x # c => ctx'[x] = ctx[x]
      /\ ctx'[c].st = (IF ok THEN "done" ELSE "failed")
      /\ CountFailure(ok)
      /\ ctx[c].d.port \in Clients
      /\ \/ endpoints' = endpoints
         \/ /\ ctx[c].d.port \in DOMAIN endpoints
            /\ endpoints' = Refresh(endpoints, ctx[c].d.port)
  BY <1>2, SentFacts
<1>4. count' \in [datagrams : Nat, answers : Nat, failures : Nat, ticks : Nat, rebinds : Nat]
  BY <1>2, <1>3, CountFacts
<1>5. /\ endpoints \in [DOMAIN endpoints -> 0 .. EndpointExpired]
      /\ DOMAIN endpoints \subseteq Ports
  BY <1>2 DEF Clocks
<1>6. /\ endpoints' \in [DOMAIN endpoints' -> 0 .. EndpointExpired]
      /\ DOMAIN endpoints' \subseteq Ports
  <2>1. CASE endpoints' = endpoints
    BY <1>5, <2>1
  <2>2. CASE /\ ctx[c].d.port \in DOMAIN endpoints
             /\ endpoints' = Refresh(endpoints, ctx[c].d.port)
    <3> DEFINE p == ctx[c].d.port
               e == Refresh(endpoints, p)
    <3>1. p \in Ports
      BY <1>5, <2>2
    <3> HIDE DEF p
    <3>2. e \in [DOMAIN e -> 0 .. EndpointExpired] /\ DOMAIN e \subseteq Ports
      BY <1>5, <3>1, RefreshFacts
    <3> HIDE DEF e
    <3>3. endpoints' = e
      BY <2>2 DEF e, p
    <3> QED
      BY <3>2, <3>3
  <2> QED
    BY <1>3, <2>1, <2>2
<1>7. FreeContexts \subseteq FreeContexts' /\ DoneReceives' = DoneReceives
      /\ Holds' = Holds
  <2>1. DOMAIN ctx = 1 .. MaxSends /\ DOMAIN ctx' = 1 .. MaxSends
    BY DEF IInv, Types
  <2>2. c \notin FreeContexts
    BY <1>3 DEF FreeContexts
  <2> QED
    BY <1>1, <1>3, <2>1, <2>2 DEF FreeContexts, DoneReceives, Holds
<1>8. Capacity'
  BY <1>7, CapacityKept DEF Book
<1>9. /\ gap' \in [Ports -> Nat] /\ clear' \in {"checking", "sleeping", "gone"}
      /\ \A i \in 1 .. MaxSockets : sock'[i].age <= SocketExpired
  BY <1>1 DEF Book, Clocks, Threads
<1> QED
  BY <1>1, <1>3, <1>4, <1>6, <1>8, <1>9, BookKept
\* A completion leaves the hands of a thread, which goes on, ends or asks.
LEMMA ThreadsStep ==
  ASSUME Book, IInv, NEW op \in hands, hands' = hands \ {op}, asking = NoAsk, Returns,
         clear' = clear
  PROVE  gone' \in Nat /\ (asking' = NoAsk => Threads')
<1>1. /\ IsFiniteSet(hands) /\ Cardinality(hands') = Cardinality(hands) - 1
      /\ Cardinality(hands) \in Nat /\ Cardinality(hands') \in Nat
  <2>1. IsFiniteSet(hands)
    BY DEF Book, InHands
  <2>2. /\ IsFiniteSet(hands \ {op})
        /\ Cardinality(hands \ {op}) = Cardinality(hands) - 1
    BY <2>1, FS_RemoveElement
  <2> QED
    BY <2>1, <2>2, FS_CardinalityType
<1>2. gone \in Nat /\ gone + Cardinality(hands) + 0 <= Workers
  BY DEF Book, Threads
<1>3. gone' \in Nat /\ gone' <= gone + 1
  BY <1>2 DEF Returns
<1>4. Workers \in Nat
  BY UdpAssumption
<1>5. asking' = NoAsk => gone' + Cardinality(hands') +
                            (IF asking' = NoAsk THEN 0 ELSE 1) <= Workers
  BY <1>1, <1>2, <1>3, <1>4
<1> QED
  BY <1>3, <1>5 DEF Book, Threads

\* What is left in hands is still completed.
LEMMA HandsStep ==
  ASSUME IInv, IInv', Book, NEW op \in hands, hands' = hands \ {op},
         op # ServerOp => server' = server,
         \A i \in 1 .. MaxSockets : op # RecvOp(i) =>
            (sock[i].recv \in {"done", "failed"} =>
               sock'[i].recv \in {"done", "failed"}),
         \A c \in 1 .. MaxSends : op # SendOp(c) =>
            (ctx[c].st \in {"done", "failed"} => ctx'[c].st \in {"done", "failed"})
  PROVE  InHands'
<1>1. IsFiniteSet(hands')
  BY FS_Subset DEF Book, InHands
<1>2. Ops' = Ops
  <2>1. /\ DOMAIN sock = 1 .. MaxSockets /\ DOMAIN sock' = 1 .. MaxSockets
        /\ DOMAIN ctx = 1 .. MaxSends /\ DOMAIN ctx' = 1 .. MaxSends
    BY DEF IInv, Types
  <2> QED
    BY <2>1 DEF Ops, ServerOp, RecvOp, SendOp
<1>4. hands' \subseteq Ops'
  BY <1>2 DEF Book, InHands
<1>5. ServerOp \in hands' => server'.recv \in {"done", "failed"}
  BY DEF Book, InHands
<1>6. \A i \in 1 .. MaxSockets : RecvOp(i) \in hands' =>
           sock'[i].recv \in {"done", "failed"}
  BY DEF Book, InHands
<1>7. \A c \in 1 .. MaxSends : SendOp(c) \in hands' =>
           ctx'[c].st \in {"done", "failed"}
  BY DEF Book, InHands
<1> QED
  BY <1>1, <1>4, <1>5, <1>6, <1>7 DEF InHands, ServerOp, RecvOp, SendOp

\* A completion is dropped, and the book forgets it.
LEMMA ForgetBook ==
  ASSUME IInv, IInv', Book, NEW op \in Completed, Forget(op), hands' = hands
  PROVE  InHands' /\ Capacity' /\ UNCHANGED table
         /\ \A i \in 1 .. MaxSockets :
              /\ sock'[i].st = sock[i].st /\ sock'[i].age = sock[i].age
              /\ sock'[i].client = sock[i].client
<1>0. /\ sock \in [1 .. MaxSockets -> Objects] /\ ctx \in [1 .. MaxSends -> Sends]
      /\ table' = table
      /\ op \in Ops /\ op \notin hands
  BY DEF Forget, IInv, Types, Completed
<1>1. \/ op = ServerOp
      \/ \E i \in 1 .. MaxSockets : op = RecvOp(i)
      \/ \E c \in 1 .. MaxSends : op = SendOp(c)
  BY <1>0, OpFacts
<1>2. CASE op = ServerOp
  <2>1. server'.recv = "off" /\ UNCHANGED <<sock, ctx>>
    BY <1>2 DEF Forget, ServerOp, IInv, Types
  <2>2. /\ FreeContexts' = FreeContexts /\ DoneReceives' = DoneReceives
        /\ ~Holds'
    BY <2>1 DEF FreeContexts, DoneReceives, Holds
  <2>3. Capacity'
    BY <2>2, CapacityKept DEF Book
  <2>4. InHands'
    BY <1>0, <1>2, <2>1 DEF Book, InHands, Ops, ServerOp, RecvOp, SendOp
  <2> QED
    BY <1>0, <2>1, <2>3, <2>4
<1>3. ASSUME NEW i \in 1 .. MaxSockets, op = RecvOp(i)
      PROVE  InHands' /\ Capacity'
             /\ \A j \in 1 .. MaxSockets :
                  /\ sock'[j].st = sock[j].st /\ sock'[j].age = sock[j].age
                  /\ sock'[j].client = sock[j].client
  <2> DEFINE o == [sock[i] EXCEPT !.recv = "off"]
  <2>1. /\ sock' = [sock EXCEPT ![i] = o] /\ UNCHANGED <<server, ctx>>
    BY <1>3 DEF Forget, ServerOp, RecvOp
  <2>2. /\ o.st = sock[i].st /\ o.client = sock[i].client /\ o.age = sock[i].age
        /\ o.recv = "off"
    BY <1>0 DEF Objects
  <2> HIDE DEF o
  <2>3. sock'[i] = o /\ \A j \in 1 .. MaxSockets : j # i => sock'[j] = sock[j]
    BY <1>0, <2>1
  <2>4. /\ FreeContexts' = FreeContexts /\ DoneReceives' \subseteq DoneReceives
        /\ Holds' = Holds
    BY <2>1, <2>2, <2>3 DEF FreeContexts, DoneReceives, Holds
  <2>5. Capacity'
    BY <2>4, CapacityKept DEF Book
  <2>6. InHands'
    <3>1. DOMAIN sock' = DOMAIN sock
      BY <2>1
    <3>2. \A j \in 1 .. MaxSockets : RecvOp(j) \in hands => sock'[j] = sock[j]
      BY <1>0, <1>3, <2>3
    <3> QED
      BY <2>1, <3>1, <3>2 DEF Book, InHands, Ops, ServerOp, RecvOp, SendOp
  <2> QED
    BY <2>2, <2>3, <2>5, <2>6
<1>4. ASSUME NEW c \in 1 .. MaxSends, op = SendOp(c)
      PROVE  InHands' /\ Capacity' /\ sock' = sock
  <2>1. /\ ctx' = [ctx EXCEPT ![c] = NoSend] /\ UNCHANGED <<server, sock>>
    BY <1>4 DEF Forget, ServerOp, SendOp
  <2>2. ctx'[c] = NoSend /\ \A x \in 1 .. MaxSends : x # c => ctx'[x] = ctx[x]
    BY <1>0, <2>1
  <2>3. DOMAIN ctx' = DOMAIN ctx /\ DOMAIN ctx = 1 .. MaxSends
    BY <1>0, <2>1
  <2>4. /\ FreeContexts \subseteq FreeContexts' /\ DoneReceives' = DoneReceives
        /\ Holds' = Holds
    BY <2>1, <2>2, <2>3, RecordFacts DEF FreeContexts, DoneReceives, Holds
  <2>5. Capacity'
    BY <2>4, CapacityKept DEF Book
  <2>6. InHands'
    <3>1. \A x \in 1 .. MaxSends : SendOp(x) \in hands => ctx'[x] = ctx[x]
      BY <1>0, <1>4, <2>2
    <3> QED
      BY <2>1, <2>3, <3>1 DEF Book, InHands, Ops, ServerOp, RecvOp, SendOp
  <2> QED
    BY <2>1, <2>5, <2>6
<1> QED
  BY <1>0, <1>1, <1>2, <1>3, <1>4

LEMMA DequeueBook ==
  ASSUME IInv, IInv', Book, Dequeue
  PROVE  Book'
<1>1. /\ UNCHANGED <<bound, endpoints, gap, count, asking, clear>>
      /\ Idle > 0
  BY DEF Dequeue, udpVars, lookupVars, ghosts
<1>2. /\ IsFiniteSet(hands) /\ Cardinality(hands) \in Nat
      /\ gone \in Nat /\ Workers \in Nat
      /\ gone + Cardinality(hands) + (IF asking = NoAsk THEN 0 ELSE 1) < Workers
  <2>1. IsFiniteSet(hands) /\ Cardinality(hands) \in Nat /\ gone \in Nat
    BY FS_CardinalityType DEF Book, InHands, Threads
  <2> QED
    BY <1>1, <2>1, UdpAssumption DEF Idle
<1>3. CASE \E op \in Completed : hands' = hands \cup {op} /\ UNCHANGED <<ioVars, gone>>
  <2>1. PICK op \in Completed : hands' = hands \cup {op} /\ UNCHANGED <<ioVars, gone>>
    BY <1>3
  <2>2. op \in Ops /\ op \notin hands /\ State(op) \in {"done", "failed"}
    BY DEF Completed
  <2>3. /\ IsFiniteSet(hands') /\ Cardinality(hands') = Cardinality(hands) + 1
    BY <1>2, <2>1, <2>2, FS_AddElement
  <2>4. Threads'
    BY <1>1, <1>2, <2>1, <2>3 DEF Book, Threads
  <2>5. UNCHANGED <<server, table, sock, ctx>>
    BY <2>1 DEF ioVars
  <2>6. InHands'
    <3>1. ServerOp \in hands' => server.recv \in {"done", "failed"}
      BY <2>1, <2>2, StateFacts DEF Book, InHands
    <3>2. \A i \in 1 .. MaxSockets : RecvOp(i) \in hands' =>
             sock[i].recv \in {"done", "failed"}
      BY <2>1, <2>2, StateFacts DEF Book, InHands
    <3>3. \A c \in 1 .. MaxSends : SendOp(c) \in hands' =>
             ctx[c].st \in {"done", "failed"}
      BY <2>1, <2>2, StateFacts DEF Book, InHands
    <3>4. hands' \subseteq Ops
      BY <2>1, <2>2 DEF Book, InHands
    <3> QED
      BY <2>3, <2>5, <3>1, <3>2, <3>3, <3>4
         DEF InHands, Ops, ServerOp, RecvOp, SendOp
  <2>7. Clocks' /\ Tabled'
    BY <1>1, <2>5 DEF Book, Clocks, Tabled
  <2>8. Capacity'
    BY <2>5 DEF Book, Capacity, FreeContexts, DoneReceives, Holds
  <2> QED
    BY <2>4, <2>6, <2>7, <2>8 DEF Book
<1>4. CASE \E op \in Completed : Forget(op) /\ gone' \in {gone, gone + 1}
                                 /\ UNCHANGED hands
  <2>1. PICK op \in Completed : Forget(op) /\ gone' \in {gone, gone + 1}
                                /\ UNCHANGED hands
    BY <1>4
  <2>2. InHands' /\ Capacity' /\ UNCHANGED table
         /\ \A i \in 1 .. MaxSockets :
              /\ sock'[i].st = sock[i].st /\ sock'[i].age = sock[i].age
              /\ sock'[i].client = sock[i].client
    BY <2>1, ForgetBook
  <2>3. Threads'
    BY <1>1, <1>2, <2>1 DEF Book, Threads
  <2>4. Clocks'
    BY <1>1, <2>2 DEF Book, Clocks
  <2>5. Tabled'
    BY <1>1, <2>2 DEF Book, Tabled
  <2> QED
    BY <2>2, <2>3, <2>4, <2>5 DEF Book
<1>5. CASE UNCHANGED <<ioVars, hands>> /\ gone' = gone + 1
  <2>1. UNCHANGED <<server, table, sock, ctx>>
    BY <1>5 DEF ioVars
  <2>2. Threads'
    BY <1>1, <1>2, <1>5 DEF Book, Threads
  <2>3. Clocks' /\ Tabled'
    BY <1>1, <2>1 DEF Book, Clocks, Tabled
  <2>4. InHands'
    BY <1>5, <2>1 DEF Book, InHands, Ops, ServerOp, RecvOp, SendOp
  <2>5. Capacity'
    BY <2>1 DEF Book, Capacity, FreeContexts, DoneReceives, Holds
  <2> QED
    BY <2>2, <2>3, <2>4, <2>5 DEF Book
<1> QED
  BY <1>3, <1>4, <1>5 DEF Dequeue
\* Object i is used: its time is set, and the others are left alone.
Used(i, ok) ==
    /\ \A j \in 1 .. MaxSockets :
         /\ j # i => sock'[j] = sock[j]
         /\ sock'[j].st = sock[j].st /\ sock'[j].client = sock[j].client
    /\ sock'[i].age = 0
    /\ ok /\ ~sock[i].flagged => ~sock'[i].flagged

\* A datagram of a client goes through its object, which is touched.
LEMMA ServerRelays ==
  ASSUME IInv, Capacity, server.recv = "done", server.d.port \in DOMAIN table,
         NEW ok \in BOOLEAN, NEW i, i = table[server.d.port],
         Relay(Touch(i, TRUE), i, TRUE, server.d, ok)
  PROVE  /\ i \in 1 .. MaxSockets /\ sock[i].st = "live"
         /\ sock[i].client = server.d.port
         /\ \E c \in 1 .. MaxSends : Gains(i, TRUE, server.d, ok, c)
         /\ Used(i, ok) /\ sock'[i].recv = sock[i].recv
<1>1. /\ i \in 1 .. MaxSockets /\ sock[i].st = "live"
      /\ sock[i].client = server.d.port /\ sock[i] \in Objects
      /\ sock \in [1 .. MaxSockets -> Objects]
  BY DEF IInv, Types, Owners
<1>2. FreeContexts # {}
  BY HasContext DEF Holds
<1> DEFINE socks == Touch(i, TRUE)
           o == [sock[i] EXCEPT !.age = 0, !.flagged = @ \/ ~ok]
<1> HIDE DEF socks
<1>3. /\ sock' = [socks EXCEPT ![i].flagged = @ \/ ~ok]
      /\ \E c \in 1 .. MaxSends : Gains(i, TRUE, server.d, ok, c)
  <2>1. Relay(socks, i, TRUE, server.d, ok)
    BY DEF socks
  <2>2. sock' = [socks EXCEPT ![i].flagged = @ \/ ~ok]
    BY <2>1 DEF Relay
  <2> QED
    BY <1>2, <2>1, <2>2, RelayGains
<1>4. sock' = [sock EXCEPT ![i] = o]
  BY <1>1, <1>3 DEF Touch, socks
<1>5. /\ o.st = sock[i].st /\ o.recv = sock[i].recv /\ o.client = sock[i].client
      /\ o.age = 0 /\ o.flagged = (sock[i].flagged \/ ~ok)
  BY <1>1 DEF Objects
<1> HIDE DEF o
<1> QED
  BY <1>1, <1>3, <1>4, <1>5 DEF Used

\* The handler of the server's receive.
LEMMA ServerBook ==
  ASSUME IInv, IInv', Book, HandleServer, asking = NoAsk,
         ServerOp \in hands, hands' = hands \ {ServerOp},
         UNCHANGED <<bound, endpoints, gap, clear>>
  PROVE  Book'
<1> DEFINE d == server.d
<1>1. /\ gone \in Nat /\ IsFiniteSet(hands) /\ Clocks /\ Capacity
      /\ server.recv \in {"done", "failed"} /\ Workers \in Nat
      /\ \A i \in 1 .. MaxSockets : RecvOp(i) # ServerOp
      /\ \A c \in 1 .. MaxSends : SendOp(c) # ServerOp
      /\ server \in [recv : {"posted", "done", "failed", "taken", "off"},
                     d : Datagrams]
  BY OpFacts, UdpAssumption DEF Book, Threads, InHands, IInv, Types
<1>2. ASSUME Repost, UNCHANGED <<table, sock, ctx, asking, count>>, Returns
      PROVE  Book'
  <2>1. Threads'
    BY <1>2, ThreadsStep
  <2>2. InHands'
    BY <1>2, HandsStep
  <2>3. Clocks' /\ Tabled'
    BY <1>2 DEF Book, Clocks, Tabled
  <2>4. ~Holds'
    BY <1>1, <1>2 DEF Repost, Holds
  <2>5. Capacity'
    BY <1>1, <1>2, <2>4, CapacityKept DEF FreeContexts, DoneReceives
  <2> QED
    BY <2>1, <2>2, <2>3, <2>5 DEF Book
<1>3. CASE /\ server.recv = "done" /\ d.port \in DOMAIN table
           /\ \E ok \in BOOLEAN :
                /\ CountFailure(ok)
                /\ LET i == table[d.port] IN Relay(Touch(i, TRUE), i, TRUE, d, ok)
           /\ Repost /\ Returns /\ UNCHANGED <<mapper, table, asking, harm>>
  <2> DEFINE i == table[d.port]
  <2>1. PICK ok \in BOOLEAN : /\ CountFailure(ok)
                              /\ Relay(Touch(i, TRUE), i, TRUE, d, ok)
    BY <1>3
  <2> HIDE DEF i
  <2>2. /\ i \in 1 .. MaxSockets
        /\ \E c \in 1 .. MaxSends : Gains(i, TRUE, d, ok, c)
        /\ Used(i, ok) /\ sock'[i].recv = sock[i].recv
    <3>1. server.d.port \in DOMAIN table /\ i = table[server.d.port]
          /\ server.recv = "done" /\ Capacity
      BY <1>1, <1>3 DEF i
    <3>0. Relay(Touch(i, TRUE), i, TRUE, server.d, ok)
      BY <2>1
    <3> HIDE DEF d
    <3>2. \E c \in 1 .. MaxSends : Gains(i, TRUE, server.d, ok, c)
      BY <3>0, <3>1, ServerRelays
    <3>3. i \in 1 .. MaxSockets /\ Used(i, ok) /\ sock'[i].recv = sock[i].recv
      BY <3>0, <3>1, ServerRelays
    <3> QED
      BY <3>2, <3>3 DEF d
  <2>3. PICK c \in 1 .. MaxSends : Gains(i, TRUE, d, ok, c)
    BY <2>2
  <2>4. count' \in [datagrams : Nat, answers : Nat, failures : Nat, ticks : Nat, rebinds : Nat]
    BY <1>1, <2>1, CountFacts
  <2>5. Clocks'
    <3>1. \A j \in 1 .. MaxSockets : sock'[j].age <= SocketExpired
      BY <1>1, <2>2 DEF Clocks, SocketExpired, Used
    <3> QED
      BY <1>1, <2>4, <3>1 DEF Clocks
  <2>6. Tabled'
    BY <1>3, <2>2 DEF Book, Tabled, Used
  <2>7. Threads'
    BY <1>3, ThreadsStep
  <2>8. InHands'
    <3>1. \A x \in 1 .. MaxSends : ctx[x].st \in {"done", "failed"} =>
            ctx'[x].st \in {"done", "failed"}
      BY <2>3 DEF Gains
    <3> QED
      BY <1>1, <2>2, <3>1, HandsStep DEF Used
  <2>9. Capacity'
    <3>1. Holds /\ ~Holds'
      BY <1>1, <1>3 DEF Repost, Holds
    <3>2. DoneReceives' \subseteq DoneReceives
      BY <2>2 DEF DoneReceives, Used
    <3>3. FreeContexts \ {c} \subseteq FreeContexts'
      <4>1. DOMAIN ctx = 1 .. MaxSends /\ DOMAIN ctx' = 1 .. MaxSends
        BY DEF IInv, Types
      <4> QED
        BY <2>3, <4>1 DEF FreeContexts, Gains
    <3> QED
      BY <1>1, <3>1, <3>2, <3>3, CapacityUsed
  <2> QED
    BY <2>5, <2>6, <2>7, <2>8, <2>9 DEF Book
<1>4. CASE /\ server.recv = "done" /\ d.port \notin DOMAIN table
           /\ d.port \in mapper
           /\ mapper' = mapper \ {d.port} /\ asking' = d.port
           /\ Ask /\ UNCHANGED <<table, sock, ctx, pool, gone, harm, count>>
  <2>1. Clocks' /\ Tabled'
    BY <1>4 DEF Book, Clocks, Tabled
  <2>2. InHands'
    BY <1>4, HandsStep
  <2>3. Threads'
    <3>1. /\ Cardinality(hands') = Cardinality(hands) - 1
          /\ Cardinality(hands) \in Nat
      BY <1>1, FS_RemoveElement, FS_CardinalityType
    <3> QED
      BY <1>1, <1>4, <3>1 DEF Book, Threads
  <2>4. FreeContexts' = FreeContexts /\ DoneReceives' = DoneReceives /\ Holds
    BY <1>4 DEF FreeContexts, DoneReceives, Holds
  <2>5. Capacity'
    BY <1>1, <2>4, CapacityKept
  <2> QED
    BY <2>1, <2>2, <2>3, <2>5 DEF Book
<1> QED
  BY <1>2, <1>3, <1>4 DEF HandleServer, Refuse

\* An answer goes to the client of its object, which is touched.
LEMMA RecvRelays ==
  ASSUME IInv, Capacity, NEW i \in 1 .. MaxSockets, sock[i].recv = "done",
         sock[i].st = "live", NEW ok \in BOOLEAN, NEW posted \in BOOLEAN, NEW d,
         Relay([Touch(i, FALSE) EXCEPT
                   ![i].recv = IF posted THEN "posted" ELSE "off",
                   ![i].flagged = @ \/ ~posted],
               i, FALSE, d, ok)
  PROVE  /\ \E c \in 1 .. MaxSends : Gains(i, FALSE, d, ok, c)
         /\ Used(i, posted /\ ok)
         /\ sock'[i].recv = IF posted THEN "posted" ELSE "off"
<1>1. sock[i] \in Objects /\ sock \in [1 .. MaxSockets -> Objects]
  BY DEF IInv, Types
<1>2. FreeContexts # {}
  BY HasContext DEF DoneReceives
<1> DEFINE socks == [Touch(i, FALSE) EXCEPT
                   ![i].recv = IF posted THEN "posted" ELSE "off",
                   ![i].flagged = @ \/ ~posted]
           o == [sock[i] EXCEPT !.age = 0,
                   !.recv = IF posted THEN "posted" ELSE "off",
                   !.flagged = (sock[i].flagged \/ ~posted) \/ ~ok]
<1> HIDE DEF socks
<1>3. /\ sock' = [socks EXCEPT ![i].flagged = @ \/ ~ok]
      /\ \E c \in 1 .. MaxSends : Gains(i, FALSE, d, ok, c)
  <2>1. Relay(socks, i, FALSE, d, ok)
    BY DEF socks
  <2>2. sock' = [socks EXCEPT ![i].flagged = @ \/ ~ok]
    BY <2>1 DEF Relay
  <2> QED
    BY <1>2, <2>1, <2>2, RelayGains
<1>4. sock' = [sock EXCEPT ![i] = o]
  <2>1. socks = [sock EXCEPT ![i] = [sock[i] EXCEPT !.age = 0,
                   !.recv = IF posted THEN "posted" ELSE "off",
                   !.flagged = sock[i].flagged \/ ~posted]]
    BY <1>1 DEF Touch, socks
  <2>2. sock' = [sock EXCEPT ![i] = [socks[i] EXCEPT !.flagged = @ \/ ~ok]]
    BY <1>1, <1>3, <2>1
  <2> QED
    BY <1>1, <2>1, <2>2
<1>5. /\ o.st = sock[i].st /\ o.client = sock[i].client /\ o.age = 0
      /\ o.recv = (IF posted THEN "posted" ELSE "off")
      /\ o.flagged = ((sock[i].flagged \/ ~posted) \/ ~ok)
  BY <1>1 DEF Objects
<1> HIDE DEF o, socks
<1> QED
  BY <1>1, <1>3, <1>4, <1>5 DEF Used

LEMMA RecvBook ==
  ASSUME IInv, IInv', Book, NEW i \in 1 .. MaxSockets, HandleRecv(i),
         asking = NoAsk, RecvOp(i) \in hands, hands' = hands \ {RecvOp(i)},
         UNCHANGED <<bound, endpoints, gap, clear>>
  PROVE  Book'
<1>1. /\ Clocks /\ Capacity /\ sock \in [1 .. MaxSockets -> Objects]
      /\ sock[i] \in Objects /\ UNCHANGED <<server, table, asking>> /\ Returns
      /\ \A j \in 1 .. MaxSockets : RecvOp(i) = RecvOp(j) => i = j
      /\ \A c \in 1 .. MaxSends : SendOp(c) # RecvOp(i)
      /\ DOMAIN ctx = 1 .. MaxSends /\ DOMAIN ctx' = 1 .. MaxSends
  BY OpFacts DEF HandleRecv, Book, IInv, Types
<1>2. Threads'
  BY <1>1, ThreadsStep
<1>3. CASE sock[i].recv = "done" /\ sock[i].st = "live"
  <2> DEFINE d == [NoDatagram EXCEPT !.port = sock[i].to, !.length = sock[i].length]
  <2>1. PICK ok \in BOOLEAN, posted \in BOOLEAN :
          /\ CountFailure(posted /\ ok)
          /\ Relay([Touch(i, FALSE) EXCEPT
                       ![i].recv = IF posted THEN "posted" ELSE "off",
                       ![i].flagged = @ \/ ~posted],
                   i, FALSE, d, ok)
    BY <1>3 DEF HandleRecv
  <2> HIDE DEF d
  <2>2. /\ \E c \in 1 .. MaxSends : Gains(i, FALSE, d, ok, c)
        /\ Used(i, posted /\ ok)
        /\ sock'[i].recv = IF posted THEN "posted" ELSE "off"
    BY <1>1, <1>3, <2>1, RecvRelays
  <2>3. PICK c \in 1 .. MaxSends : Gains(i, FALSE, d, ok, c)
    BY <2>2
  <2>4. count' \in [datagrams : Nat, answers : Nat, failures : Nat, ticks : Nat, rebinds : Nat]
    <3>1. (posted /\ ok) \in BOOLEAN
      OBVIOUS
    <3> QED
      BY <1>1, <2>1, <3>1, CountFacts
  <2>5. Clocks'
    <3>1. \A j \in 1 .. MaxSockets : sock'[j].age <= SocketExpired
      BY <1>1, <2>2 DEF Clocks, SocketExpired, Used
    <3> QED
      BY <1>1, <2>4, <3>1 DEF Clocks
  <2>6. Tabled'
    BY <1>1, <2>2 DEF Book, Tabled, Used
  <2>7. InHands'
    <3>1. \A x \in 1 .. MaxSends : ctx[x].st \in {"done", "failed"} =>
            ctx'[x].st \in {"done", "failed"}
      BY <2>3 DEF Gains
    <3> QED
      BY <1>1, <2>2, <3>1, HandsStep DEF Used
  <2>8. Capacity'
    <3>1. Holds' = Holds
      BY <1>1 DEF Holds
    <3>2. i \in DoneReceives /\ DoneReceives' \subseteq DoneReceives \ {i}
      BY <1>3, <2>2 DEF DoneReceives, Used
    <3>3. FreeContexts \ {c} \subseteq FreeContexts'
      BY <1>1, <2>3 DEF FreeContexts, Gains
    <3> QED
      BY <1>1, <3>1, <3>2, <3>3, CapacityUsed
  <2> QED
    BY <1>2, <2>5, <2>6, <2>7, <2>8 DEF Book
<1>4. CASE ~(sock[i].recv = "done" /\ sock[i].st = "live")
  <2> DEFINE o == [sock[i] EXCEPT !.recv = "off"]
  <2>1. /\ sock' = [sock EXCEPT ![i] = o] /\ UNCHANGED <<ctx, count>>
    BY <1>4 DEF HandleRecv
  <2>2. /\ o.st = sock[i].st /\ o.client = sock[i].client
        /\ o.recv = "off" /\ o.age = sock[i].age
    BY <1>1 DEF Objects
  <2> HIDE DEF o
  <2>3. sock'[i] = o /\ \A j \in 1 .. MaxSockets : j # i => sock'[j] = sock[j]
    BY <1>1, <2>1
  <2>4. Clocks'
    BY <1>1, <2>1, <2>2, <2>3 DEF Clocks
  <2>5. Tabled'
    BY <1>1, <2>2, <2>3 DEF Book, Tabled
  <2>6. InHands'
    BY <1>1, <2>1, <2>3, HandsStep
  <2>7. /\ FreeContexts' = FreeContexts /\ DoneReceives' \subseteq DoneReceives
        /\ Holds' = Holds
    BY <1>1, <2>1, <2>2, <2>3 DEF FreeContexts, DoneReceives, Holds
  <2>8. Capacity'
    BY <1>1, <2>7, CapacityKept
  <2> QED
    BY <1>2, <2>4, <2>5, <2>6, <2>8 DEF Book
<1> QED
  BY <1>3, <1>4

LEMMA SendDoneBook ==
  ASSUME IInv, IInv', Book, NEW c \in 1 .. MaxSends, HandleSend(c),
         asking = NoAsk, SendOp(c) \in hands, hands' = hands \ {SendOp(c)},
         UNCHANGED <<bound, endpoints, gap, clear>>
  PROVE  Book'
<1>1. /\ Clocks /\ Capacity /\ ctx \in [1 .. MaxSends -> Sends]
      /\ UNCHANGED <<server, table, sock, asking, count>> /\ Returns
      /\ ctx' = [ctx EXCEPT ![c] = NoSend]
      /\ \A x \in 1 .. MaxSends : SendOp(c) = SendOp(x) => c = x
      /\ \A i \in 1 .. MaxSockets : SendOp(c) # RecvOp(i)
      /\ SendOp(c) # ServerOp
  BY OpFacts DEF HandleSend, Book, IInv, Types
<1>2. ctx'[c] = NoSend /\ \A x \in 1 .. MaxSends : x # c => ctx'[x] = ctx[x]
  BY <1>1
<1>3. Threads'
  BY <1>1, ThreadsStep
<1>4. Clocks' /\ Tabled'
  BY <1>1 DEF Book, Clocks, Tabled
<1>5. InHands'
  BY <1>1, <1>2, HandsStep
<1>6. /\ FreeContexts \subseteq FreeContexts' /\ DoneReceives' = DoneReceives
      /\ Holds' = Holds
  BY <1>1, <1>2, RecordFacts DEF FreeContexts, DoneReceives, Holds
<1>7. Capacity'
  BY <1>1, <1>6, CapacityKept
<1> QED
  BY <1>3, <1>4, <1>5, <1>7 DEF Book

LEMMA HandleBook ==
  ASSUME IInv, IInv', Book, NEW op \in Ops, Handle(op)
  PROVE  Book'
<1>1. /\ asking = NoAsk /\ op \in hands /\ hands' = hands \ {op}
      /\ UNCHANGED <<bound, endpoints, gap, clear>>
  BY DEF Handle, lookupVars
<1>2. \/ op = ServerOp
      \/ \E i \in 1 .. MaxSockets : op = RecvOp(i)
      \/ \E c \in 1 .. MaxSends : op = SendOp(c)
  BY OpFacts
<1>3. CASE op = ServerOp
  <2>1. HandleServer
    BY <1>3 DEF Handle, ServerOp
  <2> QED
    BY <1>1, <1>3, <2>1, ServerBook
<1>4. ASSUME NEW i \in 1 .. MaxSockets, op = RecvOp(i) PROVE Book'
  <2>1. HandleRecv(i)
    BY <1>4 DEF Handle, RecvOp
  <2> QED
    BY <1>1, <1>4, <2>1, RecvBook
<1>5. ASSUME NEW c \in 1 .. MaxSends, op = SendOp(c) PROVE Book'
  <2>1. HandleSend(c)
    BY <1>5 DEF Handle, SendOp
  <2> QED
    BY <1>1, <1>5, <2>1, SendDoneBook
<1> QED
  BY <1>2, <1>3, <1>4, <1>5
\* The SOCKS server has granted an association: object i is made for it.
Associated(i, posted, ok, c) ==
    /\ asking \in Ports /\ server.d.port = asking /\ server.recv = "taken"
    /\ sock[i].st # "live" /\ sock[i].recv = "off"
    /\ \A x \in 1 .. MaxSends : ctx[x].sock # i
    /\ CountFailure(posted /\ ok)
    /\ table' = [p \in DOMAIN table \cup {asking} |->
                    IF p = asking THEN i ELSE table[p]]
    /\ \A j \in 1 .. MaxSockets : j # i => sock'[j] = sock[j]
    /\ sock'[i].st = "live" /\ sock'[i].client = asking /\ sock'[i].age = 0
    /\ sock'[i].recv = IF posted THEN "posted" ELSE "off"
    /\ posted /\ ok => ~sock'[i].flagged
    /\ Gains(i, TRUE, server.d, ok, c)

LEMMA AssociateFacts ==
  ASSUME IInv, Capacity, Associate
  PROVE  \E i \in 1 .. MaxSockets, posted, ok \in BOOLEAN, c \in 1 .. MaxSends :
            Associated(i, posted, ok, c)
<1> DEFINE i == CHOOSE n \in FreeSockets : TRUE
           d == server.d
<1>1. /\ asking # NoAsk /\ asking \in Ports /\ d.port = asking /\ d \in Datagrams
      /\ server.recv = "taken"
      /\ i \in FreeSockets /\ sock \in [1 .. MaxSockets -> Objects]
  BY DEF Associate, IInv, Types, Asking, Clients
<1>2. /\ i \in 1 .. MaxSockets /\ sock[i].st # "live" /\ sock[i].recv = "off"
      /\ \A c \in 1 .. MaxSends : ctx[c].sock # i
  BY <1>1 DEF FreeSockets, IInv, Types
<1>3. FreeContexts # {}
  BY <1>1, HasContext DEF Holds
<1>4. PICK posted \in BOOLEAN, ok \in BOOLEAN :
         LET new == [NoSocket EXCEPT !.st = "live", !.client = asking,
                        !.to = d.port, !.flagged = ~posted,
                        !.recv = IF posted THEN "posted" ELSE "off"]
         IN /\ CountFailure(posted /\ ok)
            /\ table' = [p \in DOMAIN table \cup {asking} |->
                            IF p = asking THEN i ELSE table[p]]
            /\ Relay([sock EXCEPT ![i] = new], i, TRUE, d, ok)
  BY DEF Associate
<1> DEFINE new == [NoSocket EXCEPT !.st = "live", !.client = asking,
                      !.to = d.port, !.flagged = ~posted,
                      !.recv = IF posted THEN "posted" ELSE "off"]
           socks == [sock EXCEPT ![i] = new]
           o == [new EXCEPT !.flagged = @ \/ ~ok]
<1>5. /\ new \in Objects
      /\ new.st = "live" /\ new.client = asking /\ new.age = 0
      /\ new.recv = IF posted THEN "posted" ELSE "off"
      /\ posted => ~new.flagged
  <2>1. posted \in BOOLEAN
    OBVIOUS
  <2>2. NoSocket \in Objects /\ asking \in Clients /\ d.port \in Clients
    BY <1>1, RecordFacts DEF Clients
  <2>3. new.flagged = ~posted
    BY DEF NoSocket
  <2>4. new.age = 0
    BY DEF NoSocket
  <2> QED
    BY <2>1, <2>2, <2>3, <2>4 DEF Objects
<1>6. /\ CountFailure(posted /\ ok)
      /\ table' = [p \in DOMAIN table \cup {asking} |->
                            IF p = asking THEN i ELSE table[p]]
      /\ Relay(socks, i, TRUE, d, ok)
  BY <1>4
<1> HIDE DEF new, i, d
<1>7. \E c \in 1 .. MaxSends : Gains(i, TRUE, d, ok, c)
  <2> HIDE DEF socks
  <2> QED
    BY <1>3, <1>6, RelayGains
<1>8. sock' = [sock EXCEPT ![i] = o]
  <2>1. sock' = [socks EXCEPT ![i].flagged = @ \/ ~ok]
    BY <1>6 DEF Relay
  <2> QED
    BY <1>1, <1>2, <2>1
<1>9. /\ o.st = "live" /\ o.client = asking /\ o.age = 0
      /\ o.recv = IF posted THEN "posted" ELSE "off"
      /\ posted /\ ok => ~o.flagged
  BY <1>5 DEF Objects
<1> HIDE DEF o, socks
<1>10. /\ sock'[i].st = "live" /\ sock'[i].client = asking /\ sock'[i].age = 0
       /\ sock'[i].recv = IF posted THEN "posted" ELSE "off"
       /\ posted /\ ok => ~sock'[i].flagged
       /\ \A j \in 1 .. MaxSockets : j # i => sock'[j] = sock[j]
  BY <1>1, <1>2, <1>8, <1>9
<1>11. PICK c \in 1 .. MaxSends : Gains(i, TRUE, d, ok, c)
  BY <1>7
<1>12. d = server.d
  BY DEF d
<1>13. Associated(i, posted, ok, c)
  BY <1>1, <1>2, <1>6, <1>10, <1>11, <1>12 DEF Associated
<1> QED
  BY <1>2, <1>13

LEMMA AssociateBook ==
  ASSUME IInv, IInv', Book, Associate
  PROVE  Book'
<1>1. PICK i \in 1 .. MaxSockets, posted \in BOOLEAN, ok \in BOOLEAN,
           c \in 1 .. MaxSends : Associated(i, posted, ok, c)
  BY AssociateFacts DEF Book
<1>2. /\ UNCHANGED <<bound, endpoints, gap, hands, clear>> /\ asking' = NoAsk
      /\ asking # NoAsk /\ Repost /\ Returns
      /\ server'.recv = "posted"
      /\ ~Holds' /\ Holds
  BY <1>1 DEF Associate, udpVars, lookupVars, ghosts, Repost, Holds, IInv, Types, Associated
<1>3. /\ Clocks /\ Capacity /\ gone \in Nat /\ IsFiniteSet(hands)
      /\ Cardinality(hands) \in Nat
      /\ Workers \in Nat /\ DOMAIN ctx = 1 .. MaxSends /\ DOMAIN ctx' = 1 .. MaxSends
  BY UdpAssumption, FS_CardinalityType DEF Book, Threads, InHands, IInv, Types
<1>4. Clocks'
  <2>1. count' \in [datagrams : Nat, answers : Nat, failures : Nat, ticks : Nat, rebinds : Nat]
    <3>1. (posted /\ ok) \in BOOLEAN /\ CountFailure(posted /\ ok)
      BY <1>1 DEF Associated
    <3> QED
      BY <1>3, <3>1, CountFacts
  <2>2. \A j \in 1 .. MaxSockets : sock'[j].age <= SocketExpired
    BY <1>1, <1>3 DEF Clocks, SocketExpired, Associated
  <2> QED
    BY <1>2, <1>3, <2>1, <2>2 DEF Clocks
<1>5. Tabled'
  <2>1. asking' \notin DOMAIN table'
    <3>1. DOMAIN table' \subseteq Ports
      BY DEF IInv, Types
    <3> QED
      BY <1>2, <3>1, RecordFacts
  <2>2. ASSUME NEW j \in 1 .. MaxSockets, sock'[j].st = "live"
        PROVE  sock'[j].client \in DOMAIN table' /\ table'[sock'[j].client] = j
    <3>1. CASE j = i
      BY <1>1, <3>1 DEF Associated
    <3>2. CASE j # i
      <4>1. /\ sock'[j] = sock[j] /\ sock[j].client \in DOMAIN table
            /\ table[sock[j].client] = j
        BY <1>1, <2>2, <3>2 DEF Associated, Book, Tabled
      <4>2. sock[j].client # asking
        BY <4>1 DEF Book, Tabled
      <4> QED
        BY <1>1, <4>1, <4>2 DEF Associated
    <3> QED
      BY <3>1, <3>2
  <2> QED
    BY <2>1, <2>2 DEF Tabled
<1>6. Threads'
  <2>1. gone + Cardinality(hands) + 1 <= Workers
    BY <1>2 DEF Book, Threads
  <2>2. gone' \in Nat /\ gone' <= gone + 1
    BY <1>2, <1>3 DEF Returns
  <2>3. gone' + Cardinality(hands') + (IF asking' = NoAsk THEN 0 ELSE 1) <= Workers
    BY <1>2, <1>3, <2>1, <2>2
  <2> QED
    BY <1>2, <2>2, <2>3 DEF Book, Threads
<1>7. InHands'
  <2>1. ServerOp \notin hands
    BY <1>1 DEF Associated, Book, InHands
  <2>2. \A j \in 1 .. MaxSockets : RecvOp(j) \in hands => sock'[j] = sock[j]
    BY <1>1 DEF Associated, Book, InHands
  <2>3. \A x \in 1 .. MaxSends : SendOp(x) \in hands => ctx'[x] = ctx[x]
    BY <1>1 DEF Associated, Gains, Book, InHands
  <2>4. DOMAIN sock = 1 .. MaxSockets /\ DOMAIN sock' = 1 .. MaxSockets
    BY DEF IInv, Types
  <2> QED
    BY <1>2, <1>3, <2>1, <2>2, <2>3, <2>4
       DEF Book, InHands, Ops, ServerOp, RecvOp, SendOp
<1>8. Capacity'
  <2>1. DoneReceives' \subseteq DoneReceives
    BY <1>1 DEF DoneReceives, Associated
  <2>2. FreeContexts \ {c} \subseteq FreeContexts'
    BY <1>1, <1>3 DEF FreeContexts, Gains, Associated
  <2> QED
    BY <1>2, <1>3, <2>1, <2>2, CapacityUsed
<1> QED
  BY <1>4, <1>5, <1>6, <1>7, <1>8 DEF Book

LEMMA DenyBook ==
  ASSUME IInv, IInv', Book, Deny
  PROVE  Book'
<1>1. /\ server'.recv = "posted" /\ asking' = NoAsk /\ asking # NoAsk /\ Returns
      /\ CountFailure(FALSE)
      /\ UNCHANGED <<bound, endpoints, gap, table, sock, ctx, hands, clear>>
      /\ server.recv = "taken"
  BY DEF Deny, Refuse, Repost, IInv, Types, Asking, udpVars, lookupVars, ghosts
<1>2. /\ Clocks /\ Capacity /\ gone \in Nat /\ IsFiniteSet(hands)
      /\ Cardinality(hands) \in Nat /\ Workers \in Nat
  BY UdpAssumption, FS_CardinalityType DEF Book, Threads, InHands
<1>3. Clocks'
  <2>1. count' \in [datagrams : Nat, answers : Nat, failures : Nat, ticks : Nat, rebinds : Nat]
    BY <1>1, <1>2, CountFacts
  <2> QED
    BY <1>1, <1>2, <2>1 DEF Clocks
<1>4. Tabled'
  <2>1. NoAsk \notin DOMAIN table
    BY RecordFacts DEF IInv, Types
  <2> QED
    BY <1>1, <2>1 DEF Book, Tabled
<1>5. Threads'
  <2>1. gone + Cardinality(hands) + 1 <= Workers
    BY <1>1 DEF Book, Threads
  <2>2. gone' \in Nat /\ gone' <= gone + 1
    BY <1>1, <1>2 DEF Returns
  <2>3. gone' + Cardinality(hands') + (IF asking' = NoAsk THEN 0 ELSE 1) <= Workers
    BY <1>1, <1>2, <2>1, <2>2
  <2> QED
    BY <1>1, <2>2, <2>3 DEF Book, Threads
<1>6. InHands'
  <2>1. ServerOp \notin hands
    BY <1>1 DEF Book, InHands
  <2> QED
    BY <1>1, <2>1 DEF Book, InHands, Ops, ServerOp, RecvOp, SendOp
<1>7. Capacity'
  <2>1. /\ FreeContexts' = FreeContexts /\ DoneReceives' = DoneReceives /\ Holds
    BY <1>1 DEF FreeContexts, DoneReceives, Holds
  <2> QED
    BY <1>2, <2>1, CapacityKept
<1> QED
  BY <1>3, <1>4, <1>5, <1>6, <1>7 DEF Book

\* The objects of S are removed from the table, and what is outstanding on
\* their sockets is aborted.
Erased(S) ==
    /\ DOMAIN table' = {p \in DOMAIN table : table[p] \notin S}
    /\ \A p \in DOMAIN table' : table'[p] = table[p]
    /\ \A j \in 1 .. MaxSockets :
         /\ sock'[j].client = sock[j].client
         /\ j \notin S => sock'[j] = sock[j]
         /\ j \in S => /\ sock'[j].st = "erased" /\ sock'[j].age = 0
                       /\ sock'[j].recv = IF sock[j].recv = "posted" THEN "failed"
                                          ELSE sock[j].recv
    /\ \A c \in 1 .. MaxSends :
         \/ ctx'[c] = ctx[c]
         \/ /\ ctx[c].st = "sending" /\ ctx[c].remote /\ ctx[c].sock \in S
            /\ ctx'[c].st = "failed" /\ ctx'[c].remote

LEMMA EraseFacts ==
  ASSUME IInv, NEW S, Erase(S)
  PROVE  Erased(S)
<1>1. /\ sock \in [1 .. MaxSockets -> Objects] /\ ctx \in [1 .. MaxSends -> Sends]
  BY DEF IInv, Types
<1> DEFINE o(i) == [sock[i] EXCEPT !.st = "erased", !.flagged = FALSE, !.age = 0,
                        !.recv = IF @ = "posted" THEN "failed" ELSE @]
           s(c) == [ctx[c] EXCEPT !.st = "failed"]
<1>2. /\ table' = [p \in {p \in DOMAIN table : table[p] \notin S} |-> table[p]]
      /\ sock' = [i \in 1 .. MaxSockets |-> IF i \notin S THEN sock[i] ELSE o(i)]
      /\ ctx' = [c \in 1 .. MaxSends |->
                   IF ctx[c].sock \in S /\ ctx[c].remote /\ ctx[c].st = "sending"
                   THEN s(c) ELSE ctx[c]]
  BY <1>1 DEF Erase
<1>3. ASSUME NEW i \in 1 .. MaxSockets
      PROVE  /\ o(i).st = "erased" /\ o(i).age = 0 /\ o(i).client = sock[i].client
             /\ o(i).recv = IF sock[i].recv = "posted" THEN "failed" ELSE sock[i].recv
  <2>1. sock[i] \in Objects
    BY <1>1
  <2> QED
    BY <2>1 DEF Objects
<1>4. ASSUME NEW c \in 1 .. MaxSends
      PROVE  s(c).st = "failed" /\ s(c).remote = ctx[c].remote
  <2>1. ctx[c] \in Sends
    BY <1>1
  <2> QED
    BY <2>1 DEF Sends
<1> HIDE DEF o, s
<1>5. \A j \in 1 .. MaxSockets :
         /\ sock'[j].client = sock[j].client
         /\ j \notin S => sock'[j] = sock[j]
         /\ j \in S => /\ sock'[j].st = "erased" /\ sock'[j].age = 0
                       /\ sock'[j].recv = IF sock[j].recv = "posted" THEN "failed"
                                          ELSE sock[j].recv
  BY <1>2, <1>3
<1>6. \A c \in 1 .. MaxSends :
         \/ ctx'[c] = ctx[c]
         \/ /\ ctx[c].st = "sending" /\ ctx[c].remote /\ ctx[c].sock \in S
            /\ ctx'[c].st = "failed" /\ ctx'[c].remote
  BY <1>2, <1>4
<1> QED
  BY <1>2, <1>5, <1>6 DEF Erased

LEMMA EraseBook ==
  ASSUME IInv, IInv', Book, NEW S, Erase(S), clear' \in {"checking", "sleeping", "gone"},
         UNCHANGED <<bound, endpoints, gap, count, server, hands, asking, gone>>
  PROVE  Book'
<1>1. Erased(S)
  BY EraseFacts
<1>2. Clocks'
  BY <1>1 DEF Book, Clocks, Erased, SocketExpired
<1>3. Tabled'
  <2>1. ASSUME NEW i \in 1 .. MaxSockets, sock'[i].st = "live"
        PROVE  sock'[i].client \in DOMAIN table' /\ table'[sock'[i].client] = i
    <3>1. i \notin S /\ sock'[i] = sock[i]
      BY <1>1, <2>1 DEF Erased
    <3>2. sock[i].client \in DOMAIN table /\ table[sock[i].client] = i
      BY <2>1, <3>1 DEF Book, Tabled
    <3> QED
      BY <1>1, <3>1, <3>2 DEF Erased
  <2> QED
    BY <1>1, <2>1 DEF Book, Tabled, Erased
<1>4. InHands'
  <2>1. /\ DOMAIN sock = 1 .. MaxSockets /\ DOMAIN sock' = 1 .. MaxSockets
        /\ DOMAIN ctx = 1 .. MaxSends /\ DOMAIN ctx' = 1 .. MaxSends
    BY DEF IInv, Types
  <2>2. \A i \in 1 .. MaxSockets : RecvOp(i) \in hands =>
           sock'[i].recv \in {"done", "failed"}
    BY <1>1 DEF Erased, Book, InHands
  <2>3. \A c \in 1 .. MaxSends : SendOp(c) \in hands =>
           ctx'[c].st \in {"done", "failed"}
    BY <1>1 DEF Erased, Book, InHands
  <2> QED
    BY <2>1, <2>2, <2>3 DEF Book, InHands, Ops, ServerOp, RecvOp, SendOp
<1>5. Threads'
  BY DEF Book, Threads
<1>6. Capacity'
  <2>1. DoneReceives' \subseteq DoneReceives /\ Holds' = Holds
    BY <1>1 DEF DoneReceives, Erased, Holds
  <2>2. FreeContexts \subseteq FreeContexts'
    <3>1. DOMAIN ctx = 1 .. MaxSends /\ DOMAIN ctx' = 1 .. MaxSends
      BY DEF IInv, Types
    <3> QED
      BY <1>1, <3>1 DEF FreeContexts, Erased
  <2> QED
    BY <2>1, <2>2, CapacityKept DEF Book
<1> QED
  BY <1>2, <1>3, <1>4, <1>5, <1>6 DEF Book

\* Time passes for the live objects and the endpoints.
LEMMA TickFacts ==
  ASSUME IInv, Clocks, Tick
  PROVE  /\ \A i \in 1 .. MaxSockets :
              /\ sock[i].st = "live" => /\ sock'[i].age = sock[i].age + 1
                                        /\ ~sock[i].flagged /\ sock[i].age < SocketExpired
              /\ sock[i].st # "live" => sock'[i].age = sock[i].age
              /\ sock'[i].st = sock[i].st /\ sock'[i].client = sock[i].client
              /\ sock'[i].recv = sock[i].recv /\ sock'[i].flagged = sock[i].flagged
              /\ sock[i].age \in Nat
         /\ DOMAIN endpoints' = DOMAIN endpoints
         /\ endpoints' \in [DOMAIN endpoints -> 0 .. EndpointExpired]
         /\ \A p \in DOMAIN endpoints : endpoints[p] \in Nat
                                        /\ endpoints'[p] <= endpoints[p] + 1
         /\ gap' \in [Ports -> Nat]
         /\ \A p \in Ports : /\ p \notin DOMAIN endpoints => gap'[p] = gap[p]
                             /\ p \in DOMAIN endpoints /\ gap[p] < SocketExpired =>
                                  gap'[p] = gap[p] + 1
                             /\ ~Steady(p) => ~Steady(p)'
<1>1. sock \in [1 .. MaxSockets -> Objects]
  BY DEF IInv, Types
<1> DEFINE o(i) == [sock[i] EXCEPT !.age = @ + 1]
<1>2. sock' = [i \in 1 .. MaxSockets |-> IF sock[i].st = "live" THEN o(i) ELSE sock[i]]
      /\ \A i \in 1 .. MaxSockets : sock[i].st = "live" =>
            ~sock[i].flagged /\ ~(sock[i].age >= SocketExpired)
  BY <1>1 DEF Tick, IsReadyForRemoval
<1>3. ASSUME NEW i \in 1 .. MaxSockets
      PROVE  /\ o(i).age = sock[i].age + 1 /\ o(i).st = sock[i].st
             /\ o(i).client = sock[i].client /\ o(i).recv = sock[i].recv
             /\ o(i).flagged = sock[i].flagged /\ sock[i].age \in Nat
  <2>1. sock[i] \in Objects
    BY <1>1
  <2> QED
    BY <2>1 DEF Objects
<1> HIDE DEF o
<1>4. \A i \in 1 .. MaxSockets :
              /\ sock[i].st = "live" => /\ sock'[i].age = sock[i].age + 1
                                        /\ ~sock[i].flagged
                                        /\ sock[i].age < SocketExpired
              /\ sock[i].st # "live" => sock'[i].age = sock[i].age
              /\ sock'[i].st = sock[i].st /\ sock'[i].client = sock[i].client
              /\ sock'[i].recv = sock[i].recv /\ sock'[i].flagged = sock[i].flagged
              /\ sock[i].age \in Nat
  <2>1. SocketExpired \in Nat
    BY DEF SocketExpired
  <2> QED
    BY <1>2, <1>3, <2>1
<1>5. /\ endpoints \in [DOMAIN endpoints -> 0 .. EndpointExpired]
      /\ gap \in [Ports -> Nat]
      /\ endpoints' = [p \in DOMAIN endpoints |->
            IF endpoints[p] < EndpointExpired THEN endpoints[p] + 1 ELSE endpoints[p]]
      /\ gap' = [p \in Ports |-> IF p \in DOMAIN endpoints /\ gap[p] < SocketExpired
                                 THEN gap[p] + 1 ELSE gap[p]]
  BY DEF Tick, AgeEndpoints, Clocks
<1>6. /\ DOMAIN endpoints' = DOMAIN endpoints
      /\ endpoints' \in [DOMAIN endpoints -> 0 .. EndpointExpired]
      /\ \A p \in DOMAIN endpoints : endpoints[p] \in Nat
                                     /\ endpoints'[p] <= endpoints[p] + 1
  BY <1>5 DEF EndpointExpired
<1>7. /\ gap' \in [Ports -> Nat]
      /\ \A p \in Ports : /\ p \notin DOMAIN endpoints => gap'[p] = gap[p]
                          /\ p \in DOMAIN endpoints /\ gap[p] < SocketExpired =>
                                  gap'[p] = gap[p] + 1
                          /\ ~Steady(p) => ~Steady(p)'
  BY <1>5 DEF Steady, SocketExpired
<1> QED
  BY <1>4, <1>6, <1>7

LEMMA TickBook ==
  ASSUME IInv, IInv', Book, Tick
  PROVE  Book'
<1>1. /\ \A i \in 1 .. MaxSockets :
              /\ sock[i].st = "live" => /\ sock'[i].age = sock[i].age + 1
                                        /\ sock[i].age < SocketExpired
              /\ sock[i].st # "live" => sock'[i].age = sock[i].age
              /\ sock'[i].st = sock[i].st /\ sock'[i].client = sock[i].client
              /\ sock'[i].recv = sock[i].recv
              /\ sock[i].age \in Nat
      /\ DOMAIN endpoints' = DOMAIN endpoints
      /\ endpoints' \in [DOMAIN endpoints -> 0 .. EndpointExpired]
      /\ gap' \in [Ports -> Nat]
  BY TickFacts DEF Book
<1>2. /\ UNCHANGED <<bound, server, table, ctx, hands, asking, gone, clear>>
      /\ count' = [count EXCEPT !.ticks = @ + 1]
      /\ DOMAIN endpoints \subseteq Ports
      /\ count \in [datagrams : Nat, answers : Nat, failures : Nat, ticks : Nat, rebinds : Nat]
      /\ clear \in {"checking", "sleeping", "gone"}
  BY DEF Tick, lookupVars, threadVars, Count, Book, Clocks, Threads
<1>3. \A i \in 1 .. MaxSockets : sock'[i].age <= SocketExpired
  BY <1>1 DEF Book, Clocks, SocketExpired
<1>4. count' \in [datagrams : Nat, answers : Nat, failures : Nat, ticks : Nat, rebinds : Nat]
  BY <1>2
<1>5. Capacity'
  <2>1. FreeContexts' = FreeContexts /\ DoneReceives' = DoneReceives /\ Holds' = Holds
    BY <1>1, <1>2 DEF FreeContexts, DoneReceives, Holds
  <2> QED
    BY <2>1 DEF Book, Capacity
<1> QED
  BY <1>1, <1>2, <1>3, <1>4, <1>5, BookKept

\* Every step keeps the book.
LEMMA NextBook == ASSUME IInv, IInv', Book, [Next]_vars PROVE Book'
<1>0. /\ endpoints \in [DOMAIN endpoints -> 0 .. EndpointExpired]
      /\ DOMAIN endpoints \subseteq Ports /\ gap \in [Ports -> Nat]
      /\ count \in [datagrams : Nat, answers : Nat, failures : Nat, ticks : Nat, rebinds : Nat]
      /\ clear \in {"checking", "sleeping", "gone"}
  BY DEF Book, Clocks, Threads
<1>1. CASE \E p \in Ports, n \in Lengths, f \in BOOLEAN : Send(p, n, f)
  BY <1>1, SendBook
<1>2. CASE \E ok \in BOOLEAN : \/ Receive(ok)
                               \/ \E c \in DOMAIN ctx : Sent(c, ok)
                               \/ \E i \in DOMAIN sock, n \in AnswerLengths :
                                    Answer(i, n, ok)
  BY <1>2, ReceiveBook, SentBook, AnswerBook
<1>3. CASE Dequeue \/ Associate \/ Deny \/ (\E op \in Ops : Handle(op)) \/ Tick
  BY <1>3, DequeueBook, AssociateBook, DenyBook, HandleBook, TickBook
<1>4. CASE ClearWake
  <2>1. /\ UNCHANGED <<bound, endpoints, gap, count, ioVars, hands, asking, gone>>
        /\ clear' \in {"checking", "sleeping", "gone"}
    BY <1>4 DEF ClearWake, udpVars, lookupVars, ghosts
  <2> QED
    BY <1>0, <2>1, BookElsewhere
<1>5. CASE CleanupThread
  <2>1. UNCHANGED <<bound, gap, count, ioVars, hands, asking, gone, clear>>
    BY <1>5 DEF CleanupThread, lookupVars, ghosts, threadVars
  <2>2. endpoints' = [p \in {p \in DOMAIN endpoints : endpoints[p] < EndpointExpired}
                        |-> endpoints[p]]
    BY <1>5 DEF CleanupThread, CleanupEndpoints
  <2>3. /\ endpoints' \in [DOMAIN endpoints' -> 0 .. EndpointExpired]
        /\ DOMAIN endpoints' \subseteq Ports
    BY <1>0, <2>2
  <2> QED
    BY <1>0, <2>1, <2>3, BookElsewhere
<1>6. CASE ClearThread
  <2>1. /\ UNCHANGED <<bound, endpoints, gap, count, server, hands, asking, gone>>
        /\ clear' \in {"checking", "sleeping", "gone"}
    BY <1>6 DEF ClearThread, udpVars, lookupVars, ghosts
  <2> QED
    BY <1>6, <2>1, EraseBook DEF ClearThread
<1>7. CASE Stop \/ StopStep
  <2>1. UNCHANGED <<bound, endpoints, gap, count, hands, asking, gone, clear>>
    BY <1>7 DEF Stop, StopStep, udpVars, lookupVars, ghosts
  <2>2. CASE StopClear
    BY <1>0, <2>1, <2>2, EraseBook DEF StopClear
  <2>3. CASE UNCHANGED ioVars
    BY <1>0, <2>1, <2>3, BookElsewhere
  <2> QED
    BY <1>7, <2>2, <2>3 DEF Stop, StopStep, StopCall, StopPool, StopDone
<1>8. CASE UNCHANGED vars
  <2>1. UNCHANGED <<bound, endpoints, gap, count, ioVars, hands, asking, gone, clear>>
    BY <1>8 DEF vars, udpVars, lookupVars, threadVars, ghosts
  <2> QED
    BY <1>0, <2>1, BookElsewhere
<1>9. CASE \E p \in Ports : Rebind(p)
  <2>1. /\ UNCHANGED <<endpoints, gap, ioVars, hands, asking, gone, clear>>
        /\ bound' \in Bindings /\ Count("rebinds", 1)
    BY <1>9 DEF Rebind, threadVars, ghosts
  <2>2. count' \in [datagrams : Nat, answers : Nat, failures : Nat, ticks : Nat,
                    rebinds : Nat]
    BY <1>0, <2>1 DEF Count
  <2> QED
    BY <1>0, <2>1, <2>2, BookElsewhere
<1> QED
  BY <1>1, <1>2, <1>3, <1>4, <1>5, <1>6, <1>7, <1>8, <1>9 DEF Next

LEMMA BookInvariant == Spec => [](IInv /\ Book)
<1>1. IInv /\ [Next]_vars => IInv'
  BY NextInv
<1>2. IInv /\ IInv' /\ Book /\ [Next]_vars => Book'
  BY NextBook
<1>3. Init => IInv /\ Book
  BY InitInv, InitBook
<1> QED
  BY <1>1, <1>2, <1>3, PTL DEF Spec

\* For any numbers of clients, threads, objects and sends: the table holds
\* exactly the live objects, each for its client; a thread has in hands only
\* what has been completed, and no more threads are at work than there are; and
\* no age exceeds the limit at which the sweep removes an object.
THEOREM UdpTypes == Spec => []TypeOK
<1>1. IInv /\ Book => TypeOK
  <2> SUFFICES ASSUME IInv, Book PROVE TypeOK
    OBVIOUS
  <2>1. \A p \in DOMAIN endpoints : endpoints[p] \in 0 .. EndpointExpired
    BY DEF Book, Clocks
  <2>2. \A i \in DOMAIN sock :
         /\ sock[i].recv \in {"posted", "done", "failed", "off"}
         /\ sock[i].age \in 0 .. SocketExpired
         /\ sock[i].st = "live" => i \in {table[p] : p \in DOMAIN table}
    <3> SUFFICES ASSUME NEW i \in 1 .. MaxSockets
                 PROVE  /\ sock[i].recv \in {"posted", "done", "failed", "off"}
                        /\ sock[i].age \in 0 .. SocketExpired
                        /\ sock[i].st = "live" => i \in {table[p] : p \in DOMAIN table}
      BY DEF IInv, Types
    <3>1. sock[i] \in Objects
      BY DEF IInv, Types
    <3>2. sock[i].recv \in {"posted", "done", "failed", "off"} /\ sock[i].age \in Nat
      BY <3>1 DEF Objects
    <3>3. sock[i].age \in 0 .. SocketExpired
      BY <3>2 DEF Book, Clocks, SocketExpired
    <3> QED
      BY <3>2, <3>3 DEF Book, Tabled
  <2>3. \A op \in hands : State(op) \in {"done", "failed"}
    BY OpFacts, StateFacts DEF Book, InHands
  <2>4. gone \in 0 .. Workers /\ Idle \in 0 .. Workers
    <3>1. Cardinality(hands) \in Nat /\ Workers \in Nat /\ gone \in Nat
      BY FS_CardinalityType, UdpAssumption DEF Book, InHands, Threads
    <3> QED
      BY <3>1 DEF Book, Threads, Idle
  <2>5. bound \in Bindings /\ DOMAIN endpoints \subseteq Ports
        /\ clear \in {"checking", "sleeping", "gone"}
    BY DEF Book, Clocks, Threads
  <2> QED
    BY <2>1, <2>2, <2>3, <2>4, <2>5 DEF TypeOK, IInv, Types, Owners
<1> QED
  BY <1>1, BookInvariant, PTL
-----------------------------------------------------------------------------
\* Clients that do not pause.  As long as nothing has failed, a client whose
\* endpoint is known has an entry in the mapper, a thread that asks for it, or
\* an object; the object is no older than the client's pause, and the endpoint
\* no older than the object unless an answer is on its way back.

Quiet == phase = "running" /\ count.failures = 0

Arriving(d) == /\ d.port \in Ports /\ d.port \in DOMAIN endpoints
               /\ endpoints[d.port] = 0
               /\ d.new => Steady(d.port)

Arrivals == /\ \A k \in 1 .. Len(net) : Arriving(net[k])
            /\ Holds => Arriving(server.d)

InFlight(p) == \/ \E k \in 1 .. Len(net) : net[k].port = p
               \/ Holds /\ server.d.port = p

Served == \A p \in DOMAIN endpoints : Steady(p) =>
             p \in mapper \/ p = asking \/ p \in DOMAIN table

Returning(i) == \E c \in 1 .. MaxSends :
                   ctx[c].st = "sending" /\ ~ctx[c].remote /\ ctx[c].sock = i

\* The client p and its object i.
Attended(p, i) ==
    /\ ~sock[i].flagged /\ sock[i].recv \in {"posted", "done"}
    /\ p \in DOMAIN endpoints /\ endpoints[p] <= SocketExpired
    /\ endpoints[p] <= sock[i].age \/ Returning(i)
    /\ Steady(p) => sock[i].age < SocketExpired
    /\ Steady(p) => sock[i].age <= gap[p] \/ InFlight(p)

Kept == \A p \in DOMAIN table : Attended(p, table[p])

Busy(i) == \/ sock[i].recv = "done"
           \/ \E c \in 1 .. MaxSends :
                ctx[c].sock = i /\ ctx[c].st \in {"sending", "done"}

\* What is left of an object that was removed is its client's who has paused,
\* and will not be forgotten before that has been handled.
Left == \A i \in 1 .. MaxSockets : sock[i].st # "live" /\ Busy(i) =>
           /\ sock[i].client \in DOMAIN endpoints
           /\ endpoints[sock[i].client] <= SocketExpired
           /\ ~Steady(sock[i].client)

Answers == \A c \in 1 .. MaxSends :
              ctx[c].st # "free" /\ ~ctx[c].remote => ~ctx[c].d.fragment

Steadiness == SteadyClients /\ Answers
              /\ (Quiet => Arrivals /\ Served /\ Kept /\ Left)

\* No state is less quiet than those before it.
LEMMA QuietFacts ==
  ASSUME Clocks, NEW ok \in BOOLEAN, CountFailure(ok), phase' = phase, Quiet'
  PROVE  Quiet /\ ok
BY CountFacts DEF Quiet

LEMMA InitSteadiness == ASSUME Init PROVE Steadiness
<1>1. SteadyClients /\ Answers
  BY DEF Init, SteadyClients, SteadyAreServed, RemovedNotUsed, Answers, NoSend
<1>2. Arrivals /\ Served /\ Kept
  BY DEF Init, Arrivals, Holds, Served, Kept
<1>3. Left
  BY DEF Init, Left, Busy, NoSocket, NoSend
<1> QED
  BY <1>1, <1>2, <1>3 DEF Steadiness

\* A step that concerns only what arrives, and what is known of the clients.
LEMMA ArrivingStep ==
  ASSUME IInv, IInv', Book, Served, Kept, Left, UNCHANGED <<table, sock, ctx>>,
         DOMAIN endpoints \subseteq Ports,
         \A q \in DOMAIN endpoints' : q \notin DOMAIN endpoints => q \in mapper',
         \A q \in Ports : q \in mapper \/ q = asking => q \in mapper' \/ q = asking',
         \A q \in DOMAIN endpoints :
            /\ \/ q \in DOMAIN endpoints' /\ endpoints'[q] \in {0, endpoints[q]}
               \/ endpoints[q] >= EndpointExpired
            /\ Steady(q)' <=> Steady(q),
         \A q \in DOMAIN table : /\ gap'[q] = gap[q] \/ InFlight(q)'
                                 /\ InFlight(q) => InFlight(q)'
  PROVE  Served' /\ Kept' /\ Left'
<1>0. /\ endpoints \in [DOMAIN endpoints -> 0 .. EndpointExpired]
      /\ sock \in [1 .. MaxSockets -> Objects]
      /\ \A p \in DOMAIN table : table[p] \in 1 .. MaxSockets
  BY DEF Book, Clocks, IInv, Types
<1>1. Served'
  BY DEF Served
<1>2. ASSUME NEW p \in DOMAIN endpoints, endpoints[p] <= SocketExpired
      PROVE  p \in DOMAIN endpoints' /\ endpoints'[p] <= endpoints[p]
             /\ endpoints'[p] <= SocketExpired /\ endpoints'[p] \in Nat
  <2>1. endpoints[p] \in Nat /\ ~(endpoints[p] >= EndpointExpired)
    BY <1>0, <1>2 DEF EndpointExpired, SocketExpired
  <2> QED
    BY <1>2, <2>1 DEF SocketExpired
<1>3. Left'
  <2> SUFFICES ASSUME NEW i \in 1 .. MaxSockets, sock[i].st # "live", Busy(i)'
               PROVE  /\ sock[i].client \in DOMAIN endpoints'
                      /\ endpoints'[sock[i].client] <= SocketExpired
                      /\ ~Steady(sock[i].client)'
    BY DEF Left, Steady
  <2>1. Busy(i)
    BY DEF Busy
  <2> DEFINE p == sock[i].client
  <2>2. p \in DOMAIN endpoints /\ endpoints[p] <= SocketExpired /\ ~Steady(p)
    BY <2>1 DEF Left
  <2>3. \A q \in DOMAIN endpoints : Steady(q)' <=> Steady(q)
    OBVIOUS
  <2> QED
    BY <1>2, <2>2, <2>3 DEF Steady
<1>4. Kept'
  <2> SUFFICES ASSUME NEW p \in DOMAIN table PROVE Attended(p, table[p])'
    BY DEF Kept
  <2> DEFINE i == table[p]
  <2>1. Attended(p, i)
    BY DEF Kept
  <2>2. i \in 1 .. MaxSockets /\ sock[i].age \in Nat
    BY <1>0 DEF Objects
  <2>3. Returning(i)' <=> Returning(i)
    BY DEF Returning
  <2>4. p \in DOMAIN endpoints /\ endpoints[p] <= SocketExpired
    BY <2>1 DEF Attended
  <2>5. /\ p \in DOMAIN endpoints' /\ endpoints'[p] <= endpoints[p]
        /\ endpoints'[p] <= SocketExpired /\ endpoints'[p] \in Nat
    BY <1>2, <2>4
  <2>6. /\ Steady(p)' <=> Steady(p)
        /\ gap'[p] = gap[p] \/ InFlight(p)'
        /\ InFlight(p) => InFlight(p)'
    BY <2>4
  <2>7. endpoints[p] \in Nat
    BY <1>0, <2>4
  <2>8. endpoints'[p] <= sock[i].age \/ Returning(i)'
    BY <2>1, <2>2, <2>3, <2>5, <2>7 DEF Attended
  <2>9. /\ Steady(p)' => sock[i].age < SocketExpired
        /\ Steady(p)' => sock[i].age <= gap'[p] \/ InFlight(p)'
    BY <2>1, <2>6 DEF Attended
  <2> QED
    BY <2>1, <2>5, <2>8, <2>9 DEF Attended
<1> QED
  BY <1>1, <1>3, <1>4
\* A client sends a datagram.
LEMMA SendSteady ==
  ASSUME IInv, IInv', Book, Steadiness, NEW p \in Ports, NEW n \in Lengths,
         NEW f \in BOOLEAN, Send(p, n, f)
  PROVE  Steadiness'
<1>0. /\ Clocks /\ UNCHANGED <<table, sock, ctx, server, asking, phase>>
      /\ DOMAIN endpoints \subseteq Ports
      /\ endpoints \in [DOMAIN endpoints -> 0 .. EndpointExpired]
      /\ gap \in [Ports -> Nat] /\ net \in Seq(Datagrams)
      /\ count \in [datagrams : Nat, answers : Nat, failures : Nat, ticks : Nat, rebinds : Nat]
  BY DEF Book, Clocks, Send, ioVars, threadVars, IInv, Types
<1>1. PICK ok \in BOOLEAN, listed \in BOOLEAN, new \in BOOLEAN :
         Sending(p, n, f, ok, listed, new)
  BY <1>0, SendFacts
<1>2. SteadyClients'
  BY <1>1 DEF Sending, Steadiness, SteadyClients, SteadyAreServed, RemovedNotUsed
<1>3. Answers'
  BY <1>0 DEF Steadiness, Answers
<1>4. ASSUME Quiet' PROVE Arrivals' /\ Served' /\ Kept' /\ Left'
  <2>1. Quiet
    <3>1. count'.failures = IF ok THEN count.failures ELSE count.failures + 1
      BY <1>0, <1>1 DEF Sending
    <3>2. count.failures \in Nat
      BY <1>0
    <3> QED
      BY <1>0, <1>4, <3>1, <3>2 DEF Quiet
  <2>2. Arrivals /\ Served /\ Kept /\ Left
    BY <2>1 DEF Steadiness
  <2> DEFINE d == [port |-> p, length |-> n + HeaderLength, fragment |-> FALSE,
                   new |-> new]
  <2>3. \/ /\ endpoints' = Refresh(endpoints, p) /\ net' = Append(net, d)
        \/ endpoints' = Refresh(endpoints, p) /\ net' = net /\ new
        \/ endpoints' = endpoints /\ net' = net /\ ~new
    BY <1>1 DEF Sending
  <2>4. /\ gap' = [gap EXCEPT ![p] =
             IF new \/ (net' # net /\ Steady(p)) THEN 0 ELSE @]
        /\ mapper' = IF new THEN mapper \cup {p} ELSE mapper
        /\ endpoints' # endpoints /\ ~new => p \in DOMAIN endpoints
        /\ new => p \notin DOMAIN endpoints
    BY <1>0, <1>1, <2>3 DEF Sending
  <2>5. /\ DOMAIN Refresh(endpoints, p) = DOMAIN endpoints \cup {p}
        /\ Refresh(endpoints, p)[p] = 0
        /\ \A q \in DOMAIN endpoints : q # p => Refresh(endpoints, p)[q] = endpoints[q]
    BY <1>0, RefreshFacts
  <2> HIDE DEF d
  <2>6. /\ Append(net, d) # net /\ Len(Append(net, d)) = Len(net) + 1
        /\ \A k \in 1 .. Len(net) : Append(net, d)[k] = net[k]
        /\ Append(net, d)[Len(net) + 1] = d /\ Len(net) \in Nat
    <3>1. Len(Append(net, d)) = Len(net) + 1 /\ Len(net) \in Nat
      BY <1>0
    <3> QED
      BY <1>0, <3>1
  <2>7. \A q \in DOMAIN endpoints : /\ q \in DOMAIN endpoints'
                                    /\ endpoints'[q] \in {0, endpoints[q]}
    BY <2>3, <2>5
  <2>8. \A q \in Ports : gap'[q] = gap[q] \/ gap'[q] = 0
    BY <1>0, <2>4
  <2>9. \A q \in DOMAIN endpoints : Steady(q)' <=> Steady(q)
    <3>1. \A q \in DOMAIN endpoints : q # p => gap'[q] = gap[q]
      BY <1>0, <2>4
    <3>2. p \in DOMAIN endpoints => gap'[p] = gap[p] \/ (Steady(p) /\ gap'[p] = 0)
      BY <1>0, <2>4
    <3> QED
      BY <3>1, <3>2 DEF Steady, SocketExpired
  <2>10. \A q : InFlight(q) => InFlight(q)'
    BY <1>0, <2>3, <2>6 DEF InFlight, Holds
  <2>11. ASSUME NEW q \in DOMAIN table PROVE gap'[q] = gap[q] \/ InFlight(q)'
    <3>1. q \in DOMAIN endpoints /\ q \in Ports
      BY <1>0, <2>2 DEF Kept, Attended
    <3>2. CASE q = p /\ net' = Append(net, d)
      <4>1. Len(net') = Len(net) + 1 /\ net'[Len(net) + 1].port = p
        BY <2>6, <3>2 DEF d
      <4>2. Len(net) + 1 \in 1 .. Len(net')
        BY <2>6, <4>1
      <4> QED
        BY <3>2, <4>1, <4>2 DEF InFlight
    <3>3. CASE ~(q = p /\ net' = Append(net, d))
      BY <1>0, <2>3, <2>4, <3>1, <3>3
    <3> QED
      BY <3>2, <3>3
  <2>12. Served' /\ Kept' /\ Left'
    <3>1. \A q \in DOMAIN endpoints' : q \notin DOMAIN endpoints => q \in mapper'
      BY <2>3, <2>4, <2>5
    <3>2. \A q \in Ports : q \in mapper \/ q = asking => q \in mapper' \/ q = asking'
      BY <1>0, <2>4
    <3> QED
      BY <1>0, <2>2, <2>7, <2>9, <2>10, <2>11, <3>1, <3>2, ArrivingStep
  <2>13. Arrivals'
    <3>1. ASSUME NEW a, Arriving(a) PROVE Arriving(a)'
      BY <2>7, <2>9, <3>1 DEF Arriving
    <3>2. Holds' => Arriving(server.d)'
      BY <1>0, <2>2, <3>1 DEF Arrivals, Holds, Arriving
    <3>3. CASE net' = net
      <4>1. \A k \in 1 .. Len(net) : Arriving(net[k])'
        BY <2>2, <3>1, <3>3 DEF Arrivals, Arriving
      <4> QED
        BY <3>2, <3>3, <4>1 DEF Arrivals, Arriving
    <3>4. CASE endpoints' = Refresh(endpoints, p) /\ net' = Append(net, d)
      <4>1. /\ p \in DOMAIN endpoints' /\ endpoints'[p] = 0
            /\ new => gap'[p] = 0
        BY <1>0, <2>4, <2>5, <3>4
      <4>2. Arriving(d)'
        BY <4>1 DEF d, Arriving, Steady, SocketExpired
      <4>3. \A k \in 1 .. Len(net') : \E a : net'[k] = a /\ Arriving(a)'
        <5> SUFFICES ASSUME NEW k \in 1 .. Len(net')
                     PROVE  \E a : net'[k] = a /\ Arriving(a)'
          OBVIOUS
        <5>1. CASE k \in 1 .. Len(net)
          <6>1. net'[k] = net[k] /\ Arriving(net[k])
            BY <2>2, <2>6, <3>4, <5>1 DEF Arrivals
          <6>2. PICK a : a = net[k]
            OBVIOUS
          <6> QED
            BY <3>1, <6>1, <6>2
        <5>2. CASE k = Len(net) + 1
          <6>1. net'[k] = d
            BY <2>6, <3>4, <5>2
          <6> QED
            BY <4>2, <6>1
        <5> QED
          BY <2>6, <3>4, <5>1, <5>2
      <4> QED
        BY <3>2, <4>3 DEF Arrivals, Arriving
    <3> QED
      BY <2>3, <3>3, <3>4
  <2> QED
    BY <2>12, <2>13
<1> QED
  BY <1>2, <1>3, <1>4 DEF Steadiness

\* The server receives the first datagram.
LEMMA ReceiveSteady ==
  ASSUME IInv, IInv', Book, Steadiness, NEW ok \in BOOLEAN, Receive(ok)
  PROVE  Steadiness'
<1>0. /\ Clocks /\ UNCHANGED <<table, sock, ctx, asking, mapper, endpoints, gap, phase>>
      /\ harm' = harm /\ CountFailure(ok) /\ server.recv = "posted"
      /\ DOMAIN endpoints \subseteq Ports /\ net \in Seq(Datagrams)
      /\ DOMAIN table \subseteq Ports
  BY DEF Book, Clocks, Receive, udpVars, lookupVars, threadVars, ghosts, IInv, Types
<1>1. SteadyClients' /\ Answers'
  BY <1>0 DEF Steadiness, SteadyClients, SteadyAreServed, RemovedNotUsed, Answers
<1>2. ASSUME Quiet' PROVE Arrivals' /\ Served' /\ Kept' /\ Left'
  <2>1. Quiet /\ ok
    BY <1>0, <1>2, QuietFacts
  <2>2. Arrivals /\ Served /\ Kept /\ Left
    BY <2>1 DEF Steadiness
  <2>3. /\ net # <<>> /\ server' = [recv |-> "done", d |-> Head(net)]
        /\ net' = Tail(net)
    BY <2>1 DEF Receive
  <2>4. /\ server'.recv = "done" /\ server'.d = net[1] /\ 1 \in 1 .. Len(net)
        /\ \A k \in 1 .. Len(net') : net'[k] = net[k + 1] /\ k + 1 \in 1 .. Len(net)
        /\ \A k \in 1 .. Len(net) : k = 1 \/ \E j \in 1 .. Len(net') : net'[j] = net[k]
    <3>1. /\ Len(net) \in Nat \ {0} /\ Head(net) = net[1]
          /\ Len(net') = Len(net) - 1
          /\ \A k \in 1 .. Len(net') : net'[k] = net[k + 1]
      BY <1>0, <2>3
    <3>2. server'.recv = "done" /\ server'.d = net[1]
      BY <2>3, <3>1
    <3>3. ASSUME NEW k \in 1 .. Len(net), k # 1
          PROVE  \E j \in 1 .. Len(net') : net'[j] = net[k]
      <4>1. k - 1 \in 1 .. Len(net') /\ (k - 1) + 1 = k
        BY <3>1, <3>3
      <4>2. net'[k - 1] = net[k]
        BY <3>1, <4>1
      <4> QED
        BY <4>1, <4>2
    <3> QED
      BY <3>1, <3>2, <3>3
  <2>5. \A q : InFlight(q) => InFlight(q)'
    BY <1>0, <2>4 DEF InFlight, Holds
  <2>6. Arrivals'
    <3>1. \A k \in 1 .. Len(net) : Arriving(net[k])
      BY <2>2 DEF Arrivals
    <3>2. ASSUME NEW q, Arriving(q) PROVE Arriving(q)'
      BY <1>0, <3>2 DEF Arriving, Steady
    <3>3. Arriving(server'.d)
      BY <2>4, <3>1
    <3>4. \A k \in 1 .. Len(net') : Arriving(net'[k])
      BY <2>4, <3>1
    <3> HIDE DEF Arriving
    <3> QED
      BY <3>2, <3>3, <3>4 DEF Arrivals
  <2>7. \A q \in DOMAIN endpoints : Steady(q)' <=> Steady(q)
    BY <1>0 DEF Steady
  <2>8. Served' /\ Kept' /\ Left'
    BY <1>0, <2>2, <2>5, <2>7, ArrivingStep
  <2> QED
    BY <2>6, <2>8
<1> QED
  BY <1>1, <1>2 DEF Steadiness

\* A step that has nothing to do with the clients, or from which on something
\* has failed.
LEMMA QuietStep ==
  ASSUME Steadiness, SteadyClients', Answers',
         Quiet' => Quiet /\ UNCHANGED <<endpoints, gap, mapper, net, server, table,
                                        sock, ctx, asking>>
  PROVE  Steadiness'
<1>1. ASSUME Quiet' PROVE Arrivals' /\ Served' /\ Kept' /\ Left'
  <2>1. /\ UNCHANGED <<endpoints, gap, mapper, net, server, table, sock, ctx, asking>>
        /\ Arrivals /\ Served /\ Kept /\ Left
    BY <1>1 DEF Steadiness
  <2>2. Arrivals' /\ Served'
    BY <2>1 DEF Arrivals, Arriving, Holds, Steady, Served
  <2>3. Kept' /\ Left'
    BY <2>1 DEF Kept, Attended, Returning, InFlight, Holds, Steady, Left, Busy
  <2> QED
    BY <2>2, <2>3
<1> QED
  BY <1>1 DEF Steadiness

LEMMA DequeueSteady ==
  ASSUME IInv, Book, Steadiness, Dequeue
  PROVE  Steadiness'
<1>1. /\ UNCHANGED <<endpoints, gap, mapper, net, asking, harm, phase, count>>
      /\ ctx \in [1 .. MaxSends -> Sends]
  BY DEF Dequeue, udpVars, lookupVars, ghosts, IInv, Types
<1>2. SteadyClients'
  BY <1>1 DEF Steadiness, SteadyClients, SteadyAreServed, RemovedNotUsed
<1>3. Answers'
  <2>1. ctx' = ctx \/ \E c \in 1 .. MaxSends : ctx' = [ctx EXCEPT ![c] = NoSend]
    <3>1. CASE UNCHANGED ioVars
      BY <3>1 DEF ioVars
    <3>2. CASE \E op \in Completed : Forget(op)
      <4>1. PICK op \in Completed : Forget(op)
        BY <3>2
      <4>2. op[1] = "send" => op[2] \in 1 .. MaxSends
        <5>1. op \in Ops
          BY DEF Completed
        <5> QED
          BY <5>1 DEF Ops, ServerOp, RecvOp, SendOp, IInv, Types
      <4> QED
        BY <4>1, <4>2 DEF Forget
    <3> QED
      BY <3>1, <3>2 DEF Dequeue
  <2> QED
    BY <1>1, <2>1, RecordFacts DEF Steadiness, Answers
<1>4. Quiet' => Quiet /\ UNCHANGED <<server, table, sock, ctx>>
  BY <1>1 DEF Quiet, Dequeue, Active, EndServer, ioVars
<1> QED
  BY <1>1, <1>2, <1>3, <1>4, QuietStep

\* The receive of an association completes.
LEMMA AnswerSteady ==
  ASSUME IInv, IInv', Book, Steadiness, NEW i \in DOMAIN sock,
         NEW n \in AnswerLengths, NEW ok \in BOOLEAN, Answer(i, n, ok)
  PROVE  Steadiness'
<1>0. /\ Clocks /\ UNCHANGED <<net, server, table, ctx, asking, mapper, endpoints, gap,
                               phase>>
      /\ harm' = harm /\ sock[i].st = "live"
      /\ i \in 1 .. MaxSockets /\ sock \in [1 .. MaxSockets -> Objects]
      /\ sock[i] \in Objects
      /\ \A p \in DOMAIN table : table[p] \in 1 .. MaxSockets
      /\ count' = [count EXCEPT !.answers = @ + 1,
                                !.failures = IF ok THEN @ ELSE @ + 1]
      /\ count \in [datagrams : Nat, answers : Nat, failures : Nat, ticks : Nat, rebinds : Nat]
  BY DEF Book, Clocks, Answer, udpVars, lookupVars, threadVars, ghosts, IInv, Types
<1>1. SteadyClients' /\ Answers'
  BY <1>0 DEF Steadiness, SteadyClients, SteadyAreServed, RemovedNotUsed, Answers
<1>2. ASSUME Quiet' PROVE Arrivals' /\ Served' /\ Kept' /\ Left'
  <2>1. Quiet /\ ok
    <3>1. count'.failures = IF ok THEN count.failures ELSE count.failures + 1
      BY <1>0
    <3>2. count.failures \in Nat
      BY <1>0
    <3> QED
      BY <1>0, <1>2, <3>1, <3>2 DEF Quiet
  <2>2. Arrivals /\ Served /\ Kept /\ Left
    BY <2>1 DEF Steadiness
  <2> DEFINE o == [sock[i] EXCEPT !.recv = "done", !.length = n]
  <2>3. sock' = [sock EXCEPT ![i] = o]
    BY <1>0, <2>1 DEF Answer
  <2>4. /\ o.st = sock[i].st /\ o.client = sock[i].client /\ o.age = sock[i].age
        /\ o.flagged = sock[i].flagged /\ o.recv = "done"
    BY <1>0 DEF Objects
  <2> HIDE DEF o
  <2>5. /\ sock'[i] = o /\ \A j \in 1 .. MaxSockets : j # i => sock'[j] = sock[j]
    BY <1>0, <2>3
  <2>6. Arrivals' /\ Served'
    BY <1>0, <2>2 DEF Arrivals, Arriving, Holds, Steady, Served
  <2>7. Kept'
    <3> SUFFICES ASSUME NEW p \in DOMAIN table PROVE Attended(p, table[p])'
      BY <1>0 DEF Kept
    <3> DEFINE t == table[p]
    <3>1. Attended(p, t) /\ t \in 1 .. MaxSockets
      BY <1>0, <2>2 DEF Kept
    <3>2. /\ sock'[t].age = sock[t].age /\ sock'[t].flagged = sock[t].flagged
          /\ sock'[t].recv \in {sock[t].recv, "done"}
      BY <2>4, <2>5, <3>1
    <3>3. table'[p] = t
      BY <1>0
    <3> HIDE DEF t
    <3> QED
      BY <1>0, <3>1, <3>2, <3>3 DEF Attended, Returning, Steady, InFlight, Holds
  <2>8. Left'
    <3> SUFFICES ASSUME NEW j \in 1 .. MaxSockets, sock'[j].st # "live", Busy(j)'
                 PROVE  /\ sock'[j].client \in DOMAIN endpoints
                        /\ endpoints[sock'[j].client] <= SocketExpired
                        /\ ~Steady(sock'[j].client)
      BY <1>0 DEF Left, Steady
    <3>1. sock'[j] = sock[j]
      BY <1>0, <2>4, <2>5
    <3> QED
      BY <1>0, <2>2, <3>1 DEF Left, Busy
  <2> QED
    BY <2>6, <2>7, <2>8
<1> QED
  BY <1>1, <1>2 DEF Steadiness

\* The objects of the clients, each taken for itself.
LEMMA KeptByEach ==
  ASSUME \A p \in DOMAIN table' : \A i : table'[p] = i => Attended(p, i)'
  PROVE  Kept'
<1> SUFFICES ASSUME NEW p \in DOMAIN table' PROVE Attended(p, table[p])'
  BY DEF Kept
<1>1. PICK i : table'[p] = i
  OBVIOUS
<1>2. Attended(p, i)'
  BY <1>1
<1> QED
  BY <1>1, <1>2 DEF Attended, Returning, InFlight, Holds, Steady

\* A send completes; one to the client sets the time of its endpoint.
LEMMA SentSteady ==
  ASSUME IInv, IInv', Book, Steadiness, NEW c \in DOMAIN ctx, NEW ok \in BOOLEAN,
         Sent(c, ok)
  PROVE  Steadiness'
<1>0. /\ Clocks /\ UNCHANGED <<net, server, table, sock, asking, mapper, gap, phase>>
      /\ harm' = harm
      /\ sock \in [1 .. MaxSockets -> Objects]
      /\ \A p \in DOMAIN table : table[p] \in 1 .. MaxSockets
      /\ endpoints \in [DOMAIN endpoints -> 0 .. EndpointExpired]
      /\ DOMAIN endpoints \subseteq Ports
  BY DEF Book, Clocks, Sent, threadVars, IInv, Types
<1> DEFINE q == ctx[c].d.port
<1>1. /\ c \in 1 .. MaxSends /\ ctx[c].st = "sending"
      /\ \A x \in 1 .. MaxSends : x # c => ctx'[x] = ctx[x]
      /\ ctx'[c].st = (IF ok THEN "done" ELSE "failed")
      /\ ctx'[c].sock = ctx[c].sock /\ ctx'[c].remote = ctx[c].remote
      /\ ctx'[c].d = ctx[c].d
      /\ CountFailure(ok)
      /\ \/ endpoints' = endpoints
         \/ q \in DOMAIN endpoints /\ endpoints' = Refresh(endpoints, q)
      /\ ok /\ ~ctx[c].remote /\ ~ctx[c].d.fragment /\ q \in DOMAIN endpoints =>
           endpoints' = Refresh(endpoints, q)
  BY <1>0, SentFacts
<1>2. SteadyClients'
  BY <1>0 DEF Steadiness, SteadyClients, SteadyAreServed, RemovedNotUsed
<1>3. Answers'
  BY <1>1 DEF Steadiness, Answers
<1>4. ASSUME Quiet' PROVE Arrivals' /\ Served' /\ Kept' /\ Left'
  <2>1. Quiet /\ ok
    BY <1>0, <1>1, <1>4, QuietFacts
  <2>2. Arrivals /\ Served /\ Kept /\ Left
    BY <2>1 DEF Steadiness
  <2>3. q \in DOMAIN endpoints =>
          /\ DOMAIN Refresh(endpoints, q) = DOMAIN endpoints
          /\ Refresh(endpoints, q)[q] = 0
          /\ \A p \in DOMAIN endpoints : p # q => Refresh(endpoints, q)[p] = endpoints[p]
    BY DEF Refresh
  <2>4. /\ DOMAIN endpoints' = DOMAIN endpoints
        /\ \A p \in DOMAIN endpoints : endpoints'[p] \in {0, endpoints[p]}
    BY <1>1, <2>3
  <2>5. Arrivals' /\ Served'
    <3>1. Arrivals'
      BY <1>0, <2>2, <2>4 DEF Arrivals, Arriving, Holds, Steady
    <3>2. Served'
      BY <1>0, <2>2, <2>4 DEF Served, Steady
    <3> QED
      BY <3>1, <3>2
  <2>6. ASSUME NEW p \in DOMAIN endpoints, endpoints[p] <= SocketExpired
        PROVE  endpoints'[p] <= endpoints[p] /\ endpoints'[p] <= SocketExpired
               /\ endpoints[p] \in Nat /\ endpoints'[p] \in Nat
    <3>1. endpoints[p] \in Nat
      BY <1>0
    <3> QED
      BY <2>4, <2>6, <3>1 DEF SocketExpired
  <2>7. Kept'
    <3> SUFFICES ASSUME NEW p \in DOMAIN table, NEW i, table[p] = i
                 PROVE  Attended(p, i)'
      BY <1>0, KeptByEach
    <3>1. Attended(p, i) /\ i \in 1 .. MaxSockets
      BY <1>0, <2>2 DEF Kept
    <3>2. p \in DOMAIN endpoints /\ endpoints[p] <= SocketExpired
      BY <3>1 DEF Attended
    <3>3. endpoints'[p] <= endpoints[p] /\ endpoints'[p] <= SocketExpired
          /\ endpoints[p] \in Nat /\ endpoints'[p] \in Nat
      BY <2>6, <3>2
    <3>4. sock[i].age \in Nat /\ sock[i].client = p
      BY <1>0, <3>1 DEF Objects, IInv, Owners
    <3>5. endpoints'[p] <= sock[i].age \/ Returning(i)'
      <4>1. CASE endpoints[p] <= sock[i].age
        BY <3>3, <3>4, <4>1
      <4>2. CASE ctx[c].sock = i /\ ~ctx[c].remote
        <5>1. q = p /\ ~ctx[c].d.fragment
          BY <1>1, <3>4, <4>2 DEF IInv, Outstanding, Steadiness, Answers
        <5>2. endpoints'[p] = 0
          BY <1>1, <2>1, <2>3, <3>2, <4>2, <5>1
        <5> QED
          BY <3>4, <5>2
      <4>3. CASE Returning(i) /\ ~(ctx[c].sock = i /\ ~ctx[c].remote)
        <5>1. PICK x \in 1 .. MaxSends : ctx[x].st = "sending" /\ ~ctx[x].remote
                                        /\ ctx[x].sock = i
          BY <4>3 DEF Returning
        <5>2. ctx'[x] = ctx[x]
          BY <1>1, <4>3, <5>1
        <5> QED
          BY <5>1, <5>2 DEF Returning
      <4> QED
        BY <3>1, <4>1, <4>2, <4>3 DEF Attended
    <3> QED
      BY <1>0, <2>4, <3>1, <3>2, <3>3, <3>5 DEF Attended, Steady, InFlight, Holds
  <2>8. Left'
    <3> SUFFICES ASSUME NEW j \in 1 .. MaxSockets, sock[j].st # "live", Busy(j)'
                 PROVE  /\ sock[j].client \in DOMAIN endpoints'
                        /\ endpoints'[sock[j].client] <= SocketExpired
                        /\ ~Steady(sock[j].client)
      BY <1>0 DEF Left, Steady
    <3>1. Busy(j)
      BY <1>0, <1>1 DEF Busy
    <3>2. /\ sock[j].client \in DOMAIN endpoints
          /\ endpoints[sock[j].client] <= SocketExpired
          /\ ~Steady(sock[j].client)
      BY <2>2, <3>1 DEF Left
    <3> QED
      BY <2>4, <2>6, <3>2
  <2> QED
    BY <2>5, <2>7, <2>8
<1> QED
  BY <1>2, <1>3, <1>4 DEF Steadiness

\* A datagram goes through object i, which is touched.
LEMMA RelaySteady ==
  ASSUME IInv, Kept, Left, NEW i \in 1 .. MaxSockets, NEW c \in 1 .. MaxSends,
         NEW remote \in BOOLEAN, NEW d, Gains(i, remote, d, TRUE, c), Used(i, TRUE),
         sock[i].st = "live", sock'[i].recv \in {"posted", "done"},
         UNCHANGED <<table, endpoints, gap>>, gap \in [Ports -> Nat],
         \A q \in DOMAIN table : table[q] # i /\ InFlight(q) => InFlight(q)',
         remote => endpoints[sock[i].client] = 0
  PROVE  Kept' /\ Left'
<1>1. \A q \in DOMAIN table : /\ table[q] \in 1 .. MaxSockets /\ q \in Ports
                              /\ sock[table[q]].client = q
  BY DEF IInv, Types, Owners
<1>2. Kept'
  <2> SUFFICES ASSUME NEW p \in DOMAIN table, NEW t, table[p] = t
               PROVE  Attended(p, t)'
    BY KeptByEach
  <2>1. Attended(p, t) /\ t \in 1 .. MaxSockets /\ p \in Ports
        /\ sock[t].client = p
    BY <1>1 DEF Kept
  <2>2. CASE t # i
    <3>1. sock'[t] = sock[t]
      BY <2>1, <2>2 DEF Used
    <3>2. InFlight(p) => InFlight(p)'
      BY <2>2
    <3>3. Returning(t) => Returning(t)'
      <4> SUFFICES ASSUME Returning(t) PROVE Returning(t)'
        OBVIOUS
      <4>1. PICK x \in 1 .. MaxSends : ctx[x].st = "sending" /\ ~ctx[x].remote
                                      /\ ctx[x].sock = t
        BY DEF Returning
      <4>2. ctx'[x] = ctx[x]
        BY <4>1 DEF Gains
      <4> QED
        BY <4>1, <4>2 DEF Returning
    <3> QED
      BY <2>1, <3>1, <3>2, <3>3 DEF Attended, Steady
  <2>3. CASE t = i
    <3>1. ~sock'[i].flagged /\ sock'[i].age = 0
      BY <2>1, <2>3 DEF Used, Attended
    <3>2. ~remote => Returning(i)'
      BY DEF Gains, Returning
    <3>3. remote => endpoints[p] = 0
      BY <2>1, <2>3
    <3>4. gap[p] \in Nat
      BY <2>1
    <3>5. sock'[i].age < SocketExpired /\ sock'[i].age <= gap[p]
      BY <3>1, <3>4 DEF SocketExpired
    <3>6. endpoints'[p] <= sock'[i].age \/ Returning(i)'
      BY <3>1, <3>2, <3>3
    <3> QED
      BY <2>1, <2>3, <3>1, <3>5, <3>6 DEF Attended
  <2> QED
    BY <2>2, <2>3
<1>3. Left'
  <2> SUFFICES ASSUME NEW j \in 1 .. MaxSockets, sock'[j].st # "live", Busy(j)'
               PROVE  /\ sock'[j].client \in DOMAIN endpoints
                      /\ endpoints[sock'[j].client] <= SocketExpired
                      /\ ~Steady(sock'[j].client)
    BY DEF Left, Steady
  <2>1. j # i /\ sock'[j] = sock[j]
    BY DEF Used
  <2>2. Busy(j)
    BY <2>1 DEF Busy, Gains
  <2> QED
    BY <2>1, <2>2 DEF Left
<1> QED
  BY <1>2, <1>3

\* The server's receive: no datagram of a client that does not pause is lost.
LEMMA ServerSteady ==
  ASSUME IInv, IInv', Book, Steadiness, HandleServer, asking = NoAsk,
         ServerOp \in hands, UNCHANGED <<endpoints, net, phase, gap>>
  PROVE  Steadiness'
<1> DEFINE d == server.d
<1>0. /\ Clocks /\ Capacity /\ server.recv \in {"done", "failed"}
      /\ DOMAIN endpoints \subseteq Ports /\ 0 \notin Ports
      /\ ctx \in [1 .. MaxSends -> Sends]
      /\ gap \in [Ports -> Nat]
      /\ DOMAIN table \subseteq Ports
      /\ server \in [recv : {"posted", "done", "failed", "taken", "off"},
                     d : Datagrams]
  BY UdpAssumption DEF Book, InHands, Clocks, IInv, Types
<1>1. ASSUME UNCHANGED <<table, sock, ctx, harm, count>>,
             mapper' \subseteq Ports,
             Quiet => \A q \in DOMAIN table : InFlight(q) => InFlight(q)',
             server'.d = server.d, Holds' => Holds,
             \A q \in Ports : q \in mapper \/ q = asking => q \in mapper' \/ q = asking'
      PROVE  Steadiness'
  <2>1. SteadyClients' /\ Answers'
    BY <1>1 DEF Steadiness, SteadyClients, SteadyAreServed, RemovedNotUsed, Answers
  <2>2. ASSUME Quiet' PROVE Arrivals' /\ Served' /\ Kept' /\ Left'
    <3>1. Quiet /\ Arrivals /\ Served /\ Kept /\ Left
      BY <1>1, <2>2 DEF Quiet, Steadiness
    <3>2. Arrivals'
      BY <1>1, <3>1 DEF Arrivals, Arriving, Steady
    <3>3. Served' /\ Kept' /\ Left'
      <4>1. \A q \in DOMAIN endpoints : Steady(q)' <=> Steady(q)
        BY DEF Steady
      <4>2. UNCHANGED <<table, sock, ctx>>
        BY <1>1
      <4> QED
        BY <1>0, <1>1, <3>1, <4>1, <4>2, ArrivingStep
    <3> QED
      BY <3>2, <3>3
  <2> QED
    BY <2>1, <2>2 DEF Steadiness
<1>2. CASE /\ server.recv = "failed" /\ Repost
           /\ UNCHANGED <<mapper, table, sock, ctx, pool, asking, harm, count>>
  <2>1. \A q : InFlight(q) => InFlight(q)'
    BY <1>2 DEF InFlight, Holds
  <2>2. mapper' \subseteq Ports
    BY <1>2 DEF IInv, Types
  <2>5. UNCHANGED <<table, sock, ctx, harm, count>>
    BY <1>2
  <2>6. \A q \in DOMAIN table : InFlight(q) => InFlight(q)'
    BY <2>1
  <2>3. server'.d = server.d /\ ~Holds'
    BY <1>0, <1>2 DEF Repost, Holds
  <2>4. \A q \in Ports : q \in mapper \/ q = asking => q \in mapper' \/ q = asking'
    BY <1>2
  <2> QED
    BY <1>1, <2>2, <2>3, <2>4, <2>5, <2>6
<1>3. CASE /\ server.recv = "done" /\ d.port \notin DOMAIN table
           /\ d.port \in mapper
           /\ mapper' = mapper \ {d.port} /\ asking' = d.port
           /\ Ask /\ UNCHANGED <<table, sock, ctx, pool, gone, harm, count>>
  <2>1. \A q : InFlight(q) => InFlight(q)'
    BY <1>0, <1>3 DEF InFlight, Holds, Ask
  <2>2. mapper' \subseteq Ports
    BY <1>3 DEF IInv, Types
  <2>3. server'.d = server.d /\ Holds
    BY <1>0, <1>3 DEF Ask, Holds
  <2>4. \A q \in Ports : q \in mapper \/ q = asking => q \in mapper' \/ q = asking'
    BY <1>0, <1>3 DEF NoAsk
  <2> QED
    BY <1>0, <1>1, <1>3, <2>1, <2>2, <2>3, <2>4
<1>4. CASE /\ server.recv = "done" /\ d.port \notin DOMAIN table \cup mapper
           /\ harm' = harm \cup Lost(d) /\ Repost
           /\ UNCHANGED <<mapper, table, sock, ctx, pool, asking, count>>
  <2>1. Quiet => ~(d.new \/ Steady(d.port))
    <3> SUFFICES ASSUME Quiet, d.new \/ Steady(d.port) PROVE FALSE
      OBVIOUS
    <3>1. Arrivals /\ Served
      BY DEF Steadiness
    <3>2. Arriving(d)
      BY <1>4, <3>1 DEF Arrivals, Holds
    <3>3. d.port \in DOMAIN endpoints /\ Steady(d.port) /\ d.port # NoAsk
      BY <1>0, <3>2 DEF Arriving, NoAsk
    <3> QED
      BY <1>4, <3>1, <3>3 DEF Served
  <2>2. harm' = harm
    BY <1>4, <2>1 DEF Lost, Harm, Quiet
  <2>3. \A q \in DOMAIN table : InFlight(q) => InFlight(q)'
    BY <1>4 DEF InFlight
  <2>4. mapper' \subseteq Ports
    BY <1>4 DEF IInv, Types
  <2>5. server'.d = server.d /\ ~Holds'
    BY <1>0, <1>4 DEF Repost, Holds
  <2>6. \A q \in Ports : q \in mapper \/ q = asking => q \in mapper' \/ q = asking'
    BY <1>4
  <2>7. UNCHANGED <<table, sock, ctx, harm, count>>
    BY <1>4, <2>2
  <2> QED
    BY <1>1, <2>3, <2>4, <2>5, <2>6, <2>7
<1>5. CASE /\ server.recv = "done" /\ d.port \in DOMAIN table
           /\ \E ok \in BOOLEAN :
                /\ CountFailure(ok)
                /\ LET i == table[d.port] IN Relay(Touch(i, TRUE), i, TRUE, d, ok)
           /\ Repost /\ UNCHANGED <<mapper, table, asking, harm>>
  <2> DEFINE i == table[d.port]
  <2>1. PICK ok \in BOOLEAN : /\ CountFailure(ok)
                              /\ Relay(Touch(i, TRUE), i, TRUE, d, ok)
    BY <1>5
  <2> HIDE DEF i
  <2>2. /\ i \in 1 .. MaxSockets /\ sock[i].st = "live" /\ sock[i].client = d.port
        /\ \E c \in 1 .. MaxSends : Gains(i, TRUE, d, ok, c)
        /\ Used(i, ok) /\ sock'[i].recv = sock[i].recv
    <3>1. server.d.port \in DOMAIN table /\ i = table[server.d.port]
          /\ server.recv = "done" /\ Capacity
      BY <1>0, <1>5 DEF i
    <3>0. Relay(Touch(i, TRUE), i, TRUE, server.d, ok)
      BY <2>1
    <3> HIDE DEF d
    <3>2. \E c \in 1 .. MaxSends : Gains(i, TRUE, server.d, ok, c)
      BY <3>0, <3>1, ServerRelays
    <3>3. i \in 1 .. MaxSockets /\ Used(i, ok) /\ sock'[i].recv = sock[i].recv
          /\ sock[i].st = "live" /\ sock[i].client = server.d.port
      BY <3>0, <3>1, ServerRelays
    <3> QED
      BY <3>2, <3>3 DEF d
  <2>3. PICK c \in 1 .. MaxSends : Gains(i, TRUE, d, ok, c)
    BY <2>2
  <2>4. SteadyClients'
    BY <1>5 DEF Steadiness, SteadyClients, SteadyAreServed, RemovedNotUsed
  <2>5. Answers'
    BY <2>3 DEF Gains, Steadiness, Answers
  <2>6. ASSUME Quiet' PROVE Arrivals' /\ Served' /\ Kept' /\ Left'
    <3>1. Quiet /\ ok
      BY <1>0, <2>1, <2>6, QuietFacts
    <3>2. Arrivals /\ Served /\ Kept /\ Left
      BY <3>1 DEF Steadiness
    <3>3. ~Holds'
      BY <1>0, <1>5 DEF Repost, Holds
    <3>4. Arrivals'
      BY <3>2, <3>3 DEF Arrivals, Arriving, Steady
    <3>5. Served'
      BY <1>5, <3>2 DEF Served, Steady
    <3>6. Arriving(d)
      BY <1>5, <3>2 DEF Arrivals, Holds
    <3>7. endpoints[sock[i].client] = 0
      BY <2>2, <3>6 DEF Arriving
    <3>8. \A q \in DOMAIN table : table[q] # i /\ InFlight(q) => InFlight(q)'
      BY DEF InFlight, i
    <3>9. sock'[i].recv \in {"posted", "done"}
      <4>1. Attended(d.port, i)
        BY <1>5, <3>2 DEF Kept, i
      <4> QED
        BY <2>2, <4>1 DEF Attended
    <3>10. Gains(i, TRUE, d, TRUE, c) /\ Used(i, TRUE)
      BY <2>2, <2>3, <3>1 DEF Gains, Used
    <3>11. UNCHANGED <<table, endpoints, gap>>
      BY <1>5
    <3> HIDE DEF d
    <3>12. Kept' /\ Left'
      BY <1>0, <2>2, <3>2, <3>7, <3>8, <3>9, <3>10, <3>11, RelaySteady
    <3> QED
      BY <3>4, <3>5, <3>12
  <2> QED
    BY <2>4, <2>5, <2>6 DEF Steadiness
<1> QED
  BY <1>2, <1>3, <1>4, <1>5 DEF HandleServer, Refuse

\* Sends that go on are still on their way.
LEMMA ReturningStep ==
  ASSUME NEW t,
         \A x \in 1 .. MaxSends : ctx[x].st = "sending" /\ ~ctx[x].remote =>
            ctx'[x] = ctx[x]
  PROVE  Returning(t) => Returning(t)'
BY DEF Returning

\* An answer: what is left of an object is not that of a steady client.
LEMMA RecvSteady ==
  ASSUME IInv, IInv', Book, Steadiness, NEW i \in 1 .. MaxSockets, HandleRecv(i),
         RecvOp(i) \in hands, UNCHANGED <<endpoints, net, phase, gap>>
  PROVE  Steadiness'
<1>0. /\ Clocks /\ Capacity /\ UNCHANGED <<mapper, server, table, asking>>
      /\ gap \in [Ports -> Nat]
      /\ sock \in [1 .. MaxSockets -> Objects] /\ sock[i] \in Objects
      /\ sock[i].recv \in {"done", "failed"}
      /\ \A q \in DOMAIN table : table[q] \in 1 .. MaxSockets
  BY DEF HandleRecv, Book, InHands, Clocks, IInv, Types
<1>1. ASSUME Quiet', Quiet PROVE Arrivals' /\ Served'
  <2>1. Arrivals /\ Served
    BY <1>1 DEF Steadiness
  <2> QED
    BY <1>0, <2>1 DEF Arrivals, Arriving, Holds, Steady, Served
<1>2. CASE sock[i].recv = "done" /\ sock[i].st = "live"
  <2> DEFINE d == [NoDatagram EXCEPT !.port = sock[i].to, !.length = sock[i].length]
  <2>0. ~d.fragment
    BY DEF NoDatagram
  <2>1. PICK ok \in BOOLEAN, posted \in BOOLEAN :
          /\ CountFailure(posted /\ ok)
          /\ Relay([Touch(i, FALSE) EXCEPT
                       ![i].recv = IF posted THEN "posted" ELSE "off",
                       ![i].flagged = @ \/ ~posted],
                   i, FALSE, d, ok)
    BY <1>2 DEF HandleRecv
  <2> HIDE DEF d
  <2>2. /\ \E c \in 1 .. MaxSends : Gains(i, FALSE, d, ok, c)
        /\ Used(i, posted /\ ok)
        /\ sock'[i].recv = IF posted THEN "posted" ELSE "off"
    BY <1>0, <1>2, <2>1, RecvRelays
  <2>3. PICK c \in 1 .. MaxSends : Gains(i, FALSE, d, ok, c)
    BY <2>2
  <2>4. harm' = harm
    BY <1>2 DEF HandleRecv, Harm
  <2>5. SteadyClients' /\ Answers'
    <3>1. SteadyClients'
      BY <2>4 DEF Steadiness, SteadyClients, SteadyAreServed, RemovedNotUsed
    <3>2. Answers'
      BY <2>0, <2>3 DEF Gains, Steadiness, Answers
    <3> QED
      BY <3>1, <3>2
  <2>6. ASSUME Quiet' PROVE Arrivals' /\ Served' /\ Kept' /\ Left'
    <3>1. Quiet /\ posted /\ ok
      <4>1. (posted /\ ok) \in BOOLEAN
        OBVIOUS
      <4> QED
        BY <1>0, <2>1, <2>6, <4>1, QuietFacts
    <3>2. Kept /\ Left
      BY <3>1 DEF Steadiness
    <3>3. Gains(i, FALSE, d, TRUE, c) /\ Used(i, TRUE)
      BY <2>2, <2>3, <3>1 DEF Gains, Used
    <3>4. sock'[i].recv \in {"posted", "done"}
      BY <2>2, <3>1
    <3>5. \A q \in DOMAIN table : table[q] # i /\ InFlight(q) => InFlight(q)'
      BY <1>0 DEF InFlight, Holds
    <3>6. UNCHANGED <<table, endpoints, gap>>
      BY <1>0
    <3>7. Kept' /\ Left'
      BY <1>0, <1>2, <3>2, <3>3, <3>4, <3>5, <3>6, RelaySteady
    <3> QED
      BY <1>1, <2>6, <3>1, <3>7
  <2> QED
    BY <2>5, <2>6 DEF Steadiness
<1>3. CASE ~(sock[i].recv = "done" /\ sock[i].st = "live")
  <2> DEFINE o == [sock[i] EXCEPT !.recv = "off"]
  <2>1. /\ sock' = [sock EXCEPT ![i] = o] /\ UNCHANGED <<ctx, count>>
    BY <1>3 DEF HandleRecv
  <2>2. /\ o.st = sock[i].st /\ o.client = sock[i].client
        /\ o.recv = "off" /\ o.age = sock[i].age
    BY <1>0 DEF Objects
  <2> HIDE DEF o
  <2>3. sock'[i] = o /\ \A j \in 1 .. MaxSockets : j # i => sock'[j] = sock[j]
    BY <1>0, <2>1
  <2>4. Quiet' => Quiet
    BY <2>1 DEF Quiet
  <2>5. Quiet => sock[i].st # "live"
    <3> SUFFICES ASSUME Quiet, sock[i].st = "live" PROVE FALSE
      OBVIOUS
    <3>1. Kept
      BY DEF Steadiness
    <3>2. sock[i].client \in DOMAIN table /\ table[sock[i].client] = i
      BY DEF Book, Tabled
    <3>3. Attended(sock[i].client, i)
      BY <3>1, <3>2 DEF Kept
    <3> QED
      BY <1>0, <1>3, <3>3 DEF Attended
  <2>6. harm' = harm
    <3>1. Quiet /\ sock[i].recv = "done" => ~Steady(sock[i].client)
      BY <2>5 DEF Steadiness, Left, Busy
    <3> QED
      BY <3>1 DEF HandleRecv, Harm, Quiet
  <2>7. SteadyClients' /\ Answers'
    BY <2>1, <2>6 DEF Steadiness, SteadyClients, SteadyAreServed, RemovedNotUsed,
                      Answers
  <2>8. ASSUME Quiet' PROVE Kept' /\ Left'
    <3>1. Kept /\ Left /\ sock[i].st # "live"
      BY <2>4, <2>5, <2>8 DEF Steadiness
    <3>2. Kept'
      <4> SUFFICES ASSUME NEW p \in DOMAIN table, NEW t, table[p] = t
                   PROVE  Attended(p, t)'
        BY <1>0, KeptByEach
      <4>1. Attended(p, t) /\ t \in 1 .. MaxSockets /\ t # i
        BY <1>0, <3>1 DEF Kept, IInv, Owners
      <4> QED
        BY <1>0, <2>1, <2>3, <4>1 DEF Attended, Returning, InFlight, Holds, Steady
    <3>3. Left'
      <4> SUFFICES ASSUME NEW j \in 1 .. MaxSockets, sock'[j].st # "live", Busy(j)'
                   PROVE  /\ sock'[j].client \in DOMAIN endpoints
                          /\ endpoints[sock'[j].client] <= SocketExpired
                          /\ ~Steady(sock'[j].client)
        BY DEF Left, Steady
      <4>1. sock'[j].client = sock[j].client /\ sock'[j].st = sock[j].st
        BY <2>2, <2>3
      <4>2. Busy(j)
        BY <2>1, <2>2, <2>3 DEF Busy
      <4> QED
        BY <3>1, <4>1, <4>2 DEF Left
    <3> QED
      BY <3>2, <3>3
  <2> QED
    BY <1>1, <2>4, <2>7, <2>8 DEF Steadiness
<1> QED
  BY <1>2, <1>3

\* A send that has completed.
LEMMA SendDoneSteady ==
  ASSUME IInv, IInv', Book, Steadiness, NEW c \in 1 .. MaxSends, HandleSend(c),
         SendOp(c) \in hands, UNCHANGED <<endpoints, net, phase, gap>>
  PROVE  Steadiness'
<1>0. /\ UNCHANGED <<mapper, server, table, sock, asking, count>>
      /\ ctx \in [1 .. MaxSends -> Sends]
      /\ ctx' = [ctx EXCEPT ![c] = NoSend]
      /\ ctx[c].st \in {"done", "failed"}
      /\ \A q \in DOMAIN table : table[q] \in 1 .. MaxSockets
  BY DEF HandleSend, Book, InHands, IInv, Types
<1>1. /\ ctx'[c] = NoSend /\ \A x \in 1 .. MaxSends : x # c => ctx'[x] = ctx[x]
      /\ NoSend.st = "free"
  BY <1>0 DEF NoSend
<1>2. harm' = harm
  <2> DEFINE i == ctx[c].sock
  <2>1. i \in 1 .. MaxSockets
    <3>1. ctx[c] \in Sends /\ ctx[c].sock # 0 /\ MaxSockets \in Nat
      BY <1>0, UdpAssumption DEF IInv, Outstanding
    <3> QED
      BY <3>1 DEF Sends
  <2>2. Quiet /\ ctx[c].st = "done" /\ sock[i].st # "live" => ~Steady(sock[i].client)
    BY <2>1 DEF Steadiness, Left, Busy
  <2> QED
    BY <2>2 DEF HandleSend, Harm, Quiet
<1>3. SteadyClients' /\ Answers'
  <2>1. SteadyClients'
    BY <1>2 DEF Steadiness, SteadyClients, SteadyAreServed, RemovedNotUsed
  <2>2. Answers'
    BY <1>1 DEF Steadiness, Answers
  <2> QED
    BY <2>1, <2>2
<1>4. ASSUME Quiet' PROVE Arrivals' /\ Served' /\ Kept' /\ Left'
  <2>1. Arrivals /\ Served /\ Kept /\ Left
    BY <1>0, <1>4 DEF Steadiness, Quiet
  <2>2. Arrivals' /\ Served'
    BY <1>0, <2>1 DEF Arrivals, Arriving, Holds, Steady, Served
  <2>3. Kept'
    <3> SUFFICES ASSUME NEW p \in DOMAIN table, NEW t, table[p] = t
                 PROVE  Attended(p, t)'
      BY <1>0, KeptByEach
    <3>1. Attended(p, t)
      BY <2>1 DEF Kept
    <3>2. Returning(t) => Returning(t)'
      BY <1>0, <1>1, ReturningStep
    <3> QED
      BY <1>0, <3>1, <3>2 DEF Attended, InFlight, Holds, Steady
  <2>4. Left'
    <3> SUFFICES ASSUME NEW j \in 1 .. MaxSockets, sock[j].st # "live", Busy(j)'
                 PROVE  /\ sock[j].client \in DOMAIN endpoints
                        /\ endpoints[sock[j].client] <= SocketExpired
                        /\ ~Steady(sock[j].client)
      BY <1>0 DEF Left, Steady
    <3>1. Busy(j)
      BY <1>0, <1>1 DEF Busy
    <3> QED
      BY <2>1, <3>1 DEF Left
  <2> QED
    BY <2>2, <2>3, <2>4
<1> QED
  BY <1>3, <1>4 DEF Steadiness

\* An object for the client for which a thread has asked.
LEMMA AssociateSteady ==
  ASSUME IInv, IInv', Book, Steadiness, Associate
  PROVE  Steadiness'
<1>0. /\ Clocks /\ Capacity /\ UNCHANGED <<endpoints, mapper, gap, net, phase, harm>>
      /\ gap \in [Ports -> Nat]
      /\ server' = [server EXCEPT !.recv = "posted"] /\ asking' = NoAsk
      /\ server \in [recv : {"posted", "done", "failed", "taken", "off"},
                     d : Datagrams]
      /\ \A q \in DOMAIN table : table[q] \in 1 .. MaxSockets
      /\ asking \notin DOMAIN table
  BY DEF Associate, udpVars, lookupVars, ghosts, Repost, Book, Clocks, Tabled, IInv, Types
<1>1. PICK i \in 1 .. MaxSockets, posted \in BOOLEAN, ok \in BOOLEAN,
           c \in 1 .. MaxSends : Associated(i, posted, ok, c)
  BY <1>0, AssociateFacts
<1>2. Gains(i, TRUE, server.d, ok, c)
  BY <1>1 DEF Associated
<1>3. SteadyClients' /\ Answers'
  <2>1. SteadyClients'
    BY <1>0 DEF Steadiness, SteadyClients, SteadyAreServed, RemovedNotUsed
  <2>2. Answers'
    BY <1>2 DEF Gains, Steadiness, Answers
  <2> QED
    BY <2>1, <2>2
<1>4. ASSUME Quiet' PROVE Arrivals' /\ Served' /\ Kept' /\ Left'
  <2>1. Quiet /\ posted /\ ok
    <3>1. (posted /\ ok) \in BOOLEAN /\ CountFailure(posted /\ ok)
      BY <1>1 DEF Associated
    <3> QED
      BY <1>0, <1>4, <3>1, QuietFacts
  <2>2. Arrivals /\ Served /\ Kept /\ Left
    BY <2>1 DEF Steadiness
  <2>3. ~Holds'
    BY <1>0 DEF Holds
  <2>4. Arrivals'
    BY <1>0, <2>2, <2>3 DEF Arrivals, Arriving, Steady
  <2>5. /\ DOMAIN table' = DOMAIN table \cup {asking}
        /\ \A p \in DOMAIN table : table'[p] = table[p]
        /\ table'[asking] = i
    BY <1>0, <1>1 DEF Associated
  <2>6. Served'
    BY <1>0, <2>2, <2>5 DEF Served, Steady
  <2>7. endpoints[asking] = 0 /\ asking \in DOMAIN endpoints /\ asking \in Ports
    BY <1>1, <2>2 DEF Associated, Arrivals, Arriving, Holds
  <2>8. Kept'
    <3> SUFFICES ASSUME NEW p \in DOMAIN table', NEW t, table'[p] = t
                 PROVE  Attended(p, t)'
      BY KeptByEach
    <3>1. CASE p = asking
      <4>1. t = i /\ sock'[i].age = 0 /\ sock'[i].recv = "posted" /\ ~sock'[i].flagged
        BY <1>1, <2>1, <2>5, <3>1 DEF Associated
      <4>2. gap[p] \in Nat
        BY <1>0, <2>7, <3>1
      <4> QED
        BY <1>0, <2>7, <3>1, <4>1, <4>2 DEF Attended, SocketExpired
    <3>2. CASE p # asking
      <4>1. Attended(p, t) /\ t \in 1 .. MaxSockets /\ t # i
        BY <1>0, <1>1, <2>2, <2>5, <3>2 DEF Kept, Associated, IInv, Owners
      <4>2. sock'[t] = sock[t]
        BY <1>1, <4>1 DEF Associated
      <4>3. Returning(t) => Returning(t)'
        BY <1>2, ReturningStep DEF Gains
      <4>4. InFlight(p) => InFlight(p)'
        BY <1>0, <1>1, <3>2 DEF InFlight, Associated
      <4> QED
        BY <1>0, <4>1, <4>2, <4>3, <4>4 DEF Attended, Steady
    <3> QED
      BY <3>1, <3>2
  <2>9. Left'
    <3> SUFFICES ASSUME NEW j \in 1 .. MaxSockets, sock'[j].st # "live", Busy(j)'
                 PROVE  /\ sock'[j].client \in DOMAIN endpoints
                        /\ endpoints[sock'[j].client] <= SocketExpired
                        /\ ~Steady(sock'[j].client)
      BY <1>0 DEF Left, Steady
    <3>1. j # i /\ sock'[j] = sock[j]
      BY <1>1 DEF Associated
    <3>2. Busy(j)
      BY <1>2, <3>1 DEF Busy, Gains
    <3> QED
      BY <2>2, <3>1, <3>2 DEF Left
  <2> QED
    BY <2>4, <2>6, <2>8, <2>9
<1> QED
  BY <1>3, <1>4 DEF Steadiness

LEMMA DenySteady ==
  ASSUME IInv, Book, Steadiness, Deny
  PROVE  Steadiness'
<1>1. /\ Clocks /\ CountFailure(FALSE) /\ UNCHANGED <<harm, ctx, phase>>
  BY DEF Deny, ghosts, Book
<1>2. ~Quiet'
  BY <1>1, QuietFacts
<1> QED
  BY <1>1, <1>2 DEF Steadiness, SteadyClients, SteadyAreServed, RemovedNotUsed, Answers

\* The sweep: what it removes is not that of a steady client.
LEMMA ClearSteady ==
  ASSUME IInv, IInv', Book, Steadiness, ClearThread
  PROVE  Steadiness'
<1> DEFINE S == {i \in DOMAIN sock : sock[i].st = "live" /\ IsReadyForRemoval(sock[i])}
<1>0. /\ UNCHANGED <<endpoints, mapper, gap, net, phase, harm, count, server, asking>>
      /\ sock \in [1 .. MaxSockets -> Objects]
      /\ \A q \in DOMAIN table : table[q] \in 1 .. MaxSockets
      /\ Erase(S)
  BY DEF ClearThread, udpVars, lookupVars, ghosts, IInv, Types
<1>1. S \subseteq 1 .. MaxSockets
      /\ \A i \in S : sock[i].st = "live" /\ IsReadyForRemoval(sock[i])
  BY <1>0
<1> HIDE DEF S
<1>2. Erased(S)
  BY <1>0, EraseFacts
<1>3. SteadyClients' /\ Answers'
  <2>1. SteadyClients'
    BY <1>0 DEF Steadiness, SteadyClients, SteadyAreServed, RemovedNotUsed
  <2>2. Answers'
    BY <1>2 DEF Erased, Steadiness, Answers
  <2> QED
    BY <2>1, <2>2
<1>4. ASSUME Quiet' PROVE Arrivals' /\ Served' /\ Kept' /\ Left'
  <2>1. Arrivals /\ Served /\ Kept /\ Left
    BY <1>0, <1>4 DEF Steadiness, Quiet
  <2>2. ASSUME NEW i \in S
        PROVE  /\ sock[i].client \in DOMAIN endpoints
               /\ endpoints[sock[i].client] <= SocketExpired
               /\ ~Steady(sock[i].client)
    <3>1. /\ i \in 1 .. MaxSockets /\ sock[i].st = "live"
          /\ IsReadyForRemoval(sock[i])
      BY <1>1
    <3>2. sock[i].client \in DOMAIN table /\ table[sock[i].client] = i
      BY <3>1 DEF Book, Tabled
    <3>3. Attended(sock[i].client, i)
      BY <2>1, <3>2 DEF Kept
    <3>4. sock[i].age \in Nat
      BY <1>0, <3>1 DEF Objects
    <3>5. ~(sock[i].age < SocketExpired)
      BY <3>1, <3>3, <3>4 DEF Attended, IsReadyForRemoval, SocketExpired
    <3> QED
      BY <3>3, <3>5 DEF Attended
  <2>3. Arrivals'
    BY <1>0, <2>1 DEF Arrivals, Arriving, Holds, Steady
  <2>4. Served'
    <3> SUFFICES ASSUME NEW p \in DOMAIN endpoints, Steady(p)
                 PROVE  p \in mapper \/ p = asking \/ p \in DOMAIN table'
      BY <1>0 DEF Served, Steady
    <3>1. p \in mapper \/ p = asking \/ p \in DOMAIN table
      BY <2>1 DEF Served
    <3>2. p \in DOMAIN table => table[p] \notin S
      BY <2>2 DEF IInv, Owners
    <3> QED
      BY <1>2, <3>1, <3>2 DEF Erased
  <2>5. Kept'
    <3> SUFFICES ASSUME NEW p \in DOMAIN table', NEW t, table'[p] = t
                 PROVE  Attended(p, t)'
      BY KeptByEach
    <3>1. p \in DOMAIN table /\ table[p] = t /\ t \notin S /\ t \in 1 .. MaxSockets
      BY <1>0, <1>2 DEF Erased
    <3>2. Attended(p, t) /\ sock'[t] = sock[t]
      BY <1>2, <2>1, <3>1 DEF Kept, Erased
    <3>3. Returning(t) => Returning(t)'
      BY <1>2, ReturningStep DEF Erased
    <3> QED
      BY <1>0, <3>2, <3>3 DEF Attended, InFlight, Holds, Steady
  <2>6. Left'
    <3> SUFFICES ASSUME NEW j \in 1 .. MaxSockets, sock'[j].st # "live", Busy(j)'
                 PROVE  /\ sock'[j].client \in DOMAIN endpoints
                        /\ endpoints[sock'[j].client] <= SocketExpired
                        /\ ~Steady(sock'[j].client)
      BY <1>0 DEF Left, Steady
    <3>0. sock'[j].client = sock[j].client
      BY <1>2 DEF Erased
    <3>1. CASE j \in S
      BY <2>2, <3>0, <3>1
    <3>2. CASE j \notin S
      <4>1. sock'[j] = sock[j]
        BY <1>2, <3>2 DEF Erased
      <4>2. Busy(j)
        BY <1>2, <4>1 DEF Busy, Erased
      <4> QED
        BY <2>1, <4>1, <4>2 DEF Left
    <3> QED
      BY <3>1, <3>2
  <2> QED
    BY <2>3, <2>4, <2>5, <2>6
<1> QED
  BY <1>3, <1>4 DEF Steadiness

\* Two and a half minutes pass: the object and the client's pause grow alike.
LEMMA TickSteady ==
  ASSUME IInv, IInv', Book, Steadiness, Tick
  PROVE  Steadiness'
<1>0. /\ UNCHANGED <<mapper, phase, harm, server, asking, table, ctx, net>>
      /\ DOMAIN ctx = 1 .. MaxSends /\ DOMAIN sock = 1 .. MaxSockets
      /\ \A q \in DOMAIN table : table[q] \in 1 .. MaxSockets /\ q \in Ports
      /\ net = << >> /\ hands = {} /\ asking = NoAsk /\ Completed = {}
      /\ \A c \in 1 .. MaxSends : ctx[c].st = "free"
      /\ Quiet
      /\ gap \in [Ports -> Nat]
  BY DEF Tick, threadVars, IInv, Types, Quiet, Book, Clocks
<1>1. /\ \A i \in 1 .. MaxSockets :
              /\ sock[i].st = "live" => /\ sock'[i].age = sock[i].age + 1
                                        /\ ~sock[i].flagged /\ sock[i].age < SocketExpired
              /\ sock'[i].st = sock[i].st /\ sock'[i].client = sock[i].client
              /\ sock'[i].recv = sock[i].recv /\ sock'[i].flagged = sock[i].flagged
              /\ sock[i].age \in Nat
      /\ DOMAIN endpoints' = DOMAIN endpoints
      /\ \A p \in DOMAIN endpoints : endpoints[p] \in Nat /\ endpoints'[p] \in Nat
                                     /\ endpoints'[p] <= endpoints[p] + 1
      /\ \A p \in Ports : /\ p \in DOMAIN endpoints /\ gap[p] < SocketExpired =>
                               gap'[p] = gap[p] + 1
                          /\ ~Steady(p) => ~Steady(p)'
  <2>1. Clocks
    BY DEF Book
  <2>2. /\ DOMAIN endpoints' = DOMAIN endpoints
        /\ \A p \in DOMAIN endpoints : endpoints'[p] \in Nat
    <3>1. /\ DOMAIN endpoints' = DOMAIN endpoints
          /\ endpoints' \in [DOMAIN endpoints -> 0 .. EndpointExpired]
      BY <2>1, TickFacts
    <3> QED
      BY <3>1
  <2> QED
    BY <2>1, <2>2, TickFacts
<1>2. Arrivals /\ Served /\ Kept /\ Left
  BY <1>0 DEF Steadiness
<1>3. ~Holds
  <2>1. server.recv \notin {"done", "failed"}
    <3>1. ServerOp \in Ops /\ State(ServerOp) = server.recv
      BY DEF Ops, State, ServerOp
    <3> QED
      BY <1>0, <3>1 DEF Completed
  <2> QED
    BY <1>0, <2>1 DEF Holds, IInv, Asking
<1>4. \A i \in 1 .. MaxSockets : sock[i].recv # "done"
  <2> SUFFICES ASSUME NEW i \in 1 .. MaxSockets, sock[i].recv = "done" PROVE FALSE
    OBVIOUS
  <2>1. RecvOp(i) \in Ops /\ State(RecvOp(i)) = "done"
    BY <1>0 DEF Ops, State, RecvOp
  <2> QED
    BY <1>0, <2>1 DEF Completed
<1>5. SteadyClients' /\ Answers'
  BY <1>0 DEF Steadiness, SteadyClients, SteadyAreServed, RemovedNotUsed, Answers
<1>6. Arrivals'
  BY <1>0, <1>3 DEF Arrivals, Holds
<1>7. Served'
  <2>1. DOMAIN endpoints \subseteq Ports
    BY DEF Book, Clocks
  <2>2. \A p \in DOMAIN endpoints : Steady(p)' => Steady(p)
    BY <1>1, <2>1
  <2> QED
    BY <1>0, <1>1, <1>2, <2>2 DEF Served, Steady
<1>8. Kept'
  <2> SUFFICES ASSUME NEW p \in DOMAIN table, NEW t, table[p] = t
               PROVE  Attended(p, t)'
    BY <1>0, KeptByEach
  <2>1. /\ Attended(p, t) /\ t \in 1 .. MaxSockets /\ p \in Ports
        /\ sock[t].st = "live" /\ ~Returning(t) /\ ~InFlight(p)
    BY <1>0, <1>2, <1>3 DEF Kept, IInv, Owners, Returning, InFlight
  <2>2. p \in DOMAIN endpoints /\ endpoints[p] <= sock[t].age
        /\ (Steady(p) => sock[t].age <= gap[p])
        /\ sock[t].recv \in {"posted", "done"}
    BY <2>1 DEF Attended
  <2>3. /\ sock'[t].age = sock[t].age + 1 /\ sock[t].age \in Nat
        /\ sock[t].age < SocketExpired
        /\ ~sock'[t].flagged /\ sock'[t].recv \in {"posted", "done"}
    BY <1>1, <2>1, <2>2
  <2>4. /\ endpoints[p] \in Nat /\ endpoints'[p] \in Nat
        /\ endpoints'[p] <= endpoints[p] + 1
    BY <1>1, <2>2
  <2>5. endpoints'[p] <= sock'[t].age /\ endpoints'[p] <= SocketExpired
    BY <2>2, <2>3, <2>4 DEF SocketExpired
  <2>6. Steady(p)' => sock'[t].age < SocketExpired /\ sock'[t].age <= gap'[p]
    <3> SUFFICES ASSUME Steady(p)'
                 PROVE  sock'[t].age < SocketExpired /\ sock'[t].age <= gap'[p]
      OBVIOUS
    <3>1. Steady(p)
      BY <1>1, <2>1
    <3>2. gap[p] \in Nat /\ gap[p] < SocketExpired /\ gap'[p] = gap[p] + 1
      BY <1>0, <1>1, <2>1, <2>2, <3>1 DEF Steady
    <3>3. gap'[p] < SocketExpired
      BY DEF Steady
    <3> QED
      BY <2>2, <2>3, <3>1, <3>2, <3>3 DEF SocketExpired
  <2> QED
    BY <1>1, <2>2, <2>3, <2>5, <2>6 DEF Attended
<1>9. Left'
  <2>1. ASSUME NEW i \in 1 .. MaxSockets PROVE ~Busy(i)'
    <3>1. sock'[i].recv # "done"
      BY <1>1, <1>4
    <3>2. \A c \in 1 .. MaxSends : ctx'[c].st = "free"
      BY <1>0
    <3> QED
      BY <3>1, <3>2 DEF Busy
  <2> QED
    BY <2>1 DEF Left
<1> QED
  BY <1>5, <1>6, <1>7, <1>8, <1>9 DEF Steadiness

\* Endpoints that have expired are forgotten.
LEMMA CleanupSteady ==
  ASSUME IInv, IInv', Book, Steadiness, CleanupThread
  PROVE  Steadiness'
<1>0. /\ UNCHANGED <<mapper, phase, harm, server, asking, table, ctx, sock, net, gap,
                     count>>
      /\ DOMAIN endpoints \subseteq Ports
      /\ endpoints \in [DOMAIN endpoints -> 0 .. EndpointExpired]
  BY DEF CleanupThread, lookupVars, ioVars, threadVars, ghosts, Book, Clocks
<1>1. endpoints' = [p \in {p \in DOMAIN endpoints : endpoints[p] < EndpointExpired}
                      |-> endpoints[p]]
  BY DEF CleanupThread, CleanupEndpoints
<1>2. /\ DOMAIN endpoints' \subseteq DOMAIN endpoints
      /\ \A p \in DOMAIN endpoints :
            \/ p \in DOMAIN endpoints' /\ endpoints'[p] = endpoints[p]
            \/ endpoints[p] >= EndpointExpired
  BY <1>0, <1>1 DEF EndpointExpired
<1>3. SteadyClients' /\ Answers'
  BY <1>0 DEF Steadiness, SteadyClients, SteadyAreServed, RemovedNotUsed, Answers
<1>4. ASSUME Quiet' PROVE Arrivals' /\ Served' /\ Kept' /\ Left'
  <2>1. Arrivals /\ Served /\ Kept /\ Left
    BY <1>0, <1>4 DEF Steadiness, Quiet
  <2>2. \A p \in DOMAIN endpoints : endpoints[p] = 0 =>
           p \in DOMAIN endpoints' /\ endpoints'[p] = 0
    BY <1>2 DEF EndpointExpired
  <2>3. Arrivals'
    BY <1>0, <2>1, <2>2 DEF Arrivals, Arriving, Holds, Steady
  <2>4. /\ \A q \in DOMAIN endpoints : Steady(q)' <=> Steady(q)
        /\ \A q : InFlight(q) => InFlight(q)'
    BY <1>0 DEF Steady, InFlight, Holds
  <2>5. Served' /\ Kept' /\ Left'
    BY <1>0, <1>2, <2>1, <2>4, ArrivingStep
  <2> QED
    BY <2>3, <2>5
<1> QED
  BY <1>3, <1>4 DEF Steadiness

\* Every step keeps clients steady.
LEMMA NextSteadiness ==
  ASSUME IInv, IInv', Book, Steadiness, [Next]_vars PROVE Steadiness'
<1>1. CASE \E p \in Ports, n \in Lengths, f \in BOOLEAN : Send(p, n, f)
  BY <1>1, SendSteady
<1>2. CASE \E ok \in BOOLEAN : \/ Receive(ok)
                               \/ \E c \in DOMAIN ctx : Sent(c, ok)
                               \/ \E i \in DOMAIN sock, n \in AnswerLengths :
                                    Answer(i, n, ok)
  BY <1>2, ReceiveSteady, SentSteady, AnswerSteady
<1>3. CASE Dequeue \/ Associate \/ Deny
  BY <1>3, DequeueSteady, AssociateSteady, DenySteady
<1>4. CASE ClearThread \/ Tick \/ CleanupThread
  BY <1>4, ClearSteady, TickSteady, CleanupSteady
<1>5. ASSUME NEW op \in Ops, Handle(op) PROVE Steadiness'
  <2>1. /\ asking = NoAsk /\ op \in hands
        /\ UNCHANGED <<endpoints, net, phase, gap>>
    BY <1>5 DEF Handle
  <2>2. \/ op = ServerOp
        \/ \E i \in 1 .. MaxSockets : op = RecvOp(i)
        \/ \E c \in 1 .. MaxSends : op = SendOp(c)
    BY OpFacts
  <2>3. CASE op = ServerOp
    <3>1. HandleServer
      BY <1>5, <2>3 DEF Handle, ServerOp
    <3> QED
      BY <2>1, <2>3, <3>1, ServerSteady
  <2>4. ASSUME NEW i \in 1 .. MaxSockets, op = RecvOp(i) PROVE Steadiness'
    <3>1. HandleRecv(i)
      BY <1>5, <2>4 DEF Handle, RecvOp
    <3> QED
      BY <2>1, <2>4, <3>1, RecvSteady
  <2>5. ASSUME NEW c \in 1 .. MaxSends, op = SendOp(c) PROVE Steadiness'
    <3>1. HandleSend(c)
      BY <1>5, <2>5 DEF Handle, SendOp
    <3> QED
      BY <2>1, <2>5, <3>1, SendDoneSteady
  <2> QED
    BY <2>2, <2>3, <2>4, <2>5
<1>6. CASE ClearWake \/ UNCHANGED vars
  <2>1. UNCHANGED <<endpoints, gap, mapper, net, server, table, sock, ctx, asking,
                    phase, count, harm>>
    BY <1>6 DEF ClearWake, udpVars, lookupVars, ioVars, threadVars, ghosts, vars
  <2>2. SteadyClients' /\ Answers'
    BY <2>1 DEF Steadiness, SteadyClients, SteadyAreServed, RemovedNotUsed, Answers
  <2> QED
    BY <2>1, <2>2, QuietStep DEF Quiet
<1>7. CASE Stop \/ StopStep
  <2>1. ~Quiet' /\ harm' = harm
    BY <1>7 DEF Stop, StopStep, StopCall, StopClear, StopPool, StopDone, Quiet, ghosts
  <2>2. Answers'
    <3>1. CASE UNCHANGED ctx
      BY <3>1 DEF Steadiness, Answers
    <3>2. CASE StopClear
      <4>1. PICK S : Erase(S)
        BY <3>2 DEF StopClear
      <4>2. Erased(S)
        BY <4>1, EraseFacts
      <4> QED
        BY <4>2 DEF Erased, Steadiness, Answers
    <3> QED
      BY <1>7, <3>1, <3>2 DEF Stop, StopStep, StopCall, StopPool, StopDone, ioVars
  <2>3. SteadyClients'
    BY <2>1 DEF Steadiness, SteadyClients, SteadyAreServed, RemovedNotUsed
  <2> QED
    BY <2>1, <2>2, <2>3 DEF Steadiness
<1>8. CASE \E p \in Ports : Rebind(p)
  <2>1. /\ UNCHANGED <<endpoints, gap, mapper, net, server, table, sock, ctx, asking,
                       phase, harm>>
        /\ Count("rebinds", 1)
        /\ count \in [datagrams : Nat, answers : Nat, failures : Nat, ticks : Nat,
                      rebinds : Nat]
    BY <1>8 DEF Rebind, ioVars, threadVars, ghosts, Book, Clocks
  <2>2. count'.failures = count.failures
    BY <2>1 DEF Count
  <2>3. SteadyClients' /\ Answers'
    BY <2>1 DEF Steadiness, SteadyClients, SteadyAreServed, RemovedNotUsed, Answers
  <2> QED
    BY <2>1, <2>2, <2>3, QuietStep DEF Quiet
<1> QED
  BY <1>1, <1>2, <1>3, <1>4, <1>5, <1>6, <1>7, <1>8 DEF Next

\* For any numbers of clients, threads, objects and sends: as long as nothing
\* has failed and stop() has not been called, no datagram of a client that does
\* not pause for 5 minutes is dropped by the server, and no completion of an
\* object that the sweep has removed finds its client still sending.
THEOREM UdpSteadyClients == Spec => []SteadyClients
<1>1. IInv /\ [Next]_vars => IInv'
  BY NextInv
<1>2. IInv /\ IInv' /\ Book /\ [Next]_vars => Book'
  BY NextBook
<1>3. IInv /\ IInv' /\ Book /\ Steadiness /\ [Next]_vars => Steadiness'
  BY NextSteadiness
<1>4. Init => IInv /\ Book /\ Steadiness
  BY InitInv, InitBook, InitSteadiness
<1>5. Steadiness => SteadyClients
  BY DEF Steadiness
<1> QED
  BY <1>1, <1>2, <1>3, <1>4, <1>5, PTL DEF Spec
-----------------------------------------------------------------------------
\* Listed programs.  What the table has for a port is a program that had it when
\* the table was copied or later, or the default process if the system did not
\* answer for that port.

Found(p) == LookupUdp(cached, <<Home, p>>)

\* A process that a lookup for a port may give.
Told(process, p) == process \in owned[p] \/ (process = System /\ p \in lapsed)

Homes == /\ DOMAIN owned = Ports
         /\ \A p \in Ports : /\ Holders(bound, p) \subseteq owned[p]
                             /\ Found(p) = NoProcess \/ Told(Found(p), p)

Listing == ListedExactly /\ Homes

\* First the address itself is looked for, then all addresses.
LEMMA LookupFacts ==
  ASSUME NEW T, NEW p
  PROVE  /\ <<Home, p>> \in DOMAIN T => LookupUdp(T, <<Home, p>>) = T[<<Home, p>>]
         /\ <<Home, p>> \notin DOMAIN T =>
              LookupUdp(T, <<Home, p>>) = Lookup(T, <<AnyAddress, p>>)
<1>1. <<Home, p>>[2] = p
  OBVIOUS
<1> QED
  BY <1>1 DEF LookupUdp

\* A port that is bound has an address and a program.
LEMMA BoundFacts ==
  ASSUME NEW binding \in Bindings, NEW p \in Ports
  PROVE  /\ binding[p] # Unbound =>
              /\ binding[p][1] \in {AnyAddress, Home} /\ binding[p][2] \in Programs
              /\ Holders(binding, p) = {binding[p][2]}
<1>1. binding[p] \in ({AnyAddress, Home} \X Programs) \cup {Unbound}
  BY UdpAssumption
<1>2. binding[p] # Unbound =>
        binding[p][1] \in {AnyAddress, Home} /\ binding[p][2] \in Programs
  BY <1>1
<1> QED
  BY <1>2 DEF Holders

\* The system's table gives the program of every port that is bound, in whatever
\* way, and nothing for the others.
LEMMA SystemFinds ==
  ASSUME bound \in Bindings
  PROVE  /\ \A p \in BoundPorts : LookupUdp(SystemTable, <<Home, p>>) = Program(p)
                                  /\ Program(p) \in Programs
         /\ \A p \in Ports \ BoundPorts :
              LookupUdp(SystemTable, <<Home, p>>) = NoProcess
         /\ LookupUdp(SystemTable, <<Home, ProxyPort>>) = Self
<1> DEFINE K == {<<bound[p][1], p>> : p \in BoundPorts}
                  \cup {<<AnyAddress, ProxyPort>>}
<1>1. /\ DOMAIN SystemTable = K
      /\ \A e \in K : SystemTable[e] = IF e[2] = ProxyPort THEN Self ELSE Program(e[2])
  BY DEF SystemTable
<1>2. BoundPorts \subseteq Ports /\ ProxyPort \notin Ports
  BY UdpAssumption DEF BoundPorts
<1>3. ASSUME NEW p, NEW a, <<a, p>> \in K, p # ProxyPort
      PROVE  p \in BoundPorts /\ a = bound[p][1]
  <2>1. <<a, p>> # <<AnyAddress, ProxyPort>>
    BY <1>3
  <2>2. PICK q \in BoundPorts : <<a, p>> = <<bound[q][1], q>>
    BY <1>3, <2>1
  <2> QED
    BY <2>2
<1>4. ASSUME NEW p \in BoundPorts
      PROVE  LookupUdp(SystemTable, <<Home, p>>) = Program(p) /\ Program(p) \in Programs
  <2>1. bound[p][1] \in {AnyAddress, Home} /\ bound[p][2] \in Programs /\ p # ProxyPort
    BY <1>2, BoundFacts DEF BoundPorts
  <2>2. <<bound[p][1], p>> \in K /\ SystemTable[<<bound[p][1], p>>] = Program(p)
    BY <1>1, <2>1
  <2>3. ASSUME NEW a, <<a, p>> \in K PROVE a = bound[p][1]
    BY <1>3, <2>1, <2>3
  <2> HIDE DEF K
  <2>4. CASE bound[p][1] = Home
    <3>1. <<Home, p>> \in DOMAIN SystemTable /\ SystemTable[<<Home, p>>] = Program(p)
      BY <1>1, <2>2, <2>4
    <3> QED
      BY <2>1, <3>1, LookupFacts DEF Program
  <2>5. CASE bound[p][1] # Home
    <3>1. <<Home, p>> \notin DOMAIN SystemTable /\ bound[p][1] = AnyAddress
      BY <1>1, <2>1, <2>3, <2>5
    <3>2. /\ <<AnyAddress, p>> \in DOMAIN SystemTable
          /\ SystemTable[<<AnyAddress, p>>] = Program(p)
      BY <1>1, <2>2, <3>1
    <3>3. LookupUdp(SystemTable, <<Home, p>>) = Lookup(SystemTable, <<AnyAddress, p>>)
      BY <3>1, LookupFacts
    <3> QED
      BY <2>1, <3>2, <3>3 DEF Lookup, Program
  <2> QED
    BY <2>4, <2>5
<1>5. ASSUME NEW p \in Ports \ BoundPorts
      PROVE  LookupUdp(SystemTable, <<Home, p>>) = NoProcess
  <2>1. <<Home, p>> \notin K /\ <<AnyAddress, p>> \notin K
    BY <1>2, <1>3
  <2> HIDE DEF K
  <2>2. /\ <<Home, p>> \notin DOMAIN SystemTable
        /\ <<AnyAddress, p>> \notin DOMAIN SystemTable
    BY <1>1, <2>1
  <2> QED
    BY <2>2, LookupFacts DEF Lookup
<1>6. LookupUdp(SystemTable, <<Home, ProxyPort>>) = Self
  <2>1. <<AnyAddress, ProxyPort>> \in K /\ SystemTable[<<AnyAddress, ProxyPort>>] = Self
    BY <1>1
  <2>2. <<Home, ProxyPort>> \notin K
    <3>1. <<Home, ProxyPort>> # <<AnyAddress, ProxyPort>>
      BY DEF Home, AnyAddress
    <3>2. \A q \in BoundPorts : <<Home, ProxyPort>> # <<bound[q][1], q>>
      BY <1>2
    <3> QED
      BY <3>1, <3>2
  <2>3. <<Home, ProxyPort>>[2] = ProxyPort
    OBVIOUS
  <2> HIDE DEF K
  <2> QED
    BY <1>1, <2>1, <2>2, <2>3 DEF LookupUdp, Lookup
<1> QED
  BY <1>4, <1>5, <1>6

\* What a lookup that may ask the system finds, and the table it leaves.
LEMMA SourceFacts ==
  ASSUME bound \in Bindings, NEW p \in BoundPorts \cup {ProxyPort}
  PROVE  /\ Found(p) # NoProcess => Source(p) = [process |-> Found(p), table |-> cached]
         /\ Found(p) = NoProcess =>
              /\ Source(p).table = SystemTable
              /\ p \in BoundPorts => Source(p).process = Program(p)
<1>1. LookupUdp(SystemTable, <<Home, p>>) # NoProcess
      /\ (p \in BoundPorts => LookupUdp(SystemTable, <<Home, p>>) = Program(p))
  BY SystemFinds, UdpAssumption
<1>2. Found(p) # NoProcess => Source(p) = [process |-> Found(p), table |-> cached]
  BY DEF Source, Resolve, Find, Found
<1>3. Found(p) = NoProcess =>
        Source(p) = [process |-> LookupUdp(SystemTable, <<Home, p>>),
                     table |-> SystemTable]
  BY <1>1 DEF Source, Resolve, Find, Found, Actualize
<1> QED
  BY <1>1, <1>2, <1>3

\* What it finds and leaves when the system does not answer.
LEMMA SourceFailsFacts ==
  ASSUME NEW p \in Ports, Found(p) = NoProcess
  PROVE  /\ SourceFails(p).process = System
         /\ LookupUdp(SourceFails(p).table, <<Home, p>>) = System
         /\ \A q \in Ports : q # p =>
              LookupUdp(SourceFails(p).table, <<Home, q>>) = NoProcess
<1> DEFINE T == [k \in {<<Home, p>>} |-> System]
<1>1. DOMAIN EmptyTable = {}
  BY DEF EmptyTable
<1>2. LookupUdp(EmptyTable, <<Home, p>>) = NoProcess
  BY <1>1 DEF LookupUdp, Lookup
<1>3. SourceFails(p) = [process |-> System, table |-> T]
  <2>1. [k \in DOMAIN EmptyTable \cup {<<Home, p>>} |->
             IF k = <<Home, p>> THEN System ELSE EmptyTable[k]] = T
    BY <1>1
  <2> QED
    BY <1>2, <2>1 DEF SourceFails, Resolve, Find, Found, Actualize
<1>4. LookupUdp(T, <<Home, p>>) = System
  BY DEF LookupUdp
<1>5. ASSUME NEW q \in Ports, q # p PROVE LookupUdp(T, <<Home, q>>) = NoProcess
  <2>1. <<Home, q>> # <<Home, p>> /\ <<AnyAddress, q>> # <<Home, p>>
    BY <1>5
  <2>2. <<Home, q>>[2] = q
    OBVIOUS
  <2> QED
    BY <2>1, <2>2 DEF LookupUdp, Lookup
<1> QED
  BY <1>3, <1>4, <1>5

\* A router just started has no copy.
LEMMA InitListing == ASSUME Init PROVE Listing
<1>1. ListedExactly
  BY DEF Init, ListedExactly, OnlyListed, ListedAreRedirected
<1>2. DOMAIN cached = {}
  BY DEF Init, EmptyTable
<1>3. \A p : Found(p) = NoProcess
  BY <1>2 DEF Found, LookupUdp, Lookup
<1>4. DOMAIN owned = Ports /\ \A p \in Ports : Holders(bound, p) \subseteq owned[p]
  BY DEF Init
<1> QED
  BY <1>1, <1>3, <1>4 DEF Listing, Homes

\* A step that does not look.
LEMMA ListingKept ==
  ASSUME Listing, UNCHANGED lookupVars,
         \A p \in Ports : /\ <<"unlisted", p>> \in harm' => <<"unlisted", p>> \in harm
                          /\ <<"missed", p>> \in harm' => <<"missed", p>> \in harm
  PROVE  Listing'
<1>1. ListedExactly'
  BY DEF Listing, ListedExactly, OnlyListed, ListedAreRedirected
<1>2. UNCHANGED <<bound, cached, owned, lapsed>>
  BY DEF lookupVars
<1>3. Homes'
  BY <1>2 DEF Listing, Homes, Found, Told, Holders
<1> QED
  BY <1>1, <1>3 DEF Listing

\* Another program may have the port then, but the earlier one is not forgotten.
LEMMA RebindListing ==
  ASSUME IInv, Clocks, Listing, NEW p \in Ports, Rebind(p)
  PROVE  Listing'
<1>1. /\ bound' \in Bindings /\ UNCHANGED <<cached, lapsed, harm>>
      /\ \A q \in Ports \ {p} : bound'[q] = bound[q]
      /\ owned' = [owned EXCEPT ![p] = @ \cup Holders(bound', p)]
  BY DEF Rebind, ghosts
<1>2. ListedExactly'
  BY <1>1 DEF Listing, ListedExactly, OnlyListed, ListedAreRedirected
<1>3. ASSUME NEW q \in Ports
      PROVE  Holders(bound', q) \subseteq owned'[q] /\ owned[q] \subseteq owned'[q]
  <2>1. DOMAIN owned = Ports /\ Holders(bound, q) \subseteq owned[q]
    BY DEF Listing, Homes
  <2>2. owned'[q] = IF q = p THEN owned[q] \cup Holders(bound', q) ELSE owned[q]
    BY <1>1, <2>1
  <2>3. CASE q = p
    BY <2>2, <2>3
  <2>4. CASE q # p
    <3>1. Holders(bound', q) = Holders(bound, q)
      BY <1>1, <2>4 DEF Holders
    <3> QED
      BY <2>1, <2>2, <2>4, <3>1
  <2> QED
    BY <2>3, <2>4
<1>4. DOMAIN owned' = Ports
  BY <1>1 DEF Listing, Homes
<1>5. Homes'
  BY <1>1, <1>3, <1>4 DEF Listing, Homes, Found, Told
<1> QED
  BY <1>2, <1>5 DEF Listing

\* The table after a look.
LEMMA LookHomes ==
  ASSUME Homes, bound \in Bindings, bound' = bound,
         NEW p \in BoundPorts \cup {ProxyPort},
         NEW ok \in BOOLEAN, Look(p, ok), ok \/ p \in Ports
  PROVE  Homes'
<1>1. \A q \in Ports : Holders(bound, q)' = Holders(bound, q)
  BY DEF Holders
<1>2. CASE Found(p) # NoProcess
  <2>1. UNCHANGED <<cached, owned, lapsed>>
    BY <1>2, SourceFacts DEF Look, Copied, Found
  <2> QED
    BY <1>1, <2>1 DEF Homes, Found, Told
<1>3. CASE Found(p) = NoProcess
  <2>1. /\ owned' = [q \in Ports |-> Holders(bound, q)]
        /\ lapsed' = IF ok THEN {} ELSE {p}
        /\ cached' = (IF ok THEN Source(p) ELSE SourceFails(p)).table
    BY <1>3 DEF Look, Copied, Found
  <2>2. DOMAIN owned' = Ports /\ \A q \in Ports : Holders(bound, q)' \subseteq owned'[q]
    BY <1>1, <2>1
  <2>3. CASE ok
    <3>1. cached' = SystemTable
      BY <1>3, <2>1, <2>3, SourceFacts
    <3>2. ASSUME NEW q \in Ports
          PROVE  \/ LookupUdp(SystemTable, <<Home, q>>) = NoProcess
                 \/ LookupUdp(SystemTable, <<Home, q>>) \in owned'[q]
      <4>1. CASE q \in BoundPorts
        <5>1. owned'[q] = {Program(q)}
          BY <2>1, <4>1, BoundFacts DEF BoundPorts, Program
        <5> QED
          BY <4>1, <5>1, SystemFinds
      <4> QED
        BY <4>1, SystemFinds
    <3> QED
      BY <2>2, <3>1, <3>2 DEF Homes, Found, Told
  <2>4. CASE ~ok
    <3>1. /\ p \in Ports /\ cached' = SourceFails(p).table /\ lapsed' = {p}
      BY <2>1, <2>4
    <3>2. \A q \in Ports : LookupUdp(cached', <<Home, q>>) =
                             IF q = p THEN System ELSE NoProcess
      BY <1>3, <3>1, SourceFailsFacts
    <3> QED
      BY <2>2, <3>1, <3>2 DEF Homes, Found, Told
  <2> QED
    BY <2>3, <2>4
<1> QED
  BY <1>2, <1>3

\* The process that a look gives is one of those that it may give afterwards.
LEMMA LookTold ==
  ASSUME Homes, bound \in Bindings, NEW p \in BoundPorts, p \in Ports,
         NEW ok \in BOOLEAN, Look(p, ok)
  PROVE  LET process == (IF ok THEN Source(p) ELSE SourceFails(p)).process
         IN process \in owned'[p] \/ (process = System /\ p \in lapsed')
<1>1. CASE Found(p) # NoProcess
  <2>1. ok /\ UNCHANGED <<owned, lapsed>>
    BY <1>1 DEF Look, Copied, Found
  <2>2. Source(p).process = Found(p)
    BY <1>1, SourceFacts
  <2>3. Told(Found(p), p)
    BY <1>1 DEF Homes
  <2> QED
    BY <2>1, <2>2, <2>3 DEF Told
<1>2. CASE Found(p) = NoProcess
  <2>1. /\ owned' = [q \in Ports |-> Holders(bound, q)]
        /\ lapsed' = IF ok THEN {} ELSE {p}
    BY <1>2 DEF Look, Copied, Found
  <2>2. CASE ok
    <3>1. Source(p).process = Program(p)
      BY <1>2, SourceFacts
    <3>2. owned'[p] = {Program(p)}
      BY <2>1, BoundFacts DEF BoundPorts, Program
    <3> QED
      BY <2>2, <3>1, <3>2
  <2>3. CASE ~ok
    BY <1>2, <2>1, <2>3, SourceFailsFacts
  <2> QED
    BY <2>2, <2>3
<1> QED
  BY <1>1, <1>2

\* A client sends: it is redirected if and only if the look told a listed program.
LEMMA SendListing ==
  ASSUME IInv, Clocks, Listing, NEW p \in Ports, NEW n \in Lengths,
         NEW f \in BOOLEAN, Send(p, n, f)
  PROVE  Listing'
<1>0. PICK ok \in BOOLEAN :
       LET listed == (IF ok THEN Source(p) ELSE SourceFails(p)).process
                        \in Listed
           new    == listed /\ IsNewEndpoint(endpoints, p)
           known  == IF new THEN Refresh(endpoints, p) ELSE endpoints
           d      == [port |-> p, length |-> n, fragment |-> f, new |-> new]
           r      == ClientToServer(known, d)
       IN /\ Look(p, ok)
          /\ count' = [count EXCEPT !.datagrams = @ + 1,
                          !.failures = IF ok THEN @ ELSE @ + 1]
          /\ IF listed
             THEN /\ endpoints' = r.endpoints
                  /\ net' = IF r.done THEN Append(net, r.datagram) ELSE net
             ELSE UNCHANGED <<endpoints, net>>
          /\ harm' = harm
                \cup Wrong("unlisted", p, listed /\ owned'[p] \cap Listed = {})
                \cup Wrong("missed", p, /\ owned'[p] \subseteq Listed
                                        /\ p \notin lapsed'
                                        /\ ~f /\ net' = net)
  BY DEF Send
<1> DEFINE process == (IF ok THEN Source(p) ELSE SourceFails(p)).process
           listed == process \in Listed
           new    == listed /\ IsNewEndpoint(endpoints, p)
           known  == IF new THEN Refresh(endpoints, p) ELSE endpoints
           d      == [port |-> p, length |-> n, fragment |-> f, new |-> new]
           r      == ClientToServer(known, d)
<1>1. /\ Look(p, ok) /\ bound' = bound /\ bound \in Bindings /\ p \in BoundPorts
      /\ net \in Seq(Datagrams)
  BY <1>0 DEF Send, Clocks, IInv, Types
<1>2. /\ listed => net' = IF r.done THEN Append(net, r.datagram) ELSE net
      /\ harm' = harm
                \cup Wrong("unlisted", p, listed /\ owned'[p] \cap Listed = {})
                \cup Wrong("missed", p, /\ owned'[p] \subseteq Listed
                                        /\ p \notin lapsed'
                                        /\ ~f /\ net' = net)
  BY <1>0
<1>3. process \in owned'[p] \/ (process = System /\ p \in lapsed')
  BY <1>1, LookTold DEF Listing
<1> HIDE DEF process
<1>4. listed => owned'[p] \cap Listed # {}
  BY <1>3, UdpAssumption
<1>5. listed /\ ~f => net' # net
  <2> SUFFICES ASSUME listed, ~f PROVE net' # net
    OBVIOUS
  <2>1. p \in DOMAIN known
    BY DEF IsNewEndpoint, Refresh
  <2>2. r.done
    BY <2>1 DEF ClientToServer, Refused
  <2> HIDE DEF r
  <2>3. net' = Append(net, r.datagram)
    BY <1>2, <2>2
  <2>4. Len(Append(net, r.datagram)) = Len(net) + 1 /\ Len(net) \in Nat
    BY <1>1
  <2> QED
    BY <2>3, <2>4
<1>6. owned'[p] \subseteq Listed /\ p \notin lapsed' => listed
  BY <1>3
<1> HIDE DEF listed, r
<1>7. Wrong("unlisted", p, listed /\ owned'[p] \cap Listed = {}) = {}
  BY <1>4 DEF Wrong
<1>8. Wrong("missed", p, /\ owned'[p] \subseteq Listed /\ p \notin lapsed'
                         /\ ~f /\ net' = net) = {}
  BY <1>5, <1>6 DEF Wrong
<1>9. ListedExactly'
  BY <1>2, <1>7, <1>8 DEF Listing, ListedExactly, OnlyListed, ListedAreRedirected
<1>10. Homes'
  BY <1>1, LookHomes DEF Listing
<1> QED
  BY <1>9, <1>10 DEF Listing

\* A packet of the proxy's own may have the table copied.
LEMMA SentListing ==
  ASSUME IInv, Clocks, Listing, NEW c \in DOMAIN ctx, NEW ok \in BOOLEAN, Sent(c, ok)
  PROVE  Listing'
<1>1. /\ UNCHANGED <<bound, harm>> /\ bound \in Bindings
      /\ UNCHANGED <<cached, owned, lapsed>> \/ Look(ProxyPort, TRUE)
  BY DEF Sent, Clocks
<1>2. CASE UNCHANGED <<cached, owned, lapsed>>
  BY <1>1, <1>2, ListingKept DEF lookupVars
<1>3. CASE Look(ProxyPort, TRUE)
  <2>1. Homes'
    BY <1>1, <1>3, LookHomes DEF Listing
  <2> QED
    BY <1>1, <2>1 DEF Listing, ListedExactly, OnlyListed, ListedAreRedirected
<1> QED
  BY <1>1, <1>2, <1>3

\* The handlers do not look.
LEMMA HandleListing ==
  ASSUME IInv, Clocks, Listing, NEW op \in Ops, Handle(op)
  PROVE  Listing'
<1>1. UNCHANGED lookupVars
  BY DEF Handle
<1>2. \/ HandleServer
      \/ \E i : HandleRecv(i)
      \/ \E c : HandleSend(c)
  <2>1. \/ op = ServerOp
        \/ \E i \in 1 .. MaxSockets : op = RecvOp(i)
        \/ \E c \in 1 .. MaxSends : op = SendOp(c)
    BY OpFacts
  <2>2. CASE op = ServerOp
    BY <2>2 DEF Handle, ServerOp
  <2>3. CASE \E i \in 1 .. MaxSockets : op = RecvOp(i)
    BY <2>3 DEF Handle, RecvOp
  <2>4. CASE \E c \in 1 .. MaxSends : op = SendOp(c)
    BY <2>4 DEF Handle, SendOp
  <2> QED
    BY <2>1, <2>2, <2>3, <2>4
<1>3. harm' = harm \/ \E kind \in {"lost", "touched"} : \E p, condition :
                        harm' = harm \cup Harm(kind, p, condition)
  BY <1>2 DEF HandleServer, HandleRecv, HandleSend, Lost
<1>4. \A p \in Ports : /\ <<"unlisted", p>> \in harm' => <<"unlisted", p>> \in harm
                       /\ <<"missed", p>> \in harm' => <<"missed", p>> \in harm
  BY <1>3 DEF Harm
<1> QED
  BY <1>1, <1>4, ListingKept

\* Every step keeps the listing.
LEMMA NextListing ==
  ASSUME IInv, Clocks, Listing, [Next]_vars PROVE Listing'
<1>1. CASE \E p \in Ports, n \in Lengths, f \in BOOLEAN : Send(p, n, f)
  BY <1>1, SendListing
<1>2. CASE \E ok \in BOOLEAN, c \in DOMAIN ctx : Sent(c, ok)
  BY <1>2, SentListing
<1>3. CASE \E op \in Ops : Handle(op)
  BY <1>3, HandleListing
<1>4. CASE \E p \in Ports : Rebind(p)
  BY <1>4, RebindListing
<1>5. CASE \/ \E ok \in BOOLEAN :
                \/ Receive(ok)
                \/ \E i \in DOMAIN sock, n \in AnswerLengths : Answer(i, n, ok)
           \/ Dequeue \/ Associate \/ Deny
  <2>1. UNCHANGED lookupVars /\ harm' = harm
    BY <1>5 DEF Receive, Answer, Dequeue, Associate, Deny, udpVars, ghosts
  <2> QED
    BY <2>1, ListingKept
<1>6. CASE ClearWake \/ ClearThread \/ CleanupThread \/ Tick \/ Stop \/ StopStep
           \/ UNCHANGED vars
  <2>1. UNCHANGED lookupVars /\ harm' = harm
    BY <1>6 DEF ClearWake, ClearThread, CleanupThread, Tick, Stop, StopStep, vars,
                udpVars, ghosts
  <2> QED
    BY <2>1, ListingKept
<1> QED
  BY <1>1, <1>2, <1>3, <1>4, <1>5, <1>6 DEF Next

\* For any ports, programs and ways in which their sockets are bound, and in
\* whatever order ports are closed and bound by others: a datagram is redirected
\* only if a listed program has had its port since the system's table was copied,
\* and every whole datagram of a port that only listed programs have had since
\* then is, unless the system did not answer when it was asked for that port.
THEOREM UdpListedExactly == Spec => []ListedExactly
<1>1. IInv /\ [Next]_vars => IInv'
  BY NextInv
<1>2. IInv /\ IInv' /\ Book /\ [Next]_vars => Book'
  BY NextBook
<1>3. IInv /\ Book /\ Listing /\ [Next]_vars => Listing'
  BY NextListing DEF Book
<1>4. Init => IInv /\ Book /\ Listing
  BY InitInv, InitBook, InitListing
<1>5. Listing => ListedExactly
  BY DEF Listing
<1> QED
  BY <1>1, <1>2, <1>3, <1>4, <1>5, PTL DEF Spec
=============================================================================
