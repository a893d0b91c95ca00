----------------------- MODULE RouterRedirect_proofs -----------------------
(***************************************************************************)
(* For any programs, peers, ports, lists of proxies and filters, and       *)
(* whatever fails or expires:                                              *)
(*   - the SOCKS server is asked for the peer that the client dialled      *)
(*     (IInv);                                                             *)
(*   - every server of the router has the endpoint and the filters of its  *)
(*     own row (Settings, which says what processProxyItems has built);    *)
(*   - the connections to the SOCKS servers are not redirected (TableInv); *)
(*   - programs' connections are redirected if and only if a proxy lists   *)
(*     the program (ListedInv);                                            *)
(*   - a redirected connection is translated in both directions as long as *)
(*     it is in use (UsedInv).                                             *)
(* The last four build on one another in this order.                       *)
(*                                                                         *)
(* The mapper's entry for a port may be old or may have been written by a  *)
(* repeated SYN.  IInv says that an entry is right for a session that      *)
(* waits to be accepted, because a connection is redirected only by the    *)
(* packet that also writes the entry, and because no other session of the  *)
(* same port is in use before it has been consumed.                        *)
(***************************************************************************)
EXTENDS RouterRedirect, SequenceTheorems, FiniteSetTheorems, WellFoundedInduction, TLAPS

Busy(s) == conn[s].st # "closed" \/ served[s].st # "none"

Shape ==
    /\ DOMAIN conn = Sessions /\ DOMAIN served = Sessions
    /\ \A s \in Sessions : /\ DOMAIN conn[s] = DOMAIN Closed
                           /\ DOMAIN served[s] = DOMAIN Unserved
    /\ queue \in Seq(Sessions)

\* The key of an entry has a client's port, never a peer's.
Keys == \A k \in DOMAIN table : k[2] # PeerPort

\* A port is in use by one session.
OneSession == \A s, t \in Sessions : s[2] = t[2] /\ Busy(s) /\ Busy(t) => s = t

\* What waits to be accepted waits once.
Queued ==
    /\ \A i \in 1 .. Len(queue) : served[queue[i]].st = "waiting"
    /\ \A i, j \in 1 .. Len(queue) : queue[i] = queue[j] => i = j

\* The entry of its port leads to its peer.
Mapped == \A s \in Sessions :
    served[s].st = "waiting" /\ s[2] \in DOMAIN mapper
        => mapper[s[2]] = <<s[1], PeerPort>>

IInv == Shape /\ Keys /\ OneSession /\ Queued /\ Mapped /\ RightDestination
-----------------------------------------------------------------------------
\* What the callback may do to the tables with a packet: only a SYN makes
\* entries, and one that is redirected to a proxy is mapped.
LEMMA OutcomeFacts ==
  ASSUME NEW p, NEW sys, NEW r \in Outcomes(p, sys)
  PROVE  /\ \A k \in DOMAIN r.table : \/ k \in DOMAIN table
                                      \/ p.flag = "syn" /\ k = <<p.dst, p.sport>>
         /\ r.mapper \in {mapper, MapPort(mapper, p)}
         /\ p.flag # "syn" => r.mapper = mapper
         /\ p.flag = "syn" /\ r.revert /\ <<p.dst, p.dport>> \notin DOMAIN table
              => r.mapper = MapPort(mapper, p)
<1>1. ASSUME NEW port
      PROVE  \A k \in DOMAIN ClientToServer(table, p, port).table :
                \/ k \in DOMAIN table
                \/ p.flag = "syn" /\ k = <<p.dst, p.sport>>
  BY DEF ClientToServer, Result, Put, Touch, Drop
<1>2. /\ \A k \in DOMAIN ServerToClient(table, p).table : k \in DOMAIN table
      /\ ServerToClient(table, p).done => <<p.dst, p.dport>> \in DOMAIN table
  BY DEF ServerToClient, Result, Touch, Drop
<1>3. PICK ok \in BOOLEAN : r = Outgoing(p, sys, ok)
  BY DEF Outcomes
<1>4. CASE ~(started /\ Verdict(router.statics, "out", p) = "redirect")
  BY <1>3, <1>4 DEF Outgoing
<1>5. CASE started /\ Verdict(router.statics, "out", p) = "redirect"
  <2> DEFINE port == ProxyPortTcp(Resolve("tcp", cached, Key(p), sys, ok, System).process)
             res  == IF port # Unset THEN ClientToServer(table, p, port)
                     ELSE IF IsTcpProxyPort(p.sport) THEN ServerToClient(table, p)
                     ELSE Result(FALSE, table, p)
  <2>1. /\ r.table = res.table /\ r.revert = res.done
        /\ r.mapper = IF port # Unset /\ p.flag = "syn" THEN MapPort(mapper, p)
                                                        ELSE mapper
    BY <1>3, <1>5 DEF Outgoing, Callback
  <2> HIDE DEF port
  <2>2. CASE port # Unset
    BY <1>1, <2>1, <2>2
  <2>3. CASE port = Unset /\ IsTcpProxyPort(p.sport)
    BY <1>2, <2>1, <2>3
  <2>4. CASE port = Unset /\ ~IsTcpProxyPort(p.sport)
    BY <2>1, <2>4 DEF Result
  <2> QED
    BY <2>2, <2>3, <2>4
<1> QED
  BY <1>4, <1>5

\* The entry that a SYN writes.
LEMMA MapFacts ==
  ASSUME NEW m, NEW src, NEW sport, NEW dst, NEW dport, NEW flag
  PROVE  LET p == Packet(src, sport, dst, dport, flag)
         IN  /\ p.flag = flag /\ p.sport = sport /\ p.dst = dst /\ p.dport = dport
             /\ sport \in DOMAIN MapPort(m, p)
             /\ MapPort(m, p)[sport] = <<dst, dport>>
             /\ \A k : k # sport =>
                  /\ k \in DOMAIN MapPort(m, p) <=> k \in DOMAIN m
                  /\ k \in DOMAIN m => MapPort(m, p)[k] = m[k]
BY DEF Packet, MapPort, Put
-----------------------------------------------------------------------------
\* The invariant holds at the start: nothing is connected and no table has entries.
LEMMA InitInv == ASSUME Init PROVE IInv
<1>1. Shape
  BY DEF Init, Shape, Closed, Unserved
<1>2. Queued /\ Keys /\ Mapped
  BY DEF Init, Queued, Keys, Mapped, EmptyTable, Unserved
<1>3. OneSession /\ RightDestination
  BY DEF Init, OneSession, Busy, RightDestination, Closed, Unserved
<1> QED
  BY <1>1, <1>2, <1>3 DEF IInv

\* A step in which no session becomes busy and the served ones stay as they are
\* needs an argument for the tables only.
LEMMA ServedAsBefore ==
  ASSUME IInv, Shape', Keys', Mapped',
         UNCHANGED <<served, queue>>,
         \A s \in Sessions : conn'[s].st # "closed" => Busy(s)
  PROVE  IInv'
<1>1. OneSession'
  BY DEF IInv, OneSession, Busy
<1>2. Queued' /\ RightDestination'
  BY DEF IInv, Queued, RightDestination
<1> QED
  BY <1>1, <1>2 DEF IInv

\* A packet of a session in use: its entries, if it makes any, lead where the
\* session goes, or are none of a program's.
LEMMA PacketTables ==
  ASSUME IInv, NEW src, NEW sport, NEW dst, NEW dport, NEW flag,
         NEW sys, NEW r \in Outcomes(Packet(src, sport, dst, dport, flag), sys),
         table' = r.table, mapper' = r.mapper,
         flag # "syn" \/ sport # PeerPort,
         flag # "syn" \/ sport \notin Ports \/
           \A s \in Sessions : s[2] = sport /\ served[s].st = "waiting"
                                  => <<s[1], PeerPort>> = <<dst, dport>>
  PROVE  /\ Keys'
         /\ \A s \in Sessions : served[s].st = "waiting" /\ s[2] \in DOMAIN mapper'
                => mapper'[s[2]] = <<s[1], PeerPort>>
<1> DEFINE p == Packet(src, sport, dst, dport, flag)
<1>1. /\ p.flag = flag /\ p.sport = sport /\ p.dst = dst /\ p.dport = dport
      /\ MapPort(mapper, p)[sport] = <<dst, dport>>
      /\ \A k : k # sport =>
           /\ k \in DOMAIN MapPort(mapper, p) <=> k \in DOMAIN mapper
           /\ k \in DOMAIN mapper => MapPort(mapper, p)[k] = mapper[k]
  BY MapFacts
<1>2. /\ \A k \in DOMAIN r.table : \/ k \in DOMAIN table
                                   \/ p.flag = "syn" /\ k = <<p.dst, p.sport>>
      /\ r.mapper \in {mapper, MapPort(mapper, p)}
      /\ p.flag # "syn" => r.mapper = mapper
  BY OutcomeFacts
<1> HIDE DEF p
<1>3. Keys'
  BY <1>1, <1>2 DEF IInv, Keys
<1>4. ASSUME NEW s \in Sessions, served[s].st = "waiting", s[2] \in DOMAIN mapper'
      PROVE  mapper'[s[2]] = <<s[1], PeerPort>>
  <2>1. s[2] \in Ports
    BY DEF Sessions
  <2>2. CASE mapper' = mapper
    BY <1>4, <2>2 DEF IInv, Mapped
  <2>3. CASE mapper' = MapPort(mapper, p) /\ flag = "syn"
    BY <1>1, <1>4, <2>1, <2>3 DEF IInv, Mapped
  <2> QED
    BY <1>1, <1>2, <2>2, <2>3
<1> QED
  BY <1>3, <1>4

\* Other sessions of the port of a session in use are idle.
LEMMA PortOfBusy ==
  ASSUME IInv, NEW s \in Sessions, Busy(s)
  PROVE  \A t \in Sessions : t[2] = s[2] /\ served[t].st = "waiting"
                                => <<t[1], PeerPort>> = <<s[1], PeerPort>>
BY DEF IInv, OneSession, Busy

\* Its port is a program's.
LEMMA PortFacts ==
  ASSUME NEW s \in Sessions
  PROVE  s[2] \in Ports /\ s[2] # PeerPort /\ s[2] # DialPort
BY PortsAssumption DEF Sessions
-----------------------------------------------------------------------------
\* Only this action makes a session busy: no other one of its port is, and a
\* redirected SYN has written the entry, over that of any earlier connection.
LEMMA OpenInv ==
  ASSUME IInv, NEW s \in Sessions, NEW x \in Processes, Open(s, x)
  PROVE  IInv'
<1> DEFINE p == FromClient(s, "syn")
           sys == [k \in DOMAIN SystemTable \cup {ClientKey(s)} |->
                      IF k = ClientKey(s) THEN x ELSE SystemTable[k]]
           owners(r) == IF Copied(r, p) THEN {x} ELSE owned[s] \cup {x}
           assumed == IF failures' > 0 THEN {System} ELSE {}
           faults(r) ==
             Fault("unlisted", r.revert /\ \A y \in owners(r) \cup assumed :
                 \A i \in ServersListing(y) :
                     router.servers[i].tcp # r.packet.dport)
             \cup Fault("missed", /\ ~r.revert /\ Redirects(x, s[1])
                                  /\ owners(r) = {x} /\ failures' = 0
                                  /\ s \notin DOMAIN table)
<1>1. PICK r \in Outcomes(p, sys) :
         /\ table' = r.table /\ mapper' = r.mapper
         /\ conn' = [conn EXCEPT ![s] =
              [Closed EXCEPT !.st = IF r.revert THEN "syn" ELSE "open",
                  !.owner = x, !.faults = faults(r),
                  !.lapsed = owners(r) # {x},
                  !.peer = IF r.revert THEN "proxy" ELSE "direct"]]
         /\ IF r.revert
            THEN /\ served' = [served EXCEPT ![s] =
                        [Unserved EXCEPT !.st = "waiting",
                                         !.port = r.packet.dport]]
                 /\ queue' = Append(queue, s)
            ELSE UNCHANGED <<served, queue>>
  BY DEF Open, Commit
<1> HIDE DEF sys, owners, assumed, faults
<1>2. /\ conn[s].st = "closed"
      /\ \A t \in Sessions : t[2] = s[2] =>
           conn[t].st = "closed" /\ served[t].st = "none"
  BY DEF Open
<1>3. p = Packet(Me, s[2], s[1], PeerPort, "syn")
  BY DEF FromClient
<1> HIDE DEF p
<1>4. s[2] \in Ports /\ s[2] # PeerPort /\ s[2] # DialPort
  BY PortFacts
<1>5. /\ Keys'
      /\ \A t \in Sessions : served[t].st = "waiting" /\ t[2] \in DOMAIN mapper'
                => mapper'[t[2]] = <<t[1], PeerPort>>
  <2>1. \A t \in Sessions : t[2] = s[2] /\ served[t].st = "waiting"
                                => <<t[1], PeerPort>> = <<s[1], PeerPort>>
    BY <1>2
  <2> QED
    BY <1>1, <1>3, <1>4, <2>1, PacketTables
<1>6. r.revert => s[2] \in DOMAIN mapper' /\ mapper'[s[2]] = <<s[1], PeerPort>>
  <2>1. <<s[1], PeerPort>> \notin DOMAIN table
    BY DEF IInv, Keys
  <2>2. /\ p.flag = "syn" /\ p.dst = s[1] /\ p.dport = PeerPort
        /\ s[2] \in DOMAIN MapPort(mapper, p)
        /\ MapPort(mapper, p)[s[2]] = <<s[1], PeerPort>>
    BY <1>3, MapFacts
  <2>3. r.revert => r.mapper = MapPort(mapper, p)
    BY <2>1, <2>2, OutcomeFacts
  <2> QED
    BY <1>1, <2>2, <2>3
<1>7. /\ DOMAIN conn' = Sessions /\ DOMAIN conn'[s] = DOMAIN Closed
      /\ \A t \in Sessions \ {s} : conn'[t] = conn[t]
  BY <1>1 DEF IInv, Shape, Closed
<1>8. CASE ~r.revert
  <2>1. UNCHANGED <<served, queue>>
    BY <1>1, <1>8
  <2>2. Shape'
    BY <1>7, <2>1 DEF IInv, Shape
  <2>3. Mapped'
    BY <1>5, <2>1 DEF Mapped
  <2>4. OneSession'
    BY <1>2, <1>7, <2>1 DEF IInv, OneSession, Busy
  <2>5. Queued' /\ RightDestination'
    BY <2>1 DEF IInv, Queued, RightDestination
  <2> QED
    BY <1>5, <2>2, <2>3, <2>4, <2>5 DEF IInv
<1>9. CASE r.revert
  <2>1. /\ DOMAIN served' = Sessions /\ DOMAIN served'[s] = DOMAIN Unserved
        /\ served'[s].st = "waiting"
        /\ \A t \in Sessions \ {s} : served'[t] = served[t]
    <3> DEFINE w == [Unserved EXCEPT !.st = "waiting", !.port = r.packet.dport]
    <3>1. DOMAIN w = DOMAIN Unserved /\ w.st = "waiting"
      BY DEF Unserved
    <3>2. served' = [served EXCEPT ![s] = w]
      BY <1>1, <1>9
    <3> HIDE DEF w
    <3> QED
      BY <3>1, <3>2 DEF IInv, Shape
  <2>2. /\ queue' \in Seq(Sessions) /\ Len(queue') = Len(queue) + 1
        /\ queue'[Len(queue) + 1] = s
        /\ \A i \in 1 .. Len(queue) : queue'[i] = queue[i]
    BY <1>1, <1>9 DEF IInv, Shape
  <2>3. \A i \in 1 .. Len(queue) : queue[i] \in Sessions \ {s}
    <3>1. \A i \in 1 .. Len(queue) : queue[i] \in Sessions /\ served[queue[i]].st = "waiting"
      BY DEF IInv, Shape, Queued
    <3> QED
      BY <1>2, <3>1
  <2>4. Shape'
    BY <1>7, <2>1, <2>2 DEF IInv, Shape
  <2>5. Mapped'
    BY <1>5, <1>6, <1>9, <2>1 DEF Mapped
  <2>6. OneSession'
    BY <1>2, <1>7, <2>1 DEF IInv, OneSession, Busy
  <2>7. Queued'
    <3>1. Len(queue) \in Nat
      BY DEF IInv, Shape
    <3>2. \A i \in 1 .. Len(queue') : i \in 1 .. Len(queue) \/ i = Len(queue) + 1
      BY <2>2, <3>1
    <3> QED
      BY <2>1, <2>2, <2>3, <3>1, <3>2 DEF IInv, Queued
  <2>8. RightDestination'
    BY <2>1 DEF IInv, RightDestination
  <2> QED
    BY <1>5, <2>4, <2>5, <2>6, <2>7, <2>8 DEF IInv
<1> QED
  BY <1>8, <1>9

\* A repeated SYN may write the entry again after it was consumed.
LEMMA RepeatInv ==
  ASSUME IInv, NEW s \in Sessions, Repeat(s)
  PROVE  IInv'
<1>1. PICK r \in Outcomes(FromClient(s, "syn"), SystemTable) :
         /\ table' = r.table /\ mapper' = r.mapper
         /\ conn' = [conn EXCEPT ![s] = IF r.revert THEN Alive(s)
               ELSE [Alive(s) EXCEPT !.st = "open", !.peer = "direct"]]
  BY DEF Repeat, Passes, Commit
<1>2. conn[s].st = "syn" /\ UNCHANGED <<served, queue>> /\ Busy(s)
  BY DEF Repeat, Busy
<1>3. /\ Keys'
      /\ \A t \in Sessions : served[t].st = "waiting" /\ t[2] \in DOMAIN mapper'
                => mapper'[t[2]] = <<t[1], PeerPort>>
  <2>1. r \in Outcomes(Packet(Me, s[2], s[1], PeerPort, "syn"), SystemTable)
    BY <1>1 DEF FromClient
  <2>2. s[2] # PeerPort
    BY PortFacts
  <2>3. \A t \in Sessions : t[2] = s[2] /\ served[t].st = "waiting"
                                => <<t[1], PeerPort>> = <<s[1], PeerPort>>
    BY <1>2, PortOfBusy
  <2> QED
    BY <1>1, <2>1, <2>2, <2>3, PacketTables
<1>4. Shape'
  BY <1>1, <1>2 DEF IInv, Shape, Alive
<1>5. \A t \in Sessions : conn'[t].st # "closed" => Busy(t)
  BY <1>1, <1>2 DEF IInv, Shape, Busy, Alive
<1>6. Mapped'
  BY <1>2, <1>3 DEF Mapped
<1> QED
  BY <1>2, <1>3, <1>4, <1>5, <1>6, ServedAsBefore

\* Data and FIN make no entries.
LEMMA ClientSendsInv ==
  ASSUME IInv, NEW s \in Sessions, NEW flag \in {"data", "fin"},
         ClientSends(s, flag)
  PROVE  IInv'
<1>1. PICK r \in Outcomes(FromClient(s, flag), SystemTable) :
         /\ table' = r.table /\ mapper' = r.mapper
         /\ \E faults : conn' = [conn EXCEPT ![s] =
               IF flag = "fin" THEN Closed
               ELSE [Alive(s) EXCEPT !.faults = faults]]
  BY DEF ClientSends, Passes, Commit
<1>2. conn[s].st = "open" /\ UNCHANGED <<served, queue>>
  BY DEF ClientSends
<1>3. /\ Keys'
      /\ \A t \in Sessions : served[t].st = "waiting" /\ t[2] \in DOMAIN mapper'
                => mapper'[t[2]] = <<t[1], PeerPort>>
  <2>1. r \in Outcomes(Packet(Me, s[2], s[1], PeerPort, flag), SystemTable)
    BY <1>1 DEF FromClient
  <2> QED
    BY <1>1, <2>1, PacketTables
<1>4. Shape'
  BY <1>1, <1>2 DEF IInv, Shape, Alive
<1>5. \A t \in Sessions : conn'[t].st # "closed" => Busy(t)
  BY <1>1, <1>2 DEF IInv, Shape, Busy, Alive, Closed
<1>6. Mapped'
  BY <1>2, <1>3 DEF Mapped
<1> QED
  BY <1>2, <1>3, <1>4, <1>5, <1>6, ServedAsBefore

\* A client that gives up leaves the entry and what waits behind.
LEMMA GiveUpInv ==
  ASSUME IInv, NEW s \in Sessions, GiveUp(s)
  PROVE  IInv'
<1>1. /\ conn' = [conn EXCEPT ![s] = Closed]
      /\ UNCHANGED <<mapper, table, served, queue>>
  BY DEF GiveUp
<1>2. Shape' /\ Keys' /\ Mapped'
  BY <1>1 DEF IInv, Shape, Keys, Mapped
<1>3. \A t \in Sessions : conn'[t].st # "closed" => Busy(t)
  BY <1>1 DEF IInv, Shape, Busy, Closed
<1> QED
  BY <1>1, <1>2, <1>3, ServedAsBefore

\* What is relayed is accepted; it does not wait any more.
LEMMA ServedSendsInv ==
  ASSUME IInv, NEW s \in Sessions, NEW flag \in {"synack", "data", "fin"},
         ServedSends(s, flag)
  PROVE  IInv'
<1> DEFINE good(r) == r.revert /\ r.packet = ToClient(s, flag)
           next(r) == CASE flag = "synack" /\ good(r) -> "open"
                        [] flag = "fin" /\ good(r) -> "closed"
                        [] OTHER -> conn[s].st
<1>1. PICK r \in Outcomes(FromServed(s, flag), SystemTable) :
         /\ table' = r.table /\ mapper' = r.mapper
         /\ conn' = [conn EXCEPT ![s] =
              IF ~(conn[s].st # "closed" /\ conn[s].peer = "proxy") THEN @
              ELSE IF next(r) = "closed" THEN Closed
              ELSE [Alive(s) EXCEPT !.st = next(r),
                      !.faults = @ \cup Fault("wrong",
                          ~good(r) /\ ~conn[s].lapsed)]]
  BY DEF ServedSends, Passes, Commit
<1> HIDE DEF good, next
<1>2. /\ queue' = queue /\ flag # "syn"
      /\ IF flag = "fin" THEN /\ served[s].st = "relaying"
                              /\ served' = [served EXCEPT ![s] = Unserved]
                         ELSE served' = served
  BY DEF ServedSends
<1>3. /\ Keys'
      /\ \A t \in Sessions : served[t].st = "waiting" /\ t[2] \in DOMAIN mapper'
                => mapper'[t[2]] = <<t[1], PeerPort>>
  <2>1. r \in Outcomes(Packet(Me, served[s].port, s[1], s[2], flag), SystemTable)
    BY <1>1 DEF FromServed
  <2>2. flag # "syn"
    OBVIOUS
  <2>3. table' = r.table /\ mapper' = r.mapper
    BY <1>1
  <2> QED
    BY <2>1, <2>2, <2>3, PacketTables
<1>4. /\ DOMAIN conn' = Sessions /\ DOMAIN served' = Sessions
      /\ \A t \in Sessions : /\ DOMAIN conn'[t] = DOMAIN Closed
                             /\ conn'[t].st # "closed" => conn[t].st # "closed"
                             /\ served'[t] \in {served[t], Unserved}
                             /\ served[t].st = "waiting" => served'[t] = served[t]
  <2>1. /\ DOMAIN conn' = Sessions
        /\ \A t \in Sessions : /\ DOMAIN conn'[t] = DOMAIN Closed
                               /\ conn'[t].st # "closed" => conn[t].st # "closed"
    BY <1>1 DEF IInv, Shape, Alive, Closed
  <2> QED
    BY <1>2, <2>1 DEF IInv, Shape
<1>5. Unserved.st = "none" /\ DOMAIN Unserved = DOMAIN Unserved
  BY DEF Unserved
<1>6. Shape'
  BY <1>2, <1>4 DEF IInv, Shape
<1>7. OneSession'
  BY <1>4, <1>5 DEF IInv, OneSession, Busy
<1>8. Queued'
  BY <1>2, <1>4 DEF IInv, Shape, Queued
<1>9. Mapped' /\ RightDestination'
  BY <1>3, <1>4, <1>5 DEF IInv, Mapped, RightDestination
<1> QED
  BY <1>3, <1>6, <1>7, <1>8, <1>9 DEF IInv

\* The first in the queue waits, so the entry of its port leads to its peer.
LEMMA AcceptInv ==
  ASSUME IInv, Accept
  PROVE  IInv'
<1> DEFINE s == Head(queue)
<1>1. /\ UNCHANGED <<table, conn>> /\ queue' = Tail(queue)
      /\ IF s[2] \in DOMAIN mapper
         THEN /\ served' = [served EXCEPT ![s].st = "dialing",
                                          ![s].target = mapper[s[2]]]
              /\ mapper' = Drop(mapper, s[2])
         ELSE /\ served' = [served EXCEPT ![s] = Unserved]
              /\ UNCHANGED mapper
  BY DEF Accept
<1>2. /\ Len(queue) \in Nat /\ 1 \in 1 .. Len(queue) /\ s = queue[1]
      /\ s \in Sessions /\ served[s].st = "waiting"
  <2>1. queue \in Seq(Sessions) /\ queue # << >>
    BY DEF Accept, IInv, Shape
  <2>2. Len(queue) \in Nat /\ 1 \in 1 .. Len(queue) /\ s = queue[1]
    BY <2>1
  <2> QED
    BY <2>1, <2>2 DEF IInv, Queued
<1>3. /\ queue' \in Seq(Sessions) /\ Len(queue') = Len(queue) - 1
      /\ \A i \in 1 .. Len(queue) - 1 : queue'[i] = queue[i + 1]
  <2>1. queue \in Seq(Sessions) /\ queue # << >>
    BY DEF Accept, IInv, Shape
  <2> QED
    BY <1>1, <2>1
<1> HIDE DEF s
<1>4. /\ DOMAIN served' = Sessions /\ DOMAIN served'[s] = DOMAIN Unserved
      /\ served'[s].st \in {"dialing", "none"}
      /\ served'[s].st = "dialing" => served'[s].target = <<s[1], PeerPort>>
      /\ \A t \in Sessions \ {s} : served'[t] = served[t]
  <2>1. CASE s[2] \in DOMAIN mapper
    <3>1. mapper[s[2]] = <<s[1], PeerPort>>
      BY <1>2, <2>1 DEF IInv, Mapped
    <3> QED
      BY <1>1, <1>2, <2>1, <3>1 DEF IInv, Shape, Unserved
  <2>2. CASE s[2] \notin DOMAIN mapper
    BY <1>1, <1>2, <2>2 DEF IInv, Shape, Unserved
  <2> QED
    BY <2>1, <2>2
<1>5. \A k \in DOMAIN mapper' : k \in DOMAIN mapper /\ mapper'[k] = mapper[k]
  BY <1>1 DEF Drop
<1>6. Shape' /\ Keys'
  BY <1>1, <1>3, <1>4 DEF IInv, Shape, Keys
<1>7. OneSession'
  BY <1>1, <1>2, <1>4 DEF IInv, OneSession, Busy
<1>8. Queued'
  <2>1. ASSUME NEW i \in 1 .. Len(queue')
        PROVE  /\ i + 1 \in 1 .. Len(queue) /\ i + 1 # 1
               /\ queue'[i] = queue[i + 1] /\ queue[i + 1] \in Sessions \ {s}
    <3>1. i + 1 \in 1 .. Len(queue) /\ i + 1 # 1 /\ queue'[i] = queue[i + 1]
      BY <1>2, <1>3
    <3>2. queue[i + 1] \in Sessions
      BY <3>1 DEF IInv, Shape
    <3> QED
      BY <1>2, <3>1, <3>2 DEF IInv, Queued
  <2>2. \A i \in 1 .. Len(queue') : served'[queue'[i]].st = "waiting"
    BY <1>4, <2>1 DEF IInv, Queued
  <2>3. ASSUME NEW i \in 1 .. Len(queue'), NEW j \in 1 .. Len(queue'),
               queue'[i] = queue'[j]
        PROVE  i = j
    <3>1. i + 1 = j + 1
      BY <2>1, <2>3 DEF IInv, Queued
    <3> QED
      BY <3>1
  <2> QED
    BY <2>2, <2>3 DEF Queued
<1>9. Mapped' /\ RightDestination'
  BY <1>2, <1>4, <1>5 DEF IInv, Mapped, RightDestination
<1> QED
  BY <1>6, <1>7, <1>8, <1>9 DEF IInv

\* The packet of the proxy itself is from no program's port.
LEMMA DialInv ==
  ASSUME IInv, NEW s \in Sessions, Dial(s)
  PROVE  IInv'
<1>1. PICK i \in DOMAIN router.servers :
        \E r \in Outcomes(Packet(Me, DialPort, router.servers[i].ip,
                                 router.servers[i].port, "syn"), SystemTable) :
           table' = r.table /\ mapper' = r.mapper
  BY DEF Dial, Passes, Commit
<1>2. /\ served[s].st = "dialing" /\ UNCHANGED <<conn, queue>>
      /\ served' = [served EXCEPT ![s].st = "relaying"]
  BY DEF Dial
<1>3. /\ Keys'
      /\ \A t \in Sessions : served[t].st = "waiting" /\ t[2] \in DOMAIN mapper'
                => mapper'[t[2]] = <<t[1], PeerPort>>
  <2>1. DialPort \notin Ports /\ DialPort # PeerPort
    BY PortsAssumption DEF DialPort, PeerPort
  <2> QED
    BY <1>1, <2>1, PacketTables
<1>4. /\ DOMAIN served' = Sessions
      /\ \A t \in Sessions :
           /\ DOMAIN served'[t] = DOMAIN Unserved
           /\ served'[t].target = served[t].target
           /\ \/ served'[t].st = served[t].st
              \/ served[t].st = "dialing" /\ served'[t].st = "relaying"
  BY <1>2 DEF IInv, Shape, Unserved
<1>5. Shape'
  BY <1>2, <1>4 DEF IInv, Shape
<1>6. OneSession'
  BY <1>2, <1>4 DEF IInv, OneSession, Busy
<1>7. Queued'
  BY <1>2, <1>4 DEF IInv, Shape, Queued
<1>8. Mapped' /\ RightDestination'
  BY <1>3, <1>4 DEF IInv, Mapped, RightDestination
<1> QED
  BY <1>3, <1>5, <1>6, <1>7, <1>8 DEF IInv

\* Time and the cleanup thread make no entries.
LEMMA TimeInv ==
  ASSUME IInv, Tick \/ CleanupThread
  PROVE  IInv'
<1>1. UNCHANGED <<mapper, served, queue>> /\ DOMAIN table' \subseteq DOMAIN table
  BY DEF Tick, CleanupThread, Age, Cleanup
<1>2. /\ DOMAIN conn' = Sessions
      /\ \A s \in Sessions : /\ DOMAIN conn'[s] = DOMAIN conn[s]
                             /\ conn'[s].st = conn[s].st
  BY DEF IInv, Shape, Tick, CleanupThread, Closed
<1>3. Shape' /\ Keys' /\ Mapped'
  BY <1>1, <1>2 DEF IInv, Shape, Keys, Mapped
<1> QED
  BY <1>1, <1>2, <1>3, ServedAsBefore DEF Busy

\* With the router go the tables, the sockets and the queues.
LEMMA StopInv ==
  ASSUME IInv, Stop
  PROVE  IInv'
<1>1. /\ mapper' = << >> /\ table' = << >> /\ queue' = << >>
      /\ served' = [s \in Sessions |-> Unserved]
      /\ conn' = [s \in Sessions |-> IF conn[s].peer = "proxy" THEN Closed
                                                               ELSE conn[s]]
  BY DEF Stop, EmptyTable
<1>2. Shape'
  BY <1>1 DEF IInv, Shape
<1>3. Keys' /\ Queued'
  BY <1>1 DEF Keys, Queued
<1>4. Unserved.st = "none" /\ Closed.st = "closed"
  BY DEF Unserved, Closed
<1>5. OneSession'
  BY <1>1, <1>4 DEF IInv, OneSession, Busy
<1>6. Mapped' /\ RightDestination'
  BY <1>1, <1>4 DEF Mapped, RightDestination
<1> QED
  BY <1>2, <1>3, <1>5, <1>6 DEF IInv

\* Nothing that the invariant speaks of changes.
LEMMA NothingInv ==
  ASSUME IInv, UNCHANGED netVars
  PROVE  IInv'
BY DEF netVars, IInv, Shape, Keys, OneSession, Busy, Queued, Mapped,
       RightDestination

\* Each step preserves the invariant.
LEMMA NextInv ==
  ASSUME IInv, [Next]_vars
  PROVE  IInv'
<1>1. CASE EditList \/ Start \/ UNCHANGED vars
  BY <1>1, NothingInv DEF EditList, Start, vars
<1>2. CASE Stop
  BY <1>2, StopInv
<1>3. ASSUME NEW s \in Sessions,
             \/ \E x \in Processes : Open(s, x)
             \/ Repeat(s) \/ GiveUp(s) \/ Dial(s)
             \/ \E flag \in {"data", "fin"} : ClientSends(s, flag)
             \/ \E flag \in {"synack", "data", "fin"} : ServedSends(s, flag)
      PROVE  IInv'
  BY <1>3, OpenInv, RepeatInv, GiveUpInv, DialInv, ClientSendsInv, ServedSendsInv
<1>4. CASE Accept
  BY <1>4, AcceptInv
<1>5. CASE Tick \/ CleanupThread
  BY <1>5, TimeInv
<1> QED
  BY <1>1, <1>2, <1>3, <1>4, <1>5 DEF Next
-----------------------------------------------------------------------------
\* The strengthening is an invariant: every session that waits to be accepted
\* finds the entry of its own port, or none.
THEOREM RedirectInvariant == Spec => []IInv
<1>1. Init => IInv
  BY InitInv
<1>2. IInv /\ [Next]_vars => IInv'
  BY NextInv
<1> QED
  BY <1>1, <1>2, PTL DEF Spec

\* The SOCKS server is asked for the peer the client dialled
\* (socks_local_router's query function and its port mapper).
THEOREM RedirectRightDestination == Spec => []RightDestination
<1>1. IInv => RightDestination
  BY DEF IInv
<1> QED
  BY <1>1, RedirectInvariant, PTL
-----------------------------------------------------------------------------
\* Induction over the natural numbers up to a limit, for a set.
LEMMA SetInduction ==
  ASSUME NEW N \in Nat, NEW S, 0 \in S,
         \A n \in 1 .. N : n - 1 \in S => n \in S
  PROVE  0 .. N \subseteq S
<1> DEFINE R == {ss \in Nat \X Nat : ss[1] < ss[2]}
           T == (0 .. N) \ S
<1> SUFFICES ASSUME T # {} PROVE FALSE
  OBVIOUS
<1>1. IsWellFoundedOn(R, Nat)
  BY NatLessThanWellFounded DEF OpToRel
<1>2. \A k, m \in Nat : k < m => <<k, m>> \in R
  OBVIOUS
<1>3. T \subseteq Nat
  OBVIOUS
<1> HIDE DEF R
<1>4. PICK m \in T : \A k \in T : <<k, m>> \notin R
  BY <1>1, <1>3, WFMin
<1>5. m \in 1 .. N /\ m - 1 \in 0 .. N /\ m - 1 \in Nat /\ m \in Nat
  BY <1>4
<1>6. m - 1 \in S
  <2>1. <<m - 1, m>> \in R
    BY <1>2, <1>5
  <2> QED
    BY <1>4, <1>5, <2>1
<1> QED
  BY <1>4, <1>5, <1>6

\* What comes first does, and is there.
LEMMA FirstFacts ==
  ASSUME NEW S \in SUBSET Nat, S # {}
  PROVE  First(S) \in S
<1> DEFINE R == {ss \in Nat \X Nat : ss[1] < ss[2]}
<1>1. IsWellFoundedOn(R, Nat)
  BY NatLessThanWellFounded DEF OpToRel
<1>2. \A k, m \in Nat : k < m => <<k, m>> \in R
  OBVIOUS
<1> HIDE DEF R
<1>3. PICK m \in S : \A k \in S : <<k, m>> \notin R
  BY <1>1, WFMin
<1>4. ASSUME NEW k \in S PROVE m <= k
  <2>1. k \in Nat /\ m \in Nat /\ <<k, m>> \notin R
    BY <1>3
  <2> QED
    BY <1>2, <2>1
<1> QED
  BY <1>3, <1>4 DEF First
-----------------------------------------------------------------------------
\* The static filters.
Icmp == ToStaticFilter([NewFilter EXCEPT !.protocol = "icmp"])

EntryOf(ip, port, protocol, d) ==
    ToStaticFilter([NewFilter EXCEPT !.protocol = protocol, !.direction = d,
                                     !.address = ip, !.port = port])

Statics == {Icmp} \cup {EntryOf(i.ip, i.port, protocol, d) :
              i \in Inputs, protocol \in {"tcp", "udp"}, d \in {"in", "out"}}

\* All of them pass, and what goes out to a SOCKS server fits.
LEMMA EntryFacts ==
  ASSUME NEW ip, NEW port, NEW protocol \in {"tcp", "udp"},
         NEW d \in {"in", "out"}, NEW p, p.protocol = "tcp"
  PROVE  /\ EntryOf(ip, port, protocol, d).action = "pass"
         /\ Unset \notin {ip, port} /\ Fits(EntryOf(ip, port, protocol, d), "out", p)
              => p.dst = ip /\ p.dport = port
         /\ protocol = "tcp" /\ d = "out" /\ p.dst = ip /\ p.dport = port
              => Fits(EntryOf(ip, port, protocol, d), "out", p)
<1> DEFINE f == [NewFilter EXCEPT !.protocol = protocol, !.direction = d,
                                  !.address = ip, !.port = port]
           e == EntryOf(ip, port, protocol, d)
<1>1. /\ f.protocol = protocol /\ f.direction = d /\ f.address = ip
      /\ f.port = port /\ f.action = "pass"
  BY DEF NewFilter
<1> HIDE DEF f
<1>2. /\ e.flags = {d} /\ e.action = "pass" /\ e.filter = f
      /\ Unset \notin {ip, port} => e.valid = {"network", "transport"}
  <2>1. e = ToStaticFilter(f)
    BY DEF EntryOf, f
  <2> QED
    BY <1>1, <2>1 DEF ToStaticFilter, Directions
<1> HIDE DEF e
<1>3. Unset \notin {ip, port} /\ Fits(e, "out", p) => p.dst = ip /\ p.dport = port
  BY <1>1, <1>2 DEF Fits
<1>4. protocol = "tcp" /\ d = "out" /\ p.dst = ip /\ p.dport = port
         => Fits(e, "out", p)
  BY <1>1, <1>2 DEF Fits
<1> QED
  BY <1>2, <1>3, <1>4 DEF e

\* The filter for ICMP does not fit.
LEMMA IcmpFacts ==
  ASSUME NEW p, p.protocol = "tcp"
  PROVE  Icmp.action = "pass" /\ ~Fits(Icmp, "out", p)
<1> DEFINE f == [NewFilter EXCEPT !.protocol = "icmp"]
<1>1. f.protocol = "icmp" /\ f.action = "pass"
  BY DEF NewFilter
<1> HIDE DEF f
<1>2. Icmp.filter = f /\ Icmp.action = "pass" /\ "network" \in Icmp.valid
  <2>1. Icmp = ToStaticFilter(f)
    BY DEF Icmp, f
  <2> QED
    BY <1>1, <2>1, ItemsAssumption DEF ToStaticFilter
<1> QED
  BY <1>1, <1>2, ItemsAssumption DEF Fits

\* So the driver passes what fits one of them.
LEMMA VerdictFacts ==
  ASSUME NEW table0 \in Seq(Statics), NEW p, p.protocol = "tcp"
  PROVE  Verdict(table0, "out", p) = IF \E e \in Range(table0) : Fits(e, "out", p)
                                     THEN "pass" ELSE "redirect"
<1>1. \A j \in DOMAIN table0 : table0[j].action = "pass"
  <2>1. \A e \in Statics : e.action = "pass"
    BY EntryFacts, IcmpFacts DEF Statics
  <2> QED
    BY <2>1
<1> DEFINE fitting == {i \in DOMAIN table0 : Fits(table0[i], "out", p)}
<1>2. fitting \in SUBSET Nat
  OBVIOUS
<1>3. CASE fitting = {}
  BY <1>3 DEF Verdict, Range
<1>4. CASE fitting # {}
  <2>1. First(fitting) \in fitting
    BY <1>2, <1>4, FirstFacts
  <2> QED
    BY <1>1, <1>4, <2>1 DEF Verdict, Range
<1> QED
  BY <1>3, <1>4

-----------------------------------------------------------------------------
\* The router that processProxyItems makes.

Servers == [ip : {i.ip : i \in Inputs}, port : {i.port : i \in Inputs},
            tcp : {TcpPorts[n] : n \in Nat} \cup {Unset},
            udp : {UdpPorts[n] : n \in Nat} \cup {Unset}]

Routers == [statics : Seq(Statics), servers : Seq(Servers),
            filters : Seq(Seq(SUBSET AllFilter))]

Items == [input : Inputs, filters : Seq(SUBSET AllFilter)]

\* The static filters are for the first n items, all of the servers among them.
FilteredFor(r, n, items) ==
    /\ \A e \in Range(r.statics) :
         \/ e = Icmp
         \/ \E row \in 1 .. n, protocol \in {"tcp", "udp"}, d \in {"in", "out"} :
              e = EntryOf(items[row].input.ip, items[row].input.port, protocol, d)
    /\ \A i \in 1 .. Len(r.servers) :
         EntryOf(r.servers[i].ip, r.servers[i].port, "tcp", "out")
             \in Range(r.statics)

\* The servers are those of some of the first n items, in their order.
ServersOf(r, rows, items) ==
    /\ \A i, j \in 1 .. Len(r.servers) : i < j => rows[i] < rows[j]
    /\ \A i \in 1 .. Len(r.servers) :
         /\ r.servers[i].ip = items[rows[i]].input.ip
         /\ r.servers[i].port = items[rows[i]].input.port
         /\ r.filters[i] = items[rows[i]].filters

Built(r, n, items) ==
    /\ r \in Routers /\ Len(r.filters) = Len(r.servers)
    /\ FilteredFor(r, n, items)
    /\ \E rows \in [1 .. Len(r.servers) -> 1 .. n] : ServersOf(r, rows, items)

\* Two and two are four.
LEMMA Pairs ==
  ASSUME NEW a, NEW b, NEW c, NEW d
  PROVE  /\ <<a, b>> \o << >> = <<a, b>>
         /\ DOMAIN (<<a, b>> \o <<c, d>>) = 1 .. 4
         /\ (<<a, b>> \o <<c, d>>)[1] = a /\ (<<a, b>> \o <<c, d>>)[2] = b
         /\ (<<a, b>> \o <<c, d>>)[3] = c /\ (<<a, b>> \o <<c, d>>)[4] = d
<1> DEFINE S == {a, b, c, d}
           s == <<a, b>>
           t == <<c, d>>
<1>1. /\ s \in Seq(S) /\ Len(s) = 2 /\ s[1] = a /\ s[2] = b
      /\ t \in Seq(S) /\ Len(t) = 2 /\ t[1] = c /\ t[2] = d
  OBVIOUS
<1> HIDE DEF S, s, t
<1>0. /\ s \o t \in Seq(S) /\ Len(s \o t) = 2 + 2
      /\ \A i \in 1 .. 2 + 2 : (s \o t)[i] = IF i <= 2 THEN s[i] ELSE t[i - 2]
  <2>1. s \in Seq(S) /\ t \in Seq(S)
    BY <1>1
  <2>2. /\ s \o t \in Seq(S) /\ Len(s \o t) = Len(s) + Len(t)
        /\ \A i \in 1 .. Len(s) + Len(t) :
             (s \o t)[i] = IF i <= Len(s) THEN s[i] ELSE t[i - Len(s)]
    BY <2>1, ConcatProperties
  <2> QED
    BY <1>1, <2>2
<1>2. /\ s \o << >> = s /\ Len(s \o t) = 4 /\ s \o t \in Seq(S)
      /\ (s \o t)[1] = s[1] /\ (s \o t)[2] = s[2]
      /\ (s \o t)[3] = t[1] /\ (s \o t)[4] = t[2]
  <2>1. s \o << >> = s
    BY <1>1, ConcatEmptySeq
  <2> QED
    BY <1>0, <2>1
<1>3. DOMAIN (s \o t) = 1 .. 4
  BY <1>2
<1> QED
  BY <1>1, <1>2, <1>3 DEF s, t

\* What add_socks5_proxy stores for the driver.
LEMMA StoredFilters ==
  ASSUME NEW i \in Inputs, NEW t \in Seq(Statics)
  PROVE  LET u == AddFiltersBack(t, ServersFilters(i))
         IN  /\ u \in Seq(Statics) /\ Range(t) \subseteq Range(u)
             /\ EntryOf(i.ip, i.port, "tcp", "out") \in Range(u)
             /\ \A e \in Range(u) : e \in Range(t) \/
                  \E protocol \in {"tcp", "udp"}, d \in {"in", "out"} :
                     e = EntryOf(i.ip, i.port, protocol, d)
<1> DEFINE to(protocol, d) == [NewFilter EXCEPT !.protocol = protocol,
                  !.direction = d, !.address = i.ip, !.port = i.port]
           fs == ServersFilters(i)
           es == [k \in DOMAIN fs |-> ToStaticFilter(fs[k])]
           own == {EntryOf(i.ip, i.port, protocol, d) :
                     protocol \in {"tcp", "udp"}, d \in {"in", "out"}}
<1>1. \A protocol, d : ToStaticFilter(to(protocol, d)) = EntryOf(i.ip, i.port, protocol, d)
  BY DEF EntryOf
<1>2. PICK n \in {2, 4} :
        /\ DOMAIN fs = 1 .. n /\ fs[1] = to("tcp", "out")
        /\ \A k \in 1 .. n : \E protocol \in {"tcp", "udp"}, d \in {"in", "out"} :
               fs[k] = to(protocol, d)
  <2> HIDE DEF to, fs
  <2>1. fs = <<to("tcp", "out"), to("tcp", "in")>>
               \o IF i.udp THEN <<to("udp", "out"), to("udp", "in")>> ELSE << >>
    BY DEF ServersFilters, to, fs
  <2>2. CASE i.udp
    <3>1. fs = <<to("tcp", "out"), to("tcp", "in")>>
                 \o <<to("udp", "out"), to("udp", "in")>>
      BY <2>1, <2>2
    <3>2. /\ DOMAIN fs = 1 .. 4 /\ fs[1] = to("tcp", "out") /\ fs[2] = to("tcp", "in")
          /\ fs[3] = to("udp", "out") /\ fs[4] = to("udp", "in")
      BY <3>1, Pairs
    <3>3. \A k \in 1 .. 4 : k = 1 \/ k = 2 \/ k = 3 \/ k = 4
      OBVIOUS
    <3> QED
      BY <3>2, <3>3
  <2>3. CASE ~i.udp
    <3>1. fs = <<to("tcp", "out"), to("tcp", "in")>>
      BY <2>1, <2>3, Pairs
    <3>2. DOMAIN fs = 1 .. 2 /\ fs[1] = to("tcp", "out") /\ fs[2] = to("tcp", "in")
      BY <3>1
    <3>3. \A k \in 1 .. 2 : k = 1 \/ k = 2
      OBVIOUS
    <3> QED
      BY <3>2, <3>3
  <2> QED
    BY <2>2, <2>3
<1> HIDE DEF to, fs
<1>3. /\ es \in [1 .. n -> own]
      /\ es[1] = EntryOf(i.ip, i.port, "tcp", "out")
  BY <1>1, <1>2
<1>4. own \subseteq Statics
  BY DEF Statics
<1> DEFINE u == t \o es
<1>5. AddFiltersBack(t, ServersFilters(i)) = u
  BY DEF AddFiltersBack, fs
<1> HIDE DEF es, own
<1>6. n \in Nat /\ 1 \in 1 .. n
  BY <1>2
<1>7. es \in Seq(Statics) /\ Len(es) = n
  BY <1>3, <1>4, <1>6
<1>8. /\ u \in Seq(Statics) /\ Len(t) \in Nat /\ Len(u) = Len(t) + n
      /\ \A k \in 1 .. Len(t) : u[k] = t[k]
      /\ \A k \in 1 .. n : u[Len(t) + k] = es[k]
  BY <1>7
<1> HIDE DEF u
<1>9. DOMAIN u = 1 .. Len(t) + n /\ DOMAIN t = 1 .. Len(t)
  BY <1>8
<1>10. \A k \in 1 .. Len(t) + n : k \in 1 .. Len(t) \/ (k - Len(t) \in 1 .. n
                                     /\ k = Len(t) + (k - Len(t)))
  BY <1>6, <1>8
<1>11. Range(t) \subseteq Range(u)
  BY <1>6, <1>8, <1>9 DEF Range
<1>12. EntryOf(i.ip, i.port, "tcp", "out") \in Range(u)
  <2>1. Len(t) + 1 \in DOMAIN u /\ u[Len(t) + 1] = es[1]
    BY <1>6, <1>8, <1>9
  <2> QED
    BY <1>3, <2>1 DEF Range
<1>13. \A e \in Range(u) : e \in Range(t) \/ e \in own
  <2> SUFFICES ASSUME NEW k \in 1 .. Len(t) + n
               PROVE  u[k] \in Range(t) \/ u[k] \in own
    BY <1>9 DEF Range
  <2>1. CASE k \in 1 .. Len(t)
    BY <1>8, <1>9, <2>1 DEF Range
  <2>2. CASE k - Len(t) \in 1 .. n /\ k = Len(t) + (k - Len(t))
    BY <1>3, <1>8, <2>2
  <2> QED
    BY <1>10, <2>1, <2>2
<1>14. \A e \in own : \E protocol \in {"tcp", "udp"}, d \in {"in", "out"} :
                         e = EntryOf(i.ip, i.port, protocol, d)
  BY DEF own
<1> QED
  BY <1>5, <1>8, <1>11, <1>12, <1>13, <1>14
-----------------------------------------------------------------------------
\* An item that is skipped changes nothing, or leaves its static filters.
LEMMA SkippedItem ==
  ASSUME NEW items \in Seq(Items), NEW n \in 1 .. Len(items), NEW r,
         Built(r, n - 1, items), NEW r1,
         r1 \in {r, [r EXCEPT !.statics =
                        AddFiltersBack(@, ServersFilters(items[n].input))]}
  PROVE  /\ Built(r1, n, items)
         /\ r1.servers = r.servers /\ r1.filters = r.filters
         /\ r1.statics # r.statics =>
              EntryOf(items[n].input.ip, items[n].input.port, "tcp", "out")
                  \in Range(r1.statics)
<1> DEFINE i == items[n].input
           u == AddFiltersBack(r.statics, ServersFilters(i))
<1>1. i \in Inputs
  <2>1. items[n] \in Items
    OBVIOUS
  <2> QED
    BY <2>1 DEF Items
<1>2. /\ r \in Routers /\ r.statics \in Seq(Statics)
      /\ r.servers \in Seq(Servers) /\ Len(r.servers) \in Nat
  BY DEF Built, Routers
<1>3. /\ u \in Seq(Statics) /\ Range(r.statics) \subseteq Range(u)
      /\ EntryOf(i.ip, i.port, "tcp", "out") \in Range(u)
      /\ \A e \in Range(u) : e \in Range(r.statics) \/
           \E protocol \in {"tcp", "udp"}, d \in {"in", "out"} :
              e = EntryOf(i.ip, i.port, protocol, d)
  BY <1>1, <1>2, StoredFilters
<1> HIDE DEF u
<1>4. /\ r1 \in Routers /\ r1.servers = r.servers /\ r1.filters = r.filters
      /\ r1.statics \in {r.statics, u}
  BY <1>2, <1>3 DEF u, Routers
<1>5. n - 1 \in Nat /\ n \in Nat /\ 1 .. n - 1 \subseteq 1 .. n /\ n \in 1 .. n
  OBVIOUS
<1>6. FilteredFor(r1, n, items)
  <2>1. ASSUME NEW e \in Range(r1.statics)
        PROVE  \/ e = Icmp
               \/ \E row \in 1 .. n, protocol \in {"tcp", "udp"}, d \in {"in", "out"} :
                    e = EntryOf(items[row].input.ip, items[row].input.port, protocol, d)
    <3>1. CASE e \in Range(r.statics)
      BY <1>5, <3>1 DEF Built, FilteredFor
    <3>2. CASE \E protocol \in {"tcp", "udp"}, d \in {"in", "out"} :
                  e = EntryOf(i.ip, i.port, protocol, d)
      BY <1>5, <3>2
    <3> QED
      BY <1>3, <1>4, <2>1, <3>1, <3>2
  <2>2. \A j \in 1 .. Len(r1.servers) :
           EntryOf(r1.servers[j].ip, r1.servers[j].port, "tcp", "out")
               \in Range(r1.statics)
    BY <1>3, <1>4 DEF Built, FilteredFor
  <2> QED
    BY <2>1, <2>2 DEF FilteredFor
<1>7. \E rows \in [1 .. Len(r1.servers) -> 1 .. n] : ServersOf(r1, rows, items)
  <2>1. PICK rows \in [1 .. Len(r.servers) -> 1 .. n - 1] : ServersOf(r, rows, items)
    BY DEF Built
  <2>2. rows \in [1 .. Len(r1.servers) -> 1 .. n] /\ ServersOf(r1, rows, items)
    BY <1>4, <1>5, <2>1 DEF ServersOf
  <2> QED
    BY <2>2
<1>8. Len(r1.filters) = Len(r1.servers)
  BY <1>4 DEF Built
<1> QED
  BY <1>3, <1>4, <1>6, <1>7, <1>8 DEF Built

\* An item whose servers have been started gets them, and its own filters.
LEMMA AddedItem ==
  ASSUME NEW items \in Seq(Items), NEW n \in 1 .. Len(items), NEW r,
         Built(r, n - 1, items), NEW server \in Servers,
         server.ip = items[n].input.ip, server.port = items[n].input.port,
         NEW statics, statics = AddFiltersBack(r.statics, ServersFilters(items[n].input)),
         NEW r1 \in Routers, r1.statics = statics,
         r1.servers = Append(r.servers, server),
         r1.filters = Append(r.filters, items[n].filters)
  PROVE  Built(r1, n, items)
<1> DEFINE i == items[n].input
           fs == items[n].filters
           r0 == [r EXCEPT !.statics = statics]
           m == Len(r.servers)
<1>1. i \in Inputs /\ fs \in Seq(SUBSET AllFilter)
  <2>1. items[n] \in Items
    OBVIOUS
  <2> QED
    BY <2>1 DEF Items
<1>2. /\ r \in Routers /\ r.statics \in Seq(Statics)
      /\ r.servers \in Seq(Servers) /\ m \in Nat
      /\ r.filters \in Seq(Seq(SUBSET AllFilter)) /\ Len(r.filters) = m
  BY DEF Built, Routers
<1>3. /\ statics \in Seq(Statics) /\ r1.statics = statics
      /\ EntryOf(i.ip, i.port, "tcp", "out") \in Range(statics)
  BY <1>1, <1>2, StoredFilters
<1>4. /\ Built(r0, n, items) /\ r0.statics = statics
      /\ r0.servers = r.servers /\ r0.filters = r.filters
  <2>1. r0 = [r EXCEPT !.statics = AddFiltersBack(@, ServersFilters(items[n].input))]
    OBVIOUS
  <2>2. r0.statics = statics
    BY <1>2 DEF Routers
  <2> QED
    BY <2>1, <2>2, SkippedItem
<1> HIDE DEF r0
<1>5. /\ r1.servers \in Seq(Servers) /\ Len(r1.servers) = m + 1
      /\ r1.servers[m + 1] = server
      /\ \A j \in 1 .. m : r1.servers[j] = r.servers[j]
  BY <1>2
<1>6. /\ r1.filters \in Seq(Seq(SUBSET AllFilter)) /\ Len(r1.filters) = m + 1
      /\ r1.filters[m + 1] = fs
      /\ \A j \in 1 .. m : r1.filters[j] = r.filters[j]
  BY <1>1, <1>2
<1>7. r1 \in Routers
  OBVIOUS
<1>8. \A j \in 1 .. m + 1 : j = m + 1 \/ j \in 1 .. m
  BY <1>2
<1> HIDE DEF m
<1>9. FilteredFor(r1, n, items)
  BY <1>3, <1>4, <1>5, <1>8 DEF Built, FilteredFor, m
<1>10. \E rows \in [1 .. m + 1 -> 1 .. n] : ServersOf(r1, rows, items)
  <2>1. PICK rows \in [1 .. m -> 1 .. n - 1] : ServersOf(r, rows, items)
    BY DEF Built, m
  <2> DEFINE more == [j \in 1 .. m + 1 |-> IF j = m + 1 THEN n ELSE rows[j]]
  <2>2. more \in [1 .. m + 1 -> 1 .. n]
    BY <1>8, <2>1
  <2>3. /\ more[m + 1] = n
        /\ \A j \in 1 .. m : more[j] = rows[j] /\ more[j] \in 1 .. n - 1
    BY <1>2, <2>1
  <2> HIDE DEF more
  <2>4. ASSUME NEW j \in 1 .. m + 1, NEW k \in 1 .. m + 1, j < k
        PROVE  more[j] < more[k]
    <3>1. j \in 1 .. m
      BY <1>2, <2>4
    <3>2. CASE k = m + 1
      BY <2>3, <3>1, <3>2
    <3>3. CASE k \in 1 .. m
      BY <2>1, <2>3, <2>4, <3>1, <3>3 DEF ServersOf, m
    <3> QED
      BY <1>8, <3>2, <3>3
  <2>5. ASSUME NEW j \in 1 .. m + 1
        PROVE  /\ r1.servers[j].ip = items[more[j]].input.ip
               /\ r1.servers[j].port = items[more[j]].input.port
               /\ r1.filters[j] = items[more[j]].filters
    <3>1. CASE j = m + 1
      BY <1>5, <1>6, <2>3, <3>1
    <3>2. CASE j \in 1 .. m
      BY <1>5, <1>6, <2>1, <2>3, <3>2 DEF ServersOf, m
    <3> QED
      BY <1>8, <3>1, <3>2
  <2>6. ServersOf(r1, more, items)
    BY <1>5, <2>4, <2>5 DEF ServersOf
  <2> QED
    BY <2>2, <2>6
<1> QED
  BY <1>5, <1>6, <1>7, <1>9, <1>10 DEF Built
-----------------------------------------------------------------------------
\* The last element of a sequence is given another value.
LEMMA AppendExcept ==
  ASSUME NEW S, NEW s \in Seq(S), NEW x \in S, NEW y \in S, NEW m,
         m = Len(s) + 1
  PROVE  [Append(s, x) EXCEPT ![m] = y] = Append(s, y)
<1> DEFINE a == Append(s, x)
           b == Append(s, y)
<1>1. /\ b[m] = y /\ m \in 1 .. m
      /\ \A j \in 1 .. m : j # m => a[j] = b[j]
  OBVIOUS
<1>2. a \in Seq(S) /\ b \in Seq(S) /\ Len(a) = m /\ Len(b) = m
  OBVIOUS
<1> HIDE DEF a, b
<1>3. a \in [1 .. m -> S] /\ b \in [1 .. m -> S]
  BY <1>2
<1> QED
  BY <1>1, <1>3 DEF a, b

\* The server that AddSocks5Proxy appends.
ServerOf(i, n) == [ip |-> i.ip, port |-> i.port,
                   tcp |-> IF i.tcp THEN TcpPorts[n] ELSE Unset,
                   udp |-> IF i.udp THEN UdpPorts[n] ELSE Unset]

LEMMA ServerFacts ==
  ASSUME NEW i \in Inputs, NEW n \in Nat
  PROVE  ServerOf(i, n) \in Servers /\ ServerOf(i, n).ip = i.ip /\ ServerOf(i, n).port = i.port
BY DEF ServerOf, Servers

\* r1 is r with these static filters, one server more and no filters for it.
Added(r1, r, u, server) == /\ r1 \in Routers /\ r1.statics = u
                           /\ r1.filters = Append(r.filters, << >>)
                           /\ r1.servers = Append(r.servers, server)

\* What add_socks5_proxy does if the servers start.
LEMMA AddProxyFacts ==
  ASSUME NEW r \in Routers, NEW i \in Inputs, i.ip \notin Unresolvable,
         NEW r1, NEW u, NEW n,
         r1 = AddSocks5Proxy(r, i, TRUE), u = AddFiltersBack(r.statics, ServersFilters(i)),
         n = Len(r.servers) + 1
  PROVE  Added(r1, r, u, ServerOf(i, n))
<1> DEFINE server == ServerOf(i, n)
           r0 == [r EXCEPT !.statics = u]
           r2 == [r0 EXCEPT !.servers = Append(@, server), !.filters = Append(@, << >>)]
<1>1. r1 = r2
  BY DEF AddSocks5Proxy, ServerOf
<1>2. /\ r.statics \in Seq(Statics) /\ r.servers \in Seq(Servers)
      /\ r.filters \in Seq(Seq(SUBSET AllFilter)) /\ n \in Nat
  BY DEF Routers
<1>3. u \in Seq(Statics)
  BY <1>2, StoredFilters
<1>4. server \in Servers
  BY <1>2, ServerFacts
<1> HIDE DEF server
<1>5. /\ r0 \in Routers /\ r0.statics = u /\ r0.servers = r.servers
      /\ r0.filters = r.filters
  BY <1>3 DEF Routers
<1> HIDE DEF r0
<1>6. /\ Append(r0.servers, server) \in Seq(Servers)
      /\ Append(r0.filters, << >>) \in Seq(Seq(SUBSET AllFilter))
  BY <1>2, <1>4, <1>5
<1>7. /\ r2 \in Routers /\ r2.statics = u /\ r2.servers = Append(r.servers, server)
      /\ r2.filters = Append(r.filters, << >>)
  BY <1>5, <1>6 DEF Routers
<1> HIDE DEF r2
<1> QED
  BY <1>1, <1>7 DEF server, Added

\* add_filter_to_proxy, for the proxy just made.
LEMMA AddFiltersFacts ==
  ASSUME NEW r \in Routers, NEW id \in Nat \ {0}, Len(r.servers) = id,
         NEW filters \in Seq(Seq(SUBSET AllFilter)), Len(filters) = id - 1,
         r.filters = Append(filters, << >>), NEW fs \in Seq(SUBSET AllFilter)
  PROVE  LET r1 == AddFilters(r, id, fs)
         IN  /\ r1 \in Routers /\ r1.statics = r.statics
             /\ r1.servers = r.servers /\ r1.filters = Append(filters, fs)
<1> DEFINE x == [r.filters EXCEPT ![id] = r.filters[id] \o fs]
<1>1. AddFilters(r, id, fs) = [r EXCEPT !.filters = x]
  <2>1. ~(id > Len(r.servers))
    OBVIOUS
  <2> QED
    BY <2>1 DEF AddFilters
<1>2. r.filters[id] = << >> /\ << >> \in Seq(SUBSET AllFilter)
  OBVIOUS
<1>3. r.filters[id] \o fs = fs
  BY <1>2, ConcatEmptySeq
<1>4. x = Append(filters, fs)
  <2>1. id = Len(filters) + 1
    OBVIOUS
  <2>2. [Append(filters, << >>) EXCEPT ![id] = fs] = Append(filters, fs)
    <3> DEFINE Q == Seq(SUBSET AllFilter)
               none == << >>
    <3>1. filters \in Seq(Q) /\ none \in Q /\ fs \in Q
      BY <1>2
    <3> HIDE DEF Q, none
    <3>2. [Append(filters, none) EXCEPT ![id] = fs] = Append(filters, fs)
      BY <2>1, <3>1, AppendExcept
    <3> QED
      BY <3>2 DEF none
  <2>3. x = [r.filters EXCEPT ![id] = fs]
    BY <1>3
  <2> QED
    BY <2>2, <2>3
<1>5. Append(filters, fs) \in Seq(Seq(SUBSET AllFilter))
  OBVIOUS
<1> HIDE DEF x
<1> QED
  BY <1>1, <1>4, <1>5 DEF Routers

\* One item of processProxyItems.
LEMMA RegisterBuilt ==
  ASSUME NEW items \in Seq(Items), NEW n \in 1 .. Len(items), NEW r,
         Built(r, n - 1, items), NEW ok
  PROVE  Built(Register(r, n, items[n], ok), n, items)
<1> DEFINE i == items[n].input
           fs == items[n].filters
           m == Len(r.servers)
           u == AddFiltersBack(r.statics, ServersFilters(i))
           r1 == AddSocks5Proxy(r, i, ok)
           server == ServerOf(i, m + 1)
<1>1. i \in Inputs /\ fs \in Seq(SUBSET AllFilter)
  <2>1. items[n] \in Items
    OBVIOUS
  <2> QED
    BY <2>1 DEF Items
<1>2. /\ r \in Routers /\ r.servers \in Seq(Servers) /\ m \in Nat
      /\ r.filters \in Seq(Seq(SUBSET AllFilter)) /\ Len(r.filters) = m
  BY DEF Built, Routers
<1>3. CASE r1 = r \/ r1 = [r EXCEPT !.statics = u]
  <2>1. r1.servers = r.servers /\ Built(r1, n, items)
    BY <1>3, SkippedItem
  <2>2. Register(r, n, items[n], ok) = r1
    <3> HIDE DEF r1
    <3> QED
      BY <2>1 DEF Register, r1
  <2> QED
    BY <2>1, <2>2
<1>4. CASE i.ip \notin Unresolvable /\ ok
  <2>1. server \in Servers /\ server.ip = i.ip /\ server.port = i.port
    <3>1. m + 1 \in Nat
      BY <1>2
    <3> HIDE DEF m, i
    <3> QED
      BY <1>1, <3>1, ServerFacts
  <2>2. /\ r1 \in Routers /\ r1.statics = u /\ r1.servers = Append(r.servers, server)
        /\ r1.filters = Append(r.filters, << >>)
    <3>1. r1 = AddSocks5Proxy(r, i, TRUE)
      BY <1>4 DEF AddSocks5Proxy
    <3> HIDE DEF i, r1
    <3>2. Added(r1, r, u, server)
      BY <1>1, <1>2, <1>4, <3>1, AddProxyFacts
    <3> HIDE DEF server, u
    <3> QED
      BY <3>2 DEF Added
  <2> HIDE DEF server, r1
  <2>3. Len(r1.servers) = m + 1 /\ m + 1 \in Nat \ {0} /\ m + 1 # m
    BY <1>2, <2>1, <2>2
  <2> DEFINE r2 == AddFilters(r1, m + 1, fs)
  <2>4. /\ r2 \in Routers /\ r2.statics = r1.statics
        /\ r2.servers = r1.servers /\ r2.filters = Append(r.filters, fs)
    <3>1. Len(r.filters) = (m + 1) - 1
      BY <1>2
    <3> QED
      BY <1>1, <1>2, <2>2, <2>3, <3>1, AddFiltersFacts
  <2>5. Register(r, n, items[n], ok) = r2
    BY <2>3 DEF Register, r1
  <2> HIDE DEF r2
  <2>6. Built(r2, n, items)
    BY <2>1, <2>2, <2>4, AddedItem
  <2> QED
    BY <2>5, <2>6
<1>5. CASE ~(i.ip \notin Unresolvable /\ ok)
  <2>1. r1 = r \/ r1 = [r EXCEPT !.statics = u]
    BY <1>5 DEF AddSocks5Proxy
  <2> QED
    BY <1>3, <2>1
<1> QED
  BY <1>4, <1>5

\* All of them: the loop ends with what was built for the whole list.
LEMMA ProcessBuilt ==
  ASSUME NEW items \in Seq(Items), NEW ok
  PROVE  Built(ProcessProxyItems(items, ok), Len(items), items)
<1> DEFINE N == Len(items)
           Steps(g, n) == /\ g = [row \in 0 .. n |-> g[row]] /\ g[0] = NewRouter
                          /\ \A row \in 1 .. n :
                               g[row] = Register(g[row - 1], row, items[row], ok[row])
           E == {n \in 0 .. N : \E g : Steps(g, n)}
<1>0. N \in Nat
  OBVIOUS
<1>1. 0 \in E
  <2> DEFINE g == [row \in 0 .. 0 |-> NewRouter]
  <2>1. g = [row \in 0 .. 0 |-> g[row]] /\ g[0] = NewRouter
    OBVIOUS
  <2> HIDE DEF g
  <2>2. Steps(g, 0)
    BY <2>1
  <2> QED
    BY <1>0, <2>2
<1>2. ASSUME NEW n \in 1 .. N, n - 1 \in E
      PROVE  n \in E
  <2>1. PICK g : Steps(g, n - 1)
    BY <1>2
  <2> DEFINE v == Register(g[n - 1], n, items[n], ok[n])
             h == [row \in 0 .. n |-> IF row = n THEN v ELSE g[row]]
  <2>2. h = [row \in 0 .. n |-> h[row]] /\ h[n] = v
        /\ \A row \in 0 .. n - 1 : h[row] = g[row]
    BY <1>0
  <2>3. h[0] = NewRouter
    BY <1>0, <2>1, <2>2
  <2> HIDE DEF h
  <2>4. ASSUME NEW row \in 1 .. n
        PROVE  h[row] = Register(h[row - 1], row, items[row], ok[row])
    <3>1. row - 1 \in 0 .. n - 1 /\ h[row - 1] = g[row - 1]
      BY <2>2
    <3>2. CASE row = n
      BY <2>2, <3>1, <3>2
    <3>3. CASE row # n
      <4>1. row \in 1 .. n - 1 /\ row \in 0 .. n - 1
        BY <3>3
      <4> QED
        BY <2>1, <2>2, <3>1, <4>1
    <3> QED
      BY <3>2, <3>3
  <2>5. Steps(h, n)
    BY <2>2, <2>3, <2>4
  <2>6. n \in 0 .. N
    BY <1>0
  <2> HIDE DEF Steps, N
  <2> QED
    BY <2>5, <2>6
<1>3. 0 .. N \subseteq E
  <2> HIDE DEF E, N
  <2> QED
    BY <1>0, <1>1, <1>2, SetInduction
<1>4. PICK g : Steps(g, N)
  BY <1>0, <1>3
<1> DEFINE Rec(f) == f = [row \in 0 .. N |-> IF row = 0 THEN NewRouter
                       ELSE Register(f[row - 1], row, items[row], ok[row])]
           built == CHOOSE f : Rec(f)
<1>5. Rec(g)
  <2>1. \A row \in 0 .. N : row = 0 \/ row \in 1 .. N
    BY <1>0
  <2> QED
    BY <1>4, <2>1
<1>6. ProcessProxyItems(items, ok) = built[N]
  BY DEF ProcessProxyItems
<1>7. Rec(built)
  BY <1>5
<1> HIDE DEF built
<1>8. /\ built[0] = NewRouter
      /\ \A row \in 1 .. N :
           built[row] = Register(built[row - 1], row, items[row], ok[row])
  BY <1>0, <1>7
<1> DEFINE G == {n \in 0 .. N : Built(built[n], n, items)}
<1>9. 0 \in G
  <2>1. Built(NewRouter, 0, items)
    <3> DEFINE f == [NewFilter EXCEPT !.protocol = "icmp"]
    <3>1. /\ NewRouter.statics = Append(<< >>, Icmp) /\ NewRouter.servers = << >>
          /\ NewRouter.filters = << >>
      BY DEF NewRouter, AddFilterBack, Icmp
    <3>2. /\ NewRouter.statics \in Seq(Statics) /\ Range(NewRouter.statics) = {Icmp}
      <4>1. Icmp \in Statics
        BY DEF Statics
      <4>2. /\ NewRouter.statics \in Seq(Statics)
            /\ DOMAIN NewRouter.statics = 1 .. 1 /\ NewRouter.statics[1] = Icmp
        BY <3>1, <4>1
      <4> QED
        BY <4>2 DEF Range
    <3>3. NewRouter \in Routers
      BY <3>1, <3>2 DEF Routers, NewRouter
    <3>4. FilteredFor(NewRouter, 0, items)
      BY <3>1, <3>2 DEF FilteredFor
    <3>5. [j \in {} |-> 0] \in [1 .. 0 -> 1 .. 0]
      OBVIOUS
    <3>6. ServersOf(NewRouter, [j \in {} |-> 0], items)
      BY <3>1 DEF ServersOf
    <3> QED
      BY <3>1, <3>3, <3>4, <3>5, <3>6 DEF Built
  <2> QED
    BY <1>0, <1>8, <2>1
<1>10. ASSUME NEW n \in 1 .. N, n - 1 \in G PROVE n \in G
  <2>1. Built(built[n - 1], n - 1, items)
    BY <1>10
  <2>2. Built(Register(built[n - 1], n, items[n], ok[n]), n, items)
    BY <2>1, RegisterBuilt
  <2>3. n \in 0 .. N /\ built[n] = Register(built[n - 1], n, items[n], ok[n])
    BY <1>0, <1>8
  <2> QED
    BY <2>2, <2>3
<1>11. 0 .. N \subseteq G
  <2> HIDE DEF G, N
  <2> QED
    BY <1>0, <1>9, <1>10, SetInduction
<1> QED
  BY <1>0, <1>6, <1>11
-----------------------------------------------------------------------------
\* The router's configuration: it is what processProxyItems made of the list
\* that is shown, and every server has its place in the order.
Settings ==
    /\ list \in Seq(Items)
    /\ started =>
         /\ shown \in Seq(Items) /\ Built(router, Len(shown), shown)
         /\ order \in Seq(1 .. Len(router.servers))
         /\ \A i \in 1 .. Len(router.servers) : \E k \in DOMAIN order : order[k] = i
    /\ ~started => router = NoRouter /\ shown = << >> /\ order = << >>

\* At the start no router is built.
LEMMA InitSettings == ASSUME Init PROVE Settings
BY DEF Init, UiInit, Settings

\* Edits of the list leave the router alone.
LEMMA EditSettings == ASSUME Settings, EditList PROVE Settings'
<1>1. UNCHANGED <<started, router, shown, order>>
  BY DEF EditList, Edit, AddProxyItem, EditProxy, EditFilters, DeleteItem, EditsList
<1>2. list' \in Seq(Items)
  <2>0. list \in Seq(Items)
    BY DEF Settings
  <2>1. CASE AddProxyItem
    <3>1. PICK i \in Inputs :
            list' = Append(list, [input |-> i, filters |-> <<AllFilter>>])
      BY <2>1 DEF AddProxyItem
    <3>2. [input |-> i, filters |-> <<AllFilter>>] \in Items
      BY DEF Items
    <3> QED
      BY <2>0, <3>1, <3>2
  <2>2. CASE EditProxy
    <3>1. PICK row \in DOMAIN list, i \in Inputs : list' = [list EXCEPT ![row].input = i]
      BY <2>2 DEF EditProxy
    <3>2. list[row] \in Items
      BY <2>0
    <3>3. [list[row] EXCEPT !.input = i] \in Items
      BY <3>2 DEF Items
    <3> QED
      BY <2>0, <3>1, <3>3
  <2>3. CASE EditFilters
    <3>1. PICK row \in DOMAIN list, f \in Filters :
            list' = [list EXCEPT ![row].filters = <<f>>]
      BY <2>3 DEF EditFilters
    <3>2. f \in SUBSET AllFilter
      BY ItemsAssumption DEF AllFilter
    <3>3. <<f>> \in Seq(SUBSET AllFilter)
      BY <3>2
    <3>4. list[row] \in Items
      BY <2>0
    <3>5. [list[row] EXCEPT !.filters = <<f>>] \in Items
      BY <3>3, <3>4 DEF Items
    <3> QED
      BY <2>0, <3>1, <3>5
  <2>4. CASE DeleteItem
    <3>1. PICK row \in DOMAIN list : list' = RemoveAt(list, row)
      BY <2>4 DEF DeleteItem
    <3>2. /\ SubSeq(list, 1, row - 1) \in Seq(Items)
          /\ SubSeq(list, row + 1, Len(list)) \in Seq(Items)
      BY <2>0
    <3> QED
      BY <3>1, <3>2 DEF RemoveAt
  <2> QED
    BY <2>1, <2>2, <2>3, <2>4 DEF EditList, Edit
<1> QED
  BY <1>1, <1>2 DEF Settings

\* The servers are traversed in some order, none is left out.
LEMMA OrderFacts ==
  ASSUME NEW n \in Nat, NEW o \in SetToSeqs(1 .. n)
  PROVE  o \in Seq(1 .. n) /\ \A i \in 1 .. n : \E k \in DOMAIN o : o[k] = i
<1>1. IsFiniteSet(1 .. n) /\ Cardinality(1 .. n) = n
  BY FS_Interval
<1>2. o \in [1 .. n -> 1 .. n] /\ \A i, j \in 1 .. n : i # j => o[i] # o[j]
  BY <1>1 DEF SetToSeqs
<1>3. o \in Injection(1 .. n, 1 .. n)
  BY <1>2 DEF Injection, IsInjective
<1>4. o \in Surjection(1 .. n, 1 .. n)
  BY <1>1, <1>3, FS_Injection
<1> QED
  BY <1>2, <1>4 DEF Surjection

\* The Start button: what processProxyItems builds is Built.
LEMMA StartSettings == ASSUME Settings, Start PROVE Settings'
<1>1. /\ started' = TRUE /\ shown' = list /\ list' = list
      /\ \E ok \in [DOMAIN list -> BOOLEAN] : router' = ProcessProxyItems(list, ok)
  BY DEF Start, StartButton
<1>2. Built(router', Len(list), list)
  BY <1>1, ProcessBuilt DEF Settings
<1>3. /\ order' \in Seq(1 .. Len(router'.servers))
      /\ \A i \in 1 .. Len(router'.servers) : \E k \in DOMAIN order' : order'[k] = i
  <2>1. router'.servers \in Seq(Servers)
    BY <1>2 DEF Built, Routers
  <2>2. /\ Len(router'.servers) \in Nat
        /\ order' \in SetToSeqs(1 .. Len(router'.servers))
    BY <2>1 DEF Start
  <2> QED
    BY <2>2, OrderFacts
<1> QED
  BY <1>1, <1>2, <1>3 DEF Settings

\* Only the two buttons change the configuration.
LEMMA NextSettings == ASSUME Settings, [Next]_vars PROVE Settings'
<1>1. CASE UNCHANGED <<uiVars, order>>
  BY <1>1 DEF uiVars, Settings
<1>2. CASE Stop
  BY <1>2 DEF Stop, StopButton, Settings
<1>3. CASE EditList \/ Start
  BY <1>3, EditSettings, StartSettings
<1>4. ASSUME NEW s \in Sessions,
             \/ \E x \in Processes : Open(s, x)
             \/ Repeat(s) \/ GiveUp(s) \/ Dial(s)
             \/ \E flag \in {"data", "fin"} : ClientSends(s, flag)
             \/ \E flag \in {"synack", "data", "fin"} : ServedSends(s, flag)
      PROVE  UNCHANGED <<uiVars, order>>
  <2>1. \A r, p, sys : Commit(r, p, sys) => UNCHANGED <<uiVars, order>>
    BY DEF Commit
  <2>2. ASSUME NEW x \in Processes, Open(s, x) PROVE UNCHANGED <<uiVars, order>>
    BY <2>1, <2>2 DEF Open
  <2>3. \A r, p, sys : Passes(r, p, sys) => UNCHANGED <<uiVars, order>>
    BY <2>1 DEF Passes
  <2>4. ASSUME NEW flag, ClientSends(s, flag) PROVE UNCHANGED <<uiVars, order>>
    BY <2>3, <2>4 DEF ClientSends
  <2>5. ASSUME NEW flag, ServedSends(s, flag) PROVE UNCHANGED <<uiVars, order>>
    BY <2>3, <2>5 DEF ServedSends
  <2>6. CASE Repeat(s)
    BY <2>3, <2>6 DEF Repeat
  <2>7. CASE GiveUp(s)
    BY <2>7 DEF GiveUp
  <2>8. CASE Dial(s)
    BY <2>3, <2>8 DEF Dial
  <2> QED
    BY <1>4, <2>2, <2>4, <2>5, <2>6, <2>7, <2>8
<1>5. CASE Accept \/ Tick \/ CleanupThread \/ UNCHANGED vars
  BY <1>1, <1>5 DEF Accept, Tick, CleanupThread, vars
<1> QED
  BY <1>1, <1>2, <1>3, <1>4, <1>5 DEF Next

\* While the router is started its configuration is what processProxyItems has
\* built from the list that is shown, and every server is traversed.
THEOREM RouterSettings == Spec => []Settings
<1> QED
  BY InitSettings, NextSettings, PTL DEF Spec

\* Every server has the endpoint and the filters of its own row of the list, in
\* the rows' order, for any list and whichever rows fail (processProxyItems).
THEOREM RouterOwnFilters == Spec => []OwnFilters
<1>1. ASSUME Settings PROVE OwnFilters
  <2>1. CASE started
    <3>1. PICK rows \in [1 .. Len(router.servers) -> 1 .. Len(shown)] :
            ServersOf(router, rows, shown)
      BY <1>1, <2>1 DEF Settings, Built
    <3>2. DOMAIN router.servers = 1 .. Len(router.servers) /\ DOMAIN shown = 1 .. Len(shown)
      BY <1>1, <2>1 DEF Settings, Built, Routers
    <3> QED
      BY <3>1, <3>2 DEF ServersOf, OwnFilters
  <2>2. CASE ~started
    <3>1. router.servers = << >> /\ shown = << >>
      BY <1>1, <2>2 DEF Settings, NoRouter
    <3>2. << >> \in [DOMAIN router.servers -> DOMAIN shown] /\ DOMAIN << >> = {}
      BY <3>1
    <3> QED
      BY <3>2 DEF OwnFilters
  <2> QED
    BY <2>1, <2>2
<1> QED
  BY <1>1, RouterSettings, PTL
-----------------------------------------------------------------------------
\* What is sent to a SOCKS server of the router passes the driver, what is sent
\* to no endpoint of the list is redirected to the callback.
LEMMA EndpointFacts ==
  ASSUME Settings, started, NEW p, p.protocol = "tcp"
  PROVE  /\ \A i \in DOMAIN router.servers :
              <<p.dst, p.dport>> = <<router.servers[i].ip, router.servers[i].port>>
                => Verdict(router.statics, "out", p) = "pass"
         /\ <<p.dst, p.dport>> \notin Endpoints
                => Verdict(router.statics, "out", p) = "redirect"
<1>1. /\ router \in Routers /\ router.statics \in Seq(Statics)
      /\ FilteredFor(router, Len(shown), shown) /\ shown \in Seq(Items)
      /\ DOMAIN router.servers = 1 .. Len(router.servers)
      /\ DOMAIN shown = 1 .. Len(shown)
  BY DEF Settings, Built, Routers
<1>2. Verdict(router.statics, "out", p) =
        IF \E e \in Range(router.statics) : Fits(e, "out", p) THEN "pass" ELSE "redirect"
  BY <1>1, VerdictFacts
<1>3. ASSUME NEW i \in DOMAIN router.servers,
             <<p.dst, p.dport>> = <<router.servers[i].ip, router.servers[i].port>>
      PROVE  Verdict(router.statics, "out", p) = "pass"
  <2>1. Fits(EntryOf(router.servers[i].ip, router.servers[i].port, "tcp", "out"), "out", p)
    BY <1>3, EntryFacts
  <2> QED
    BY <1>1, <1>2, <2>1 DEF FilteredFor
<1>4. ASSUME <<p.dst, p.dport>> \notin Endpoints
      PROVE  Verdict(router.statics, "out", p) = "redirect"
  <2> SUFFICES ASSUME NEW e \in Range(router.statics), Fits(e, "out", p) PROVE FALSE
    BY <1>2
  <2>1. PICK row \in 1 .. Len(shown), protocol \in {"tcp", "udp"}, d \in {"in", "out"} :
          e = EntryOf(shown[row].input.ip, shown[row].input.port, protocol, d)
    BY <1>1, IcmpFacts DEF FilteredFor
  <2>2. Unset \notin {shown[row].input.ip, shown[row].input.port}
    <3>1. shown[row] \in Items
      BY <1>1
    <3>2. shown[row].input \in Inputs
      BY <3>1 DEF Items
    <3> QED
      BY <3>2, ItemsAssumption
  <2>3. p.dst = shown[row].input.ip /\ p.dport = shown[row].input.port
    BY <2>1, <2>2, EntryFacts
  <2> QED
    BY <1>1, <1>4, <2>3 DEF Endpoints
<1> QED
  BY <1>3, <1>4

\* The entries of the table have their fields.
Entries == \A k \in DOMAIN table :
    DOMAIN table[k] = {"port", "age"} /\ table[k].age \in 0 .. Expired

\* An entry of the table keeps its port, or is new.
LEMMA TableFacts ==
  ASSUME Entries, NEW p, NEW sys, NEW r \in Outcomes(p, sys), NEW k \in DOMAIN r.table
  PROVE  /\ DOMAIN r.table[k] = {"port", "age"} /\ r.table[k].age \in 0 .. Expired
         /\ \/ k \in DOMAIN table /\ r.table[k].port = table[k].port
            \/ /\ started /\ Verdict(router.statics, "out", p) = "redirect"
               /\ k[1] = p.dst /\ r.table[k].port = p.dport
<1> DEFINE Good(t) ==
      /\ DOMAIN t[k] = {"port", "age"} /\ t[k].age \in 0 .. Expired
      /\ \/ k \in DOMAIN table /\ t[k].port = table[k].port
         \/ k[1] = p.dst /\ t[k].port = p.dport
<1>1. k \in DOMAIN table => Good(table)
  BY DEF Entries
<1>2. ASSUME NEW j, j \in DOMAIN table, k \in DOMAIN Touch(table, j, p.flag)
      PROVE  Good(Touch(table, j, p.flag))
  <2>1. k \in DOMAIN table /\ DOMAIN table[k] = {"port", "age"}
        /\ table[k].age \in 0 .. Expired /\ 0 \in 0 .. Expired
    BY <1>2 DEF Touch, Drop, Entries, Expired
  <2> DEFINE e == [table[k] EXCEPT !.age = 0]
  <2>2. Touch(table, j, p.flag)[k] \in {table[k], e}
    BY <1>2, <2>1 DEF Touch, Drop
  <2>3. DOMAIN e = {"port", "age"} /\ e.age = 0 /\ e.port = table[k].port
    BY <2>1
  <2> HIDE DEF e
  <2> QED
    BY <2>1, <2>2, <2>3
<1>3. LET new == [port |-> p.dport, age |-> 0]
      IN  k \in DOMAIN Put(table, <<p.dst, p.sport>>, new)
            => Good(Put(table, <<p.dst, p.sport>>, new))
  <2> DEFINE new == [port |-> p.dport, age |-> 0]
             t == Put(table, <<p.dst, p.sport>>, new)
  <2>0. 0 \in 0 .. Expired
    BY DEF Expired
  <2>1. DOMAIN new = {"port", "age"} /\ new.age = 0 /\ new.port = p.dport
    OBVIOUS
  <2> SUFFICES ASSUME k \in DOMAIN t PROVE Good(t)
    OBVIOUS
  <2> HIDE DEF new
  <2>2. CASE k = <<p.dst, p.sport>>
    BY <2>0, <2>1, <2>2 DEF Put
  <2>3. CASE k # <<p.dst, p.sport>>
    <3>1. k \in DOMAIN table /\ t[k] = table[k]
      BY <2>3 DEF Put
    <3> QED
      BY <1>1, <3>1
  <2> QED
    BY <2>2, <2>3
<1> HIDE DEF Good
<1>4. ASSUME NEW port, k \in DOMAIN ClientToServer(table, p, port).table
      PROVE  Good(ClientToServer(table, p, port).table)
  BY <1>1, <1>2, <1>3, <1>4 DEF ClientToServer, Result
<1>5. ASSUME k \in DOMAIN ServerToClient(table, p).table
      PROVE  Good(ServerToClient(table, p).table)
  BY <1>1, <1>2, <1>5 DEF ServerToClient, Result
<1>6. PICK ok \in BOOLEAN : r = Outgoing(p, sys, ok)
  BY DEF Outcomes
<1>7. CASE ~(started /\ Verdict(router.statics, "out", p) = "redirect")
  <2>1. r.table = table
    BY <1>6, <1>7 DEF Outgoing
  <2> QED
    BY <2>1 DEF Entries
<1>8. CASE started /\ Verdict(router.statics, "out", p) = "redirect"
  <2>1. \/ r.table = table
        \/ r.table = ServerToClient(table, p).table
        \/ \E port : r.table = ClientToServer(table, p, port).table
    BY <1>6, <1>8 DEF Outgoing, Callback, Result
  <2>2. Good(r.table)
    BY <1>1, <1>4, <1>5, <2>1
  <2> QED
    BY <1>8, <2>2 DEF Good
<1> QED
  BY <1>7, <1>8

\* The table is empty when there is no router, and has no entry for what is
\* sent to a SOCKS server: the driver passes that before the callback is asked.
TableInv == Entries /\ NoLoop /\ (~started => DOMAIN table = {})

\* No packet makes an entry for a SOCKS server.
LEMMA PacketTableInv ==
  ASSUME Settings, TableInv, NEW p, p.protocol = "tcp", NEW sys,
         NEW r \in Outcomes(p, sys), table' = r.table, UNCHANGED <<started, router>>
  PROVE  TableInv'
<1>1. Entries'
  BY TableFacts DEF TableInv, Entries
<1>2. NoLoop'
  <2> SUFFICES ASSUME NEW i \in DOMAIN router.servers, NEW k \in DOMAIN r.table
               PROVE  <<k[1], r.table[k].port>> # <<router.servers[i].ip,
                                                    router.servers[i].port>>
    BY DEF NoLoop
  <2>1. CASE k \in DOMAIN table /\ r.table[k].port = table[k].port
    BY <2>1 DEF TableInv, NoLoop
  <2>2. CASE /\ started /\ Verdict(router.statics, "out", p) = "redirect"
             /\ k[1] = p.dst /\ r.table[k].port = p.dport
    BY <2>2, EndpointFacts
  <2> QED
    BY <2>1, <2>2, TableFacts DEF TableInv
<1>3. ~started => DOMAIN r.table = {}
  <2> SUFFICES ASSUME ~started PROVE \A k \in DOMAIN r.table : FALSE
    OBVIOUS
  <2> QED
    BY TableFacts DEF TableInv
<1> QED
  BY <1>1, <1>2, <1>3 DEF TableInv

\* Each step leaves the redirection table without such an entry.
LEMMA NextTableInv ==
  ASSUME Settings, TableInv, [Next]_vars PROVE TableInv'
<1>1. CASE UNCHANGED <<table, started, router>>
  BY <1>1 DEF TableInv, Entries, NoLoop
<1>2. ASSUME NEW s \in Sessions, NEW x \in Processes, Open(s, x) PROVE TableInv'
  <2> DEFINE sys == [k \in DOMAIN SystemTable \cup {ClientKey(s)} |->
                      IF k = ClientKey(s) THEN x ELSE SystemTable[k]]
  <2>1. /\ \E r \in Outcomes(FromClient(s, "syn"), sys) : table' = r.table
        /\ UNCHANGED <<started, router>>
    BY <1>2 DEF Open, Commit, uiVars
  <2> HIDE DEF sys
  <2>2. FromClient(s, "syn").protocol = "tcp"
    BY DEF FromClient, Packet
  <2> QED
    BY <2>1, <2>2, PacketTableInv
<1>3. ASSUME NEW p, p.protocol = "tcp", NEW sys, NEW r \in Outcomes(p, sys),
             Passes(r, p, sys)
      PROVE  TableInv'
  <2>1. table' = r.table /\ UNCHANGED <<started, router>>
    BY <1>3 DEF Passes, Commit, uiVars
  <2> QED
    BY <1>3, <2>1, PacketTableInv
<1>4. \A a, b, c, d, flag : Packet(a, b, c, d, flag).protocol = "tcp"
  BY DEF Packet
<1>5. ASSUME NEW s \in Sessions,
             \/ Repeat(s) \/ Dial(s)
             \/ \E flag \in {"data", "fin"} : ClientSends(s, flag)
             \/ \E flag \in {"synack", "data", "fin"} : ServedSends(s, flag)
      PROVE  TableInv'
  <2>1. CASE Repeat(s)
    BY <1>3, <1>4, <2>1 DEF Repeat, FromClient
  <2>2. CASE Dial(s)
    BY <1>3, <1>4, <2>2 DEF Dial
  <2>3. CASE \E flag \in {"data", "fin"} : ClientSends(s, flag)
    BY <1>3, <1>4, <2>3 DEF ClientSends, FromClient
  <2>4. CASE \E flag \in {"synack", "data", "fin"} : ServedSends(s, flag)
    BY <1>3, <1>4, <2>4 DEF ServedSends, FromServed
  <2> QED
    BY <1>5, <2>1, <2>2, <2>3, <2>4
<1>6. CASE Tick
  <2>1. DOMAIN table' = DOMAIN table /\ UNCHANGED <<started, router>>
    BY <1>6 DEF Tick, Age, uiVars
  <2>2. ASSUME NEW k \in DOMAIN table
        PROVE  /\ DOMAIN table'[k] = {"port", "age"} /\ table'[k].age \in 0 .. Expired
               /\ table'[k].port = table[k].port
    <3> DEFINE a == table[k].age
               b == IF a < Expired THEN a + 1 ELSE a
               e == [table[k] EXCEPT !.age = b]
    <3>1. DOMAIN table[k] = {"port", "age"} /\ a \in 0 .. Expired
      BY DEF TableInv, Entries
    <3>2. b \in 0 .. Expired
      BY <3>1 DEF Expired
    <3>3. table'[k] = e
      BY <1>6 DEF Tick, Age
    <3> HIDE DEF b
    <3>4. DOMAIN e = {"port", "age"} /\ e.age = b /\ e.port = table[k].port
      BY <3>1
    <3> HIDE DEF e
    <3> QED
      BY <3>2, <3>3, <3>4
  <2> QED
    BY <2>1, <2>2 DEF TableInv, Entries, NoLoop
<1>7. CASE CleanupThread
  <2>1. UNCHANGED <<started, router>>
    BY <1>7 DEF CleanupThread, uiVars
  <2>2. \A k \in DOMAIN table' : k \in DOMAIN table /\ table'[k] = table[k]
    BY <1>7 DEF CleanupThread, Cleanup
  <2> QED
    BY <2>1, <2>2 DEF TableInv, Entries, NoLoop
<1>8. CASE Stop
  <2>1. DOMAIN table' = {}
    BY <1>8 DEF Stop, EmptyTable
  <2> QED
    BY <2>1 DEF TableInv, Entries, NoLoop
<1>9. CASE Start
  <2>1. ~started /\ table' = table
    BY <1>9 DEF Start, StartButton, netVars
  <2>2. DOMAIN table' = {}
    BY <2>1 DEF TableInv
  <2> QED
    BY <2>2 DEF TableInv, Entries, NoLoop
<1>10. CASE EditList
  BY <1>1, <1>10 DEF EditList, netVars, Edit, AddProxyItem, EditProxy, EditFilters,
                     DeleteItem, EditsList
<1>11. CASE Accept \/ (\E s \in Sessions : GiveUp(s)) \/ UNCHANGED vars
  BY <1>1, <1>11 DEF Accept, GiveUp, vars, netVars, uiVars
<1> QED
  BY <1>2, <1>5, <1>6, <1>7, <1>8, <1>9, <1>10, <1>11 DEF Next

\* The entries of the redirection table are well-formed, none is for a SOCKS
\* server, and the table is empty while the router is stopped.
THEOREM RouterTable == Spec => []TableInv
<1>1. Init => TableInv
  BY DEF Init, UiInit, TableInv, Entries, NoLoop, EmptyTable
<1>2. Settings /\ TableInv /\ [Next]_vars => TableInv'
  BY NextTableInv
<1> QED
  BY <1>1, <1>2, RouterSettings, PTL DEF Spec

\* The local proxy's connection to a SOCKS server is never in the table, whoever
\* the filters list: the static filters of add_socks5_proxy pass it.
THEOREM RouterNoLoop == Spec => []NoLoop
<1>1. TableInv => NoLoop
  BY DEF TableInv
<1> QED
  BY <1>1, RouterTable, PTL
-----------------------------------------------------------------------------
\* The lookup: the process is the one that the table has for the session then,
\* and the table is the old one, or the system's with the default added where
\* the system did not know, or the default alone.
LEMMA LookupFacts ==
  ASSUME NEW cache, NEW k, NEW sys, NEW ok \in BOOLEAN,
         \A j \in DOMAIN cache : cache[j] # NoProcess,
         \A j \in DOMAIN sys : sys[j] # NoProcess
  PROVE  LET l == Resolve("tcp", cache, k, sys, ok, System)
         IN  /\ k \in DOMAIN l.table /\ l.process = l.table[k]
             /\ k \in DOMAIN cache => l.table = cache
             /\ k \notin DOMAIN cache => \A j \in DOMAIN l.table :
                  \/ j = k /\ l.table[j] = System /\ (ok => k \notin DOMAIN sys)
                  \/ j \in DOMAIN sys /\ l.table[j] = sys[j]
<1> DEFINE l == Resolve("tcp", cache, k, sys, ok, System)
           fresh == Actualize(sys, ok)
           more == [j \in DOMAIN fresh \cup {k} |-> IF j = k THEN System ELSE fresh[j]]
<1>1. /\ Find("tcp", cache, k) = IF k \in DOMAIN cache THEN cache[k] ELSE NoProcess
      /\ Find("tcp", fresh, k) = IF k \in DOMAIN fresh THEN fresh[k] ELSE NoProcess
  BY DEF Find, Lookup
<1>2. /\ \A j \in DOMAIN fresh : j \in DOMAIN sys /\ fresh[j] = sys[j]
      /\ ok => fresh = sys
  BY DEF Actualize, EmptyTable
<1> HIDE DEF fresh
<1>3. CASE k \in DOMAIN cache
  <2>1. l.process = cache[k] /\ l.table = cache
    BY <1>1, <1>3 DEF Resolve
  <2> HIDE DEF l
  <2> QED
    BY <1>3, <2>1 DEF l
<1>4. CASE k \notin DOMAIN cache /\ k \in DOMAIN fresh
  <2>1. l.process = fresh[k] /\ l.table = fresh
    BY <1>1, <1>2, <1>4 DEF Resolve, fresh
  <2> HIDE DEF l
  <2> QED
    BY <1>2, <1>4, <2>1 DEF l
<1>5. CASE k \notin DOMAIN cache /\ k \notin DOMAIN fresh
  <2>1. l.process = System /\ l.table = more
    BY <1>1, <1>5 DEF Resolve, fresh
  <2>2. DOMAIN more = DOMAIN fresh \cup {k} /\ more[k] = System
        /\ \A j \in DOMAIN fresh : more[j] = fresh[j]
    BY <1>5
  <2> HIDE DEF l, more
  <2> QED
    BY <1>2, <1>5, <2>1, <2>2 DEF l
<1> QED
  BY <1>3, <1>4, <1>5

\* The callback: which process it takes the packet for, and what it does then.
Looked(p) == started /\ Verdict(router.statics, "out", p) = "redirect"

Named(c) == \A j \in DOMAIN c : c[j] # NoProcess

\* What is known of a session after the lookup: what the table had, or, if the
\* session was not in it, what the system answers now.
LEMMA CopiedFacts ==
  ASSUME NEW p, Looked(p), NEW sys, Named(sys), Named(cached),
         NEW r \in Outcomes(p, sys), failures \in Nat,
         failures' = IF Fails(r, p, sys) THEN failures + 1 ELSE failures
  PROVE  /\ Key(p) \in DOMAIN r.cached
         /\ Copied(r, p) <=> Key(p) \notin DOMAIN cached
         /\ ~Copied(r, p) => r.cached = cached
         /\ Copied(r, p) => \A j \in DOMAIN r.cached :
              \/ /\ j = Key(p) /\ r.cached[j] = System
                 /\ Key(p) \notin DOMAIN sys \/ failures' > 0
              \/ j \in DOMAIN sys /\ r.cached[j] = sys[j]
<1>1. PICK ok \in BOOLEAN : r = Outgoing(p, sys, ok) /\ (~ok => failures' > 0)
  <2>1. PICK ok \in BOOLEAN : r = Outgoing(p, sys, ok)
    BY DEF Outcomes
  <2>2. CASE r = Outgoing(p, sys, TRUE)
    BY <2>2
  <2>3. CASE r # Outgoing(p, sys, TRUE)
    BY <2>1, <2>3 DEF Fails
  <2> QED
    BY <2>2, <2>3
<1> DEFINE l == Resolve("tcp", cached, Key(p), sys, ok, System)
<1>2. r.cached = l.table
  BY <1>1 DEF Outgoing, Callback, Looked
<1>3. /\ Key(p) \in DOMAIN l.table
      /\ Key(p) \in DOMAIN cached => l.table = cached
      /\ Key(p) \notin DOMAIN cached => \A j \in DOMAIN l.table :
           \/ j = Key(p) /\ l.table[j] = System /\ (ok => Key(p) \notin DOMAIN sys)
           \/ j \in DOMAIN sys /\ l.table[j] = sys[j]
  BY LookupFacts DEF Named
<1> HIDE DEF l
<1>4. Copied(r, p) <=> Key(p) \notin DOMAIN cached
  BY <1>2, <1>3 DEF Copied
<1> QED
  BY <1>1, <1>2, <1>3, <1>4

Does(r, c) == r.revert = c.done /\ r.packet = c.packet /\ r.table = c.table

\* The callback translates for the proxy that lists the process, else for the
\* client if the packet comes from a local proxy.
LEMMA CallbackFacts ==
  ASSUME NEW p, Looked(p), NEW sys, Named(sys), Named(cached),
         NEW r \in Outcomes(p, sys), NEW port, port = ProxyPortTcp(r.cached[Key(p)])
  PROVE  /\ port # Unset => Does(r, ClientToServer(table, p, port))
         /\ port = Unset /\ IsTcpProxyPort(p.sport) =>
              Does(r, ServerToClient(table, p))
         /\ port = Unset /\ ~IsTcpProxyPort(p.sport) =>
              r.revert = FALSE /\ r.table = table
<1>1. PICK ok \in BOOLEAN : r = Outgoing(p, sys, ok)
  BY DEF Outcomes
<1> DEFINE l == Resolve("tcp", cached, Key(p), sys, ok, System)
<1>2. l.process = l.table[Key(p)]
  BY LookupFacts DEF Named
<1>3. r = Callback(p, sys, ok)
  BY <1>1 DEF Outgoing, Looked
<1>4. r.cached = l.table
  BY <1>3 DEF Callback
<1>5. port = ProxyPortTcp(l.process)
  <2> HIDE DEF l
  <2> QED
    BY <1>2, <1>4
<1> QED
  BY <1>3, <1>5 DEF Callback, Result, Does

\* Without the callback nothing happens.
LEMMA PassedFacts ==
  ASSUME NEW p, ~Looked(p), NEW sys, NEW r \in Outcomes(p, sys)
  PROVE  /\ r.revert = FALSE /\ r.table = table /\ r.cached = cached
         /\ r.mapper = mapper /\ ~Copied(r, p) /\ ~Fails(r, p, sys)
<1>1. PICK ok \in BOOLEAN : r = Outgoing(p, sys, ok)
  BY DEF Outcomes
<1>2. \A b : Outgoing(p, sys, b) = [revert |-> FALSE, packet |-> p, table |-> table,
                                    cached |-> cached, mapper |-> mapper]
  BY DEF Outgoing, Looked
<1>3. /\ r.revert = FALSE /\ r.table = table /\ r.cached = cached
      /\ r.mapper = mapper
  BY <1>1, <1>2
<1>4. r = Outgoing(p, sys, TRUE)
  BY <1>1, <1>2
<1> QED
  BY <1>3, <1>4 DEF Fails, Copied
-----------------------------------------------------------------------------
\* The connections of the programs.
Conns ==
    /\ failures \in Nat
    /\ \A s \in Sessions :
         /\ conn[s].owner \in Processes \cup {NoProcess}
         /\ conn[s].st # "closed" => conn[s].owner \in Processes
         /\ conn[s].peer = "proxy" => started /\ conn[s].st # "closed"
         /\ conn[s].age \in 0 .. Expired
         /\ owned[s] \subseteq Processes

Assumed == IF failures > 0 THEN {System} ELSE {}

\* What process_lookup has for a program's session is one of its owners, or the
\* process assumed when the system does not answer; other sessions are ours.
Known ==
    /\ \A s \in Sessions : ClientKey(s) \in DOMAIN cached =>
         cached[ClientKey(s)] \in owned[s] \cup Assumed
    /\ \A k \in DOMAIN cached : k \notin {ClientKey(s) : s \in Sessions} =>
         cached[k] \in {Self, System}

\* The sessions of programs, of local proxies and towards SOCKS servers differ.
LEMMA KeyFacts ==
  ASSUME NEW s \in Sessions, NEW t \in Sessions
  PROVE  /\ ClientKey(s) = ClientKey(t) => s = t
         /\ ServedKey(s) # ClientKey(t)
         /\ \A flag : /\ Key(FromClient(s, flag)) = ClientKey(s)
                      /\ Key(FromServed(s, flag)) = ServedKey(s)
         /\ \A ip, port, flag : Key(Packet(Me, DialPort, ip, port, flag)) # ClientKey(t)
<1>1. s = <<s[1], s[2]>> /\ t = <<t[1], t[2]>>
  BY DEF Sessions
<1>2. ClientKey(s) = ClientKey(t) => s[1] = t[1] /\ s[2] = t[2]
  BY DEF ClientKey
<1>3. ServedKey(s) # ClientKey(t)
  BY PortFacts DEF ServedKey, ClientKey
<1>4. \A flag : Key(FromClient(s, flag)) = ClientKey(s)
                /\ Key(FromServed(s, flag)) = ServedKey(s)
  BY DEF Key, FromClient, FromServed, Packet, ClientKey, ServedKey
<1>5. \A ip, port, flag : Key(Packet(Me, DialPort, ip, port, flag)) # ClientKey(t)
  BY PortFacts DEF Key, Packet, ClientKey
<1> QED
  BY <1>1, <1>2, <1>3, <1>4, <1>5

\* No process is unnamed.
LEMMA CachedNamed == ASSUME Conns, Known PROVE Named(cached)
<1> SUFFICES ASSUME NEW k \in DOMAIN cached PROVE cached[k] # NoProcess
  BY DEF Named
<1>1. CASE \E s \in Sessions : k = ClientKey(s)
  BY <1>1, PortsAssumption DEF Conns, Known, Assumed
<1>2. CASE k \notin {ClientKey(s) : s \in Sessions}
  BY <1>2, PortsAssumption DEF Known
<1> QED
  BY <1>1, <1>2

\* The system's table: the clients' sessions have their owners.
LEMMA SystemFacts ==
  ASSUME Conns
  PROVE  /\ \A t \in Sessions :
              /\ ClientKey(t) \in DOMAIN SystemTable <=> conn[t].st # "closed"
              /\ conn[t].st # "closed" => SystemTable[ClientKey(t)] = conn[t].owner
         /\ \A j \in DOMAIN SystemTable :
              j \notin {ClientKey(t) : t \in Sessions} => SystemTable[j] = Self
         /\ \A t \in Sessions :
              served[t].st # "none" => ServedKey(t) \in DOMAIN SystemTable
         /\ Named(SystemTable)
<1> DEFINE live == {t \in Sessions : conn[t].st # "closed"}
           held == {t \in Sessions : served[t].st # "none"}
           owner(k) == conn[CHOOSE s \in live : k = ClientKey(s)].owner
<1>1. /\ DOMAIN SystemTable = {ClientKey(t) : t \in live} \cup {ServedKey(t) : t \in held}
      /\ \A k \in DOMAIN SystemTable :
           SystemTable[k] = IF \E t \in live : k = ClientKey(t) THEN owner(k) ELSE Self
  BY DEF SystemTable
<1>2. ASSUME NEW t \in live PROVE owner(ClientKey(t)) = conn[t].owner
  <2>1. (CHOOSE s \in live : ClientKey(t) = ClientKey(s)) = t
    <3>1. \A s \in live : ClientKey(t) = ClientKey(s) => s = t
      BY KeyFacts
    <3> QED
      BY <3>1
  <2> QED
    BY <2>1
<1> HIDE DEF owner
<1>3. \A t \in Sessions : /\ ClientKey(t) \in DOMAIN SystemTable <=> t \in live
                          /\ t \in live => SystemTable[ClientKey(t)] = conn[t].owner
  <2>1. \A t \in Sessions : ClientKey(t) \in DOMAIN SystemTable <=> t \in live
    BY <1>1, KeyFacts
  <2>2. ASSUME NEW t \in live PROVE SystemTable[ClientKey(t)] = conn[t].owner
    <3>1. ClientKey(t) \in DOMAIN SystemTable
      BY <1>1
    <3> QED
      BY <1>1, <1>2, <3>1
  <2> QED
    BY <2>1, <2>2
<1>4. \A j \in DOMAIN SystemTable :
         j \notin {ClientKey(t) : t \in Sessions} => SystemTable[j] = Self
  BY <1>1
<1>5. \A t \in Sessions : served[t].st # "none" => ServedKey(t) \in DOMAIN SystemTable
  BY <1>1
<1>6. Named(SystemTable)
  <2> SUFFICES ASSUME NEW j \in DOMAIN SystemTable PROVE SystemTable[j] # NoProcess
    BY DEF Named
  <2>1. CASE \E t \in Sessions : j = ClientKey(t)
    BY <1>3, <2>1, PortsAssumption DEF Conns
  <2>2. CASE j \notin {ClientKey(t) : t \in Sessions}
    BY <1>4, <2>2, PortsAssumption
  <2> QED
    BY <2>1, <2>2
<1> QED
  BY <1>3, <1>4, <1>5, <1>6

\* After a packet of a session in use, or of the proxy, process_lookup's table
\* is still known, and the owners of a session in use are as before, or are its
\* owner alone.
LEMMA PassesKnown ==
  ASSUME Conns, Known, NEW p, NEW r \in Outcomes(p, SystemTable),
         Passes(r, p, SystemTable),
         \A t \in Sessions : Key(p) = ClientKey(t) => conn[t].st # "closed"
  PROVE  /\ Known' /\ failures' \in Nat /\ (failures' = 0 => failures = 0)
         /\ \A t \in Sessions : /\ owned'[t] \subseteq Processes
                                /\ owned'[t] \in {owned[t], {conn[t].owner} \ {NoProcess}}
<1>1. /\ cached' = r.cached
      /\ failures' = IF Fails(r, p, SystemTable) THEN failures + 1 ELSE failures
      /\ owned' = IF Copied(r, p) THEN [t \in Sessions |-> {conn[t].owner} \ {NoProcess}]
                                  ELSE owned
  BY DEF Passes, Commit
<1>2. failures \in Nat /\ failures' \in Nat /\ (failures > 0 => failures' > 0)
      /\ (failures' = 0 => failures = 0)
  BY <1>1 DEF Conns
<1>3. \A t \in Sessions : /\ owned'[t] \subseteq Processes
                          /\ owned'[t] \in {owned[t], {conn[t].owner} \ {NoProcess}}
  BY <1>1 DEF Conns
<1>4. CASE ~Copied(r, p)
  <2>1. cached' = cached /\ owned' = owned
    <3>1. CASE Looked(p)
      BY <1>1, <1>2, <1>4, <3>1, CachedNamed, SystemFacts, CopiedFacts
    <3>2. CASE ~Looked(p)
      BY <1>1, <1>4, <3>2, PassedFacts
    <3> QED
      BY <3>1, <3>2
  <2>2. Assumed \subseteq Assumed'
    BY <1>2 DEF Assumed
  <2>3. Known'
    BY <2>1, <2>2 DEF Known, ClientKey
  <2> QED
    BY <1>2, <1>3, <2>3
<1>5. CASE Copied(r, p)
  <2>1. Looked(p)
    BY <1>5, PassedFacts
  <2>2. \A j \in DOMAIN r.cached :
              \/ /\ j = Key(p) /\ r.cached[j] = System
                 /\ Key(p) \notin DOMAIN SystemTable \/ failures' > 0
              \/ j \in DOMAIN SystemTable /\ r.cached[j] = SystemTable[j]
    <3>1. Named(cached) /\ Named(SystemTable)
      BY CachedNamed, SystemFacts
    <3>2. failures' = IF Fails(r, p, SystemTable) THEN failures + 1 ELSE failures
      BY <1>1
    <3>3. failures \in Nat
      BY <1>2
    <3> QED
      BY <1>5, <2>1, <3>1, <3>2, <3>3, CopiedFacts
  <2>3. ASSUME NEW t \in Sessions, ClientKey(t) \in DOMAIN cached'
        PROVE  cached'[ClientKey(t)] \in owned'[t] \cup Assumed'
    <3>1. CASE /\ ClientKey(t) = Key(p) /\ r.cached[ClientKey(t)] = System
               /\ Key(p) \notin DOMAIN SystemTable \/ failures' > 0
      <4>1. failures' > 0
        BY <3>1, SystemFacts
      <4> QED
        BY <1>1, <3>1, <4>1 DEF Assumed
    <3>2. CASE /\ ClientKey(t) \in DOMAIN SystemTable
               /\ r.cached[ClientKey(t)] = SystemTable[ClientKey(t)]
      <4>1. conn[t].st # "closed" /\ r.cached[ClientKey(t)] = conn[t].owner
        BY <3>2, SystemFacts
      <4>2. conn[t].owner \in Processes /\ conn[t].owner # NoProcess
        BY <4>1, PortsAssumption DEF Conns
      <4> QED
        BY <1>1, <1>5, <4>1, <4>2
    <3> QED
      BY <1>1, <2>2, <2>3, <3>1, <3>2
  <2>4. ASSUME NEW k \in DOMAIN cached', k \notin {ClientKey(s) : s \in Sessions}
        PROVE  cached'[k] \in {Self, System}
    BY <1>1, <2>2, <2>4, SystemFacts
  <2>5. Known'
    BY <2>3, <2>4 DEF Known, ClientKey
  <2> QED
    BY <1>2, <1>3, <2>5
<1> QED
  BY <1>4, <1>5
-----------------------------------------------------------------------------
\* The proxy that the callback finds is one that lists the process.
LEMMA ProxyFacts ==
  ASSUME Settings, NEW x
  PROVE  /\ ProxyPortTcp(x) # Unset => \E i \in ServersListing(x) :
                router.servers[i].tcp = ProxyPortTcp(x)
         /\ ServersListing(x) # {} /\ (\A i \in ServersListing(x) :
                                          router.servers[i].tcp # Unset)
              => ProxyPortTcp(x) # Unset
         /\ ServersListing(x) # {} => started
<1> DEFINE hits == {k \in DOMAIN order :
                      \E f \in Range(router.filters[order[k]]) : x \in f}
<1>1. ProxyPortTcp(x) = IF hits = {} THEN Unset
                        ELSE router.servers[order[First(hits)]].tcp
  BY DEF ProxyPortTcp
<1>2. CASE started
  <2>1. /\ order \in Seq(1 .. Len(router.servers))
        /\ \A i \in 1 .. Len(router.servers) : \E k \in DOMAIN order : order[k] = i
        /\ DOMAIN router.servers = 1 .. Len(router.servers)
    BY <1>2 DEF Settings, Built, Routers
  <2>2. \A k \in hits : order[k] \in ServersListing(x)
    BY <2>1 DEF ServersListing
  <2>3. hits # {} => First(hits) \in hits
    <3>1. hits \in SUBSET Nat
      BY <2>1
    <3> QED
      BY <3>1, FirstFacts
  <2>4. ServersListing(x) # {} => hits # {}
    BY <2>1 DEF ServersListing
  <2> HIDE DEF hits
  <2> QED
    BY <1>1, <1>2, <2>2, <2>3, <2>4
<1>3. CASE ~started
  <2>1. router.servers = << >> /\ DOMAIN router.servers = {}
    BY <1>3 DEF Settings, NoRouter
  <2>2. ServersListing(x) = {}
    BY <2>1 DEF ServersListing
  <2>3. ASSUME ProxyPortTcp(x) # Unset PROVE FALSE
    <3>0. order = << >>
      BY <1>3 DEF Settings
    <3>1. hits = {}
      BY <3>0
    <3> QED
      BY <1>1, <2>3, <3>1
  <2> QED
    BY <2>2, <2>3
<1> QED
  BY <1>2, <1>3

\* What a program sends is translated for the proxy, if it is translated.
LEMMA ClientPacket ==
  ASSUME Keys, NEW s \in Sessions, NEW flag, Looked(FromClient(s, flag)),
         NEW sys, Named(sys), Named(cached),
         NEW r \in Outcomes(FromClient(s, flag), sys),
         NEW port, port = ProxyPortTcp(r.cached[ClientKey(s)])
  PROVE  /\ r.revert => port # Unset /\ r.packet = ToServed(s, port, flag)
         /\ port # Unset => (r.revert <=> (flag = "syn" <=> s \notin DOMAIN table))
         /\ ~r.revert => r.table = table
         /\ r.revert => r.table = IF flag = "syn"
                                  THEN Put(table, s, [port |-> PeerPort, age |-> 0])
                                  ELSE Touch(table, s, flag)
<1> DEFINE p == FromClient(s, flag)
           c == ClientToServer(table, p, port)
           u == ServerToClient(table, p)
<1>1. /\ p.src = Me /\ p.sport = s[2] /\ p.dst = s[1] /\ p.dport = PeerPort
      /\ p.flag = flag /\ p = Packet(Me, s[2], s[1], PeerPort, flag)
  BY DEF FromClient, Packet
<1>2. Key(p) = ClientKey(s) /\ s = <<s[1], s[2]>>
  BY KeyFacts DEF Sessions
<1>3. /\ port # Unset => Does(r, c)
      /\ port = Unset /\ IsTcpProxyPort(p.sport) => Does(r, u)
      /\ port = Unset /\ ~IsTcpProxyPort(p.sport) => r.revert = FALSE /\ r.table = table
  <2>1. Looked(p) /\ r \in Outcomes(p, sys)
    OBVIOUS
  <2> HIDE DEF p
  <2>2. port = ProxyPortTcp(r.cached[Key(p)])
    BY <1>2
  <2> QED
    BY <2>1, <2>2, CallbackFacts
<1> DEFINE V == {"tcp", Me, s[1], s[2], PeerPort, port, flag}
           R == [protocol : V, src : V, sport : V, dst : V, dport : V, flag : V]
           q == [p EXCEPT !.src = p.dst, !.dst = p.src, !.dport = port]
           t == ToServed(s, port, flag)
<1>0. p \in R /\ p.protocol = "tcp"
  BY DEF FromClient, Packet
<1> HIDE DEF p
<1>4. q = t
  <2>1. /\ t.protocol = "tcp" /\ t.src = s[1] /\ t.sport = s[2] /\ t.dst = Me
        /\ t.dport = port /\ t.flag = flag /\ t \in R
    BY DEF ToServed, Packet
  <2> HIDE DEF t
  <2>2. /\ q.protocol = "tcp" /\ q.src = s[1] /\ q.sport = s[2] /\ q.dst = Me
        /\ q.dport = port /\ q.flag = flag /\ q \in R
    BY <1>0, <1>1
  <2> HIDE DEF q, V
  <2> QED
    BY <2>1, <2>2
<1> HIDE DEF V
<1>5. u.done = FALSE /\ u.table = table
  BY <1>1 DEF ServerToClient, Result, Keys
<1>6. /\ c.done <=> (flag = "syn" <=> s \notin DOMAIN table)
      /\ c.done => c.packet = ToServed(s, port, flag)
      /\ ~c.done => c.table = table
      /\ c.done => c.table = IF flag = "syn"
                             THEN Put(table, s, [port |-> PeerPort, age |-> 0])
                             ELSE Touch(table, s, flag)
  BY <1>1, <1>2, <1>4 DEF ClientToServer, Result
<1> HIDE DEF c, u
<1> QED
  BY <1>3, <1>5, <1>6 DEF Does
-----------------------------------------------------------------------------
\* A new connection: who owns it, and whom it is taken for.
SystemWith(sys, s, x) ==
    /\ DOMAIN sys = DOMAIN SystemTable \cup {ClientKey(s)} /\ sys[ClientKey(s)] = x
    /\ \A k \in DOMAIN sys : k # ClientKey(s) =>
          k \in DOMAIN SystemTable /\ sys[k] = SystemTable[k]

Asked(s, x, p, sys, r, owners) ==
    /\ r \in Outcomes(p, sys) /\ SystemWith(sys, s, x) /\ Key(p) = ClientKey(s)
    /\ owners = IF Copied(r, p) THEN {x} ELSE owned[s] \cup {x}
    /\ cached' = r.cached
    /\ failures' = IF Fails(r, p, sys) THEN failures + 1 ELSE failures
    /\ owned'[s] = IF ClientKey(s) \in DOMAIN r.cached THEN owners ELSE {}
    /\ \A t \in Sessions \ {s} :
         owned'[t] = IF Copied(r, p) THEN {conn[t].owner} \ {NoProcess} ELSE owned[t]

\* A connection that is opened is known as its program's.
LEMMA OpenKnown ==
  ASSUME Conns, Known, NEW s \in Sessions, NEW x \in Processes,
         NEW p, NEW sys, NEW r, NEW owners, Asked(s, x, p, sys, r, owners)
  PROVE  /\ Named(sys) /\ Known' /\ failures' \in Nat
         /\ failures' = 0 => failures = 0
         /\ \A t \in Sessions : owned'[t] \subseteq Processes
         /\ \A t \in Sessions \ {s} :
              owned'[t] \in {owned[t], {conn[t].owner} \ {NoProcess}}
         /\ Looked(p) => /\ owned'[s] = owners
                         /\ r.cached[ClientKey(s)] \in owners \cup Assumed'
<1> USE DEF Asked
<1>0. Key(p) = ClientKey(s)
  OBVIOUS
<1>1. /\ DOMAIN sys = DOMAIN SystemTable \cup {ClientKey(s)} /\ sys[ClientKey(s)] = x
      /\ \A k \in DOMAIN sys : k # ClientKey(s) =>
            k \in DOMAIN SystemTable /\ sys[k] = SystemTable[k]
  BY DEF SystemWith
<1>2. Named(sys)
  BY <1>1, SystemFacts, PortsAssumption DEF Named
<1>3. Named(cached)
  BY CachedNamed
<1>4. failures \in Nat /\ failures' \in Nat /\ (failures > 0 => failures' > 0)
      /\ (failures' = 0 => failures = 0)
  BY DEF Conns
<1>5. /\ \A t \in Sessions : owned'[t] \subseteq Processes
      /\ \A t \in Sessions \ {s} :
           owned'[t] \in {owned[t], {conn[t].owner} \ {NoProcess}}
  BY DEF Conns
<1>6. Assumed \subseteq Assumed'
  BY <1>4 DEF Assumed
<1>7. Looked(p) => ClientKey(s) \in DOMAIN r.cached
  <2> SUFFICES ASSUME Looked(p) PROVE Key(p) \in DOMAIN r.cached
    BY <1>0
  <2>1. failures' = IF Fails(r, p, sys) THEN failures + 1 ELSE failures
    OBVIOUS
  <2> QED
    BY <1>2, <1>3, <1>4, <2>1, CopiedFacts
<1>8. Known'
  <2>1. CASE ~Copied(r, p)
    <3>1. cached' = cached
      <4>1. CASE Looked(p)
        BY <1>2, <1>3, <1>4, <2>1, <4>1, CopiedFacts
      <4>2. CASE ~Looked(p)
        BY <4>2, PassedFacts
      <4> QED
        BY <4>1, <4>2
    <3>2. \A t \in Sessions : ClientKey(t) \in DOMAIN cached' => owned[t] \subseteq owned'[t]
      BY <2>1
    <3>3. \A t \in Sessions : ClientKey(t) \in DOMAIN cached' =>
             cached'[ClientKey(t)] \in owned'[t] \cup Assumed'
      BY <1>6, <3>1, <3>2 DEF Known
    <3>4. \A k \in DOMAIN cached' : k \notin {ClientKey(t) : t \in Sessions} =>
             cached'[k] \in {Self, System}
      BY <3>1 DEF Known
    <3> QED
      BY <3>3, <3>4 DEF Known, ClientKey
  <2>2. CASE Copied(r, p)
    <3>1. Looked(p)
      BY <2>2, PassedFacts
    <3>2. \A j \in DOMAIN r.cached :
              \/ /\ j = Key(p) /\ r.cached[j] = System
                 /\ Key(p) \notin DOMAIN sys \/ failures' > 0
              \/ j \in DOMAIN sys /\ r.cached[j] = sys[j]
      BY <1>2, <1>3, <1>4, <2>2, <3>1, CopiedFacts
    <3>3. ASSUME NEW t \in Sessions, ClientKey(t) \in DOMAIN cached'
          PROVE  cached'[ClientKey(t)] \in owned'[t] \cup Assumed'
      <4>1. CASE t = s
        <5>1. owned'[t] = {x}
          BY <1>7, <2>2, <3>1, <4>1
        <5>2. r.cached[ClientKey(t)] = x \/ (r.cached[ClientKey(t)] = System /\ failures' > 0)
          BY <1>0, <1>1, <3>2, <3>3, <4>1
        <5> QED
          BY <5>1, <5>2 DEF Assumed
      <4>2. CASE t # s
        <5>1. ClientKey(t) # ClientKey(s)
          BY <4>2, KeyFacts
        <5>2. /\ ClientKey(t) \in DOMAIN SystemTable
              /\ r.cached[ClientKey(t)] = SystemTable[ClientKey(t)]
          BY <1>0, <1>1, <3>2, <3>3, <5>1
        <5>3. conn[t].st # "closed" /\ r.cached[ClientKey(t)] = conn[t].owner
          BY <5>2, SystemFacts
        <5>4. conn[t].owner \in Processes /\ conn[t].owner # NoProcess
          BY <5>3, PortsAssumption DEF Conns
        <5> QED
          BY <2>2, <4>2, <5>3, <5>4
      <4> QED
        BY <4>1, <4>2
    <3>4. ASSUME NEW k \in DOMAIN cached', k \notin {ClientKey(t) : t \in Sessions}
          PROVE  cached'[k] \in {Self, System}
      <4>1. k \in DOMAIN SystemTable /\ cached'[k] = SystemTable[k]
        BY <1>0, <1>1, <3>2, <3>4
      <4> QED
        BY <3>4, <4>1, SystemFacts
    <3> QED
      BY <3>3, <3>4 DEF Known, ClientKey
  <2> QED
    BY <2>1, <2>2
<1>9. ASSUME Looked(p)
      PROVE  owned'[s] = owners /\ r.cached[ClientKey(s)] \in owners \cup Assumed'
  <2>1. owned'[s] = owners
    BY <1>7, <1>9
  <2>2. \A t \in Sessions : ClientKey(t) \in DOMAIN cached' =>
             cached'[ClientKey(t)] \in owned'[t] \cup Assumed'
    BY <1>8 DEF Known, ClientKey
  <2> QED
    BY <1>7, <1>9, <2>1, <2>2
<1> QED
  BY <1>2, <1>4, <1>5, <1>8, <1>9
-----------------------------------------------------------------------------
\* The steps, field by field.
Stays == UNCHANGED <<started, router, shown, order>>

IsClosed(d) == /\ d.st = "closed" /\ d.owner = NoProcess /\ d.peer = "none"
               /\ d.age = 0 /\ d.faults = {}

\* A packet of the connection, or of its other side.
Goes(c, d) ==
    \/ d = c
    \/ IsClosed(d)
    \/ /\ c.st # "closed" /\ d.st # "closed" /\ d.owner = c.owner /\ d.age = 0
       /\ d.lapsed = c.lapsed /\ d.peer \in {c.peer, "direct"}
       /\ \A f \in d.faults : f \in c.faults \/ f = "wrong"

Opened(s, x, p, sys, r, owners) ==
    /\ p = FromClient(s, "syn") /\ Asked(s, x, p, sys, r, owners)
    /\ table' = r.table /\ Stays
    /\ \A t \in Sessions \ {s} : conn'[t] = conn[t] /\ served'[t] = served[t]
    /\ conn[s].st = "closed" /\ conn'[s].st # "closed" /\ conn'[s].owner = x
    /\ conn'[s].age = 0 /\ conn'[s].lapsed = (owners # {x})
    /\ conn'[s].peer = IF r.revert THEN "proxy" ELSE "direct"
    /\ \A f \in conn'[s].faults :
         \/ /\ f = "unlisted" /\ r.revert
            /\ \A y \in owners \cup (IF failures' > 0 THEN {System} ELSE {}) :
                 \A i \in ServersListing(y) : router.servers[i].tcp # r.packet.dport
         \/ /\ f = "missed" /\ ~r.revert /\ Redirects(x, s[1])
            /\ owners = {x} /\ failures' = 0 /\ s \notin DOMAIN table
    /\ r.revert => served'[s].port = r.packet.dport

\* The action Open, field by field.
LEMMA OpenOpened ==
  ASSUME Shape, NEW s \in Sessions, NEW x \in Processes, Open(s, x)
  PROVE  \E p, sys, r, owners : Opened(s, x, p, sys, r, owners)
<1> DEFINE p == FromClient(s, "syn")
           sys == [k \in DOMAIN SystemTable \cup {ClientKey(s)} |->
                      IF k = ClientKey(s) THEN x ELSE SystemTable[k]]
           owners(r) == IF Copied(r, p) THEN {x} ELSE owned[s] \cup {x}
           assumed == IF failures' > 0 THEN {System} ELSE {}
           unlisted(r) == r.revert /\ \A y \in owners(r) \cup assumed :
                        \A i \in ServersListing(y) : router.servers[i].tcp # r.packet.dport
           missed(r) == /\ ~r.revert /\ Redirects(x, s[1]) /\ owners(r) = {x}
                        /\ failures' = 0 /\ s \notin DOMAIN table
           faults(r) == Fault("unlisted", unlisted(r)) \cup Fault("missed", missed(r))
           new(r) == [Closed EXCEPT !.st = IF r.revert THEN "syn" ELSE "open",
                        !.owner = x, !.faults = faults(r), !.lapsed = owners(r) # {x},
                        !.peer = IF r.revert THEN "proxy" ELSE "direct"]
<1>1. PICK r \in Outcomes(p, sys) :
         /\ Commit(r, p, sys)
         /\ owned' = [t \in Sessions |->
              IF t = s THEN IF ClientKey(s) \in DOMAIN r.cached THEN owners(r) ELSE {}
              ELSE IF Copied(r, p) THEN {conn[t].owner} \ {NoProcess} ELSE owned[t]]
         /\ conn' = [conn EXCEPT ![s] = new(r)]
         /\ IF r.revert
            THEN served' = [served EXCEPT ![s] =
                   [Unserved EXCEPT !.st = "waiting", !.port = r.packet.dport]]
            ELSE UNCHANGED served
  BY DEF Open
<1>2. conn[s].st = "closed"
  BY DEF Open
<1>3. /\ table' = r.table /\ cached' = r.cached /\ Stays
      /\ failures' = IF Fails(r, p, sys) THEN failures + 1 ELSE failures
  BY <1>1 DEF Commit, Stays, uiVars
<1>4. SystemWith(sys, s, x)
  <2> DEFINE D == DOMAIN SystemTable \cup {ClientKey(s)}
  <2>1. DOMAIN sys = D /\ sys[ClientKey(s)] = x
        /\ \A k \in D : k # ClientKey(s) => k \in DOMAIN SystemTable /\ sys[k] = SystemTable[k]
    OBVIOUS
  <2> QED
    BY <2>1 DEF SystemWith
<1>5. \A t \in Sessions : conn'[t] = IF t = s THEN new(r) ELSE conn[t]
  BY <1>1 DEF Shape
<1>6. \A f \in faults(r) :
         \/ f = "unlisted" /\ unlisted(r)
         \/ f = "missed" /\ missed(r)
  <2>1. \A f \in Fault("unlisted", unlisted(r)) : f = "unlisted" /\ unlisted(r)
    <3> HIDE DEF unlisted
    <3> QED
      BY DEF Fault
  <2>2. \A f \in Fault("missed", missed(r)) : f = "missed" /\ missed(r)
    <3> HIDE DEF missed
    <3> QED
      BY DEF Fault
  <2> HIDE DEF unlisted, missed
  <2> QED
    BY <2>1, <2>2
<1> HIDE DEF faults
<1>7. /\ new(r).st # "closed" /\ new(r).owner = x /\ new(r).age = 0
      /\ new(r).lapsed = (owners(r) # {x}) /\ new(r).faults = faults(r)
      /\ new(r).peer = IF r.revert THEN "proxy" ELSE "direct"
  <2> HIDE DEF owners
  <2> QED
    BY DEF Closed
<1> HIDE DEF new
<1>8. /\ \A t \in Sessions \ {s} : served'[t] = served[t]
      /\ r.revert => served'[s].port = r.packet.dport
  <2>1. CASE r.revert
    <3> DEFINE w == [Unserved EXCEPT !.st = "waiting", !.port = r.packet.dport]
    <3>1. w.port = r.packet.dport
      BY DEF Unserved
    <3>2. served' = [served EXCEPT ![s] = w]
      BY <1>1, <2>1
    <3> HIDE DEF w
    <3> QED
      BY <3>1, <3>2 DEF Shape
  <2>2. CASE ~r.revert
    BY <1>1, <2>2
  <2> QED
    BY <2>1, <2>2
<1>9. /\ owned'[s] = IF ClientKey(s) \in DOMAIN r.cached THEN owners(r) ELSE {}
      /\ \A t \in Sessions \ {s} :
           owned'[t] = IF Copied(r, p) THEN {conn[t].owner} \ {NoProcess} ELSE owned[t]
  BY <1>1
<1> HIDE DEF sys
<1>10. conn'[s] = new(r) /\ \A t \in Sessions \ {s} : conn'[t] = conn[t]
  BY <1>5
<1>12. Asked(s, x, p, sys, r, owners(r))
  BY <1>3, <1>4, <1>9, KeyFacts DEF Asked
<1>11. Opened(s, x, p, sys, r, owners(r))
  BY <1>2, <1>3, <1>4, <1>6, <1>7, <1>8, <1>10, <1>12 DEF Opened
<1> QED
  BY <1>11

\* A new connection is redirected only to a proxy that lists it, and if one does.
LEMMA OpenListed ==
  ASSUME Settings, Keys, Conns, Known, ListedExactly, NEW s \in Sessions,
         NEW x \in Processes, NEW p, NEW sys, NEW r, NEW owners,
         Opened(s, x, p, sys, r, owners)
  PROVE  Conns' /\ Known' /\ ListedExactly'
<1>1. Key(p) = ClientKey(s) /\ p.protocol = "tcp" /\ p.dst = s[1] /\ p.dport = PeerPort
  BY KeyFacts DEF Opened, FromClient, Packet
<1>2. Asked(s, x, p, sys, r, owners) /\ r \in Outcomes(p, sys)
  BY DEF Opened, Asked
<1>3. /\ Named(sys) /\ Known' /\ failures' \in Nat
      /\ failures' = 0 => failures = 0
      /\ \A t \in Sessions : owned'[t] \subseteq Processes
      /\ Looked(p) => /\ owned'[s] = owners
                      /\ r.cached[ClientKey(s)] \in owners \cup Assumed'
  BY <1>2, OpenKnown
<1>4. Named(cached)
  BY CachedNamed
<1> DEFINE y == r.cached[ClientKey(s)]
           port == ProxyPortTcp(y)
<1>5. ASSUME Looked(p)
      PROVE  /\ r.revert => port # Unset /\ r.packet = ToServed(s, port, "syn")
             /\ port # Unset => (r.revert <=> s \notin DOMAIN table)
  <2>1. r \in Outcomes(FromClient(s, "syn"), sys) /\ Looked(FromClient(s, "syn"))
    BY <1>2, <1>5 DEF Opened
  <2> HIDE DEF port
  <2>2. port = ProxyPortTcp(r.cached[ClientKey(s)])
    BY DEF port
  <2>3. /\ r.revert => port # Unset /\ r.packet = ToServed(s, port, "syn")
        /\ port # Unset => (r.revert <=> ("syn" = "syn" <=> s \notin DOMAIN table))
    BY <1>3, <1>4, <2>1, <2>2, ClientPacket
  <2> QED
    BY <2>3
<1>6. ~Looked(p) => ~r.revert
  BY <1>2, PassedFacts
<1> HIDE DEF port
<1>7. ASSUME r.revert,
             \A z \in owners \cup Assumed' :
                 \A i \in ServersListing(z) : router.servers[i].tcp # r.packet.dport
      PROVE  FALSE
  <2>1. Looked(p) /\ port # Unset /\ r.packet = ToServed(s, port, "syn")
    BY <1>5, <1>6, <1>7
  <2>2. r.packet.dport = port
    BY <2>1 DEF ToServed, Packet
  <2>3. PICK i \in ServersListing(y) : router.servers[i].tcp = port
    BY <2>1, ProxyFacts DEF port
  <2> QED
    BY <1>3, <1>7, <2>1, <2>2, <2>3
<1>8. ASSUME ~r.revert, Redirects(x, s[1]), owners = {x}, failures' = 0,
             s \notin DOMAIN table
      PROVE  FALSE
  <2>1. /\ ServersListing(x) # {} /\ <<s[1], PeerPort>> \notin Endpoints
        /\ \A i \in ServersListing(x) : router.servers[i].tcp # Unset
    BY <1>8 DEF Redirects
  <2>2. started /\ ProxyPortTcp(x) # Unset
    BY <2>1, ProxyFacts
  <2>3. Looked(p)
    BY <1>1, <2>1, <2>2, EndpointFacts DEF Looked
  <2>4. Assumed' = {}
    BY <1>8 DEF Assumed
  <2>5. y = x
    BY <1>3, <1>8, <2>3, <2>4
  <2> QED
    BY <1>5, <1>8, <2>2, <2>3, <2>5 DEF port
<1>9. ASSUME NEW f \in conn'[s].faults PROVE FALSE
  <2>1. \/ /\ r.revert
           /\ \A z \in owners \cup Assumed' :
                 \A i \in ServersListing(z) : router.servers[i].tcp # r.packet.dport
        \/ /\ ~r.revert /\ Redirects(x, s[1])
           /\ owners = {x} /\ failures' = 0 /\ s \notin DOMAIN table
    BY <1>9 DEF Opened, Assumed
  <2> QED
    BY <1>7, <1>8, <2>1
<1>10. ListedExactly'
  <2>1. \A t \in Sessions \ {s} : conn'[t] = conn[t]
    BY DEF Opened
  <2> QED
    BY <1>9, <2>1 DEF ListedExactly, OnlyListed, ListedAreRedirected
<1>11. Conns'
  <2>1. started' = started /\ \A t \in Sessions \ {s} : conn'[t] = conn[t]
    BY DEF Opened, Stays
  <2>2. /\ conn'[s].owner = x /\ conn'[s].st # "closed" /\ conn'[s].age = 0
        /\ conn'[s].peer = "proxy" => r.revert
    BY DEF Opened
  <2>3. r.revert => started
    BY <1>6 DEF Looked
  <2>4. 0 \in 0 .. Expired
    BY DEF Expired
  <2> QED
    BY <1>3, <2>1, <2>2, <2>3, <2>4 DEF Conns
<1> QED
  BY <1>3, <1>10, <1>11
-----------------------------------------------------------------------------
\* The other packets.
Moved(s, p, r) ==
    /\ r \in Outcomes(p, SystemTable) /\ Passes(r, p, SystemTable) /\ Stays
    /\ Key(p) \in {ClientKey(t) : t \in Sessions} =>
         Key(p) = ClientKey(s) /\ conn[s].st # "closed"
    /\ Goes(conn[s], conn'[s])
    /\ \A t \in Sessions \ {s} : conn'[t] = conn[t]

\* No packet but the first decides whether a connection is redirected.
LEMMA MovedListed ==
  ASSUME Conns, Known, ListedExactly, NEW s \in Sessions, NEW p, NEW r,
         Moved(s, p, r)
  PROVE  Conns' /\ Known' /\ ListedExactly'
<1>1. /\ r \in Outcomes(p, SystemTable) /\ Passes(r, p, SystemTable)
      /\ \A t \in Sessions : Key(p) = ClientKey(t) => conn[t].st # "closed"
  BY KeyFacts DEF Moved
<1>2. /\ Known' /\ failures' \in Nat
      /\ \A t \in Sessions : owned'[t] \subseteq Processes
  BY <1>1, PassesKnown
<1>3. /\ started' = started /\ Goes(conn[s], conn'[s])
      /\ \A t \in Sessions \ {s} : conn'[t] = conn[t]
  BY DEF Moved, Stays
<1>4. 0 \in 0 .. Expired
  BY DEF Expired
<1>5. /\ conn'[s].owner \in Processes \cup {NoProcess}
      /\ conn'[s].st # "closed" => conn'[s].owner \in Processes
      /\ conn'[s].peer = "proxy" => started /\ conn'[s].st # "closed"
      /\ conn'[s].age \in 0 .. Expired
  BY <1>3, <1>4 DEF Conns, Goes, IsClosed
<1>6. \A f \in conn'[s].faults : f \in conn[s].faults \/ f = "wrong"
  BY <1>3 DEF Goes, IsClosed
<1>7. Conns'
  BY <1>2, <1>3, <1>5 DEF Conns
<1>8. ListedExactly'
  BY <1>3, <1>6 DEF ListedExactly, OnlyListed, ListedAreRedirected
<1> QED
  BY <1>2, <1>7, <1>8
-----------------------------------------------------------------------------
\* The record of a closed connection.
LEMMA ClosedIsClosed == IsClosed(Closed)
BY DEF IsClosed, Closed

\* What is left of a connection whose record is changed in some fields.
LEMMA AliveFacts ==
  ASSUME Shape, NEW s \in Sessions
  PROVE  /\ DOMAIN Alive(s) = DOMAIN Closed /\ Alive(s).age = 0
         /\ Alive(s).st = conn[s].st /\ Alive(s).owner = conn[s].owner
         /\ Alive(s).peer = conn[s].peer /\ Alive(s).lapsed = conn[s].lapsed
         /\ Alive(s).faults = conn[s].faults
         /\ DOMAIN Closed = {"st", "owner", "peer", "age", "lapsed", "faults"}
<1>1. DOMAIN Closed = {"st", "owner", "peer", "age", "lapsed", "faults"}
  BY DEF Closed
<1>2. DOMAIN conn[s] = {"st", "owner", "peer", "age", "lapsed", "faults"}
  BY <1>1 DEF Shape
<1> QED
  BY <1>1, <1>2 DEF Alive

\* A repeated SYN, field by field.
LEMMA RepeatMoved ==
  ASSUME Shape, NEW s \in Sessions, Repeat(s)
  PROVE  \E p, r : /\ p = FromClient(s, "syn") /\ Moved(s, p, r)
                   /\ conn'[s].age = 0 /\ conn'[s].faults = conn[s].faults
                   /\ conn'[s].peer = "proxy" => r.revert
                   /\ UNCHANGED served
<1>1. PICK r \in Outcomes(FromClient(s, "syn"), SystemTable) :
         /\ Passes(r, FromClient(s, "syn"), SystemTable)
         /\ conn' = [conn EXCEPT ![s] = IF r.revert THEN Alive(s)
               ELSE [Alive(s) EXCEPT !.st = "open", !.peer = "direct"]]
  BY DEF Repeat
<1>2. conn[s].st = "syn" /\ UNCHANGED served
  BY DEF Repeat
<1> DEFINE e == [Alive(s) EXCEPT !.st = "open", !.peer = "direct"]
<1>3. /\ e.st = "open" /\ e.peer = "direct" /\ e.owner = conn[s].owner /\ e.age = 0
      /\ e.lapsed = conn[s].lapsed /\ e.faults = conn[s].faults
  BY AliveFacts
<1>4. /\ conn'[s] = IF r.revert THEN Alive(s) ELSE e
      /\ \A t \in Sessions \ {s} : conn'[t] = conn[t]
  BY <1>1 DEF Shape
<1> HIDE DEF e
<1>5. Goes(conn[s], conn'[s])
  BY <1>2, <1>3, <1>4, AliveFacts DEF Goes
<1>6. /\ conn'[s].age = 0 /\ conn'[s].faults = conn[s].faults
      /\ conn'[s].peer = "proxy" => r.revert
  BY <1>3, <1>4, AliveFacts
<1>7. Stays
  BY <1>1 DEF Passes, Commit, Stays, uiVars
<1>8. Moved(s, FromClient(s, "syn"), r)
  BY <1>1, <1>2, <1>4, <1>5, <1>7, KeyFacts DEF Moved
<1> QED
  BY <1>2, <1>6, <1>8

\* A client's packet, field by field.
LEMMA ClientSendsMoved ==
  ASSUME Shape, NEW s \in Sessions, NEW flag \in {"data", "fin"}, ClientSends(s, flag)
  PROVE  \E p, r : /\ p = FromClient(s, flag) /\ Moved(s, p, r)
                   /\ UNCHANGED served
                   /\ \/ IsClosed(conn'[s])
                      \/ /\ flag = "data" /\ conn'[s].age = 0
                         /\ conn'[s].peer = conn[s].peer
                         /\ "wrong" \in conn'[s].faults =>
                              \/ "wrong" \in conn[s].faults
                              \/ /\ served[s].st # "none" /\ ~conn[s].lapsed
                                 /\ ~(r.revert /\ r.packet =
                                        ToServed(s, served[s].port, flag))
<1> DEFINE bad(r) == /\ served[s].st = "relaying" /\ ~conn[s].lapsed
                     /\ ~(r.revert /\ r.packet = ToServed(s, served[s].port, flag))
<1>1. PICK r \in Outcomes(FromClient(s, flag), SystemTable) :
         /\ Passes(r, FromClient(s, flag), SystemTable)
         /\ conn' = [conn EXCEPT ![s] = IF flag = "fin" THEN Closed
               ELSE [Alive(s) EXCEPT !.faults = @ \cup Fault("wrong", bad(r))]]
  BY DEF ClientSends
<1>2. conn[s].st = "open" /\ UNCHANGED served
  BY DEF ClientSends
<1> DEFINE e == [Alive(s) EXCEPT !.faults = Alive(s).faults \cup Fault("wrong", bad(r))]
<1>3. Fault("wrong", bad(r)) \subseteq {"wrong"} /\ (Fault("wrong", bad(r)) # {} => bad(r))
  BY DEF Fault
<1>4. /\ conn'[s] = IF flag = "fin" THEN Closed ELSE e
      /\ \A t \in Sessions \ {s} : conn'[t] = conn[t]
  BY <1>1 DEF Shape
<1>5. /\ e.st = "open" /\ e.peer = conn[s].peer /\ e.owner = conn[s].owner /\ e.age = 0
      /\ e.lapsed = conn[s].lapsed
      /\ e.faults = conn[s].faults \cup Fault("wrong", bad(r))
  <2> HIDE DEF bad
  <2> QED
    BY <1>2, AliveFacts
<1> HIDE DEF e, bad
<1>6. Goes(conn[s], conn'[s])
  BY <1>2, <1>3, <1>4, <1>5, ClosedIsClosed DEF Goes
<1>7. Stays
  BY <1>1 DEF Passes, Commit, Stays, uiVars
<1>8. Moved(s, FromClient(s, flag), r)
  BY <1>1, <1>2, <1>4, <1>6, <1>7, KeyFacts DEF Moved
<1>9. \/ IsClosed(conn'[s])
      \/ /\ flag = "data" /\ conn'[s].age = 0 /\ conn'[s].peer = conn[s].peer
         /\ "wrong" \in conn'[s].faults => "wrong" \in conn[s].faults \/ bad(r)
  BY <1>3, <1>4, <1>5, ClosedIsClosed
<1>10. bad(r) => /\ served[s].st # "none" /\ ~conn[s].lapsed
                 /\ ~(r.revert /\ r.packet = ToServed(s, served[s].port, flag))
  BY DEF bad
<1> QED
  BY <1>2, <1>8, <1>9, <1>10

\* A local proxy's packet, field by field.
LEMMA ServedSendsMoved ==
  ASSUME Shape, NEW s \in Sessions, NEW flag \in {"synack", "data", "fin"},
         ServedSends(s, flag)
  PROVE  \E p, r : /\ p = FromServed(s, flag) /\ Moved(s, p, r)
                   /\ served[s].st # "none"
                   /\ served'[s] \in {served[s], Unserved}
                   /\ \A t \in Sessions \ {s} : served'[t] = served[t]
                   /\ \/ IsClosed(conn'[s])
                      \/ conn[s].peer # "proxy" /\ conn'[s] = conn[s]
                      \/ /\ conn'[s].age = 0 /\ conn'[s].peer = conn[s].peer
                         /\ flag = "fin" => ~(r.revert /\ r.packet = ToClient(s, flag))
                         /\ "wrong" \in conn'[s].faults =>
                              \/ "wrong" \in conn[s].faults
                              \/ /\ ~conn[s].lapsed
                                 /\ ~(r.revert /\ r.packet = ToClient(s, flag))
                      \/ conn[s].st = "closed" /\ conn'[s] = conn[s]
<1> DEFINE live == conn[s].st # "closed" /\ conn[s].peer = "proxy"
           good(r) == r.revert /\ r.packet = ToClient(s, flag)
           bad(r) == ~good(r) /\ ~conn[s].lapsed
           next(r) == CASE flag = "synack" /\ good(r) -> "open"
                        [] flag = "fin" /\ good(r) -> "closed"
                        [] OTHER -> conn[s].st
<1>1. PICK r \in Outcomes(FromServed(s, flag), SystemTable) :
         /\ Passes(r, FromServed(s, flag), SystemTable)
         /\ conn' = [conn EXCEPT ![s] =
              IF ~live THEN @
              ELSE IF next(r) = "closed" THEN Closed
              ELSE [Alive(s) EXCEPT !.st = next(r),
                      !.faults = @ \cup Fault("wrong", bad(r))]]
  BY DEF ServedSends
<1>2. /\ served[s].st # "none"
      /\ served' = IF flag = "fin" THEN [served EXCEPT ![s] = Unserved] ELSE served
  BY DEF ServedSends
<1> DEFINE e == [Alive(s) EXCEPT !.st = next(r),
                   !.faults = Alive(s).faults \cup Fault("wrong", bad(r))]
<1>3. Fault("wrong", bad(r)) \subseteq {"wrong"} /\ (Fault("wrong", bad(r)) # {} => bad(r))
  BY DEF Fault
<1>4. /\ conn'[s] = IF ~live THEN conn[s] ELSE IF next(r) = "closed" THEN Closed ELSE e
      /\ \A t \in Sessions \ {s} : conn'[t] = conn[t]
  BY <1>1 DEF Shape
<1>5. flag = "fin" /\ good(r) => next(r) = "closed"
  OBVIOUS
<1> HIDE DEF next
<1>6. /\ e.st = next(r) /\ e.peer = conn[s].peer /\ e.owner = conn[s].owner /\ e.age = 0
      /\ e.lapsed = conn[s].lapsed
      /\ e.faults = conn[s].faults \cup Fault("wrong", bad(r))
  <2> HIDE DEF bad
  <2> QED
    BY AliveFacts
<1> HIDE DEF e, bad, good
<1>7. Goes(conn[s], conn'[s])
  BY <1>3, <1>4, <1>6, ClosedIsClosed DEF Goes
<1>8. Stays
  BY <1>1 DEF Passes, Commit, Stays, uiVars
<1>9. Moved(s, FromServed(s, flag), r)
  <2>1. Key(FromServed(s, flag)) \notin {ClientKey(t) : t \in Sessions}
    BY KeyFacts
  <2> QED
    BY <1>1, <1>4, <1>7, <1>8, <2>1 DEF Moved
<1>10. \/ IsClosed(conn'[s])
       \/ conn[s].peer # "proxy" /\ conn'[s] = conn[s]
       \/ /\ conn'[s].age = 0 /\ conn'[s].peer = conn[s].peer
          /\ flag = "fin" => ~good(r)
          /\ "wrong" \in conn'[s].faults => "wrong" \in conn[s].faults \/ bad(r)
       \/ conn[s].st = "closed" /\ conn'[s] = conn[s]
  BY <1>3, <1>4, <1>5, <1>6, ClosedIsClosed
<1>11. /\ served'[s] \in {served[s], Unserved}
       /\ \A t \in Sessions \ {s} : served'[t] = served[t]
  BY <1>2 DEF Shape
<1> QED
  BY <1>2, <1>9, <1>10, <1>11 DEF good, bad
-----------------------------------------------------------------------------
\* The proxy's own connection to a SOCKS server changes nothing but the served
\* session: the driver passes it.
LEMMA DialFacts ==
  ASSUME Settings, NEW s \in Sessions, Dial(s)
  PROVE  /\ UNCHANGED <<started, router, shown, order, cached, table, conn, owned, failures>>
         /\ served[s].st # "none" /\ served' = [served EXCEPT ![s].st = "relaying"]
<1>1. PICK i \in DOMAIN router.servers :
        \E r \in Outcomes(Packet(Me, DialPort, router.servers[i].ip,
                                 router.servers[i].port, "syn"), SystemTable) :
           Passes(r, Packet(Me, DialPort, router.servers[i].ip,
                            router.servers[i].port, "syn"), SystemTable)
  BY DEF Dial
<1>2. /\ UNCHANGED conn /\ served[s].st # "none"
      /\ served' = [served EXCEPT ![s].st = "relaying"]
  BY DEF Dial
<1>3. PICK p : p = Packet(Me, DialPort, router.servers[i].ip,
                          router.servers[i].port, "syn")
  OBVIOUS
<1>4. PICK r \in Outcomes(p, SystemTable) : Passes(r, p, SystemTable)
  BY <1>1, <1>3
<1>5. /\ p.protocol = "tcp"
      /\ <<p.dst, p.dport>> = <<router.servers[i].ip, router.servers[i].port>>
  BY <1>3 DEF Packet
<1>6. ~Looked(p)
  BY <1>5, EndpointFacts DEF Looked
<1>7. /\ r.table = table /\ r.cached = cached /\ ~Copied(r, p)
      /\ ~Fails(r, p, SystemTable)
  BY <1>6, PassedFacts
<1> QED
  BY <1>2, <1>4, <1>7 DEF Passes, Commit, uiVars
-----------------------------------------------------------------------------
\* Processes that are not listed are left alone, and those that are listed are
\* served: with what process_lookup knows, this is inductive.
ListedInv == Conns /\ Known /\ ListedExactly

\* Each step preserves it.
LEMMA NextListed ==
  ASSUME IInv, Settings, TableInv, ListedInv, [Next]_vars PROVE ListedInv'
<1>0. Shape /\ Keys
  BY DEF IInv
<1>1. CASE UNCHANGED <<started, cached, conn, owned, failures>>
  BY <1>1 DEF ListedInv, Conns, Known, Assumed, ClientKey, ListedExactly, OnlyListed,
              ListedAreRedirected
<1>2. ASSUME NEW s \in Sessions, NEW x \in Processes, Open(s, x) PROVE ListedInv'
  BY <1>0, <1>2, OpenOpened, OpenListed DEF ListedInv
<1>3. ASSUME NEW s \in Sessions,
             \/ Repeat(s)
             \/ \E flag \in {"data", "fin"} : ClientSends(s, flag)
             \/ \E flag \in {"synack", "data", "fin"} : ServedSends(s, flag)
      PROVE  ListedInv'
  <2>1. \E p, r : Moved(s, p, r)
    BY <1>0, <1>3, RepeatMoved, ClientSendsMoved, ServedSendsMoved
  <2> QED
    BY <2>1, MovedListed DEF ListedInv
<1>4. ASSUME NEW s \in Sessions, Dial(s) PROVE ListedInv'
  BY <1>1, <1>4, DialFacts
<1>5. ASSUME UNCHANGED <<cached, owned, failures>>,
             \A s \in Sessions :
               \/ IsClosed(conn'[s])
               \/ /\ conn'[s].owner = conn[s].owner /\ conn'[s].st = conn[s].st
                  /\ conn'[s].peer = conn[s].peer /\ conn'[s].faults = conn[s].faults
                  /\ conn'[s].age \in 0 .. Expired
                  /\ conn[s].peer = "proxy" /\ started => started'
      PROVE  ListedInv'
  <2>1. Known'
    BY <1>5 DEF ListedInv, Known, Assumed, ClientKey
  <2>2. 0 \in 0 .. Expired
    BY DEF Expired
  <2>3. Conns'
    BY <1>5, <2>2 DEF ListedInv, Conns, IsClosed
  <2>4. ListedExactly'
    BY <1>5 DEF ListedInv, ListedExactly, OnlyListed, ListedAreRedirected, IsClosed
  <2> QED
    BY <2>1, <2>3, <2>4 DEF ListedInv
<1>6. \A s \in Sessions : conn[s].age \in 0 .. Expired
  BY DEF ListedInv, Conns
<1>7. ASSUME NEW s \in Sessions, GiveUp(s) PROVE ListedInv'
  <2>1. /\ UNCHANGED <<started, cached, owned, failures>>
        /\ \A t \in Sessions : conn'[t] = IF t = s THEN Closed ELSE conn[t]
    BY <1>0, <1>7 DEF GiveUp, uiVars, Shape
  <2> QED
    BY <1>5, <1>6, <2>1, ClosedIsClosed
<1>8. CASE Tick
  <2>1. UNCHANGED <<started, cached, owned, failures>>
    BY <1>8 DEF Tick, uiVars
  <2>2. ASSUME NEW s \in Sessions
        PROVE  /\ conn'[s].owner = conn[s].owner /\ conn'[s].st = conn[s].st
               /\ conn'[s].peer = conn[s].peer /\ conn'[s].faults = conn[s].faults
               /\ conn'[s].age \in 0 .. Expired
    <3> DEFINE a == IF conn[s].age < Expired THEN conn[s].age + 1 ELSE conn[s].age
               b == conn[s].lapsed \/ conn[s].age + 1 >= Expired
               e == [conn[s] EXCEPT !.age = a, !.lapsed = b]
    <3>1. conn'[s] = IF conn[s].peer # "proxy" THEN conn[s] ELSE e
      BY <1>8 DEF Tick
    <3>2. a \in 0 .. Expired
      BY <1>6 DEF Expired
    <3> HIDE DEF a, b
    <3>3. DOMAIN conn[s] = {"st", "owner", "peer", "age", "lapsed", "faults"}
      BY <1>0, AliveFacts DEF Shape
    <3>4. /\ e.owner = conn[s].owner /\ e.st = conn[s].st /\ e.peer = conn[s].peer
          /\ e.faults = conn[s].faults /\ e.age = a
      BY <3>3
    <3> HIDE DEF e
    <3> QED
      BY <1>6, <3>1, <3>2, <3>4
  <2> QED
    BY <1>5, <2>1, <2>2
<1>9. CASE Stop
  <2>1. /\ UNCHANGED <<cached, owned, failures>>
        /\ \A s \in Sessions : conn'[s] = IF conn[s].peer = "proxy" THEN Closed ELSE conn[s]
    BY <1>9 DEF Stop
  <2> QED
    BY <1>5, <1>6, <2>1, ClosedIsClosed
<1>10. CASE EditList \/ Start
  <2>1. /\ UNCHANGED <<cached, conn, owned, failures>> /\ (started => started')
    BY <1>10 DEF EditList, Start, StartButton, netVars, Edit, AddProxyItem, EditProxy,
                 EditFilters, DeleteItem, EditsList
  <2> QED
    BY <1>5, <1>6, <2>1
<1>11. CASE Accept \/ CleanupThread \/ UNCHANGED vars
  BY <1>1, <1>11 DEF Accept, CleanupThread, vars, netVars, uiVars
<1> QED
  BY <1>2, <1>3, <1>4, <1>7, <1>8, <1>9, <1>10, <1>11 DEF Next

\* Nothing is connected at the start.
LEMMA InitListed == ASSUME Init PROVE ListedInv
<1>1. \A s \in Sessions : conn[s] = Closed /\ owned[s] = {}
  BY DEF Init
<1>2. 0 \in 0 .. Expired /\ 0 \in Nat
  BY DEF Expired
<1>3. Conns
  BY <1>1, <1>2, ClosedIsClosed DEF Init, Conns, IsClosed
<1>4. Known
  BY DEF Init, Known, EmptyTable
<1>5. ListedExactly
  BY <1>1, ClosedIsClosed DEF IsClosed, ListedExactly, OnlyListed, ListedAreRedirected
<1> QED
  BY <1>3, <1>4, <1>5 DEF ListedInv

\* What process_lookup knows of a session is one of its owners, and connections
\* are redirected for listed programs and no others.
THEOREM RouterListed == Spec => []ListedInv
<1>1. IInv /\ Settings /\ TableInv /\ ListedInv /\ [Next]_vars => ListedInv'
  BY NextListed
<1> QED
  BY <1>1, InitListed, RedirectInvariant, RouterSettings, RouterTable, PTL DEF Spec

\* Programs' connections are redirected when they are opened if and only if a
\* proxy lists the program, with the provisos of the property.
THEOREM RouterListedExactly == Spec => []ListedExactly
<1>1. ListedInv => ListedExactly
  BY DEF ListedInv
<1> QED
  BY <1>1, RouterListed, PTL
-----------------------------------------------------------------------------
\* The operators of the properties, as functions of the configuration.
ProxyOf(o, rt, x) ==
    LET hits == {k \in DOMAIN o : \E f \in Range(rt.filters[o[k]]) : x \in f}
    IN IF hits = {} THEN Unset ELSE rt.servers[o[First(hits)]].tcp

Shadowed(rt) ==
    {i \in DOMAIN rt.servers : \E f \in Range(rt.filters[i]) : Self \in f}
      \cup {i \in DOMAIN rt.servers : \E f \in Range(rt.filters[i]) : System \in f} # {}

EndpointsOf(sh) == {<<sh[row].input.ip, sh[row].input.port>> : row \in DOMAIN sh}

\* They say the same as those of the model.
LEMMA Configured ==
  /\ \A x : ProxyPortTcp(x) = ProxyOf(order, router, x)
  /\ SelfShadowed <=> Shadowed(router)
  /\ Endpoints = EndpointsOf(shown)
BY DEF ProxyPortTcp, ProxyOf, SelfShadowed, ServersListing, Shadowed, Endpoints, EndpointsOf

\* A redirected connection that nothing has gone wrong with is its owner's, who
\* is listed, its server is the one that lists him, and its entry is in the table
\* and younger than the connection has been idle.
Redirected(s) == conn[s].peer = "proxy" /\ ~conn[s].lapsed /\ failures = 0

Ours(s) ==
    /\ owned[s] = {conn[s].owner} /\ ProxyOf(order, router, conn[s].owner) # Unset
    /\ Verdict(router.statics, "out", FromClient(s, "syn")) = "redirect"
    /\ served[s].st # "none" => served[s].port = ProxyOf(order, router, conn[s].owner)

InTable(s) ==
    /\ s \in DOMAIN table /\ table[s].port = PeerPort
    /\ table[s].age \in Nat /\ table[s].age <= conn[s].age /\ conn[s].age < Expired

Translated(s) == ~Shadowed(router) /\ s \notin EndpointsOf(shown)

Used(s) ==
    /\ Redirected(s) => Ours(s) /\ (Translated(s) => InTable(s))
    /\ Translated(s) /\ failures = 0 /\ conn[s].peer = "proxy"
         => "wrong" \notin conn[s].faults

UsedInv == \A s \in Sessions : Used(s)

\* The entry of a session stays as it is.
SameEntry(t, u, s) == s \in DOMAIN t => s \in DOMAIN u /\ u[s] = t[s]

\* A session of which nothing changes but the owners, by a new copy.
LEMMA OtherUsed ==
  ASSUME Conns, NEW s \in Sessions, Used(s), Stays, conn'[s] = conn[s],
         failures' = 0 => failures = 0,
         served'[s] = served[s] \/ served'[s].st = "none" \/
            (served[s].st # "none" /\ served'[s].port = served[s].port),
         owned'[s] \in {owned[s], {conn[s].owner} \ {NoProcess}},
         Translated(s) /\ failures' = 0 => SameEntry(table, table', s)
  PROVE  Used(s)'
<1>1. /\ Redirected(s)' => Redirected(s)
      /\ UNCHANGED <<router, order, shown, started>>
  BY DEF Redirected, Stays
<1>2. Redirected(s) => conn[s].owner # NoProcess
  BY PortsAssumption DEF Redirected, Conns
<1>3. ASSUME Redirected(s)' PROVE Ours(s)'
  <2>1. owned'[s] = {conn'[s].owner}
    BY <1>1, <1>2, <1>3 DEF Used, Ours
  <2>2. served'[s].st # "none" => served'[s].port = ProxyOf(order', router', conn'[s].owner)
    BY <1>1, <1>3 DEF Used, Ours
  <2> QED
    BY <1>1, <1>3, <2>1, <2>2 DEF Used, Ours
<1>4. ASSUME Redirected(s)', Translated(s)' PROVE InTable(s)'
  <2>1. Translated(s) /\ failures' = 0
    BY <1>1, <1>4 DEF Translated, Redirected
  <2>2. InTable(s)
    BY <1>1, <1>4, <2>1 DEF Used
  <2> QED
    BY <2>1, <2>2 DEF InTable, SameEntry
<1>5. Translated(s)' /\ failures' = 0 /\ conn'[s].peer = "proxy"
         => "wrong" \notin conn'[s].faults
  BY <1>1 DEF Used, Translated
<1> QED
  BY <1>3, <1>4, <1>5 DEF Used

\* One that is not redirected any more, or has been closed.
LEMMA ClosedUsed ==
  ASSUME NEW s \in Sessions, conn'[s].peer # "proxy"
  PROVE  Used(s)'
BY DEF Used, Redirected
-----------------------------------------------------------------------------
\* The entry that a packet of its own session makes, refreshes or erases.
LEMMA TouchFacts ==
  ASSUME NEW t, NEW s, s \in DOMAIN t, DOMAIN t[s] = {"port", "age"}, NEW flag
  PROVE  /\ \A k : k # s => SameEntry(t, Touch(t, s, flag), k)
         /\ flag # "fin" => /\ s \in DOMAIN Touch(t, s, flag)
                            /\ Touch(t, s, flag)[s].port = t[s].port
                            /\ Touch(t, s, flag)[s].age = 0
<1>1. CASE flag = "fin"
  BY <1>1 DEF Touch, Drop, SameEntry
<1>2. CASE flag # "fin"
  <2> DEFINE e == [t[s] EXCEPT !.age = 0]
             u == [t EXCEPT ![s] = e]
  <2>1. e.port = t[s].port /\ e.age = 0
    OBVIOUS
  <2>2. Touch(t, s, flag) = u
    BY <1>2 DEF Touch
  <2> HIDE DEF e
  <2>3. DOMAIN u = DOMAIN t /\ u[s] = e /\ \A k \in DOMAIN t : k # s => u[k] = t[k]
    OBVIOUS
  <2> QED
    BY <2>1, <2>2, <2>3 DEF SameEntry
<1> QED
  BY <1>1, <1>2

\* A new entry replaces none but its own.
LEMMA PutFacts ==
  ASSUME NEW t, NEW s, NEW port
  PROVE  LET u == Put(t, s, [port |-> port, age |-> 0])
         IN  /\ \A k : k # s => SameEntry(t, u, k)
             /\ s \in DOMAIN u /\ u[s].port = port /\ u[s].age = 0
BY DEF Put, SameEntry

\* The driver does not look at the flag.
LEMMA SameVerdict ==
  ASSUME NEW tb, NEW s, NEW flag
  PROVE  Verdict(tb, "out", FromClient(s, flag)) = Verdict(tb, "out", FromClient(s, "syn"))
<1>1. \A e : Fits(e, "out", FromClient(s, flag)) = Fits(e, "out", FromClient(s, "syn"))
  BY DEF Fits, FromClient, Packet
<1>2. {i \in DOMAIN tb : Fits(tb[i], "out", FromClient(s, flag))}
        = {i \in DOMAIN tb : Fits(tb[i], "out", FromClient(s, "syn"))}
  BY <1>1
<1> QED
  BY <1>2 DEF Verdict

\* A program's packet touches its own entry only.
LEMMA ClientEntries ==
  ASSUME Keys, Entries, NEW s \in Sessions, NEW flag, NEW sys, Named(sys), Named(cached),
         NEW r \in Outcomes(FromClient(s, flag), sys)
  PROVE  /\ \A t \in Sessions \ {s} : SameEntry(table, r.table, t)
         /\ r.revert /\ flag # "fin" =>
              /\ s \in DOMAIN r.table /\ r.table[s].age = 0
              /\ \/ r.table[s].port = PeerPort
                 \/ flag # "syn" /\ s \in DOMAIN table /\ r.table[s].port = table[s].port
         /\ r.revert => Looked(FromClient(s, flag))
<1>1. CASE ~Looked(FromClient(s, flag))
  <2>1. r.revert = FALSE /\ r.table = table
    BY <1>1, PassedFacts
  <2> QED
    BY <2>1 DEF SameEntry
<1>2. CASE Looked(FromClient(s, flag))
  <2>1. PICK port : port = ProxyPortTcp(r.cached[ClientKey(s)])
    OBVIOUS
  <2>2. /\ r.revert => port # Unset /\ r.packet = ToServed(s, port, flag)
        /\ port # Unset => (r.revert <=> (flag = "syn" <=> s \notin DOMAIN table))
        /\ ~r.revert => r.table = table
        /\ r.revert => r.table = IF flag = "syn"
                                 THEN Put(table, s, [port |-> PeerPort, age |-> 0])
                                 ELSE Touch(table, s, flag)
    BY <1>2, <2>1, ClientPacket
  <2>3. CASE ~r.revert
    BY <2>2, <2>3 DEF SameEntry
  <2>4. CASE r.revert /\ flag = "syn"
    BY <1>2, <2>2, <2>4, PutFacts
  <2>5. CASE r.revert /\ flag # "syn"
    <3>1. s \in DOMAIN table /\ DOMAIN table[s] = {"port", "age"}
      BY <2>2, <2>5 DEF Entries
    <3>2. r.table = Touch(table, s, flag)
      BY <2>2, <2>5
    <3> QED
      BY <1>2, <2>5, <3>1, <3>2, TouchFacts
  <2> QED
    BY <2>3, <2>4, <2>5
<1> QED
  BY <1>1, <1>2
-----------------------------------------------------------------------------
\* What a packet of another session leaves.
LEMMA MovedFacts ==
  ASSUME Conns, Known, NEW s \in Sessions, NEW p, NEW r, Moved(s, p, r)
  PROVE  /\ r \in Outcomes(p, SystemTable) /\ Stays /\ Goes(conn[s], conn'[s])
         /\ table' = r.table /\ cached' = r.cached
         /\ failures' = IF Fails(r, p, SystemTable) THEN failures + 1 ELSE failures
         /\ Named(cached) /\ Named(SystemTable) /\ failures \in Nat
         /\ failures' = 0 => failures = 0
         /\ \A t \in Sessions :
              owned'[t] \in {owned[t], {conn[t].owner} \ {NoProcess}}
         /\ \A t \in Sessions \ {s} : conn'[t] = conn[t]
<1>1. /\ r \in Outcomes(p, SystemTable) /\ Passes(r, p, SystemTable)
      /\ \A t \in Sessions : Key(p) = ClientKey(t) => conn[t].st # "closed"
  BY KeyFacts DEF Moved
<1>2. /\ failures' = 0 => failures = 0
      /\ \A t \in Sessions :
           owned'[t] \in {owned[t], {conn[t].owner} \ {NoProcess}}
  BY <1>1, PassesKnown
<1>3. Named(cached) /\ Named(SystemTable)
  BY CachedNamed, SystemFacts
<1> QED
  BY <1>1, <1>2, <1>3 DEF Moved, Passes, Commit, Conns

\* So the other sessions are as good as before.
LEMMA OthersUsed ==
  ASSUME Conns, Known, UsedInv, NEW s \in Sessions, NEW p, NEW r, Moved(s, p, r),
         NEW t \in Sessions \ {s}, served'[t] = served[t],
         Translated(t) /\ failures' = 0 => SameEntry(table, r.table, t)
  PROVE  Used(t)'
<1>1. Used(t)
  BY DEF UsedInv
<1>2. /\ Stays /\ conn'[t] = conn[t] /\ table' = r.table
      /\ failures' = 0 => failures = 0
      /\ owned'[t] \in {owned[t], {conn[t].owner} \ {NoProcess}}
  BY MovedFacts
<1> QED
  BY <1>1, <1>2, OtherUsed

\* A session in use that is still redirected is asked for its owner's proxy.
LEMMA AskedOwner ==
  ASSUME Conns, Known, ListedExactly, NEW s \in Sessions, NEW flag, NEW p, NEW r,
         p = FromClient(s, flag), Moved(s, p, r), Used(s), Redirected(s), failures' = 0
  PROVE  /\ Looked(p) /\ r.cached[ClientKey(s)] = conn[s].owner
         /\ owned'[s] = {conn[s].owner}
<1>1. Ours(s)
  BY DEF Used
<1>2. Looked(p)
  <2>1. started
    BY DEF Redirected, Conns
  <2>2. Verdict(router.statics, "out", p) = "redirect"
    BY <1>1, SameVerdict DEF Ours
  <2> QED
    BY <2>1, <2>2 DEF Looked
<1>3. Key(p) = ClientKey(s)
  BY KeyFacts
<1>4. ClientKey(s) \in DOMAIN r.cached
  <2>1. Key(p) \in DOMAIN r.cached
    BY <1>2, MovedFacts, CopiedFacts
  <2> QED
    BY <1>3, <2>1
<1>5. conn[s].owner # NoProcess
  BY PortsAssumption DEF Redirected, Conns
<1>6. owned'[s] = {conn[s].owner}
  BY <1>1, <1>5, MovedFacts DEF Ours
<1>7. cached' = r.cached /\ Known'
  BY MovedFacts, MovedListed
<1>8. Assumed' = {}
  BY DEF Assumed
<1>9. cached'[ClientKey(s)] \in owned'[s] \cup Assumed'
  <2>1. \A t \in Sessions : ClientKey(t) \in DOMAIN cached' =>
             cached'[ClientKey(t)] \in owned'[t] \cup Assumed'
    BY <1>7 DEF Known, ClientKey
  <2> QED
    BY <1>4, <1>7, <2>1
<1> QED
  BY <1>2, <1>6, <1>7, <1>8, <1>9

\* What is left to show of the session itself, when its connection goes on.
LEMMA SelfUsed ==
  ASSUME NEW s \in Sessions, Used(s), Stays, failures' = 0 => failures = 0,
         conn'[s].peer = conn[s].peer, conn'[s].lapsed = conn[s].lapsed,
         conn'[s].owner = conn[s].owner, conn'[s].age = 0,
         Redirected(s) /\ failures' = 0 => owned'[s] = {conn[s].owner},
         served'[s] = served[s] \/ served'[s].st = "none",
         Redirected(s) /\ failures' = 0 /\ Translated(s) =>
           s \in DOMAIN table' /\ table'[s].port = PeerPort /\ table'[s].age = 0,
         Translated(s) /\ failures' = 0 /\ conn[s].peer = "proxy"
           => "wrong" \notin conn'[s].faults
  PROVE  Used(s)'
<1>1. /\ Redirected(s)' => Redirected(s) /\ failures' = 0
      /\ Translated(s)' <=> Translated(s)
      /\ UNCHANGED <<router, order, shown, started>>
  BY DEF Redirected, Translated, Stays
<1>2. ASSUME Redirected(s)' PROVE Ours(s)'
  <2>1. owned'[s] = {conn'[s].owner} /\ Ours(s)
    BY <1>1, <1>2 DEF Used
  <2>2. served'[s].st # "none" => served'[s].port = ProxyOf(order', router', conn'[s].owner)
    BY <1>1, <2>1 DEF Ours
  <2> QED
    BY <1>1, <2>1, <2>2 DEF Ours
<1>3. ASSUME Redirected(s)', Translated(s)' PROVE InTable(s)'
  <2>1. 0 \in Nat /\ 0 < Expired
    BY DEF Expired
  <2>2. s \in DOMAIN table' /\ table'[s].port = PeerPort /\ table'[s].age = 0
        /\ conn'[s].age = 0
    BY <1>1, <1>3
  <2> QED
    BY <2>1, <2>2 DEF InTable
<1>4. Translated(s)' /\ failures' = 0 /\ conn'[s].peer = "proxy"
         => "wrong" \notin conn'[s].faults
  BY <1>1
<1> QED
  BY <1>2, <1>3, <1>4 DEF Used
-----------------------------------------------------------------------------
\* A repeated SYN that is redirected makes the entry again.
LEMMA RepeatUsed ==
  ASSUME IInv, TableInv, ListedInv, UsedInv, NEW s \in Sessions, Repeat(s)
  PROVE  UsedInv'
<1>0. Shape /\ Keys /\ Entries /\ Conns /\ Known /\ ListedExactly /\ Used(s)
  BY DEF IInv, TableInv, ListedInv, UsedInv
<1>1. PICK p, r : /\ p = FromClient(s, "syn") /\ Moved(s, p, r)
                  /\ conn'[s].age = 0 /\ conn'[s].faults = conn[s].faults
                  /\ conn'[s].peer = "proxy" => r.revert
                  /\ UNCHANGED served
  BY <1>0, RepeatMoved
<1>2. /\ r \in Outcomes(FromClient(s, "syn"), SystemTable) /\ Named(SystemTable) /\ Named(cached)
      /\ Stays /\ Goes(conn[s], conn'[s]) /\ table' = r.table
      /\ failures' = 0 => failures = 0
  BY <1>0, <1>1, MovedFacts
<1>3. /\ \A t \in Sessions \ {s} : SameEntry(table, r.table, t)
      /\ r.revert /\ "syn" # "fin" =>
           /\ s \in DOMAIN r.table /\ r.table[s].age = 0
           /\ \/ r.table[s].port = PeerPort
              \/ "syn" # "syn" /\ s \in DOMAIN table /\ r.table[s].port = table[s].port
  BY <1>0, <1>2, ClientEntries
<1>4. ASSUME NEW t \in Sessions \ {s} PROVE Used(t)'
  BY <1>0, <1>1, <1>3, OthersUsed
<1>5. CASE conn'[s].peer # "proxy"
  BY <1>4, <1>5, ClosedUsed DEF UsedInv
<1>6. CASE conn'[s].peer = "proxy"
  <2>1. /\ conn'[s].peer = conn[s].peer /\ conn'[s].lapsed = conn[s].lapsed
        /\ conn'[s].owner = conn[s].owner
    BY <1>2, <1>6 DEF Goes, IsClosed
  <2>2. Redirected(s) /\ failures' = 0 => owned'[s] = {conn[s].owner}
    BY <1>0, <1>1, AskedOwner
  <2>3. s \in DOMAIN table' /\ table'[s].port = PeerPort /\ table'[s].age = 0
    BY <1>1, <1>2, <1>3, <1>6
  <2>4. Translated(s) /\ failures' = 0 /\ conn[s].peer = "proxy"
           => "wrong" \notin conn'[s].faults
    BY <1>0, <1>1, <1>2 DEF Used
  <2>5. Used(s)'
    BY <1>0, <1>1, <1>2, <2>1, <2>2, <2>3, <2>4, SelfUsed
  <2> QED
    BY <1>4, <2>5 DEF UsedInv
<1> QED
  BY <1>5, <1>6

\* A client's packet is translated, and refreshes the entry.
LEMMA ClientSendsUsed ==
  ASSUME IInv, TableInv, ListedInv, UsedInv, NEW s \in Sessions,
         NEW flag \in {"data", "fin"}, ClientSends(s, flag)
  PROVE  UsedInv'
<1>0. Shape /\ Keys /\ Entries /\ Conns /\ Known /\ ListedExactly /\ Used(s)
  BY DEF IInv, TableInv, ListedInv, UsedInv
<1>1. PICK p, r : /\ p = FromClient(s, flag) /\ Moved(s, p, r)
                  /\ UNCHANGED served
                  /\ \/ IsClosed(conn'[s])
                     \/ /\ flag = "data" /\ conn'[s].age = 0
                        /\ conn'[s].peer = conn[s].peer
                        /\ "wrong" \in conn'[s].faults =>
                             \/ "wrong" \in conn[s].faults
                             \/ /\ served[s].st # "none" /\ ~conn[s].lapsed
                                /\ ~(r.revert /\ r.packet =
                                       ToServed(s, served[s].port, flag))
  BY <1>0, ClientSendsMoved
<1>2. /\ r \in Outcomes(FromClient(s, flag), SystemTable) /\ Named(SystemTable) /\ Named(cached)
      /\ Stays /\ Goes(conn[s], conn'[s]) /\ table' = r.table
      /\ failures' = 0 => failures = 0
  BY <1>0, <1>1, MovedFacts
<1>3. /\ \A t \in Sessions \ {s} : SameEntry(table, r.table, t)
      /\ r.revert /\ flag # "fin" =>
           /\ s \in DOMAIN r.table /\ r.table[s].age = 0
           /\ \/ r.table[s].port = PeerPort
              \/ flag # "syn" /\ s \in DOMAIN table /\ r.table[s].port = table[s].port
  BY <1>0, <1>2, ClientEntries
<1>4. ASSUME NEW t \in Sessions \ {s} PROVE Used(t)'
  BY <1>0, <1>1, <1>3, OthersUsed
<1>5. CASE conn'[s].peer # "proxy"
  BY <1>4, <1>5, ClosedUsed DEF UsedInv
<1>6. CASE conn'[s].peer = "proxy"
  <2>1. /\ conn'[s].peer = conn[s].peer /\ conn'[s].lapsed = conn[s].lapsed
        /\ conn'[s].owner = conn[s].owner /\ flag = "data" /\ conn'[s].age = 0
    <3>1. ~IsClosed(conn'[s])
      BY <1>6 DEF IsClosed
    <3>2. conn'[s].age = 0 /\ flag = "data" /\ conn'[s].peer = conn[s].peer
      BY <1>1, <3>1
    <3> QED
      BY <1>2, <3>1, <3>2 DEF Goes
  <2>2. ASSUME Redirected(s), failures' = 0, Translated(s)
        PROVE  /\ owned'[s] = {conn[s].owner} /\ r.revert
               /\ r.packet = ToServed(s, ProxyOf(order, router, conn[s].owner), flag)
    <3>1. /\ Looked(p) /\ r.cached[ClientKey(s)] = conn[s].owner
          /\ owned'[s] = {conn[s].owner}
      BY <1>0, <1>1, <2>2, AskedOwner
    <3>2. Ours(s) /\ InTable(s)
      BY <1>0, <2>2 DEF Used
    <3>3. PICK port : port = ProxyPortTcp(r.cached[ClientKey(s)])
      OBVIOUS
    <3>4. port = ProxyOf(order, router, conn[s].owner) /\ port # Unset
      BY <3>1, <3>2, <3>3, Configured DEF Ours
    <3>5. Looked(FromClient(s, flag))
      BY <1>1, <3>1
    <3>6. /\ r.revert => port # Unset /\ r.packet = ToServed(s, port, flag)
          /\ port # Unset => (r.revert <=> (flag = "syn" <=> s \notin DOMAIN table))
      BY <1>0, <1>2, <3>3, <3>5, ClientPacket
    <3>7. r.revert
      BY <2>1, <3>2, <3>4, <3>6 DEF InTable
    <3> QED
      BY <3>1, <3>4, <3>6, <3>7
  <2>3. ASSUME Redirected(s), failures' = 0 PROVE owned'[s] = {conn[s].owner}
    BY <1>0, <1>1, <2>3, AskedOwner
  <2>4. ASSUME Redirected(s), failures' = 0, Translated(s)
        PROVE  s \in DOMAIN table' /\ table'[s].port = PeerPort /\ table'[s].age = 0
    <3>1. r.revert /\ InTable(s)
      BY <1>0, <2>2, <2>4 DEF Used
    <3> QED
      BY <1>2, <1>3, <2>1, <3>1 DEF InTable
  <2>5. ASSUME Translated(s), failures' = 0, conn[s].peer = "proxy", "wrong" \in conn'[s].faults
        PROVE  FALSE
    <3>1. "wrong" \notin conn[s].faults /\ failures = 0
      BY <1>0, <1>2, <2>5 DEF Used
    <3>2. /\ served[s].st # "none" /\ ~conn[s].lapsed
          /\ ~(r.revert /\ r.packet = ToServed(s, served[s].port, flag))
      BY <1>1, <1>6, <2>5, <3>1 DEF IsClosed
    <3>3. Redirected(s) /\ Ours(s)
      BY <1>0, <2>5, <3>1, <3>2 DEF Redirected, Used
    <3>4. r.revert /\ r.packet = ToServed(s, served[s].port, flag)
      BY <2>2, <2>5, <3>2, <3>3 DEF Ours
    <3> QED
      BY <3>2, <3>4
  <2>6. Used(s)'
    BY <1>0, <1>1, <1>2, <2>1, <2>3, <2>4, <2>5, SelfUsed
  <2> QED
    BY <1>4, <2>6 DEF UsedInv
<1> QED
  BY <1>5, <1>6
-----------------------------------------------------------------------------
\* What the local proxy sends: if the filters leave this program alone, it is
\* translated for the client by the entry of its session.
LEMMA ServedPacket ==
  ASSUME Settings, Entries, Conns, Known, ListedExactly, ~Shadowed(router),
         NEW s \in Sessions, NEW flag, NEW p, NEW r,
         p = FromServed(s, flag), Moved(s, p, r)
  PROVE  /\ \A t \in Sessions \ {s} : SameEntry(table, r.table, t)
         /\ Looked(p) /\ IsTcpProxyPort(served[s].port) /\ s \in DOMAIN table
              => /\ r.revert
                 /\ table[s].port = PeerPort => r.packet = ToClient(s, flag)
                 /\ flag # "fin" => /\ s \in DOMAIN r.table /\ r.table[s].age = 0
                                    /\ r.table[s].port = table[s].port
<1>1. /\ p.src = Me /\ p.sport = served[s].port /\ p.dst = s[1] /\ p.dport = s[2]
      /\ p.flag = flag /\ p.protocol = "tcp" /\ s = <<s[1], s[2]>>
  BY DEF FromServed, Packet, Sessions
<1>2. /\ r \in Outcomes(p, SystemTable) /\ Named(SystemTable) /\ Named(cached)
      /\ failures \in Nat /\ cached' = r.cached
      /\ failures' = IF Fails(r, p, SystemTable) THEN failures + 1 ELSE failures
  BY MovedFacts
<1>3. CASE ~Looked(p)
  <2>1. r.table = table
    BY <1>2, <1>3, PassedFacts
  <2> QED
    BY <1>3, <2>1 DEF SameEntry
<1>4. CASE Looked(p)
  <2>1. Key(p) \in DOMAIN r.cached
    BY <1>2, <1>4, CopiedFacts
  <2>2. Key(p) \notin {ClientKey(t) : t \in Sessions}
    BY KeyFacts
  <2>3. Known'
    BY MovedListed
  <2>4. r.cached[Key(p)] \in {Self, System}
    <3>1. \A k \in DOMAIN cached' : k \notin {ClientKey(t) : t \in Sessions} =>
             cached'[k] \in {Self, System}
      BY <2>3 DEF Known, ClientKey
    <3> QED
      BY <1>2, <2>1, <2>2, <3>1
  <2>5. ServersListing(Self) = {} /\ ServersListing(System) = {}
    BY Configured DEF SelfShadowed
  <2>6. ProxyPortTcp(Self) = Unset /\ ProxyPortTcp(System) = Unset
    BY <2>5, ProxyFacts
  <2>7. PICK port : port = ProxyPortTcp(r.cached[Key(p)])
    OBVIOUS
  <2>8. port = Unset
    BY <2>4, <2>6, <2>7
  <2>9. /\ IsTcpProxyPort(p.sport) => Does(r, ServerToClient(table, p))
        /\ ~IsTcpProxyPort(p.sport) => r.table = table
    BY <1>2, <1>4, <2>7, <2>8, CallbackFacts
  <2>10. CASE ~IsTcpProxyPort(p.sport)
    BY <1>1, <2>9, <2>10 DEF SameEntry
  <2>11. CASE IsTcpProxyPort(p.sport) /\ s \notin DOMAIN table
    <3>1. r.table = table
      BY <1>1, <2>9, <2>11 DEF Does, ServerToClient, Result
    <3> QED
      BY <2>11, <3>1 DEF SameEntry
  <2>12. CASE IsTcpProxyPort(p.sport) /\ s \in DOMAIN table
    <3> DEFINE q == [p EXCEPT !.src = p.dst, !.dst = p.src, !.sport = table[s].port]
               u == ToClient(s, flag)
               V == {"tcp", Me, s[1], s[2], PeerPort, served[s].port, flag}
               R == [protocol : V, src : V, sport : V, dst : V, dport : V, flag : V]
    <3>0. s = <<p.dst, p.dport>> /\ p.flag = flag
      BY <1>1
    <3>a. Does(r, ServerToClient(table, p))
      BY <2>9, <2>12
    <3>b. ServerToClient(table, p) = Result(TRUE, Touch(table, s, flag), q)
      BY <3>0, <2>12 DEF ServerToClient
    <3>c. /\ Result(TRUE, Touch(table, s, flag), q).done = TRUE
          /\ Result(TRUE, Touch(table, s, flag), q).packet = q
          /\ Result(TRUE, Touch(table, s, flag), q).table = Touch(table, s, flag)
      <4> HIDE DEF q
      <4> QED
        BY DEF Result
    <3>1. (r.revert <=> TRUE) /\ r.packet = q /\ r.table = Touch(table, s, flag)
      <4> HIDE DEF q
      <4> QED
        BY <3>a, <3>b, <3>c DEF Does
    <3>2. p \in R
      BY DEF FromServed, Packet
    <3>3. ASSUME table[s].port = PeerPort PROVE q = u
      <4>1. /\ u.protocol = "tcp" /\ u.src = s[1] /\ u.sport = PeerPort /\ u.dst = Me
            /\ u.dport = s[2] /\ u.flag = flag /\ u \in R
        BY DEF ToClient, Packet
      <4> HIDE DEF u
      <4>2. /\ q.protocol = "tcp" /\ q.src = s[1] /\ q.sport = PeerPort /\ q.dst = Me
            /\ q.dport = s[2] /\ q.flag = flag /\ q \in R
        BY <1>1, <3>2, <3>3
      <4> HIDE DEF q, V
      <4> QED
        BY <4>1, <4>2
    <3> HIDE DEF q, V
    <3>4. DOMAIN table[s] = {"port", "age"}
      BY <2>12 DEF Entries
    <3>5. /\ \A k : k # s => SameEntry(table, Touch(table, s, flag), k)
          /\ flag # "fin" => /\ s \in DOMAIN Touch(table, s, flag)
                             /\ Touch(table, s, flag)[s].port = table[s].port
                             /\ Touch(table, s, flag)[s].age = 0
      BY <2>12, <3>4, TouchFacts
    <3> QED
      BY <3>1, <3>3, <3>5
  <2> QED
    BY <2>10, <2>11, <2>12
<1> QED
  BY <1>3, <1>4

\* A local proxy's packet is translated, and refreshes the entry.
LEMMA ServedSendsUsed ==
  ASSUME IInv, Settings, TableInv, ListedInv, UsedInv, NEW s \in Sessions,
         NEW flag \in {"synack", "data", "fin"}, ServedSends(s, flag)
  PROVE  UsedInv'
<1>0. Shape /\ Keys /\ Entries /\ Conns /\ Known /\ ListedExactly /\ Used(s)
  BY DEF IInv, TableInv, ListedInv, UsedInv
<1>1. PICK p, r : /\ p = FromServed(s, flag) /\ Moved(s, p, r)
                  /\ served[s].st # "none"
                  /\ served'[s] \in {served[s], Unserved}
                  /\ \A t \in Sessions \ {s} : served'[t] = served[t]
                  /\ \/ IsClosed(conn'[s])
                     \/ conn[s].peer # "proxy" /\ conn'[s] = conn[s]
                     \/ /\ conn'[s].age = 0 /\ conn'[s].peer = conn[s].peer
                        /\ flag = "fin" => ~(r.revert /\ r.packet = ToClient(s, flag))
                        /\ "wrong" \in conn'[s].faults =>
                             \/ "wrong" \in conn[s].faults
                             \/ /\ ~conn[s].lapsed
                                /\ ~(r.revert /\ r.packet = ToClient(s, flag))
                     \/ conn[s].st = "closed" /\ conn'[s] = conn[s]
  BY <1>0, ServedSendsMoved
<1>2. /\ Stays /\ Goes(conn[s], conn'[s]) /\ table' = r.table
      /\ failures' = 0 => failures = 0
      /\ owned'[s] \in {owned[s], {conn[s].owner} \ {NoProcess}}
  BY <1>0, <1>1, MovedFacts
<1>3. ASSUME ~Shadowed(router)
      PROVE  /\ \A t \in Sessions \ {s} : SameEntry(table, r.table, t)
             /\ Looked(p) /\ IsTcpProxyPort(served[s].port) /\ s \in DOMAIN table
                  => /\ r.revert
                     /\ table[s].port = PeerPort => r.packet = ToClient(s, flag)
                     /\ flag # "fin" => /\ s \in DOMAIN r.table /\ r.table[s].age = 0
                                        /\ r.table[s].port = table[s].port
  BY <1>0, <1>1, <1>3, ServedPacket
<1>4. ASSUME NEW t \in Sessions \ {s} PROVE Used(t)'
  BY <1>0, <1>1, <1>3, OthersUsed DEF Translated
<1>5. CASE conn'[s].peer # "proxy"
  BY <1>4, <1>5, ClosedUsed DEF UsedInv
<1>6. CASE conn'[s].peer = "proxy"
  <2>1. /\ conn'[s].age = 0 /\ conn'[s].peer = conn[s].peer
        /\ flag = "fin" => ~(r.revert /\ r.packet = ToClient(s, flag))
        /\ "wrong" \in conn'[s].faults =>
             \/ "wrong" \in conn[s].faults
             \/ /\ ~conn[s].lapsed
                /\ ~(r.revert /\ r.packet = ToClient(s, flag))
    BY <1>0, <1>1, <1>6 DEF IsClosed, Conns
  <2>2. conn'[s].lapsed = conn[s].lapsed /\ conn'[s].owner = conn[s].owner
    BY <1>2, <1>6 DEF Goes, IsClosed
  <2>3. ASSUME Redirected(s), failures' = 0, Translated(s)
        PROVE  /\ Looked(p) /\ IsTcpProxyPort(served[s].port)
               /\ s \in DOMAIN table /\ table[s].port = PeerPort
    <3>1. Ours(s) /\ InTable(s) /\ started
      BY <1>0, <2>3 DEF Used, Redirected, Conns
    <3>2. p.protocol = "tcp" /\ <<p.dst, p.dport>> = s
      BY <1>1 DEF FromServed, Packet, Sessions
    <3>3. s \notin Endpoints
      BY <2>3, Configured DEF Translated
    <3>4. Looked(p)
      BY <3>1, <3>2, <3>3, EndpointFacts DEF Looked
    <3>5. served[s].port = ProxyPortTcp(conn[s].owner) /\ ProxyPortTcp(conn[s].owner) # Unset
      BY <1>1, <3>1, Configured DEF Ours
    <3>6. PICK i \in ServersListing(conn[s].owner) :
             router.servers[i].tcp = ProxyPortTcp(conn[s].owner)
      BY <3>5, ProxyFacts
    <3>7. IsTcpProxyPort(served[s].port)
      BY <3>5, <3>6 DEF IsTcpProxyPort, ServersListing
    <3> QED
      BY <3>1, <3>4, <3>7 DEF InTable
  <2>4. ASSUME Redirected(s), failures' = 0, Translated(s)
        PROVE  r.revert /\ r.packet = ToClient(s, flag)
    BY <1>3, <2>3, <2>4 DEF Translated
  <2>5. ASSUME Redirected(s), failures' = 0, Translated(s)
        PROVE  s \in DOMAIN table' /\ table'[s].port = PeerPort /\ table'[s].age = 0
    <3>1. flag # "fin"
      BY <2>1, <2>4, <2>5
    <3> QED
      BY <1>2, <1>3, <2>3, <2>5, <3>1 DEF Translated
  <2>6. ASSUME Redirected(s), failures' = 0 PROVE owned'[s] = {conn[s].owner}
    <3>1. Ours(s) /\ conn[s].owner # NoProcess
      BY <1>0, <2>6, PortsAssumption DEF Used, Redirected, Conns
    <3> QED
      BY <1>2, <3>1 DEF Ours
  <2>7. ASSUME Translated(s), failures' = 0, conn[s].peer = "proxy", "wrong" \in conn'[s].faults
        PROVE  FALSE
    <3>1. "wrong" \notin conn[s].faults /\ failures = 0
      BY <1>0, <1>2, <2>7 DEF Used
    <3>2. ~conn[s].lapsed /\ ~(r.revert /\ r.packet = ToClient(s, flag))
      BY <2>1, <2>7, <3>1
    <3>3. Redirected(s)
      BY <2>7, <3>1, <3>2 DEF Redirected
    <3> QED
      BY <2>4, <2>7, <3>2, <3>3
  <2>8. served'[s] = served[s] \/ served'[s].st = "none"
    BY <1>1 DEF Unserved
  <2>9. Used(s)'
    BY <1>0, <1>2, <2>1, <2>2, <2>5, <2>6, <2>7, <2>8, SelfUsed
  <2> QED
    BY <1>4, <2>9 DEF UsedInv
<1> QED
  BY <1>5, <1>6
-----------------------------------------------------------------------------
\* A connection that is redirected starts with an entry of its own.
LEMMA OpenUsed ==
  ASSUME IInv, Settings, TableInv, ListedInv, UsedInv, NEW s \in Sessions,
         NEW x \in Processes, Open(s, x)
  PROVE  UsedInv'
<1>0. Shape /\ Keys /\ Entries /\ Conns /\ Known
  BY DEF IInv, TableInv, ListedInv
<1>1. PICK p, sys, r, owners : Opened(s, x, p, sys, r, owners)
  BY <1>0, OpenOpened
<1>2. /\ p = FromClient(s, "syn") /\ Asked(s, x, p, sys, r, owners) /\ r \in Outcomes(p, sys)
      /\ table' = r.table /\ Stays
      /\ \A t \in Sessions \ {s} : conn'[t] = conn[t] /\ served'[t] = served[t]
      /\ conn'[s].owner = x /\ conn'[s].age = 0
      /\ conn'[s].lapsed = (owners # {x})
      /\ conn'[s].peer = IF r.revert THEN "proxy" ELSE "direct"
      /\ r.revert => served'[s].port = r.packet.dport
      /\ "wrong" \notin conn'[s].faults
  BY <1>1 DEF Opened, Asked
<1>3. /\ Named(sys) /\ (failures' = 0 => failures = 0)
      /\ \A t \in Sessions \ {s} :
           owned'[t] \in {owned[t], {conn[t].owner} \ {NoProcess}}
      /\ Looked(p) => /\ owned'[s] = owners
                      /\ r.cached[ClientKey(s)] \in owners \cup Assumed'
  BY <1>0, <1>2, OpenKnown
<1>4. Named(cached)
  BY <1>0, CachedNamed
<1>5. /\ \A t \in Sessions \ {s} : SameEntry(table, r.table, t)
      /\ r.revert /\ "syn" # "fin" =>
           /\ s \in DOMAIN r.table /\ r.table[s].age = 0
           /\ \/ r.table[s].port = PeerPort
              \/ "syn" # "syn" /\ s \in DOMAIN table /\ r.table[s].port = table[s].port
      /\ r.revert => Looked(FromClient(s, "syn"))
  BY <1>0, <1>2, <1>3, <1>4, ClientEntries
<1>6. ASSUME NEW t \in Sessions \ {s} PROVE Used(t)'
  <2>1. Used(t)
    BY DEF UsedInv
  <2> QED
    BY <1>0, <1>2, <1>3, <1>5, <2>1, OtherUsed
<1>7. CASE ~r.revert
  <2>1. Used(s)'
    BY <1>2, <1>7, ClosedUsed
  <2> QED
    BY <1>6, <2>1 DEF UsedInv
<1>8. CASE r.revert
  <2>1. Looked(p) /\ Looked(FromClient(s, "syn"))
    BY <1>2, <1>5, <1>8
  <2>2. PICK port : port = ProxyPortTcp(r.cached[ClientKey(s)])
    OBVIOUS
  <2>3. port # Unset /\ r.packet = ToServed(s, port, "syn")
    BY <1>0, <1>2, <1>3, <1>4, <1>8, <2>1, <2>2, ClientPacket
  <2>4. served'[s].port = port
    BY <1>2, <1>8, <2>3 DEF ToServed, Packet
  <2>5. UNCHANGED <<started, router, shown, order>>
    BY <1>2 DEF Stays
  <2>6. ASSUME Redirected(s)' PROVE Ours(s)'
    <3>0. failures' = 0 /\ ~conn'[s].lapsed
      BY <2>6 DEF Redirected
    <3>a. owners = {x}
      BY <1>2, <3>0
    <3>b. Assumed' = {}
      BY <3>0 DEF Assumed
    <3>1. owners = {x} /\ Assumed' = {}
      BY <3>a, <3>b
    <3>2. owned'[s] = {x} /\ r.cached[ClientKey(s)] = x
      BY <1>3, <2>1, <3>1
    <3>3. port = ProxyOf(order', router', x)
      BY <2>2, <2>5, <3>2, Configured
    <3>4. Verdict(router'.statics, "out", FromClient(s, "syn")) = "redirect"
      BY <2>1, <2>5 DEF Looked
    <3> QED
      BY <1>2, <2>3, <2>4, <3>2, <3>3, <3>4 DEF Ours
  <2>7. InTable(s)'
    <3>1. s \in DOMAIN table' /\ table'[s].age = 0 /\ table'[s].port = PeerPort
          /\ conn'[s].age = 0
      BY <1>2, <1>5, <1>8
    <3>2. 0 \in Nat /\ 0 < Expired
      BY DEF Expired
    <3> QED
      BY <3>1, <3>2 DEF InTable
  <2>8. Used(s)'
    BY <1>2, <2>6, <2>7 DEF Used
  <2> QED
    BY <1>6, <2>8 DEF UsedInv
<1> QED
  BY <1>7, <1>8
-----------------------------------------------------------------------------
\* Time passes for the entry as for the connection.
LEMMA TickUsed ==
  ASSUME IInv, TableInv, ListedInv, UsedInv, Tick
  PROVE  UsedInv'
<1>0. Shape /\ Entries /\ Conns
  BY DEF IInv, TableInv, ListedInv
<1> SUFFICES ASSUME NEW s \in Sessions PROVE Used(s)'
  BY DEF UsedInv
<1>1. Used(s) /\ conn[s].age \in Nat
  BY <1>0 DEF UsedInv, Conns, Expired
<1>2. /\ Stays /\ UNCHANGED <<served, owned, failures>> /\ table' = Age(table)
  BY DEF Tick, Stays, uiVars
<1> DEFINE a == IF conn[s].age < Expired THEN conn[s].age + 1 ELSE conn[s].age
           b == conn[s].lapsed \/ conn[s].age + 1 >= Expired
           e == [conn[s] EXCEPT !.age = a, !.lapsed = b]
<1>3. conn'[s] = IF conn[s].peer # "proxy" THEN conn[s] ELSE e
  BY DEF Tick
<1>4. ASSUME conn[s].peer = "proxy" PROVE Used(s)'
  <2>1. DOMAIN conn[s] = {"st", "owner", "peer", "age", "lapsed", "faults"}
    BY <1>0, AliveFacts DEF Shape
  <2>2. /\ e.owner = conn[s].owner /\ e.peer = conn[s].peer
        /\ e.faults = conn[s].faults /\ e.age = a
    <3> HIDE DEF a, b
    <3> QED
      BY <2>1
  <2>3. e.lapsed <=> b
    <3> HIDE DEF a, b
    <3>1. e.lapsed = b
      BY <2>1
    <3> QED
      BY <3>1
  <2> HIDE DEF e
  <2>4. /\ conn'[s].owner = conn[s].owner /\ conn'[s].peer = "proxy"
        /\ conn'[s].faults = conn[s].faults /\ conn'[s].age = a
    BY <1>3, <1>4, <2>2
  <2>5. conn'[s].lapsed <=> b
    BY <1>3, <1>4, <2>3
  <2>6. ASSUME Redirected(s)' PROVE Redirected(s) /\ conn[s].age + 1 < Expired
    <3>1. ~b
      BY <2>5, <2>6 DEF Redirected
    <3>2. ~conn[s].lapsed /\ ~(conn[s].age + 1 >= Expired)
      BY <3>1
    <3>3. conn[s].age + 1 < Expired
      BY <1>1, <3>2 DEF Expired
    <3> QED
      BY <1>2, <1>4, <2>6, <3>2, <3>3 DEF Redirected
  <2>7. ASSUME Redirected(s)' PROVE Ours(s)'
    <3>1. Ours(s)
      BY <1>1, <2>6, <2>7 DEF Used
    <3> QED
      BY <1>2, <2>4, <3>1 DEF Ours, Stays
  <2>8. ASSUME Redirected(s)', Translated(s)' PROVE InTable(s)'
    <3>1. InTable(s) /\ conn[s].age + 1 < Expired
      BY <1>1, <1>2, <2>6, <2>8 DEF Used, Translated, Stays
    <3>2. DOMAIN table[s] = {"port", "age"} /\ table[s].age < Expired
      BY <1>0, <1>1, <3>1 DEF InTable, Entries, Expired
    <3>3. /\ DOMAIN table' = DOMAIN table
          /\ table'[s].port = table[s].port /\ table'[s].age = table[s].age + 1
      BY <1>2, <3>1, <3>2 DEF Age, InTable
    <3>4. conn'[s].age = conn[s].age + 1
      BY <1>1, <2>4, <3>1 DEF Expired
    <3> QED
      BY <1>1, <3>1, <3>3, <3>4 DEF InTable, Expired
  <2>9. Translated(s)' /\ failures' = 0 => "wrong" \notin conn'[s].faults
    BY <1>1, <1>2, <1>4, <2>4 DEF Used, Translated, Stays
  <2> QED
    BY <2>7, <2>8, <2>9 DEF Used
<1>5. CASE conn[s].peer # "proxy"
  BY <1>3, <1>5, ClosedUsed
<1> QED
  BY <1>4, <1>5

\* The cleanup thread leaves entries that are younger than 5 minutes.
LEMMA CleanupUsed ==
  ASSUME ListedInv, UsedInv, CleanupThread
  PROVE  UsedInv'
<1> SUFFICES ASSUME NEW s \in Sessions PROVE Used(s)'
  BY DEF UsedInv
<1>1. Used(s) /\ conn[s].age \in Nat
  BY DEF UsedInv, ListedInv, Conns, Expired
<1>2. /\ Stays /\ UNCHANGED <<conn, served, owned, failures>> /\ table' = Cleanup(table)
  BY DEF CleanupThread, Stays, uiVars
<1>3. /\ Redirected(s)' <=> Redirected(s)
      /\ Translated(s)' <=> Translated(s)
  BY <1>2 DEF Redirected, Translated, Stays
<1>4. Ours(s) => Ours(s)'
  BY <1>2 DEF Ours, Stays
<1>5. ASSUME InTable(s) PROVE InTable(s)'
  <2>1. s \in DOMAIN table' /\ table'[s] = table[s]
    BY <1>1, <1>2, <1>5 DEF Cleanup, InTable, Expired
  <2> QED
    BY <1>2, <1>5, <2>1 DEF InTable
<1> QED
  BY <1>1, <1>2, <1>3, <1>4, <1>5 DEF Used
-----------------------------------------------------------------------------
\* The steps of the accept side, of the buttons and of a client that gives up.
LEMMA AcceptUsed ==
  ASSUME IInv, ListedInv, UsedInv, Accept
  PROVE  UsedInv'
<1>0. Shape /\ Conns
  BY DEF IInv, ListedInv
<1>1. PICK s : s = Head(queue)
  OBVIOUS
<1>2. s \in Sessions /\ served[s].st = "waiting"
  <2>1. queue \in Seq(Sessions) /\ queue # << >>
    BY DEF Accept, IInv, Shape
  <2>2. Len(queue) \in Nat /\ 1 \in 1 .. Len(queue) /\ s = queue[1]
    BY <1>1, <2>1
  <2> QED
    BY <2>1, <2>2 DEF IInv, Queued
<1>3. /\ Stays /\ UNCHANGED <<table, conn, owned, failures>>
  BY DEF Accept, Stays, uiVars
<1>4. /\ \A t \in Sessions \ {s} : served'[t] = served[t]
      /\ served'[s].st = "none" \/ served'[s].port = served[s].port
  <2>1. DOMAIN served[s] = {"st", "port", "target"}
    BY <1>0, <1>2 DEF Shape, Unserved
  <2>2. CASE served' = [served EXCEPT ![s] = Unserved]
    BY <1>0, <1>2, <2>2 DEF Shape, Unserved
  <2>3. CASE served' = [served EXCEPT ![s].st = "dialing", ![s].target = mapper[s[2]]]
    BY <1>0, <1>2, <2>1, <2>3 DEF Shape
  <2> QED
    BY <1>1, <2>2, <2>3 DEF Accept
<1>5. ASSUME NEW t \in Sessions PROVE Used(t)'
  <2>1. /\ Used(t) /\ conn'[t] = conn[t] /\ owned'[t] = owned[t]
        /\ failures' = failures /\ SameEntry(table, table', t)
    BY <1>3 DEF UsedInv, SameEntry
  <2>2. \/ served'[t] = served[t] \/ served'[t].st = "none"
        \/ served[t].st # "none" /\ served'[t].port = served[t].port
    BY <1>2, <1>4
  <2> QED
    BY <1>0, <1>3, <2>1, <2>2, OtherUsed
<1> QED
  BY <1>5 DEF UsedInv

\* The connection to the SOCKS server concerns no session of a program.
LEMMA DialUsed ==
  ASSUME IInv, Settings, ListedInv, UsedInv, NEW s \in Sessions, Dial(s)
  PROVE  UsedInv'
<1>0. Shape /\ Conns
  BY DEF IInv, ListedInv
<1>1. /\ Stays /\ UNCHANGED <<table, conn, owned, failures>>
      /\ served[s].st # "none" /\ served' = [served EXCEPT ![s].st = "relaying"]
  BY DialFacts DEF Stays
<1>2. DOMAIN served[s] = {"st", "port", "target"}
  BY <1>0 DEF Shape, Unserved
<1>3. served'[s].port = served[s].port /\ \A t \in Sessions \ {s} : served'[t] = served[t]
  BY <1>0, <1>1, <1>2 DEF Shape
<1>4. ASSUME NEW t \in Sessions PROVE Used(t)'
  <2>1. /\ Used(t) /\ conn'[t] = conn[t] /\ owned'[t] = owned[t]
        /\ failures' = failures /\ SameEntry(table, table', t)
    BY <1>1 DEF UsedInv, SameEntry
  <2>2. \/ served'[t] = served[t]
        \/ served[t].st # "none" /\ served'[t].port = served[t].port
    BY <1>1, <1>3
  <2> QED
    BY <1>0, <1>1, <2>1, <2>2, OtherUsed
<1> QED
  BY <1>4 DEF UsedInv

\* Giving up leaves the entry.
LEMMA GiveUpUsed ==
  ASSUME IInv, ListedInv, UsedInv, NEW s \in Sessions, GiveUp(s)
  PROVE  UsedInv'
<1>0. Shape /\ Conns
  BY DEF IInv, ListedInv
<1>1. /\ Stays /\ UNCHANGED <<table, served, owned, failures>>
      /\ conn' = [conn EXCEPT ![s] = Closed]
  BY DEF GiveUp, Stays, uiVars
<1>2. Used(s)'
  <2>1. conn'[s].peer # "proxy"
    BY <1>0, <1>1, ClosedIsClosed DEF Shape, IsClosed
  <2> QED
    BY <2>1, ClosedUsed
<1>3. ASSUME NEW t \in Sessions \ {s} PROVE Used(t)'
  <2>1. /\ Used(t) /\ conn'[t] = conn[t] /\ owned'[t] = owned[t] /\ served'[t] = served[t]
        /\ failures' = failures /\ SameEntry(table, table', t)
    BY <1>1 DEF UsedInv, SameEntry
  <2> QED
    BY <1>0, <1>1, <2>1, OtherUsed
<1> QED
  BY <1>2, <1>3 DEF UsedInv

\* Editing the list leaves a started router alone; stopping closes what it served.
LEMMA ButtonsUsed ==
  ASSUME ListedInv, UsedInv, EditList \/ Start \/ Stop
  PROVE  UsedInv'
<1>0. Conns
  BY DEF ListedInv
<1> SUFFICES ASSUME NEW s \in Sessions PROVE Used(s)'
  BY DEF UsedInv
<1>1. CASE EditList
  <2>1. Stays
    BY <1>1 DEF EditList, Stays, Edit, AddProxyItem, EditProxy, EditFilters, DeleteItem,
                EditsList
  <2>2. UNCHANGED <<table, conn, served, owned, failures>>
    BY <1>1 DEF EditList, netVars
  <2> QED
    BY <1>0, <2>1, <2>2, OtherUsed DEF UsedInv, SameEntry
<1>2. CASE Start
  <2>1. ~started /\ UNCHANGED conn
    BY <1>2 DEF Start, StartButton, netVars
  <2>2. conn'[s].peer # "proxy"
    BY <1>0, <2>1 DEF Conns
  <2> QED
    BY <2>2, ClosedUsed
<1>3. CASE Stop
  <2>1. conn'[s].peer # "proxy"
    BY <1>3, ClosedIsClosed DEF Stop, IsClosed
  <2> QED
    BY <2>1, ClosedUsed
<1> QED
  BY <1>1, <1>2, <1>3
-----------------------------------------------------------------------------
\* Each step preserves it.
LEMMA NextUsed ==
  ASSUME IInv, Settings, TableInv, ListedInv, UsedInv, [Next]_vars PROVE UsedInv'
<1>1. ASSUME NEW s \in Sessions, NEW x \in Processes, Open(s, x) PROVE UsedInv'
  BY <1>1, OpenUsed
<1>2. ASSUME NEW s \in Sessions, Repeat(s) PROVE UsedInv'
  BY <1>2, RepeatUsed
<1>3. ASSUME NEW s \in Sessions, NEW flag \in {"data", "fin"}, ClientSends(s, flag)
      PROVE  UsedInv'
  BY <1>3, ClientSendsUsed
<1>4. ASSUME NEW s \in Sessions, NEW flag \in {"synack", "data", "fin"}, ServedSends(s, flag)
      PROVE  UsedInv'
  BY <1>4, ServedSendsUsed
<1>5. ASSUME NEW s \in Sessions, GiveUp(s) \/ Dial(s) PROVE UsedInv'
  BY <1>5, GiveUpUsed, DialUsed
<1>6. CASE Accept \/ Tick \/ CleanupThread
  BY <1>6, AcceptUsed, TickUsed, CleanupUsed
<1>7. CASE EditList \/ Start \/ Stop
  BY <1>7, ButtonsUsed
<1>8. CASE UNCHANGED vars
  BY <1>8 DEF vars, uiVars, netVars, UsedInv, Used, Redirected, Ours, Translated, InTable,
              FromClient
<1> QED
  BY <1>1, <1>2, <1>3, <1>4, <1>5, <1>6, <1>7, <1>8 DEF Next

\* Nothing is connected at the start.
LEMMA InitUsed == ASSUME Init PROVE UsedInv
<1>1. \A s \in Sessions : conn[s].peer # "proxy"
  BY ClosedIsClosed DEF Init, IsClosed
<1> QED
  BY <1>1 DEF UsedInv, Used, Redirected

\* A connection that is redirected is its owner's, is served by the proxy that
\* lists its owner, and has an entry younger than the connection has been idle.
THEOREM RouterUsed == Spec => []UsedInv
<1>1. IInv /\ Settings /\ TableInv /\ ListedInv /\ UsedInv /\ [Next]_vars => UsedInv'
  BY NextUsed
<1> QED
  BY <1>1, InitUsed, RedirectInvariant, RouterSettings, RouterTable, RouterListed, PTL
     DEF Spec

\* A redirected connection is translated in both directions for as long as it is
\* in use, with the provisos of the property (tcp_local_redirect, the cleanup
\* thread and process_lookup together).
THEOREM RouterInUseIsTranslated == Spec => []InUseIsTranslated
<1>1. UsedInv => InUseIsTranslated
  BY Configured DEF UsedInv, Used, Translated, InUseIsTranslated
<1> QED
  BY <1>1, RouterUsed, PTL
=============================================================================
