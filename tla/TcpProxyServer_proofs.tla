----------------------- MODULE TcpProxyServer_proofs -----------------------
(***************************************************************************)
(* For any number of connections that the system can wait for in one call, *)
(* fewer than MaxWait with the event of the server itself: the connection  *)
(* adopted is the one that is ready, and every socket has one owner, who   *)
(* closes it once.  With more handles the first is wrong: see the run      *)
(* TcpProxyServer_many.                                                    *)
(*                                                                         *)
(* The invariant is about the index that the connect thread carries from   *)
(* its copy of the array to the array: nobody else removes entries, so the *)
(* copy is a prefix of the array and the index means the same in both.     *)
(***************************************************************************)
EXTENDS TcpProxyServer, FiniteSetTheorems, SequenceTheorems, TLAPS

FewHandles == IsFiniteSet(Conns) /\ Cardinality(Conns) + 1 < MaxWait

Array == 1 .. Len(pending)

Copied == {"wait", "woken", "reset", "adopt"}

Types ==
    /\ endServer \in BOOLEAN
    /\ pending \in Seq(Conns)
    /\ dialing \subseteq Conns /\ ready \subseteq dialing
    /\ live \subseteq sockets /\ sockets \subseteq Conns
    /\ local \in [Conns -> HandleStates] /\ remote \in [Conns -> HandleStates]
    /\ accept \in [pc : {"none", "top", "accept", "accepted", "query",
                         "connect", "exited"},
                   conn : Conns \cup {NoConn}]
    /\ dialer \in [pc : {"none", "top", "cleanup", "exited"} \cup Copied,
                   events : Seq(Conns), index : Int]
    /\ starts \in Nat

\* An entry of the array is there once, and not also a relay or in hand.
Entries ==
    /\ \A i, j \in Array : pending[i] = pending[j] => i = j
    /\ \A i \in Array : pending[i] \notin live

\* What the connect thread copied is still the beginning of the array, and the
\* index it found is that of a connection that is ready.
Copy ==
    /\ dialer.pc \in Copied =>
         /\ Len(dialer.events) =< Len(pending)
         /\ \A i \in 1 .. Len(dialer.events) : dialer.events[i] = pending[i]
    /\ dialer.pc \in {"woken", "adopt"} =>
         /\ dialer.index \in 0 .. Len(dialer.events)
         /\ dialer.index # 0 => dialer.events[dialer.index] \in ready
    /\ dialer.pc = "adopt" => dialer.index # 0

\* The connection in the hands of the accept thread.
Hand ==
    /\ accept.pc \in {"accepted", "query", "connect"} =>
         accept.conn \in Conns \ dialing
    /\ accept.pc \in {"accepted", "query"} =>
         /\ local[accept.conn] = "open" /\ remote[accept.conn] = "none"
         /\ \A i \in Array : pending[i] # accept.conn
    /\ accept.pc = "connect" =>
         (remote[accept.conn] = "open" => local[accept.conn] = "open")

\* A connection has its sockets before it is in the array, and one whose
\* connect() is under way or over has them, or had them, once.
Made ==
    /\ \A c \in Conns : local[c] = "none" => remote[c] = "none"
    /\ \A i \in Array : local[pending[i]] # "none" /\ remote[pending[i]] # "none"
    /\ \A c \in dialing : /\ local[c] \in {"open", "closed"}
                          /\ remote[c] \in {"open", "closed"}

\* It keeps them as long as it is in the array or a relay.
Kept ==
    /\ \A c \in live : c \in ready /\ local[c] = "open" /\ remote[c] = "open"
    /\ dialer.pc # "exited" =>
         \A i \in Array : pending[i] \in dialing =>
            local[pending[i]] = "open" /\ remote[pending[i]] = "open"

Phases ==
    /\ control # "idle" => endServer
    /\ endServer /\ control = "idle" =>
         /\ pending = <<>> /\ live = {}
         /\ accept.pc \in {"none", "exited"} /\ dialer.pc \in {"none", "exited"}
    /\ starts = 0 => endServer /\ control = "idle"
                     /\ \A c \in Conns : local[c] = "none" /\ remote[c] = "none"

Owned(c) ==
    /\ local[c] = "open" =>
          \/ accept.conn = c /\ accept.pc \in {"accepted", "query"}
          \/ c \in live \/ \E i \in Array : pending[i] = c
    /\ remote[c] = "open" => c \in live \/ \E i \in Array : pending[i] = c

Owners == ~endServer /\ starts = 1 => \A c \in Conns : Owned(c)

IInv == Types /\ Entries /\ Copy /\ Hand /\ Made /\ Kept /\ Phases /\ Owners
-----------------------------------------------------------------------------
\* What is known of the array after an entry has been erased.
LEMMA RemoveFacts ==
  ASSUME NEW S, NEW s \in Seq(S), NEW i \in 1 .. Len(s)
  PROVE  /\ RemoveAt(s, i) \in Seq(S)
         /\ Len(RemoveAt(s, i)) = Len(s) - 1
         /\ \A k \in 1 .. Len(s) - 1 :
              RemoveAt(s, i)[k] = IF k < i THEN s[k] ELSE s[k + 1]
<1>1. /\ SubSeq(s, 1, i - 1) \in Seq(S) /\ Len(SubSeq(s, 1, i - 1)) = i - 1
      /\ \A k \in 1 .. i - 1 : SubSeq(s, 1, i - 1)[k] = s[k]
  OBVIOUS
<1>2. /\ SubSeq(s, i + 1, Len(s)) \in Seq(S)
      /\ Len(SubSeq(s, i + 1, Len(s))) = Len(s) - i
      /\ \A k \in 1 .. Len(s) - i : SubSeq(s, i + 1, Len(s))[k] = s[i + k]
  OBVIOUS
<1> DEFINE u == SubSeq(s, 1, i - 1)
           v == SubSeq(s, i + 1, Len(s))
<1>3. /\ u \o v \in Seq(S) /\ Len(u \o v) = Len(u) + Len(v)
      /\ \A k \in 1 .. Len(u) + Len(v) :
           (u \o v)[k] = IF k =< Len(u) THEN u[k] ELSE v[k - Len(u)]
  BY <1>1, <1>2, ConcatProperties
<1>4. RemoveAt(s, i) = u \o v
  BY DEF RemoveAt
<1> HIDE DEF u, v
<1>5. /\ Len(u) = i - 1 /\ Len(v) = Len(s) - i
      /\ \A k \in 1 .. i - 1 : u[k] = s[k]
      /\ \A k \in 1 .. Len(s) - i : v[k] = s[i + k]
  BY <1>1, <1>2 DEF u, v
<1>6. Len(s) \in Nat
  OBVIOUS
<1>7. Len(u) + Len(v) = Len(s) - 1
  BY <1>5, <1>6
<1>8. ASSUME NEW k \in 1 .. Len(s) - 1
      PROVE  (u \o v)[k] = IF k < i THEN s[k] ELSE s[k + 1]
  <2>1. CASE k < i
    BY <1>3, <1>5, <1>6, <1>7, <2>1
  <2>2. CASE ~(k < i)
    <3>1. k - Len(u) \in 1 .. Len(s) - i /\ i + (k - Len(u)) = k + 1
      BY <1>5, <1>6, <2>2
    <3>2. (u \o v)[k] = v[k - Len(u)]
      BY <1>3, <1>5, <1>6, <1>7, <2>2
    <3> QED
      BY <1>5, <2>2, <3>1, <3>2
  <2> QED
    BY <2>1, <2>2
<1> QED
  BY <1>3, <1>4, <1>6, <1>7, <1>8

\* The number of entries, as no connection is in two of them.
LEMMA FewEntries ==
  ASSUME Types, Entries, FewHandles
  PROVE  1 + Len(pending) < MaxWait
<1>1. pending \in Injection(1 .. Len(pending), Conns)
  BY DEF Types, Entries, Array, Injection, IsInjective
<1>2. Cardinality(1 .. Len(pending)) =< Cardinality(Conns)
  BY <1>1, FS_Injection DEF FewHandles
<1>3. Cardinality(1 .. Len(pending)) = Len(pending)
  <2>1. Len(pending) \in Nat
    BY DEF Types
  <2> QED
    BY <2>1, FS_Interval, SMTT(30)
<1>4. Cardinality(Conns) \in Nat /\ Len(pending) \in Nat
  BY FS_CardinalityType DEF FewHandles, Types
<1> QED
  BY <1>2, <1>3, <1>4, MaxWaitAssumption DEF FewHandles

\* So few handles are waited for in one call, which returns one of them.
LEMMA WaitFacts ==
  ASSUME NEW S, NEW n \in Nat, n < MaxWait, NEW i \in WaitResults(S, n), i # Timeout
  PROVE  i \in 0 .. n - 1 /\ i \in S
BY MaxWaitAssumption DEF WaitResults, FirstSignalled
-----------------------------------------------------------------------------
\* A server that was never started.
LEMMA InitInv == ASSUME Init PROVE IInv
BY DEF Init, IInv, Types, Entries, Copy, Hand, Made, Kept, Phases, Owners,
       Owned, Array, Copied, HandleStates

\* Closing sockets leaves the others alone and makes no new ones.
LEMMA CloseFacts ==
  ASSUME NEW h \in [Conns -> HandleStates], NEW S
  PROVE  /\ CloseAll(h, S) \in [Conns -> HandleStates]
         /\ \A c \in Conns : /\ c \notin S => CloseAll(h, S)[c] = h[c]
                             /\ c \in S => CloseAll(h, S)[c] \in {"closed", "again"}
                             /\ c \in S /\ h[c] = "open" =>
                                  CloseAll(h, S)[c] = "closed"
BY DEF CloseAll, Close, HandleStates

\* The accept thread moves on with what it has in hand.
LEMMA AcceptWalks ==
  ASSUME IInv, AcceptTop \/ AcceptFails \/ AcceptChecked
  PROVE  IInv'
<1>1. Types'
  BY DEF IInv, Types, Array, AcceptTop, AcceptFails, AcceptChecked, AcceptAt,
     handles, relays
<1>2. Entries'
  BY DEF IInv, Types, Entries, Array, AcceptTop, AcceptFails, AcceptChecked,
     AcceptAt, handles, relays
<1>3. Copy'
  BY DEF IInv, Types, Copy, Copied, Array, AcceptTop, AcceptFails,
     AcceptChecked, AcceptAt, handles, relays
<1>4. Hand'
  BY DEF IInv, Types, Hand, Array, AcceptTop, AcceptFails, AcceptChecked,
     AcceptAt, handles, relays
<1>5. Made'
  BY DEF IInv, Types, Made, Array, AcceptTop, AcceptFails, AcceptChecked,
     AcceptAt, handles, relays
<1>6. Kept'
  BY DEF IInv, Types, Kept, Array, AcceptTop, AcceptFails, AcceptChecked,
     AcceptAt, handles, relays
<1>7. Phases'
  BY DEF IInv, Phases, Array, AcceptTop, AcceptFails, AcceptChecked, AcceptAt,
     handles, relays
<1>8. Owners'
  BY DEF IInv, Types, Phases, Owners, Owned, Array, AcceptTop, AcceptFails,
     AcceptChecked, AcceptAt, handles, relays, Hand
<1> QED
  BY <1>1, <1>2, <1>3, <1>4, <1>5, <1>6, <1>7, <1>8 DEF IInv

\* The connect thread copies the array, or moves on.
LEMMA DialerWalks ==
  ASSUME IInv, DialerTop \/ DialerWoken \/ ResetWake
  PROVE  IInv'
<1>1. dialer' \in [pc : {"none", "top", "cleanup", "exited"} \cup Copied,
                   events : Seq(Conns), index : Int]
  <2>1. CASE DialerTop
    BY <2>1 DEF DialerTop, IInv, Types, Copied
  <2>2. CASE DialerWoken
    BY <2>2 DEF DialerWoken, DialerAt, IInv, Types, Copied
  <2>3. CASE ResetWake
    BY <2>3 DEF ResetWake, DialerAt, IInv, Types, Copied
  <2> QED
    BY <2>1, <2>2, <2>3
<1>2. UNCHANGED <<endServer, pending, dialing, ready, relays, handles, accept,
                  control, starts>>
  BY DEF DialerTop, DialerWoken, ResetWake
<1>3. /\ dialer.pc \notin {"none", "exited"} /\ dialer'.pc # "exited"
      /\ dialer.pc \in {"woken", "adopt"} \/ dialer'.pc \notin {"woken", "adopt"}
      /\ dialer'.pc = "adopt" => dialer.index # 0
      /\ \/ dialer'.events = dialer.events /\ dialer'.index = dialer.index
                /\ (dialer.pc \in Copied \/ dialer'.pc \notin Copied)
         \/ dialer'.pc = "wait" /\ dialer'.events = pending
  BY DEF DialerTop, DialerWoken, ResetWake, DialerAt, IInv, Types, Copied
<1>4. Types'
  BY <1>1, <1>2, <1>3 DEF IInv, Types, Array, handles, relays
<1>5. Entries'
  BY <1>1, <1>2, <1>3 DEF IInv, Types, Entries, Array, handles, relays
<1>6. Copy'
  BY <1>1, <1>2, <1>3 DEF IInv, Types, Copy, Copied, Array, handles, relays
<1>7. Hand'
  BY <1>1, <1>2, <1>3 DEF IInv, Types, Hand, Array, handles, relays
<1>8. Made'
  BY <1>1, <1>2, <1>3 DEF IInv, Types, Made, Array, handles, relays
<1>9. Kept'
  BY <1>1, <1>2, <1>3 DEF IInv, Types, Kept, Array, handles, relays
<1>10. Phases'
  BY <1>1, <1>2, <1>3 DEF IInv, Phases, Array, handles, relays
<1>11. Owners'
  BY <1>1, <1>2, <1>3
     DEF IInv, Types, Phases, Owners, Owned, Array, handles, relays
<1> QED
  BY <1>4, <1>5, <1>6, <1>7, <1>8, <1>9, <1>10, <1>11 DEF IInv

\* The connect thread finds an index in its copy of the array.
LEMMA WaitStep ==
  ASSUME IInv, FewHandles, WaitReturns
  PROVE  IInv'
<1>1. Len(dialer.events) \in Nat /\ Len(dialer.events) =< Len(pending)
  BY DEF IInv, Types, Copy, Copied, WaitReturns
<1>2. 1 + Len(dialer.events) \in Nat /\ 1 + Len(dialer.events) < MaxWait
  BY <1>1, FewEntries, MaxWaitAssumption DEF IInv, Types
<1>3. PICK i \in WaitResults(SignalledEvents, 1 + Len(dialer.events)) :
         /\ i # Timeout
         /\ dialer' = [dialer EXCEPT !.pc = "woken", !.index = i]
  BY DEF WaitReturns
<1>4. i \in 0 .. (1 + Len(dialer.events)) - 1 /\ i \in SignalledEvents
  BY <1>2, <1>3, WaitFacts
<1>5. i \in 0 .. Len(dialer.events) /\ (i # 0 => dialer.events[i] \in ready)
  BY <1>1, <1>4 DEF SignalledEvents
<1>6. /\ dialer.pc = "wait"
      /\ dialer' = [pc |-> "woken", events |-> dialer.events, index |-> i]
      /\ UNCHANGED <<endServer, pending, dialing, ready, relays, handles, accept,
                     control, starts>>
  BY <1>3 DEF WaitReturns, IInv, Types
<1>7. Types'
  BY <1>5, <1>6, <1>1 DEF IInv, Types, Array, handles, relays, Copied
<1>8. Entries'
  BY <1>5, <1>6 DEF IInv, Types, Entries, Array, handles, relays
<1>9. Copy'
  BY <1>5, <1>6 DEF IInv, Types, Copy, Copied, Array, handles, relays
<1>10. Hand'
  BY <1>5, <1>6 DEF IInv, Types, Hand, Array, handles, relays
<1>11. Made'
  BY <1>5, <1>6 DEF IInv, Types, Made, Array, handles, relays
<1>12. Kept'
  BY <1>5, <1>6 DEF IInv, Types, Kept, Array, handles, relays
<1>13. Phases'
  BY <1>5, <1>6 DEF IInv, Phases, Array, handles, relays
<1>14. Owners'
  BY <1>5, <1>6 DEF IInv, Types, Phases, Owners, Owned, Array, handles, relays
<1> QED
  BY <1>7, <1>8, <1>9, <1>10, <1>11, <1>12, <1>13, <1>14 DEF IInv

\* WSAAccept returns a socket.
LEMMA AcceptStep ==
  ASSUME IInv, NEW c \in Conns, AcceptClient(c)
  PROVE  IInv'
<1>1. Types'
  BY DEF IInv, Types, Array, AcceptClient, handles, relays, HandleStates
<1>2. Entries'
  BY DEF IInv, Types, Entries, Array, AcceptClient, handles, relays
<1>3. Copy'
  BY DEF IInv, Types, Copy, Copied, Array, AcceptClient, handles, relays
<1>4. Hand'
  BY DEF IInv, Types, Hand, Array, AcceptClient, handles, relays, Made
<1>5. Made'
  BY DEF IInv, Types, Made, Array, AcceptClient, handles, relays
<1>6. Kept'
  BY DEF IInv, Types, Kept, Array, AcceptClient, handles, relays, Made
<1>7. Phases'
  BY DEF IInv, Phases, Array, AcceptClient, handles, relays
<1>8. Owners'
  BY DEF IInv, Types, Phases, Owners, Owned, Array, AcceptClient, handles,
     relays, Hand
<1> QED
  BY <1>1, <1>2, <1>3, <1>4, <1>5, <1>6, <1>7, <1>8 DEF IInv

\* The mapper does not know the port: the accepted socket is closed.
LEMMA QueryFailsStep ==
  ASSUME IInv, QueryFails
  PROVE  IInv'
<1>1. /\ local' \in [Conns -> HandleStates] /\ remote' = remote
      /\ local'[accept.conn] \in {"closed", "again"}
      /\ \A c \in Conns \ {accept.conn} : local'[c] = local[c]
      /\ accept' = [pc |-> "top", conn |-> accept.conn]
  <2>1. local \in [Conns -> HandleStates] /\ accept.conn \in Conns
    BY DEF QueryFails, IInv, Types, Hand
  <2>2. local' = CloseAll(local, {accept.conn}) /\ remote' = remote
    BY DEF QueryFails
  <2>3. accept' = [pc |-> "top", conn |-> accept.conn]
    BY DEF QueryFails, AcceptAt, IInv, Types
  <2> QED
    BY <2>1, <2>2, <2>3, CloseFacts
<1>2. accept.conn \in Conns \ dialing /\ \A i \in Array : pending[i] # accept.conn
  BY DEF QueryFails, IInv, Hand
<1>3. \A i \in Array : pending[i] \in Conns
  BY DEF IInv, Types, Array
<1>4. accept.conn \notin live /\ live \subseteq Conns
  BY <1>2 DEF IInv, Types, Kept
<1>5. /\ accept.pc = "query"
      /\ UNCHANGED <<endServer, pending, dialing, ready, relays, dialer, control, starts>>
  BY DEF QueryFails
<1>6. Types'
  BY <1>1, <1>2, <1>3, <1>4, <1>5 DEF IInv, Types, Array, handles, relays
<1>7. Entries'
  BY <1>1, <1>2, <1>3, <1>4, <1>5
     DEF IInv, Types, Entries, Array, handles, relays
<1>8. Copy'
  BY <1>1, <1>2, <1>3, <1>4, <1>5
     DEF IInv, Types, Copy, Copied, Array, handles, relays
<1>9. Hand'
  BY <1>1, <1>2, <1>3, <1>4, <1>5 DEF IInv, Types, Hand, Array, handles, relays
<1>10. Made'
  BY <1>1, <1>2, <1>3, <1>4, <1>5 DEF IInv, Types, Made, Array, handles, relays
<1>11. Kept'
  BY <1>1, <1>2, <1>3, <1>4, <1>5 DEF IInv, Types, Kept, Array, handles, relays
<1>12. Phases'
  BY <1>1, <1>2, <1>3, <1>4, <1>5 DEF IInv, Phases, Array, handles, relays
<1>13. Owners'
  BY <1>1, <1>2, <1>3, <1>4, <1>5
     DEF IInv, Types, Phases, Owners, Owned, Array, handles, relays
<1> QED
  BY <1>6, <1>7, <1>8, <1>9, <1>10, <1>11, <1>12, <1>13 DEF IInv

\* The accepted connection is pushed into the array.
LEMMA PushStep ==
  ASSUME IInv, Push
  PROVE  IInv'
<1>1. /\ accept.pc = "query" /\ accept' = [pc |-> "connect", conn |-> accept.conn]
      /\ UNCHANGED <<endServer, dialing, ready, relays, local, dialer, control, starts>>
  BY DEF Push, AcceptAt, IInv, Types
<1>2. /\ accept.conn \in Conns \ dialing /\ accept.conn \notin live
      /\ local[accept.conn] = "open" /\ remote[accept.conn] = "none"
      /\ \A i \in Array : pending[i] # accept.conn
  BY <1>1 DEF IInv, Types, Hand, Kept
<1>3. /\ remote' \in [Conns -> HandleStates] /\ remote'[accept.conn] = "open"
      /\ \A c \in Conns \ {accept.conn} : remote'[c] = remote[c]
  BY <1>2 DEF Push, IInv, Types, HandleStates
<1>4. /\ pending' \in Seq(Conns) /\ Len(pending') = Len(pending) + 1
      /\ Len(pending) \in Nat
      /\ \A i \in Array : pending'[i] = pending[i] /\ pending[i] \in Conns
      /\ pending'[Len(pending) + 1] = accept.conn
  BY <1>2 DEF Push, IInv, Types, Array
<1>5. live \subseteq Conns
  BY DEF IInv, Types
<1> DEFINE n == Len(pending) + 1
<1>6. /\ Array' = Array \cup {n} /\ n \notin Array /\ pending'[n] = accept.conn
      /\ \A i \in Array : pending'[i] = pending[i] /\ pending[i] \in Conns
  BY <1>4 DEF Array
<1>7. pending' \in Seq(Conns) /\ pending \in Seq(Conns)
  BY <1>4 DEF IInv, Types
<1> HIDE DEF n
<1>8. \A i, j \in Array' : pending'[i] = pending'[j] => i = j
  <2>1. \A i, j \in Array : pending[i] = pending[j] => i = j
    BY DEF IInv, Entries
  <2> QED
    BY <1>2, <1>6, <2>1
<1>9. \A i \in Array' : pending'[i] \notin live
  <2>1. \A i \in Array : pending[i] \notin live
    BY DEF IInv, Entries
  <2> QED
    BY <1>2, <1>6, <2>1
<1>10. \A i \in Array' : \/ pending'[i] = accept.conn
                         \/ pending'[i] # accept.conn /\ i \in Array
                              /\ pending'[i] = pending[i] /\ pending[i] \in Conns
  BY <1>2, <1>6
<1>11. /\ \A c \in Conns : remote[c] # "none" => remote'[c] # "none"
       /\ \A c \in Conns \ {accept.conn} : remote'[c] = remote[c]
       /\ remote'[accept.conn] # "none" /\ accept.conn \notin dialing
       /\ dialing \subseteq Conns
  BY <1>2, <1>3 DEF IInv, Types
<1>12. Types'
  BY <1>1, <1>2, <1>3, <1>5, <1>6, <1>7, <1>8, <1>9, <1>10, <1>11, <1>4
     DEF IInv, Types, handles, relays
<1>13. Entries'
  BY <1>1, <1>2, <1>3, <1>5, <1>6, <1>7, <1>8, <1>9, <1>10, <1>11
     DEF IInv, Types, Entries, handles, relays
<1>14. Copy'
  BY <1>1, <1>2, <1>3, <1>5, <1>6, <1>7, <1>8, <1>9, <1>10, <1>11, <1>4
     DEF IInv, Types, Copy, Copied, handles, relays, Array
<1>15. Hand'
  BY <1>1, <1>2, <1>3, <1>5, <1>6, <1>7, <1>8, <1>9, <1>10, <1>11
     DEF IInv, Types, Hand, handles, relays
<1>16. Made'
  <2>1. \A i \in Array : local[pending[i]] # "none" /\ remote[pending[i]] # "none"
    BY DEF IInv, Made
  <2>2. \A i \in Array' : local'[pending'[i]] # "none" /\ remote'[pending'[i]] # "none"
    BY <1>1, <1>2, <1>10, <1>11, <2>1
  <2> QED
    BY <1>1, <1>2, <1>11, <2>2 DEF IInv, Made
<1>17. Kept'
  <2>1. ASSUME dialer.pc # "exited", NEW i \in Array', pending'[i] \in dialing
        PROVE  local'[pending'[i]] = "open" /\ remote'[pending'[i]] = "open"
    <3>1. i \in Array /\ pending'[i] = pending[i] /\ pending[i] # accept.conn
      BY <1>10, <1>11, <2>1
    <3> QED
      BY <1>1, <1>10, <1>11, <2>1, <3>1 DEF IInv, Kept
  <2>2. \A c \in live : c # accept.conn /\ c \in Conns
    BY <1>2, <1>5
  <2> QED
    BY <1>1, <1>11, <2>1, <2>2 DEF IInv, Kept, relays
<1>18. Phases'
  BY <1>1, <1>2, <1>3, <1>5, <1>6, <1>7, <1>8, <1>9, <1>10, <1>11
     DEF IInv, Phases, handles, relays
<1>19. Owners'
  BY <1>1, <1>2, <1>3, <1>5, <1>6, <1>7, <1>8, <1>9, <1>10, <1>11
     DEF IInv, Types, Phases, Owners, Owned, handles, relays
<1> QED
  BY <1>12, <1>13, <1>14, <1>15, <1>16, <1>17, <1>18, <1>19 DEF IInv

\* connect() is under way, or has failed and both sockets are closed.
LEMMA DialStep ==
  ASSUME IInv, Dial
  PROVE  IInv'
<1> DEFINE c == accept.conn
<1>1. /\ c \in Conns \ dialing /\ c \notin live
      /\ remote[c] = "open" => local[c] = "open"
      /\ accept' = [pc |-> "top", conn |-> c]
      /\ UNCHANGED <<endServer, pending, ready, relays, dialer, control, starts>>
  BY DEF Dial, AcceptAt, IInv, Types, Hand, Kept
<1>2. /\ live \subseteq Conns /\ \A i \in Array : pending[i] \in Conns
      /\ dialing' \subseteq dialing \cup {c} /\ dialing \subseteq dialing'
      /\ accept.pc = "connect"
  BY DEF Dial, IInv, Types, Array
<1>3. /\ local' \in [Conns -> HandleStates] /\ remote' \in [Conns -> HandleStates]
      /\ \A d \in Conns \ {c} : local'[d] = local[d] /\ remote'[d] = remote[d]
      /\ \/ /\ local' = local /\ remote' = remote
            /\ remote[c] = "open"
         \/ /\ local'[c] \in {"closed", "again"}
            /\ remote'[c] \in {"closed", "again"} /\ dialing' = dialing
  <2>1. CASE remote[c] = "open" /\ UNCHANGED handles
    BY <2>1 DEF handles, IInv, Types
  <2>2. CASE /\ remote' = CloseAll(remote, {c})
             /\ local' = CloseAll(local, {c}) /\ dialing' = dialing
    <3>1. local \in [Conns -> HandleStates] /\ remote \in [Conns -> HandleStates]
      BY DEF IInv, Types
    <3> HIDE DEF c
    <3> QED
      BY <1>1, <2>2, <3>1, CloseFacts
  <2> QED
    BY <2>1, <2>2 DEF Dial
<1> HIDE DEF c
<1>4. Types'
  BY <1>1, <1>2, <1>3 DEF IInv, Types, handles, relays
<1>5. Entries'
  BY <1>1, <1>2, <1>3 DEF IInv, Types, Entries, handles, relays, Array
<1>6. Copy'
  BY <1>1, <1>2, <1>3 DEF IInv, Types, Copy, Copied, handles, relays, Array
<1>7. Hand'
  BY <1>1, <1>2, <1>3 DEF IInv, Types, Hand, handles, relays
<1>8. Made'
  BY <1>1, <1>2, <1>3 DEF IInv, Types, Made, handles, relays, Array
<1>9. Kept'
  BY <1>1, <1>2, <1>3 DEF IInv, Types, Kept, handles, relays, Array
<1>10. Phases'
  BY <1>1, <1>2, <1>3 DEF IInv, Phases, handles, relays, Array
<1>11. Owners'
  BY <1>1, <1>2, <1>3
     DEF IInv, Types, Phases, Owners, Owned, handles, relays, Array
<1> QED
  BY <1>4, <1>5, <1>6, <1>7, <1>8, <1>9, <1>10, <1>11 DEF IInv

\* The connection to the SOCKS server is established, or has failed.
LEMMA ConnectedStep ==
  ASSUME IInv, NEW c \in Conns, Connected(c)
  PROVE  IInv'
<1>1. Types'
  BY DEF IInv, Types, Array, Connected, handles, relays
<1>2. Entries'
  BY DEF IInv, Types, Entries, Array, Connected, handles, relays
<1>3. Copy'
  BY DEF IInv, Types, Copy, Copied, Array, Connected, handles, relays
<1>4. Hand'
  BY DEF IInv, Types, Hand, Array, Connected, handles, relays
<1>5. Made'
  BY DEF IInv, Types, Made, Array, Connected, handles, relays
<1>6. Kept'
  BY DEF IInv, Types, Kept, Array, Connected, handles, relays
<1>7. Phases'
  BY DEF IInv, Phases, Array, Connected, handles, relays
<1>8. Owners'
  BY DEF IInv, Types, Phases, Owners, Owned, Array, Connected, handles, relays
<1> QED
  BY <1>1, <1>2, <1>3, <1>4, <1>5, <1>6, <1>7, <1>8 DEF IInv

\* The connect thread closes what is left in the array.
LEMMA CleanupStep ==
  ASSUME IInv, Cleanup
  PROVE  IInv'
<1>1. /\ dialer' = [dialer EXCEPT !.pc = "exited"] /\ dialer.pc = "cleanup"
      /\ UNCHANGED <<endServer, pending, dialing, ready, relays, accept, control,
                     starts>>
  BY DEF Cleanup, DialerAt
<1>2. /\ local' \in [Conns -> HandleStates] /\ remote' \in [Conns -> HandleStates]
      /\ \A c \in Conns :
           \/ /\ c \notin ToSet(pending)
              /\ local'[c] = local[c] /\ remote'[c] = remote[c]
           \/ /\ c \in ToSet(pending)
              /\ local'[c] \in {"closed", "again"}
              /\ remote'[c] \in {"closed", "again"}
              /\ local[c] = "open" => local'[c] = "closed"
              /\ remote[c] = "open" => remote'[c] = "closed"
  <2>1. local \in [Conns -> HandleStates] /\ remote \in [Conns -> HandleStates]
    BY DEF IInv, Types
  <2> QED
    BY <2>1, CloseFacts DEF Cleanup
<1>3. /\ \A c : c \in ToSet(pending) <=> \E i \in Array : pending[i] = c
      /\ \A i \in Array : pending[i] \in Conns
  BY DEF IInv, Types, ToSet, Array
<1>4. Array' = Array /\ live \subseteq Conns /\ dialing \subseteq Conns
  BY <1>1 DEF Array, IInv, Types
<1>5. dialer' = [pc |-> "exited", events |-> dialer.events, index |-> dialer.index]
  BY <1>1 DEF IInv, Types
<1>6. \A c \in live : c \notin ToSet(pending)
  BY <1>3 DEF IInv, Entries
<1>7. accept.pc \in {"accepted", "query"} => accept.conn \notin ToSet(pending)
  BY <1>3 DEF IInv, Hand
<1>8. \A c \in dialing : c \in ToSet(pending) => local[c] = "open" /\ remote[c] = "open"
  BY <1>1, <1>3 DEF IInv, Kept
<1>9. Types'
  BY <1>1, <1>2, <1>3, <1>4, <1>5, <1>6, <1>7, <1>8
     DEF IInv, Types, handles, relays
<1>10. Entries'
  BY <1>1, <1>4 DEF IInv, Entries, relays
<1>11. Copy'
  BY <1>1, <1>5 DEF Copy, Copied
<1>12. Hand'
  BY <1>1, <1>2, <1>3, <1>4, <1>5, <1>6, <1>7, <1>8
     DEF IInv, Types, Hand, handles, relays
<1>13. Made'
  <2>1. \A c \in Conns : local'[c] = "none" => remote'[c] = "none"
    BY <1>2 DEF IInv, Made
  <2>2. \A i \in Array : local'[pending[i]] # "none" /\ remote'[pending[i]] # "none"
    BY <1>2, <1>3
  <2>3. \A c \in dialing : /\ local'[c] \in {"open", "closed"}
                           /\ remote'[c] \in {"open", "closed"}
    <3>1. ASSUME NEW c \in dialing
          PROVE  local'[c] \in {"open", "closed"} /\ remote'[c] \in {"open", "closed"}
      BY <1>2, <1>4, <1>8, <3>1 DEF IInv, Made
    <3> QED
      BY <3>1
  <2> QED
    BY <1>1, <1>4, <2>1, <2>2, <2>3 DEF Made
<1>14. Kept'
  BY <1>1, <1>2, <1>3, <1>4, <1>5, <1>6, <1>7, <1>8
     DEF IInv, Types, Kept, handles, relays
<1>15. Phases'
  BY <1>1, <1>2, <1>3, <1>4, <1>5, <1>6, <1>7, <1>8
     DEF IInv, Phases, handles, relays
<1>16. Owners'
  BY <1>1, <1>2, <1>3, <1>4, <1>5, <1>6, <1>7, <1>8
     DEF IInv, Types, Phases, Owners, Owned, handles, relays
<1> QED
  BY <1>9, <1>10, <1>11, <1>12, <1>13, <1>14, <1>15, <1>16 DEF IInv

\* A relay closes its two sockets.
LEMMA RelayClosesStep ==
  ASSUME IInv, NEW c \in Conns, RelayCloses(c)
  PROVE  IInv'
<1>1. /\ c \in live /\ live' = live \ {c} /\ sockets' = sockets
      /\ UNCHANGED <<endServer, pending, dialing, ready, accept, dialer, control,
                     starts>>
  BY DEF RelayCloses
<1>2. /\ local' \in [Conns -> HandleStates] /\ remote' \in [Conns -> HandleStates]
      /\ local'[c] = "closed" /\ remote'[c] = "closed"
      /\ \A d \in Conns \ {c} : local'[d] = local[d] /\ remote'[d] = remote[d]
  <2>1. /\ local \in [Conns -> HandleStates] /\ remote \in [Conns -> HandleStates]
        /\ local[c] = "open" /\ remote[c] = "open"
    BY <1>1 DEF IInv, Types, Kept
  <2> QED
    BY <2>1, CloseFacts DEF RelayCloses
<1>3. /\ c \in dialing /\ \A i \in Array : pending[i] \in Conns /\ pending[i] # c
  BY <1>1 DEF IInv, Types, Entries, Kept, Array
<1>4. Types'
  BY <1>1, <1>2, <1>3 DEF IInv, Types, handles, relays
<1>5. Entries'
  BY <1>1, <1>2, <1>3 DEF IInv, Types, Entries, handles, relays, Array
<1>6. Copy'
  BY <1>1, <1>2, <1>3 DEF IInv, Types, Copy, Copied, handles, relays, Array
<1>7. Hand'
  BY <1>1, <1>2, <1>3 DEF IInv, Types, Hand, handles, relays, Array
<1>8. Made'
  BY <1>1, <1>2, <1>3 DEF IInv, Types, Made, handles, relays, Array
<1>9. Kept'
  BY <1>1, <1>2, <1>3 DEF IInv, Types, Kept, handles, relays, Array
<1>10. Phases'
  BY <1>1, <1>2, <1>3 DEF IInv, Phases, handles, relays, Array
<1>11. Owners'
  BY <1>1, <1>2, <1>3
     DEF IInv, Types, Phases, Owners, Owned, handles, relays, Array
<1> QED
  BY <1>4, <1>5, <1>6, <1>7, <1>8, <1>9, <1>10, <1>11 DEF IInv

\* The clear thread erases relays that have closed.
LEMMA ClearStep ==
  ASSUME IInv, ClearThread
  PROVE  IInv'
<1>1. Types'
  BY DEF IInv, Types, Array, ClearThread, handles, relays
<1>2. Entries'
  BY DEF IInv, Types, Entries, Array, ClearThread, handles, relays
<1>3. Copy'
  BY DEF IInv, Types, Copy, Copied, Array, ClearThread, handles, relays
<1>4. Hand'
  BY DEF IInv, Types, Hand, Array, ClearThread, handles, relays
<1>5. Made'
  BY DEF IInv, Types, Made, Array, ClearThread, handles, relays
<1>6. Kept'
  BY DEF IInv, Types, Kept, Array, ClearThread, handles, relays
<1>7. Phases'
  BY DEF IInv, Phases, Array, ClearThread, handles, relays
<1>8. Owners'
  BY DEF IInv, Types, Phases, Owners, Owned, Array, ClearThread, handles,
     relays, Hand
<1> QED
  BY <1>1, <1>2, <1>3, <1>4, <1>5, <1>6, <1>7, <1>8 DEF IInv

\* stop() sets end_server_, closes the listening socket and wakes the threads.
LEMMA StopStep ==
  ASSUME IInv, Stop \/ StopListener \/ StopWake
  PROVE  IInv'
<1>1. Types'
  BY DEF IInv, Types, Array, Stop, StopListener, StopWake, handles, relays
<1>2. Entries'
  BY DEF IInv, Types, Entries, Array, Stop, StopListener, StopWake, handles,
     relays
<1>3. Copy'
  BY DEF IInv, Types, Copy, Copied, Array, Stop, StopListener, StopWake,
     handles, relays
<1>4. Hand'
  BY DEF IInv, Types, Hand, Array, Stop, StopListener, StopWake, handles,
     relays
<1>5. Made'
  BY DEF IInv, Types, Made, Array, Stop, StopListener, StopWake, handles,
     relays
<1>6. Kept'
  BY DEF IInv, Types, Kept, Array, Stop, StopListener, StopWake, handles,
     relays
<1>7. Phases'
  BY DEF IInv, Phases, Array, Stop, StopListener, StopWake, handles, relays
<1>8. Owners'
  BY DEF IInv, Types, Phases, Owners, Owned, Array, Stop, StopListener,
     StopWake, handles, relays
<1> QED
  BY <1>1, <1>2, <1>3, <1>4, <1>5, <1>6, <1>7, <1>8 DEF IInv

\* start() makes the threads anew.
LEMMA StartStep ==
  ASSUME IInv, Start
  PROVE  IInv'
<1>1. /\ accept' = [pc |-> "top", conn |-> accept.conn]
      /\ dialer' = [pc |-> "top", events |-> dialer.events, index |-> dialer.index]
      /\ starts \in Nat
  BY DEF Start, AcceptAt, DialerAt, IInv, Types
<1>2. /\ endServer /\ control = "idle" /\ pending = <<>> /\ live = {}
      /\ starts' = starts + 1 /\ ~endServer'
      /\ UNCHANGED <<pending, dialing, ready, sockets, live, local, remote, control>>
  BY DEF Start, relays, handles, IInv, Phases
<1>3. Array' = {} /\ Array = {}
  BY <1>2 DEF Array
<1>4. dialer' \in [pc : {"none", "top", "cleanup", "exited"} \cup Copied,
                   events : Seq(Conns), index : Int]
  BY <1>1 DEF IInv, Types
<1>5. accept' \in [pc : {"none", "top", "accept", "accepted", "query", "connect",
                         "exited"}, conn : Conns \cup {NoConn}]
  BY <1>1 DEF IInv, Types
<1>6. endServer' \in BOOLEAN
  BY DEF Start
<1>7. starts' \in Nat
  BY <1>1, <1>2
<1>8. Types'
  BY <1>1, <1>2, <1>3, <1>4, <1>5, <1>6, <1>7 DEF IInv, Types, handles, relays
<1>9. Entries'
  BY <1>1, <1>2, <1>3 DEF IInv, Types, Entries, handles, relays
<1>10. Copy'
  BY <1>1, <1>2, <1>3 DEF IInv, Types, Copy, Copied, handles, relays, Array
<1>11. Hand'
  BY <1>1, <1>2, <1>3 DEF IInv, Types, Hand, handles, relays
<1>12. Made'
  BY <1>1, <1>2, <1>3 DEF IInv, Types, Made, handles, relays
<1>13. Kept'
  BY <1>1, <1>2, <1>3 DEF IInv, Types, Kept, handles, relays
<1>14. Phases'
  BY <1>1, <1>2, <1>3 DEF IInv, Phases, handles, relays
<1>15. Owners'
  BY <1>1, <1>2, <1>3 DEF IInv, Types, Phases, Owners, Owned, handles, relays
<1> QED
  BY <1>8, <1>9, <1>10, <1>11, <1>12, <1>13, <1>14, <1>15 DEF IInv

\* stop() has joined its threads.
LEMMA StopJoinedStep ==
  ASSUME IInv, StopJoined
  PROVE  IInv'
<1>1. /\ pending' = <<>> /\ sockets' = {} /\ live' = {}
      /\ control = "join" /\ control' = "idle"
      /\ accept.pc = "exited" /\ dialer.pc = "exited"
      /\ UNCHANGED <<endServer, dialing, ready, accept, dialer, starts>>
  BY DEF StopJoined
<1>2. /\ local' \in [Conns -> HandleStates] /\ remote' \in [Conns -> HandleStates]
      /\ \A c \in live : local'[c] = "closed" /\ remote'[c] = "closed"
      /\ \A c \in Conns \ live : local'[c] = local[c] /\ remote'[c] = remote[c]
  <2>1. /\ local \in [Conns -> HandleStates] /\ remote \in [Conns -> HandleStates]
        /\ \A c \in live : c \in Conns /\ local[c] = "open" /\ remote[c] = "open"
    BY DEF IInv, Types, Kept
  <2> QED
    BY <2>1, CloseFacts DEF StopJoined
<1>3. Types'
  BY <1>1, <1>2 DEF IInv, Types, Array, handles, relays, Copied
<1>4. Entries'
  BY <1>1, <1>2 DEF IInv, Types, Entries, Array, handles, relays
<1>5. Copy'
  BY <1>1, <1>2 DEF IInv, Types, Copy, Copied, Array, handles, relays
<1>6. Hand'
  BY <1>1, <1>2 DEF IInv, Types, Hand, Array, handles, relays
<1>7. Made'
  BY <1>1, <1>2 DEF IInv, Types, Made, Array, handles, relays
<1>8. Kept'
  BY <1>1, <1>2 DEF IInv, Types, Kept, Array, handles, relays, Copied
<1>9. Phases'
  BY <1>1, <1>2 DEF IInv, Phases, Array, handles, relays
<1>10. Owners'
  BY <1>1, <1>2 DEF IInv, Types, Phases, Owners, Owned, Array, handles, relays
<1> QED
  BY <1>3, <1>4, <1>5, <1>6, <1>7, <1>8, <1>9, <1>10 DEF IInv

\* The index at which the connect thread looks is one of the array, and the
\* connection there is the one whose event was signalled.
LEMMA AdoptFacts ==
  ASSUME IInv, Adopt
  PROVE  /\ dialer.index \in Array
         /\ pending[dialer.index] \in ready
<1>1. /\ dialer.index \in 1 .. Len(dialer.events)
      /\ dialer.events[dialer.index] \in ready
      /\ Len(dialer.events) \in Nat
  BY DEF Adopt, IInv, Types, Copy, Copied
<1>2. /\ Len(dialer.events) =< Len(pending)
      /\ \A i \in 1 .. Len(dialer.events) : dialer.events[i] = pending[i]
  BY DEF Adopt, IInv, Copy, Copied
<1>3. Len(pending) \in Nat
  BY DEF IInv, Types
<1> QED
  BY <1>1, <1>2, <1>3 DEF Array

\* The entry at the index is the connection that was ready; it leaves the array.
LEMMA AdoptStep ==
  ASSUME IInv, Adopt
  PROVE  IInv'
<1> DEFINE k == dialer.index
           c == pending[k]
<1>1. /\ k \in Array /\ c \in ready /\ dialer.pc = "adopt"
      /\ dialer' = [dialer EXCEPT !.pc = "top"]
      /\ UNCHANGED <<endServer, dialing, ready, handles, accept, control, starts>>
  BY AdoptFacts DEF Adopt, DialerAt
<1>2. /\ c \in Conns /\ c \in dialing /\ local[c] = "open" /\ remote[c] = "open"
  BY <1>1 DEF IInv, Types, Kept
<1>3. /\ live' = live \cup {c} /\ sockets' = sockets \cup {c}
      /\ pending' = RemoveAt(pending, k)
  BY DEF Adopt
<1>4. pending \in Seq(Conns) /\ k \in 1 .. Len(pending) /\ Len(pending) \in Nat
  BY <1>1 DEF IInv, Types, Array
<1> HIDE DEF k
<1>5. /\ pending' \in Seq(Conns) /\ Len(pending') = Len(pending) - 1
      /\ \A i \in 1 .. Len(pending) - 1 :
           pending'[i] = IF i < k THEN pending[i] ELSE pending[i + 1]
  BY <1>3, <1>4, RemoveFacts
<1> DEFINE old(i) == IF i < k THEN i ELSE i + 1
<1>6. /\ \A i \in Array' : old(i) \in Array \ {k} /\ pending'[i] = pending[old(i)]
      /\ \A i, j \in Array' : old(i) = old(j) => i = j
      /\ \A j \in Array \ {k} : \E i \in Array' : old(i) = j
  <2>1. Array' = 1 .. Len(pending) - 1 /\ Array = 1 .. Len(pending)
    BY <1>5 DEF Array
  <2>2. ASSUME NEW j \in Array \ {k} PROVE \E i \in Array' : old(i) = j
    <3>1. CASE j < k
      BY <1>4, <2>1, <3>1
    <3>2. CASE ~(j < k)
      <4>1. j - 1 \in Array' /\ old(j - 1) = j
        BY <1>4, <2>1, <3>2
      <4> QED
        BY <4>1
    <3> QED
      BY <3>1, <3>2
  <2> QED
    BY <1>4, <1>5, <2>1, <2>2
<1>7. \A i \in Array : pending[i] = c => i = k
  BY <1>1 DEF IInv, Entries
<1>8. \A i, j \in Array' : pending'[i] = pending'[j] => i = j
  BY <1>6 DEF IInv, Entries
<1>9. \A i \in Array' : pending'[i] # c /\ pending'[i] \notin live
  BY <1>6, <1>7 DEF IInv, Entries
<1>10. \A d : (\E i \in Array : pending[i] = d)
                <=> d = c \/ \E i \in Array' : pending'[i] = d
  BY <1>1, <1>6
<1> HIDE DEF c, old
<1>11. Types'
  BY <1>1, <1>2, <1>3, <1>5, <1>6, <1>8, <1>9, <1>10
     DEF IInv, Types, handles, relays, Copied
<1>12. Entries'
  BY <1>1, <1>2, <1>3, <1>5, <1>6, <1>8, <1>9, <1>10
     DEF IInv, Types, Entries, handles, relays
<1>13. Copy'
  BY <1>1, <1>2, <1>3, <1>5, <1>6, <1>8, <1>9, <1>10
     DEF IInv, Types, Copy, Copied, handles, relays
<1>14. Hand'
  BY <1>1, <1>2, <1>3, <1>5, <1>6, <1>8, <1>9, <1>10
     DEF IInv, Types, Hand, handles, relays
<1>15. Made'
  BY <1>1, <1>2, <1>3, <1>5, <1>6, <1>8, <1>9, <1>10
     DEF IInv, Types, Made, handles, relays
<1>16. Kept'
  BY <1>1, <1>2, <1>3, <1>5, <1>6, <1>8, <1>9, <1>10
     DEF IInv, Types, Kept, handles, relays
<1>17. Phases'
  BY <1>1, <1>2, <1>3, <1>5, <1>6, <1>8, <1>9, <1>10
     DEF IInv, Phases, handles, relays
<1>18. Owners'
  BY <1>1, <1>2, <1>3, <1>5, <1>6, <1>8, <1>9, <1>10
     DEF IInv, Types, Phases, Owners, Owned, handles, relays
<1> QED
  BY <1>11, <1>12, <1>13, <1>14, <1>15, <1>16, <1>17, <1>18 DEF IInv

\* Every step preserves the invariant.
LEMMA NextInv == ASSUME IInv, FewHandles, [Next]_vars PROVE IInv'
<1>1. CASE AcceptThread \/ AcceptFails
  BY <1>1, AcceptWalks, QueryFailsStep, PushStep, DialStep DEF AcceptThread
<1>2. CASE \E c \in Conns : AcceptClient(c) \/ Connected(c) \/ RelayCloses(c)
  BY <1>2, AcceptStep, ConnectedStep, RelayClosesStep
<1>3. CASE ConnectThread
  BY <1>3, DialerWalks, WaitStep, AdoptStep, CleanupStep DEF ConnectThread
<1>4. CASE ClearThread \/ Start \/ Stop \/ Stopping
  BY <1>4, ClearStep, StartStep, StopStep, StopJoinedStep DEF Stopping
<1>5. CASE UNCHANGED vars
  <2>1. Types' /\ Entries' /\ Copy'
    BY <1>5 DEF IInv, Types, Entries, Copy, Array, vars, relays, handles
  <2>2. Hand' /\ Made' /\ Kept'
    BY <1>5 DEF IInv, Hand, Made, Kept, Array, vars, relays, handles
  <2>3. Phases' /\ Owners'
    BY <1>5 DEF IInv, Phases, Owners, Owned, Array, vars, relays, handles
  <2> QED
    BY <2>1, <2>2, <2>3 DEF IInv
<1> QED
  BY <1>1, <1>2, <1>3, <1>4, <1>5 DEF Next

\* As long as all handles can be waited for in one call: the copy of the events
\* matches the array, and every socket has one owner.
THEOREM ServerInvariant == ASSUME FewHandles PROVE Spec => []IInv
<1>1. IInv /\ [Next]_vars => IInv'
  BY NextInv
<1> QED
  BY <1>1, InitInv, PTL DEF Spec

\* The connection that becomes a relay is the one whose event was signalled,
\* as long as all handles can be waited for in one call.
THEOREM ServerRightConnection == ASSUME FewHandles PROVE Spec => RightConnection
<1>1. ASSUME IInv, [Next]_vars
      PROVE  [\A c \in live' \ live : c \in ready]_vars
  <2>1. CASE Adopt
    <3>1. dialer.index \in Array /\ pending[dialer.index] \in ready
      BY <1>1, <2>1, AdoptFacts
    <3> QED
      BY <2>1, <3>1 DEF Adopt
  <2>2. CASE AcceptThread \/ AcceptFails
    BY <2>2
       DEF AcceptThread, AcceptFails, AcceptTop, AcceptChecked, QueryFails,
           Push, Dial, relays
  <2>3. CASE \E c \in Conns : AcceptClient(c) \/ Connected(c) \/ RelayCloses(c)
    BY <2>3 DEF AcceptClient, Connected, RelayCloses, relays
  <2>4. CASE DialerTop \/ WaitReturns \/ DialerWoken \/ ResetWake \/ Cleanup
    BY <2>4 DEF DialerTop, WaitReturns, DialerWoken, ResetWake, Cleanup, relays
  <2>5. CASE ClearThread \/ Start \/ Stop \/ Stopping
    BY <2>5 DEF ClearThread, Start, Stop, Stopping, StopListener, StopWake,
                StopJoined, relays
  <2>6. CASE UNCHANGED vars
    BY <2>6 DEF vars, relays
  <2> QED
    BY <1>1, <2>1, <2>2, <2>3, <2>4, <2>5, <2>6 DEF Next, ConnectThread
<1> QED
  BY <1>1, ServerInvariant, PTL DEF Spec, RightConnection

\* Every open socket has an owner that will close it while the server runs,
\* and no socket is closed twice unless its connect() failed at once.
THEOREM ServerOneOwner == ASSUME FewHandles PROVE Spec => []OneOwner
<1>1. IInv => OneOwner
  <2> SUFFICES ASSUME IInv PROVE OneOwner
    OBVIOUS
  <2>1. \A c : c \in ToSet(pending) <=> \E i \in Array : pending[i] = c
    BY DEF IInv, Types, ToSet, Array
  <2>2. SocketsOwned
    BY <2>1 DEF IInv, Types, Owners, Owned, Kept, SocketsOwned
  <2>3. ClosedOnce
    BY DEF IInv, Made, ClosedOnce
  <2> QED
    BY <2>2, <2>3 DEF OneOwner
<1> QED
  BY <1>1, ServerInvariant, PTL
\* What else the types say.
Rest ==
    /\ listener \in {"open", "closed"} /\ clear \in {"none", "top", "exited"}
    /\ control \in {"idle", "listener", "wake", "join"}
    /\ starts \in 0 .. MaxStarts /\ wake \in BOOLEAN

LEMMA NextRest == ASSUME Rest, [Next]_vars PROVE Rest'
<1>1. CASE AcceptThread \/ AcceptFails
  BY <1>1 DEF Rest, AcceptThread, AcceptTop, AcceptFails, AcceptChecked,
              QueryFails, Push, Dial
<1>2. CASE \E c \in Conns : AcceptClient(c) \/ Connected(c) \/ RelayCloses(c)
  BY <1>2 DEF Rest, AcceptClient, Connected, RelayCloses
<1>3. CASE ConnectThread
  BY <1>3 DEF Rest, ConnectThread, DialerTop, WaitReturns, DialerWoken,
              ResetWake, Adopt, Cleanup
<1>4. CASE ClearThread \/ Stop \/ Stopping
  BY <1>4 DEF Rest, ClearThread, Stop, Stopping, StopListener, StopWake,
              StopJoined
<1>5. CASE Start
  <2>1. starts' \in 0 .. MaxStarts
    BY <1>5, ServerAssumption DEF Rest, Start, ServerAssumption
  <2>2. wake' \in BOOLEAN /\ UNCHANGED <<listener, control>> /\ clear' = "top"
    BY <1>5 DEF Start
  <2> QED
    BY <2>1, <2>2 DEF Rest
<1>6. CASE UNCHANGED vars
  BY <1>6 DEF Rest, vars
<1> QED
  BY <1>1, <1>2, <1>3, <1>4, <1>5, <1>6 DEF Next

\* Types; and the index that the connect thread found in its copy of the array
\* is one of the array, although the array may have changed since.
THEOREM ServerTypes == ASSUME FewHandles PROVE Spec => []TypeOK
<1>1. Init => Rest
  <2>1. 0 \in 0 .. MaxStarts
    BY ServerAssumption DEF ServerAssumption
  <2> QED
    BY <2>1 DEF Init, Rest
<1>2. Rest /\ [Next]_vars => Rest'
  BY NextRest
<1>3. IInv /\ Rest => TypeOK
  <2> SUFFICES ASSUME IInv, Rest PROVE TypeOK
    OBVIOUS
  <2>1. dialer.pc \in {"woken", "adopt"} => dialer.index \in 0 .. Len(pending)
    <3>1. Len(dialer.events) \in Nat /\ Len(pending) \in Nat
      BY DEF IInv, Types
    <3>2. dialer.pc \in {"woken", "adopt"} =>
            /\ Len(dialer.events) =< Len(pending)
            /\ dialer.index \in 0 .. Len(dialer.events)
      BY DEF IInv, Copy, Copied
    <3> QED
      BY <3>1, <3>2
  <2>2. /\ accept.pc \in {"none", "top", "accept", "accepted", "query",
                          "connect", "exited"}
        /\ accept.conn \in Conns \cup {NoConn} /\ dialer.events \in Seq(Conns)
        /\ dialer.pc \in {"none", "top", "cleanup", "exited"} \cup Copied
    BY DEF IInv, Types
  <2> QED
    BY <2>1, <2>2 DEF IInv, Types, Rest, TypeOK, Copied
<1> QED
  BY <1>1, <1>2, <1>3, ServerInvariant, PTL DEF Spec
=============================================================================
