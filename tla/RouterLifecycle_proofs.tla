----------------------- MODULE RouterLifecycle_proofs -----------------------
(***************************************************************************)
(* For any number of adapters, changes of the network and restarts: lock_  *)
(* serialises everything that starts, stops or reconfigures the filter,    *)
(* and the filter's interfaces are never rebuilt under its process thread. *)
(* From the first start on, a filter at rest is on the network's adapter.  *)
(*                                                                         *)
(* The invariant says who holds lock_: a caller inside start() or stop()   *)
(* is among its readers, a restart thread at work is its writer, and the   *)
(* two exclude each other.  For the interfaces it adds that a stopped      *)
(* filter has no process thread.  Following the network: either somebody   *)
(* has a reading of the network as it is or will make one, or              *)
(* default_adapter_ is what a notification would not change; and at each   *)
(* step of a restart the filter is right for default_adapter_ or will be.  *)
(***************************************************************************)
EXTENDS RouterLifecycle, FiniteSetTheorems, TLAPS

LockInv == /\ CallerWorks => "caller" \in readers
           /\ \A i \in Restarts : Working(i) => writer = i
           /\ writer # NoWriter => readers = {}

FilterInv == /\ filter.state = "stopped" => packet = "none"
             /\ interfaces = "listed"

\* A change that has not come has no notification.
Untouched == \A i \in Restarts : i > changes => restart[i] = "none"

\* The part of the type invariant that is about numbers.
NumbersOK == changes \in 0 .. MaxChanges /\ starts \in 0 .. MaxStarts

\* The part that is about the threads of the changes.
Places == {"none", "notified", "compare", "lock", "stop", "join", "update",
           "queried", "start"}
ThreadsOK == /\ restart \in [Restarts -> Places]
             /\ read \in [Restarts -> Adapters \cup {NoAdapter}]

IInv == TypeOK /\ LockInv /\ FilterInv /\ Untouched
-----------------------------------------------------------------------------
\* A router just constructed: nobody holds lock_ and the filter is stopped.
LEMMA InitIInv == Init => IInv
<1> SUFFICES ASSUME Init PROVE IInv
  OBVIOUS
<1> USE RouterAssumption DEF RouterAssumption, Init
<1>1. NumbersOK
  BY DEF NumbersOK
<1>2. NoInterface \in {FindInterface(a) : a \in Adapters \cup {NoAdapter}}
  <2>1. FindInterface(NoAdapter) = NoInterface
    BY DEF FindInterface
  <2>2. QED
    BY <2>1
<1>3. filter \in [state : {"stopped", "starting", "running", "stopping"},
                  interface : {FindInterface(a) : a \in Adapters \cup {NoAdapter}}]
  BY <1>2
<1>4. restart \in [Restarts -> Places] /\ read \in [Restarts -> Adapters \cup {NoAdapter}]
  BY DEF Places
<1>5. TypeOK
  BY <1>1, <1>3, <1>4, Zenon DEF TypeOK, NumbersOK, NoWriter, Places
<1>6. LockInv /\ FilterInv /\ Untouched
  BY DEF LockInv, FilterInv, Untouched, CallerWorks, Working
<1>7. QED
  BY <1>5, <1>6 DEF IInv

\* The process thread of the filter only ever reads under lock_, and ends only
\* when the filter is no longer running.
LEMMA PacketIInv ==
  ASSUME IInv,
         \/ ProcessTests \/ ProcessWakes \/ PacketComes \/ PacketLocks
         \/ PacketThread
  PROVE  IInv'
<1> USE DEF IInv, TypeOK, LockInv, FilterInv, Untouched, CallerWorks, Working,
            lockVars, threadVars, networkVars, LockShared, UnlockShared
<1>1. CASE ProcessTests \/ ProcessWakes \/ PacketComes
  BY <1>1 DEF ProcessTests, ProcessWakes, PacketComes
<1>2. CASE PacketLocks
  BY <1>2 DEF PacketLocks
<1>3. CASE PacketMatched \/ BlockMatched
  BY <1>3 DEF PacketMatched, BlockMatched
<1>4. CASE ProcessSleeps \/ ProcessExits
  BY <1>4 DEF ProcessSleeps, ProcessExits
<1>5. QED
  BY <1>1, <1>2, <1>3, <1>4 DEF PacketThread

\* A call of start() holds lock_ shared from StartLocks to StartNotifies; the
\* interfaces are listed anew only when no process thread exists.
LEMMA StartIInv ==
  ASSUME IInv,
         \/ StartCalled \/ StartLocks \/ StartUpdates \/ StartStartsFilter
         \/ StartNotifies
  PROVE  IInv'
<1> USE DEF IInv, TypeOK, LockInv, FilterInv, Untouched, CallerWorks, Working,
            lockVars, threadVars, filterVars, networkVars, LockShared, UnlockShared
<1>1. CASE StartCalled
  BY <1>1, RouterAssumption DEF RouterAssumption, StartCalled
<1>2. CASE StartLocks
  BY <1>2 DEF StartLocks
<1>3. CASE StartUpdates
  BY <1>3 DEF StartUpdates, Reconfigure, BestInterface
<1>4. CASE StartStartsFilter
  BY <1>4 DEF StartStartsFilter, StartFilter
<1>5. CASE StartNotifies
  BY <1>5 DEF StartNotifies
<1>6. QED
  BY <1>1, <1>2, <1>3, <1>4, <1>5

\* A call of stop() holds lock_ shared from StopLocks to StopReturns, and the
\* filter counts as stopped only after its process thread has ended.
LEMMA StopIInv ==
  ASSUME IInv,
         \/ StopCalled \/ StopLocks \/ StopCancels \/ StopStopsFilter
         \/ StopJoinsFilter \/ StopReturns
  PROVE  IInv'
<1> USE DEF IInv, TypeOK, LockInv, FilterInv, Untouched, CallerWorks, Working,
            lockVars, threadVars, filterVars, networkVars, LockShared, UnlockShared
<1>1. CASE StopCalled
  BY <1>1 DEF StopCalled
<1>2. CASE StopLocks
  BY <1>2 DEF StopLocks
<1>3. CASE StopCancels
  <2>1. /\ restart' \in [Restarts -> Places]
        /\ \A i \in Restarts : restart'[i] \in {"none", restart[i]}
    BY <1>3 DEF StopCancels, Places
  <2>2. \A i \in Restarts : Working(i)' => Working(i)
    BY <2>1
  <2>3. Untouched'
    BY <1>3, <2>1 DEF StopCancels
  <2>4. TypeOK' /\ LockInv' /\ FilterInv'
    BY <1>3, <2>1, <2>2, Zenon DEF StopCancels, Places
  <2>5. QED
    BY <2>3, <2>4
<1>4. CASE StopStopsFilter
  BY <1>4 DEF StopStopsFilter, StopBegins
<1>5. CASE StopJoinsFilter
  BY <1>5 DEF StopJoinsFilter, StopEnds
<1>6. CASE StopReturns
  BY <1>6 DEF StopReturns
<1>7. QED
  BY <1>1, <1>2, <1>3, <1>4, <1>5, <1>6

\* Changes of the network, their notification and the callback touch neither
\* lock_ nor the filter; a restart thread begins without lock_.
LEMMA NetworkIInv ==
  ASSUME IInv,
         \/ NetworkChanges
         \/ \E i \in Restarts : CallbackQueries(i) \/ CallbackCompares(i)
  PROVE  IInv'
<1>1. /\ ThreadsOK' /\ Untouched' /\ NumbersOK'
      /\ \A i \in Restarts : Working(i)' => Working(i)
  <2>1. CASE NetworkChanges
    <3>1. /\ changes \in Nat /\ changes' = changes + 1
          /\ changes' \in 0 .. MaxChanges /\ starts' = starts
      BY <2>1, RouterAssumption DEF RouterAssumption, NetworkChanges, IInv, TypeOK
    <3>2. /\ read' = read
          /\ \/ restart' = [restart EXCEPT ![changes + 1] = "notified"]
             \/ restart' = restart
      BY <2>1 DEF NetworkChanges
    <3>3. ThreadsOK'
      BY <3>2 DEF ThreadsOK, Places, IInv, TypeOK
    <3>4. \A i \in Restarts : Working(i)' => Working(i)
      BY <3>2 DEF Working, IInv, TypeOK
    <3>5. Untouched'
      BY <3>1, <3>2, RouterAssumption
      DEF RouterAssumption, Untouched, Restarts, IInv, TypeOK
    <3> QED
      BY <3>1, <3>3, <3>4, <3>5 DEF NumbersOK, IInv, TypeOK
  <2>2. CASE \E i \in Restarts : CallbackQueries(i) \/ CallbackCompares(i)
    <3>1. PICK i \in Restarts : CallbackQueries(i) \/ CallbackCompares(i)
      BY <2>2
    <3>2. /\ changes' = changes /\ starts' = starts
          /\ restart[i] \in {"notified", "compare"}
          /\ \/ restart' = [restart EXCEPT ![i] = "compare"]
             \/ restart' = [restart EXCEPT ![i] = "lock"]
             \/ restart' = [restart EXCEPT ![i] = "none"]
      BY <3>1 DEF CallbackQueries, CallbackCompares, networkVars
    <3>3. /\ BestInterface(network) \in Adapters \cup {NoAdapter}
          /\ \/ read' = read
             \/ read' = [read EXCEPT ![i] = BestInterface(network)]
             \/ read' = [read EXCEPT ![i] = NoAdapter]
      BY <3>1 DEF CallbackQueries, CallbackCompares, BestInterface
    <3>4. ThreadsOK'
      BY <3>2, <3>3 DEF ThreadsOK, Places, IInv, TypeOK
    <3>5. \A j \in Restarts : Working(j)' => Working(j)
      BY <3>2 DEF Working, IInv, TypeOK
    <3>6. Untouched'
      BY <3>2 DEF Untouched, IInv, TypeOK
    <3> QED
      BY <3>2, <3>4, <3>5, <3>6 DEF NumbersOK, IInv, TypeOK
  <2> QED
    BY <2>1, <2>2
<1>2. /\ UNCHANGED <<active, caller, lockVars, filterVars, interfaces, default,
                     registered>>
      /\ network' \in Adapters \cup {NoAdapter}
      /\ missed' \subseteq {"start", "callback"}
  BY DEF NetworkChanges, CallbackQueries, CallbackCompares, networkVars, IInv,
     TypeOK
<1>3. TypeOK'
  BY <1>1, <1>2, ZenonT(60) DEF IInv, TypeOK, ThreadsOK, Places, NumbersOK,
     lockVars, filterVars
<1>4. LockInv' /\ FilterInv'
  BY <1>1, <1>2 DEF IInv, LockInv, FilterInv, CallerWorks, lockVars, filterVars
<1> QED
  BY <1>1, <1>3, <1>4 DEF IInv

\* A restart thread that has been started, from its wait for lock_ to its end.
RestartThread(i) == RestartLock(i) \/ RestartStop(i) \/ RestartJoin(i)
                        \/ RestartQueries(i) \/ RestartAssigns(i)
                        \/ RestartStart(i)

\* A restart thread holds lock_ exclusively while it works.
LEMMA RestartIInv ==
  ASSUME IInv, NEW i \in Restarts, RestartThread(i)
  PROVE  IInv'
<1>0. \A j \in Restarts : j # NoWriter
  BY DEF Restarts, NoWriter
<1>1. /\ ThreadsOK' /\ Untouched'
      /\ \A j \in Restarts \ {i} : restart'[j] = restart[j]
      /\ restart[i] # "none"
  <2>1. /\ restart[i] # "none" /\ changes' = changes
        /\ \E place \in Places : restart' = [restart EXCEPT ![i] = place]
    BY DEF RestartThread, RestartLock, RestartStop, RestartJoin, RestartQueries,
       RestartAssigns, RestartStart, networkVars, Places
  <2>2. \E a \in Adapters \cup {NoAdapter} :
           read' \in {read, [read EXCEPT ![i] = a]}
    BY DEF RestartThread, RestartLock, RestartStop, RestartJoin, RestartQueries,
       RestartAssigns, RestartStart, networkVars, BestInterface
  <2>3. ThreadsOK'
    BY <2>1, <2>2 DEF ThreadsOK, Places, IInv, TypeOK
  <2> QED
    BY <2>1, <2>3 DEF Untouched, IInv, TypeOK
<1>2. NumbersOK'
  <2>1. UNCHANGED <<changes, starts>>
    BY DEF RestartThread, RestartLock, RestartStop, RestartJoin, RestartQueries,
       RestartAssigns, RestartStart, networkVars
  <2> QED
    BY <2>1 DEF NumbersOK, IInv, TypeOK
<1>3. /\ UNCHANGED <<active, caller, network, registered>>
      /\ missed' \subseteq {"start", "callback"}
      /\ default' \in Adapters \cup {NoAdapter}
  <2>1. UNCHANGED <<active, caller, network, registered>> /\ missed' \in {missed, {}}
    BY DEF RestartThread, RestartLock, RestartStop, RestartJoin, RestartQueries,
       RestartAssigns, RestartStart, networkVars
  <2>2. default' \in {default, read[i]}
    BY DEF RestartThread, RestartLock, RestartStop, RestartJoin, RestartQueries,
       RestartAssigns, RestartStart
  <2> QED
    BY <2>1, <2>2 DEF IInv, TypeOK
<1>4. LockInv' /\ writer' \in Restarts \cup {NoWriter} /\ readers' = readers
  <2>1. CASE RestartLock(i)
    <3>1. /\ writer = NoWriter /\ readers = {} /\ writer' = i /\ readers' = {}
      BY <2>1 DEF RestartLock, LockExclusive
    <3>2. \A j \in Restarts : ~Working(j)
      BY <1>0, <3>1 DEF IInv, LockInv
    <3>3. ~CallerWorks
      BY <3>1 DEF IInv, LockInv
    <3> QED
      BY <1>1, <1>3, <3>1, <3>2, <3>3 DEF LockInv, Working, CallerWorks
  <2>2. CASE ~RestartLock(i)
    <3>1. /\ Working(i) /\ readers' = readers
          /\ writer' = writer \/ (writer' = NoWriter /\ ~Working(i)')
      BY <2>2 DEF RestartThread, RestartStop, RestartJoin, RestartQueries,
         RestartAssigns, RestartStart, Working, Unlock, lockVars, IInv, TypeOK
    <3>2. \A j \in Restarts : Working(j) => j = i
      BY <3>1 DEF IInv, LockInv
    <3>3. \A j \in Restarts : Working(j)' => j = i
      BY <1>1, <3>2 DEF Working
    <3>4. writer = i /\ readers = {}
      BY <1>0, <3>1 DEF IInv, LockInv
    <3> QED
      BY <1>3, <3>1, <3>3, <3>4 DEF IInv, LockInv, CallerWorks
  <2> QED
    BY <2>1, <2>2
<1>5. /\ FilterInv'
      /\ packet' \in {"none", "between", "tested", "lost", "lock", "match"}
      /\ filter' \in [state : {"stopped", "starting", "running", "stopping"},
                      interface : {FindInterface(a) : a \in Adapters \cup {NoAdapter}}]
  BY DEF RestartThread, RestartLock, RestartStop, RestartJoin, RestartQueries,
     RestartAssigns, RestartStart, filterVars, FilterInv, StopBegins, StopEnds,
     StartFilter, Reconfigure, IInv, TypeOK
<1>6. interfaces' \in {"listed", "freed"}
  BY <1>5 DEF FilterInv
<1>7. readers' \subseteq {"caller", "packet"} /\ (writer' # NoWriter => readers' = {})
  BY <1>4 DEF LockInv, IInv, TypeOK
<1>8. TypeOK'
  BY <1>1, <1>2, <1>3, <1>4, <1>5, <1>6, <1>7, ZenonT(60)
  DEF IInv, TypeOK, ThreadsOK, Places, NumbersOK
<1> QED
  BY <1>1, <1>4, <1>5, <1>8 DEF IInv

\* The invariant is inductive.
LEMMA NextIInv == IInv /\ [Next]_vars => IInv'
<1> SUFFICES ASSUME IInv, [Next]_vars PROVE IInv'
  OBVIOUS
<1>1. CASE \/ ProcessTests \/ ProcessWakes \/ PacketComes \/ PacketLocks
           \/ PacketThread
  BY <1>1, PacketIInv
<1>2. CASE \/ StartCalled \/ StartLocks \/ StartUpdates
           \/ StartStartsFilter \/ StartNotifies
  BY <1>2, StartIInv
<1>3. CASE \/ StopCalled \/ StopLocks \/ StopCancels \/ StopStopsFilter
           \/ StopJoinsFilter \/ StopReturns
  BY <1>3, StopIInv
<1>4. CASE \/ NetworkChanges
           \/ \E i \in Restarts : CallbackQueries(i) \/ CallbackCompares(i)
  BY <1>4, NetworkIInv
<1>5. CASE \E i \in Restarts : RestartThread(i)
  BY <1>5, RestartIInv
<1>6. CASE UNCHANGED vars
  BY <1>6 DEF vars, lockVars, threadVars, filterVars, networkVars, IInv, TypeOK,
              LockInv, FilterInv, Untouched, CallerWorks, Working
<1>7. QED
  BY <1>1, <1>2, <1>3, <1>4, <1>5, <1>6
  DEF Next, Caller, CallerLocks, Thread, RestartThread

\* The inductive invariant holds throughout.
THEOREM Invariance == Spec => []IInv
BY InitIInv, NextIInv, PTL DEF Spec

\* lock_ serialises start(), stop() and the restart threads, however many
\* there are: at most one of them works on the filter at any time.
THEOREM Serialised == Spec => []OneAtATime
<1>1. IInv => OneAtATime
  BY DEF IInv, LockInv, OneAtATime, Restarts, NoWriter
<1>2. QED
  BY Invariance, <1>1, PTL

\* reconfigure never rebuilds network_interfaces_ while a process thread of
\* the filter could use them, for any sequence of starts, stops and restarts.
THEOREM NoRebuildInUse == Spec => []InterfacesKept
<1>1. IInv => InterfacesKept
  BY DEF IInv, FilterInv, InterfacesKept
<1>2. QED
  BY Invariance, <1>1, PTL
-----------------------------------------------------------------------------
\* What the filter does is right for default_adapter_, or it cannot start.
FilterFits ==
    \/ filter.state = "starting"
    \/ IF FindInterface(default) = NoInterface THEN filter.state = "stopped"
       ELSE filter = [state |-> "running", interface |-> FindInterface(default)]

Inactive == filter.state \in {"stopped", "starting"}

\* Nothing has been notified yet, or will be.
Quiet == ~registered /\ \A i \in Restarts : restart[i] = "none"

Starting ==
    /\ starts = 0 => caller = "idle" /\ ~active /\ Quiet /\ Inactive
    /\ starts = 1 /\ caller \in {"start_lock", "start_update"} =>
         Quiet /\ Inactive
    /\ starts = 1 /\ caller = "start_filter" =>
         /\ Quiet /\ Inactive
         /\ FindInterface(default) # NoInterface
         /\ missed # {} \/ default = BestInterface(network)
    /\ starts = 1 /\ caller = "start_notify" =>
         /\ Quiet /\ FilterFits
         /\ missed # {} \/ default = BestInterface(network)

\* Somebody will read the network, or has read it as it is.
Informed(i) ==
    \/ restart[i] \in {"notified", "lock", "stop", "join", "update"}
    \/ restart[i] \in {"compare", "queried"} /\ read[i] = BestInterface(network)

UpToDate == \/ \E i \in Restarts : Informed(i)
            \/ missed # {} \/ BestInterface(network) = NoAdapter
            \/ ~Assigning /\ ~Changed(BestInterface(network))

\* At each step of a restart the filter is as that step needs it.
Restarting ==
    /\ \A i \in Restarts :
         /\ restart[i] = "stop" => FilterFits
         /\ restart[i] \in {"update", "queried"} => Inactive
         /\ restart[i] = "start" => /\ Inactive
                                    /\ FindInterface(default) # NoInterface
    /\ FilterFits \/ \E i \in Restarts :
                        restart[i] \in {"join", "update", "queried", "start"}

Followed == starts = 1 /\ registered =>
    /\ caller \in {"idle", "stop_lock", "stop_cancel"}
    /\ Restarting /\ UpToDate

FollowInv == IInv /\ Starting /\ Followed
-----------------------------------------------------------------------------
\* Two readings that the callback takes for the same have one interface: the
\* addresses are as many, and none of an adapter's is listed twice.
LEMMA SameInterface ==
  ASSUME NEW a \in Adapters, NEW b \in Adapters,
         SameAdapter(a, b), SameAddressInfo(a, b)
  PROVE  FindInterface(a) = FindInterface(b)
<1> DEFINE n == Len(a.addresses)
<1>1. /\ n \in Nat /\ Len(b.addresses) = n
      /\ DOMAIN a.addresses = 1 .. n /\ DOMAIN b.addresses = 1 .. n
  BY AdapterAssumption DEF SameAddressInfo
<1>2. a.addresses \in Surjection(1 .. n, Elements(a.addresses))
  <2>1. a.addresses \in [1 .. n -> Elements(a.addresses)]
    BY AdapterAssumption
  <2>2. \A x \in Elements(a.addresses) : \E i \in 1 .. n : a.addresses[i] = x
    BY <1>1 DEF Elements
  <2> QED
    BY <2>1, <2>2 DEF Surjection
<1>3. b.addresses \in Injection(1 .. n, Elements(a.addresses))
  <2>1. b.addresses \in [1 .. n -> Elements(a.addresses)]
    <3>1. b.addresses \in [1 .. n -> Elements(b.addresses)]
      BY <1>1, AdapterAssumption
    <3> QED
      BY <3>1 DEF SameAddressInfo
  <2> QED
    BY <1>1, <2>1, AdapterAssumption DEF Injection, IsInjective
<1> HIDE DEF n
<1>4. IsFiniteSet(1 .. n) /\ Cardinality(1 .. n) \in Nat
  BY <1>1, FS_Interval, FS_CardinalityType
<1>5. /\ IsFiniteSet(Elements(a.addresses))
      /\ Cardinality(Elements(a.addresses)) =< Cardinality(1 .. n)
  BY <1>2, <1>4, FS_Surjection
<1>6. /\ Cardinality(1 .. n) =< Cardinality(Elements(a.addresses))
      /\ Cardinality(1 .. n) = Cardinality(Elements(a.addresses))
           => b.addresses \in Surjection(1 .. n, Elements(a.addresses))
  BY <1>3, <1>5, FS_Injection
<1>7. Cardinality(Elements(a.addresses)) \in Nat
  BY <1>5, FS_CardinalityType
<1>8. b.addresses \in Surjection(1 .. n, Elements(a.addresses))
  BY <1>4, <1>5, <1>6, <1>7
<1>9. Elements(a.addresses) = Elements(b.addresses)
  <2>1. Elements(a.addresses) \subseteq {b.addresses[i] : i \in 1 .. n}
    BY <1>8 DEF Surjection
  <2>2. Elements(b.addresses) = {b.addresses[i] : i \in 1 .. n}
    BY <1>1 DEF Elements
  <2> QED
    BY <2>1, <2>2 DEF SameAddressInfo
<1>10. Matching(a) = Matching(b)
  BY <1>9, AdapterAssumption DEF SameAdapter, Matching, Matches, HasAddress
<1> QED
  BY <1>10, AdapterAssumption DEF FindInterface

LEMMA InitFollow == Init => FollowInv
<1> SUFFICES ASSUME Init PROVE FollowInv
  OBVIOUS
<1>1. Starting /\ Followed
  BY DEF Init, Starting, Followed, Quiet, Inactive
<1> QED
  BY <1>1, InitIInv DEF FollowInv

\* The process thread changes nothing that matters here.
LEMMA PacketFollow ==
  ASSUME FollowInv,
         \/ ProcessTests \/ ProcessWakes \/ PacketComes \/ PacketLocks
         \/ PacketThread
  PROVE  Starting' /\ Followed'
<1>1. UNCHANGED <<active, caller, restart, read, filter, default, network,
                  missed, registered, starts>>
  BY DEF ProcessTests, ProcessWakes, PacketComes, PacketThread, PacketLocks,
     PacketMatched, BlockMatched, ProcessSleeps, ProcessExits, networkVars,
     threadVars
<1> QED
  BY <1>1 DEF FollowInv, Starting, Followed, Quiet, Inactive, FilterFits,
     Restarting, UpToDate, Informed, Assigning, Changed

\* The first start() brings the filter to the adapter it reads, unless a change
\* comes between the reading and the registration.
LEMMA StartFollow ==
  ASSUME FollowInv,
         \/ StartCalled \/ StartLocks \/ StartUpdates \/ StartStartsFilter
         \/ StartNotifies
  PROVE  Starting' /\ Followed'
<1> USE DEF FollowInv, Starting, Followed, Quiet, Inactive, FilterFits,
            lockVars, threadVars, filterVars, networkVars
<1>1. CASE StartCalled
  <2>1. starts \in Nat /\ starts' = starts + 1 /\ caller = "idle"
    BY <1>1, RouterAssumption DEF RouterAssumption, StartCalled, IInv, TypeOK
  <2>2. starts' = 1 => starts = 0
    BY <2>1
  <2>3. starts' # 0
    BY <2>1
  <2>4. /\ caller' = "start_lock"
        /\ UNCHANGED <<restart, read, filter, default, network, missed, registered>>
    BY <1>1 DEF StartCalled
  <2> QED
    BY <2>2, <2>3, <2>4
<1>2. CASE StartLocks
  BY <1>2 DEF StartLocks
<1>3. CASE StartUpdates
  <2>1. /\ caller = "start_update" /\ default' = BestInterface(network)
        /\ caller' \in {"start_filter", "start_notify"}
        /\ caller' = "start_filter" <=> FindInterface(default') # NoInterface
        /\ UNCHANGED <<active, restart, read, filter, network, missed, registered,
                       starts>>
    BY <1>3 DEF StartUpdates
  <2>2. starts # 0
    BY <2>1
  <2>3. starts = 1 => Quiet /\ Inactive
    BY <2>1
  <2> QED
    BY <2>1, <2>2, <2>3
<1>4. CASE StartStartsFilter
  BY <1>4 DEF StartStartsFilter, StartFilter
<1>5. CASE StartNotifies
  <2>1. /\ caller = "start_notify" /\ caller' = "idle"
        /\ UNCHANGED <<active, restart, read, filter, default, network, missed,
                       starts>>
    BY <1>5 DEF StartNotifies
  <2>2. default = BestInterface(network) =>
          BestInterface(network)' = NoAdapter \/ ~Changed(BestInterface(network))'
    BY <2>1 DEF Changed, SameAdapter, SameAddressInfo
  <2>3. Starting'
    BY <2>1
  <2>4. starts = 1 => ~Assigning' /\ (missed # {} \/ default = BestInterface(network))
    BY <2>1 DEF Assigning
  <2>5. starts = 1 => UpToDate' /\ Restarting'
    BY <2>1, <2>2, <2>4 DEF UpToDate, Restarting
  <2>6. Followed'
    BY <2>1, <2>5
  <2> QED
    BY <2>3, <2>6
<1> QED
  BY <1>1, <1>2, <1>3, <1>4, <1>5

\* stop() touches the filter only after it has cancelled the notification.
LEMMA StopFollow ==
  ASSUME FollowInv,
         \/ StopCalled \/ StopLocks \/ StopCancels \/ StopStopsFilter
         \/ StopJoinsFilter \/ StopReturns
  PROVE  Starting' /\ Followed'
<1> USE DEF FollowInv, Starting, Followed, Quiet, Inactive, FilterFits,
            lockVars, threadVars, filterVars, networkVars
<1>1. CASE StopCalled \/ StopLocks
  <2>1. /\ caller' \in {"stop_lock", "stop_cancel"}
        /\ starts = 0 => FALSE
        /\ UNCHANGED <<restart, read, filter, default, network, missed, registered,
                       starts>>
    BY <1>1 DEF StopCalled, StopLocks
  <2>2. UNCHANGED <<Restarting, UpToDate>>
    BY <2>1 DEF Restarting, UpToDate, Informed, Assigning, Changed
  <2> QED
    BY <1>1, <2>1, <2>2 DEF StopCalled, StopLocks
<1>2. CASE StopCancels
  BY <1>2 DEF StopCancels
<1>3. CASE StopStopsFilter \/ StopJoinsFilter \/ StopReturns
  <2>1. /\ caller \in {"stop_filter", "stop_join", "stop_proxies"}
        /\ caller' \in {"idle", "stop_join", "stop_proxies"}
        /\ UNCHANGED <<registered, starts>>
    BY <1>3 DEF StopStopsFilter, StopJoinsFilter, StopReturns
  <2> QED
    BY <2>1
<1> QED
  BY <1>1, <1>2, <1>3

\* A change is notified; a callback that reads the network as it is finds it
\* unchanged, or makes a thread wait for lock_, or misses it.
LEMMA NetworkFollow ==
  ASSUME FollowInv,
         \/ NetworkChanges
         \/ \E i \in Restarts : CallbackQueries(i) \/ CallbackCompares(i)
  PROVE  Starting' /\ Followed'
<1> USE DEF FollowInv, Starting, Followed, Quiet, Inactive, FilterFits
<1>1. CASE NetworkChanges
  <2>1. /\ UNCHANGED <<active, caller, read, filter, default, registered, starts>>
        /\ ~registered => restart' = restart
        /\ missed \subseteq missed'
        /\ caller \in {"start_filter", "start_notify"} => missed' # {}
    BY <1>1 DEF NetworkChanges, filterVars
  <2>2. Starting'
    BY <2>1
  <2>3. ASSUME registered
        PROVE  /\ \E i \in Restarts : restart'[i] = "notified"
               /\ \A i \in Restarts :
                    \/ restart'[i] = restart[i]
                    \/ restart[i] = "none" /\ restart'[i] = "notified"
    <3>1. /\ changes + 1 \in Restarts /\ changes + 1 > changes
      BY <1>1, RouterAssumption
      DEF RouterAssumption, NetworkChanges, Restarts, IInv, TypeOK
    <3>2. restart' = [restart EXCEPT ![changes + 1] = "notified"]
      BY <1>1, <2>3 DEF NetworkChanges
    <3>3. restart[changes + 1] = "none" /\ restart \in [Restarts -> Places]
      BY <3>1 DEF IInv, Untouched, TypeOK, Places
    <3> HIDE DEF FollowInv, Starting, Followed
    <3> QED
      BY <3>1, <3>2, <3>3
  <2>4. registered => UpToDate'
    BY <2>3 DEF UpToDate, Informed
  <2>5. registered /\ Restarting => Restarting'
    BY <2>1, <2>3 DEF Restarting
  <2>6. Followed'
    BY <2>1, <2>4, <2>5
  <2> QED
    BY <2>2, <2>6
<1>2. ASSUME NEW i \in Restarts, CallbackQueries(i) \/ CallbackCompares(i)
      PROVE  Starting' /\ Followed'
  <2>1. /\ UNCHANGED <<active, caller, filter, default, network, registered, starts>>
        /\ restart[i] \in {"notified", "compare"}
        /\ missed \subseteq missed'
    BY <1>2 DEF CallbackQueries, CallbackCompares, filterVars, networkVars
  <2>2. /\ restart'[i] \in {"compare", "lock", "none"}
        /\ \A j \in Restarts \ {i} : restart'[j] = restart[j] /\ read'[j] = read[j]
    BY <1>2 DEF CallbackQueries, CallbackCompares, IInv, TypeOK
  <2>3. Starting'
    BY <2>1
  <2>4. Restarting => Restarting'
    BY <2>1, <2>2 DEF Restarting
  <2>5. Assigning' = Assigning
    BY <2>1, <2>2 DEF Assigning
  <2>6. UpToDate => UpToDate'
    <3>1. /\ BestInterface(network)' = BestInterface(network)
          /\ \A a : Changed(a)' = Changed(a)
          /\ \A j \in Restarts \ {i} : Informed(j)' = Informed(j)
      BY <2>1, <2>2 DEF Changed, Informed
    <3>2. \/ Informed(i)'
          \/ missed' # {} \/ BestInterface(network) = NoAdapter
          \/ ~Assigning /\ ~Changed(BestInterface(network))
          \/ ~Informed(i)
      <4>1. CASE CallbackQueries(i)
        <5>1. CASE BestInterface(network) # NoAdapter
          <6>1. restart'[i] = "compare" /\ read'[i] = BestInterface(network)
            BY <4>1, <5>1 DEF CallbackQueries, IInv, TypeOK
          <6> QED
            BY <3>1, <6>1 DEF Informed
        <5> QED
          BY <5>1
      <4>2. CASE CallbackCompares(i)
        <5>1. CASE restart' = [restart EXCEPT ![i] = "lock"]
          <6>1. restart'[i] = "lock"
            BY <5>1 DEF IInv, TypeOK
          <6> QED
            BY <6>1 DEF Informed
        <5>2. CASE restart' # [restart EXCEPT ![i] = "lock"]
          <6>1. /\ ~Changed(read[i]) \/ Assigning
                /\ Assigning => missed' # {}
                /\ restart[i] = "compare"
            BY <4>2, <5>2 DEF CallbackCompares
          <6>2. Informed(i) => read[i] = BestInterface(network)
            BY <6>1 DEF Informed
          <6> QED
            BY <6>1, <6>2
        <5> QED
          BY <5>1, <5>2
      <4> QED
        BY <1>2, <4>1, <4>2
    <3> QED
      BY <2>1, <2>5, <3>1, <3>2 DEF UpToDate
  <2>7. Followed'
    BY <2>1, <2>4, <2>6
  <2> QED
    BY <2>3, <2>7
<1> QED
  BY <1>1, <1>2

\* A restart thread has lock_ to itself: the filter stops, follows the adapter
\* that it reads, and starts again if that has an interface.
LEMMA RestartFollow ==
  ASSUME FollowInv, NEW i \in Restarts, RestartThread(i)
  PROVE  Starting' /\ Followed'
<1>1. /\ restart \in [Restarts -> Places]
      /\ read \in [Restarts -> Adapters \cup {NoAdapter}]
      /\ filter \in [state : {"stopped", "starting", "running", "stopping"},
                     interface : {FindInterface(a) : a \in Adapters \cup {NoAdapter}}]
      /\ restart[i] # "none"
  BY DEF FollowInv, IInv, TypeOK, Places, RestartThread, RestartLock, RestartStop,
     RestartJoin, RestartQueries, RestartAssigns, RestartStart
<1>2. /\ UNCHANGED <<active, caller, network, registered, starts>>
      /\ BestInterface(network)' = BestInterface(network)
  BY DEF RestartThread, RestartLock, RestartStop, RestartJoin, RestartQueries,
     RestartAssigns, RestartStart, networkVars
<1>3. \A j \in Restarts : j # i => ~Working(j)
  <2>1. CASE RestartLock(i)
    <3>1. writer = NoWriter
      BY <2>1 DEF RestartLock, LockExclusive
    <3> QED
      BY <3>1 DEF FollowInv, IInv, LockInv, Restarts, NoWriter
  <2>2. CASE ~RestartLock(i)
    <3>1. Working(i)
      BY <2>2 DEF RestartThread, RestartStop, RestartJoin, RestartQueries,
         RestartAssigns, RestartStart, Working
    <3> QED
      BY <3>1 DEF FollowInv, IInv, LockInv
  <2> QED
    BY <2>1, <2>2
<1>4. Starting'
  <2>1. ~Quiet
    BY <1>1 DEF Quiet
  <2> QED
    BY <1>2, <2>1 DEF FollowInv, Starting
<1> SUFFICES ASSUME Restarting, UpToDate PROVE Restarting' /\ UpToDate'
  BY <1>2, <1>4 DEF FollowInv, Followed
<1> USE DEF Restarting, FilterFits, Inactive, Working
<1>6. CASE RestartLock(i)
  <2>1. /\ restart[i] = "lock" /\ UNCHANGED <<filter, default>>
        /\ restart' = [restart EXCEPT ![i] = "stop"]
    BY <1>6 DEF RestartLock, filterVars
  <2>2. Informed(i)'
    BY <1>1, <2>1 DEF Informed
  <2>3. FilterFits
    BY <1>3, <2>1
  <2> QED
    BY <1>1, <1>3, <2>1, <2>2, <2>3 DEF UpToDate
<1>7. CASE RestartStop(i)
  <2>1. restart[i] = "stop" /\ UNCHANGED default
    BY <1>7 DEF RestartStop
  <2>2. CASE filter.state = "running"
    <3>1. restart' = [restart EXCEPT ![i] = "join"]
      BY <1>7, <2>2 DEF RestartStop
    <3>2. Informed(i)'
      BY <1>1, <3>1 DEF Informed
    <3> QED
      BY <1>1, <1>3, <2>1, <3>1, <3>2 DEF UpToDate
  <2>3. CASE filter.state # "running"
    <3>1. restart' = [restart EXCEPT ![i] = "update"] /\ filter' = filter
      BY <1>7, <2>3 DEF RestartStop, filterVars
    <3>2. Informed(i)'
      BY <1>1, <3>1 DEF Informed
    <3>3. Inactive
      BY <2>1, <2>3
    <3> QED
      BY <1>1, <1>3, <2>1, <3>1, <3>2, <3>3 DEF UpToDate
  <2> QED
    BY <2>2, <2>3
<1>8. CASE RestartJoin(i)
  <2>1. /\ restart[i] = "join" /\ UNCHANGED default
        /\ restart' = [restart EXCEPT ![i] = "update"]
        /\ filter' = [filter EXCEPT !.state = "stopped"]
    BY <1>8 DEF RestartJoin, StopEnds
  <2>2. Informed(i)'
    BY <1>1, <2>1 DEF Informed
  <2>3. Inactive'
    BY <1>1, <2>1
  <2> QED
    BY <1>1, <1>3, <2>1, <2>2, <2>3 DEF UpToDate
<1>9. CASE RestartQueries(i)
  <2>1. /\ restart[i] = "update" /\ filter' = filter /\ default' = default
        /\ restart' = [restart EXCEPT ![i] = "queried"]
        /\ read' = [read EXCEPT ![i] = BestInterface(network)]
    BY <1>9 DEF RestartQueries, filterVars
  <2>2. Informed(i)'
    BY <1>1, <1>2, <2>1 DEF Informed
  <2> QED
    BY <1>1, <1>3, <2>1, <2>2 DEF UpToDate
<1>10. CASE RestartAssigns(i)
  <2>1. /\ restart[i] = "queried" /\ filter' = filter /\ default' = read[i]
        /\ missed' = missed /\ read' = [read EXCEPT ![i] = NoAdapter]
        /\ \/ /\ FindInterface(default') # NoInterface
              /\ restart' = [restart EXCEPT ![i] = "start"]
           \/ /\ FindInterface(default') = NoInterface
              /\ restart' = [restart EXCEPT ![i] = "none"]
    BY <1>10 DEF RestartAssigns, filterVars, networkVars
  <2>2. Inactive
    BY <2>1
  <2>3. Restarting'
    BY <1>1, <1>3, <2>1, <2>2
  <2>4. Assigning /\ ~Assigning'
    BY <1>1, <1>3, <2>1 DEF Assigning
  <2>5. CASE read[i] = BestInterface(network)
    <3>1. BestInterface(network)' = NoAdapter \/ ~Changed(BestInterface(network))'
      BY <1>2, <2>1, <2>5 DEF Changed, SameAdapter, SameAddressInfo
    <3> QED
      BY <2>3, <2>4, <3>1 DEF UpToDate
  <2>6. CASE read[i] # BestInterface(network)
    <3>1. ~Informed(i)
      BY <2>1, <2>6 DEF Informed
    <3>2. \A j \in Restarts \ {i} : Informed(j)' = Informed(j)
      BY <1>1, <1>2, <2>1 DEF Informed
    <3> QED
      BY <1>2, <2>1, <2>3, <2>4, <3>1, <3>2 DEF UpToDate
  <2> QED
    BY <2>5, <2>6
<1>11. CASE RestartStart(i)
  <2>1. /\ restart[i] = "start" /\ UNCHANGED <<default, missed, read>>
        /\ restart' = [restart EXCEPT ![i] = "none"]
        /\ filter.state = "stopped" =>
             filter' \in {[state |-> "running", interface |-> FindInterface(default)],
                         [state |-> "starting", interface |-> FindInterface(default)]}
        /\ filter.state # "stopped" => filter' = filter
    BY <1>11 DEF RestartStart, StartFilter, networkVars, filterVars
  <2>2. FilterFits'
    BY <2>1
  <2>3. Restarting'
    BY <1>1, <1>3, <2>1, <2>2
  <2>4. /\ \A a : Changed(a)' = Changed(a)
        /\ \A j \in Restarts \ {i} : Informed(j)' = Informed(j)
        /\ ~Informed(i) /\ (Assigning' => Assigning)
    BY <1>1, <1>2, <2>1 DEF Changed, Informed, Assigning
  <2> QED
    BY <1>2, <2>1, <2>3, <2>4 DEF UpToDate
<1> QED
  BY <1>6, <1>7, <1>8, <1>9, <1>10, <1>11 DEF RestartThread

LEMMA NextFollow == FollowInv /\ [Next]_vars => FollowInv'
<1> SUFFICES ASSUME FollowInv, [Next]_vars PROVE FollowInv'
  OBVIOUS
<1>1. IInv'
  BY NextIInv DEF FollowInv
<1>2. CASE \/ ProcessTests \/ ProcessWakes \/ PacketComes \/ PacketLocks
           \/ PacketThread
  BY <1>1, <1>2, PacketFollow DEF FollowInv
<1>3. CASE \/ StartCalled \/ StartLocks \/ StartUpdates
           \/ StartStartsFilter \/ StartNotifies
  BY <1>1, <1>3, StartFollow DEF FollowInv
<1>4. CASE \/ StopCalled \/ StopLocks \/ StopCancels \/ StopStopsFilter
           \/ StopJoinsFilter \/ StopReturns
  BY <1>1, <1>4, StopFollow DEF FollowInv
<1>5. CASE \/ NetworkChanges
           \/ \E i \in Restarts : CallbackQueries(i) \/ CallbackCompares(i)
  BY <1>1, <1>5, NetworkFollow DEF FollowInv
<1>6. CASE \E i \in Restarts : RestartThread(i)
  BY <1>1, <1>6, RestartFollow DEF FollowInv
<1>7. CASE UNCHANGED vars
  BY <1>1, <1>7 DEF FollowInv, Starting, Followed, Quiet, Inactive, FilterFits,
     Restarting, UpToDate, Informed, Assigning, Changed, vars, threadVars,
     filterVars, networkVars
<1> QED
  BY <1>1, <1>2, <1>3, <1>4, <1>5, <1>6, <1>7
  DEF Next, Caller, CallerLocks, Thread, RestartThread

\* The filter settles on the interface of the present default adapter, for any
\* adapters, addresses and changes of the network (the change notification, the
\* callback's comparison and the restart threads of socks_local_router), if none
\* was missed: a restart may read the network, lose sight of a change, and assign
\* what it has read, only when a callback has compared in between.
THEOREM FilterFollows == Spec => []FollowsNetwork
<1>1. ASSUME FollowInv PROVE FollowsNetwork
  <2> SUFFICES ASSUME Settled, CanFollow, missed = {} PROVE OnNetwork
    BY DEF FollowsNetwork
  <2>1. FilterFits /\ ~Changed(BestInterface(network)) /\ filter.state # "starting"
    BY <1>1 DEF FollowInv, Followed, Settled, CanFollow, Restarting, UpToDate, Informed
  <2>2. BestInterface(network) = network /\ network \in Adapters
    BY DEF BestInterface, CanFollow
  <2>3. default \in Adapters /\ SameAdapter(network, default)
          /\ SameAddressInfo(network, default)
    BY <1>1, <2>1, <2>2 DEF Changed, FollowInv, IInv, TypeOK
  <2>4. FindInterface(default) = FindInterface(network)
    BY <2>2, <2>3, SameInterface
  <2> QED
    BY <2>1, <2>4 DEF FilterFits, OnNetwork
<1>2. Spec => []FollowInv
  BY InitFollow, NextFollow, PTL DEF Spec
<1> QED
  BY <1>1, <1>2, PTL
=============================================================================
