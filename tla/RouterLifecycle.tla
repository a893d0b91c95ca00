-------------------------- MODULE RouterLifecycle --------------------------
(***************************************************************************)
(* socks_local_router as a whole: start() and stop(), called by one thread *)
(* at a time (Socksifier::m_Lock), the packet filter, whose process thread *)
(* takes the router's lock_ to match packets, and the threads that restart *)
(* the filter when the default network adapter changes.                    *)
(*                                                                         *)
(* lock_ is a std::shared_mutex.  The filter is QueuedPacketFilter reduced *)
(* to its state and its process thread: stop_filter waits for that thread, *)
(* which may be inside the router's filter function, or may have missed    *)
(* the notification that the filter stops; the filter's other threads wait *)
(* and miss it in the same way.  The proxies and the completion port are   *)
(* reduced to the wait of stop() for their threads, none of which uses     *)
(* lock_.                                                                  *)
(***************************************************************************)
EXTENDS Integers, AdapterInfo

CONSTANTS MaxChanges,   \* bounds the changes of the network
          MaxStarts     \* bounds the calls of start()

ASSUME RouterAssumption == MaxChanges \in Nat /\ MaxStarts \in Nat

\* Each change of the network is notified once and starts at most one restart.
Restarts == 1 .. MaxChanges

VARIABLES
    active,      \* is_active_
    caller,      \* where the thread that called start() or stop() is
    writer,      \* holder of lock_, if it is locked exclusively
    readers,     \* holders of lock_, if it is locked shared
    restart,     \* where the notification of each change is: still to come,
                 \* in the callback, or in the restart thread that it started
    read,        \* what it found get_best_interface to return
    filter,      \* filter_state_ and the interface that is filtered
    packet,      \* where the filter's process thread is
    interfaces,  \* network_interfaces_ are "listed", or "freed" while in use
    default,     \* default_adapter_
    network,     \* the adapter the system routes to 1.1.1.1
    registered,  \* changes are notified
    changes,     \* changes of the default adapter
    missed,      \* where one went unnoticed since the last query of a restart
    starts       \* calls of start()

lockVars == <<writer, readers>>
filterVars == <<filter, packet>>
threadVars == <<restart, read>>
networkVars == <<network, changes, missed>>
vars == <<active, caller, lockVars, threadVars, filterVars, interfaces,
          default, networkVars, registered, starts>>

NoWriter == 0

Init == /\ active = FALSE /\ caller = "idle"
        /\ writer = NoWriter /\ readers = {}
        /\ restart = [i \in Restarts |-> "none"]
        /\ read = [i \in Restarts |-> NoAdapter]
        /\ filter = [state |-> "stopped", interface |-> NoInterface]
        /\ packet = "none" /\ interfaces = "listed"
        /\ default = NoAdapter /\ network \in Adapters
        /\ registered = FALSE
        /\ changes = 0 /\ missed = {} /\ starts = 0
-----------------------------------------------------------------------------
\* std::shared_mutex.

LockShared(t) ==
    /\ writer = NoWriter
    /\ readers' = readers \cup {t}
    /\ UNCHANGED writer
UnlockShared(t) == readers' = readers \ {t} /\ UNCHANGED writer

LockExclusive(t) ==
    /\ writer = NoWriter /\ readers = {}
    /\ writer' = t
    /\ UNCHANGED readers
Unlock == writer' = NoWriter /\ UNCHANGED readers

\* While a thread waits to write, others may read or not: the standard leaves
\* it to the implementation.
WriterWaits == \E i \in Restarts : restart[i] = "lock"
-----------------------------------------------------------------------------
\* Slips in the definitions below that the properties must catch.

Reconfigure_Always ==
    interfaces' = IF packet = "none" THEN interfaces ELSE "freed"

RestartLock_Shared(i) ==
    /\ restart[i] = "lock"
    /\ LockShared("restart")
    /\ restart' = [restart EXCEPT ![i] = "stop"]
    /\ UNCHANGED <<active, caller, read, filterVars, interfaces, default,
                   networkVars, registered, starts>>

RestartAssigns_KeepsLock(i) ==
    /\ restart[i] = "queried"
    /\ default' = read[i]
    /\ restart' = [restart EXCEPT ![i] =
                       IF FindInterface(default') # NoInterface THEN "start"
                                                                ELSE "none"]
    /\ read' = [read EXCEPT ![i] = NoAdapter]
    /\ UNCHANGED <<active, caller, lockVars, filterVars, interfaces,
                   networkVars, registered, starts>>

StopReturns_KeepsLock ==
    /\ caller = "stop_proxies"
    /\ caller' = "idle"
    /\ UNCHANGED <<active, lockVars, threadVars, filterVars, interfaces,
                   default, networkVars, registered, starts>>

Changed_LuidOnly(adapter) ==
    ~(default # NoAdapter /\ SameAdapter(adapter, default))
-----------------------------------------------------------------------------
\* The packet filter, as the router uses it.

\* queued_packet_filter::reconfigure: the interfaces are listed anew, unless
\* the filter is not stopped.  The process thread holds pointers to them.
Reconfigure ==
    interfaces' = IF filter.state # "stopped" \/ packet = "none"
                  THEN interfaces ELSE "freed"

\* start_filter, which does nothing unless the filter is stopped.  init_filter
\* may fail; the state then remains "starting".
StartFilter(interface) ==
    IF filter.state = "stopped"
    THEN \/ /\ filter' = [state |-> "running", interface |-> interface]
            /\ packet' = "between"
         \/ /\ filter' = [state |-> "starting", interface |-> interface]
            /\ UNCHANGED packet
    ELSE UNCHANGED filterVars

\* The first half of stop_filter, up to the joins.
StopBegins == /\ filter' = [filter EXCEPT !.state = "stopping"]
              /\ UNCHANGED packet

\* The second half, after them.
StopEnds == /\ packet = "none"
            /\ filter' = [filter EXCEPT !.state = "stopped"]
            /\ UNCHANGED packet

\* The process thread finds no block, but does not sleep yet ...
ProcessTests ==
    /\ packet = "between" /\ filter.state = "running"
    /\ packet' = "tested"
    /\ UNCHANGED <<active, caller, lockVars, threadVars, filter, interfaces,
                   default, networkVars, registered, starts>>

\* ... and then does.  If the filter was stopped meanwhile, the notification
\* comes after it has fallen asleep, or has come before and is lost.
ProcessSleeps ==
    /\ packet = "tested"
    /\ \/ packet' = "between"
       \/ filter.state # "running" /\ packet' = "lost"
    /\ UNCHANGED <<active, caller, lockVars, threadVars, filter, interfaces,
                   default, networkVars, registered, starts>>

\* The read thread, if it was busy, may still hand on a block and notify.
ProcessWakes ==
    /\ packet = "lost"
    /\ packet' = "between"
    /\ UNCHANGED <<active, caller, lockVars, threadVars, filter, interfaces,
                   default, networkVars, registered, starts>>

\* A block of packets comes to the thread, which calls the filter function ...
PacketComes ==
    /\ packet = "between" /\ filter.state = "running"
    /\ packet' = "lock"
    /\ UNCHANGED <<active, caller, lockVars, threadVars, filter, interfaces,
                   default, networkVars, registered, starts>>

\* ... for each of them, which takes lock_ shared in get_proxy_port_tcp and the
\* like ...
PacketLocks ==
    /\ packet = "lock"
    /\ LockShared("packet")
    /\ packet' = "match"
    /\ UNCHANGED <<active, caller, threadVars, filter, interfaces,
                   default, networkVars, registered, starts>>

\* ... and releases it, be there more packets in the block ...
PacketMatched ==
    /\ packet = "match"
    /\ UnlockShared("packet")
    /\ packet' = "lock"
    /\ UNCHANGED <<active, caller, threadVars, filter, interfaces,
                   default, networkVars, registered, starts>>

\* ... or not.
BlockMatched ==
    /\ packet = "match"
    /\ UnlockShared("packet")
    /\ packet' = "between"
    /\ UNCHANGED <<active, caller, threadVars, filter, interfaces,
                   default, networkVars, registered, starts>>

\* The process thread sees that the filter is no longer running.
ProcessExits ==
    /\ packet = "between" /\ filter.state # "running"
    /\ packet' = "none"
    /\ UNCHANGED <<active, caller, lockVars, threadVars, filter, interfaces,
                   default, networkVars, registered, starts>>
-----------------------------------------------------------------------------
\* start().

\* is_active_ is exchanged, then lock_ is taken shared.
StartCalled ==
    /\ caller = "idle" /\ ~active
    /\ starts < MaxStarts
    /\ starts' = starts + 1
    /\ active' = TRUE
    /\ caller' = "start_lock"
    /\ UNCHANGED <<lockVars, threadVars, filterVars, interfaces, default,
                   networkVars, registered>>

StartLocks ==
    /\ caller = "start_lock"
    /\ LockShared("caller")
    /\ caller' = "start_update"
    /\ UNCHANGED <<active, threadVars, filterVars, interfaces, default,
                   networkVars, registered, starts>>

\* update_network_configuration.  The query of the adapter and its assignment
\* are one step: no callback is registered that could compare in between.
StartUpdates ==
    /\ caller = "start_update"
    /\ Reconfigure
    /\ default' = BestInterface(network)
    /\ caller' = IF FindInterface(default') # NoInterface
                 THEN "start_filter" ELSE "start_notify"
    /\ UNCHANGED <<active, lockVars, threadVars, filterVars, networkVars,
                   registered, starts>>

StartStartsFilter ==
    /\ caller = "start_filter"
    /\ StartFilter(FindInterface(default))
    /\ caller' = "start_notify"
    /\ UNCHANGED <<active, lockVars, threadVars, interfaces, default,
                   networkVars, registered, starts>>

\* set_notify_ip_interface_change, and start() returns.
StartNotifies ==
    /\ caller = "start_notify"
    /\ registered' = TRUE
    /\ UnlockShared("caller")
    /\ caller' = "idle"
    /\ UNCHANGED <<active, threadVars, filterVars, interfaces, default,
                   networkVars, starts>>
-----------------------------------------------------------------------------
\* stop().

StopCalled ==
    /\ caller = "idle" /\ active
    /\ active' = FALSE
    /\ caller' = "stop_lock"
    /\ UNCHANGED <<lockVars, threadVars, filterVars, interfaces, default,
                   networkVars, registered, starts>>

StopLocks ==
    /\ caller = "stop_lock"
    /\ LockShared("caller")
    /\ caller' = "stop_cancel"
    /\ UNCHANGED <<active, threadVars, filterVars, interfaces, default,
                   networkVars, registered, starts>>

\* CancelMibChangeNotify2 waits for callbacks that have begun; there will be no
\* others.
StopCancels ==
    /\ caller = "stop_cancel"
    /\ \A i \in Restarts : restart[i] # "compare"
    /\ registered' = FALSE
    /\ restart' = [i \in Restarts |-> IF restart[i] = "notified"
                                      THEN "none" ELSE restart[i]]
    /\ caller' = "stop_filter"
    /\ UNCHANGED <<active, lockVars, read, filterVars, interfaces, default,
                   networkVars, starts>>

StopStopsFilter ==
    /\ caller = "stop_filter"
    /\ \/ /\ filter.state = "running"
          /\ StopBegins
          /\ caller' = "stop_join"
       \/ /\ filter.state # "running"
          /\ UNCHANGED filterVars
          /\ caller' = "stop_proxies"
    /\ UNCHANGED <<active, lockVars, threadVars, interfaces, default,
                   networkVars, registered, starts>>

StopJoinsFilter ==
    /\ caller = "stop_join"
    /\ StopEnds
    /\ caller' = "stop_proxies"
    /\ UNCHANGED <<active, lockVars, threadVars, interfaces, default,
                   networkVars, registered, starts>>

\* The proxies and the thread pool have been stopped, and stop() returns.
StopReturns ==
    /\ caller = "stop_proxies"
    /\ UnlockShared("caller")
    /\ caller' = "idle"
    /\ UNCHANGED <<active, threadVars, filterVars, interfaces, default,
                   networkVars, registered, starts>>
-----------------------------------------------------------------------------
\* Changes of the network.

NetworkChanges ==
    /\ changes < MaxChanges
    /\ changes' = changes + 1
    /\ \E a \in (Adapters \cup {NoAdapter}) \ {network} : network' = a
    /\ restart' = IF registered
                  THEN [restart EXCEPT ![changes + 1] = "notified"]
                  ELSE restart
    /\ missed' = IF caller \in {"start_filter", "start_notify"}
                 THEN missed \cup {"start"} ELSE missed
    /\ UNCHANGED <<active, caller, lockVars, read, filterVars, interfaces,
                   default, registered, starts>>

\* ip_interface_changed_callback reads the adapter, if there is one ...
CallbackQueries(i) ==
    /\ restart[i] = "notified"
    /\ \/ /\ BestInterface(network) # NoAdapter
          /\ restart' = [restart EXCEPT ![i] = "compare"]
          /\ read' = [read EXCEPT ![i] = BestInterface(network)]
       \/ /\ BestInterface(network) = NoAdapter
          /\ restart' = [restart EXCEPT ![i] = "none"]
          /\ UNCHANGED read
    /\ UNCHANGED <<active, caller, lockVars, filterVars, interfaces, default,
                   networkVars, registered, starts>>

\* The callback's test, which reads default_adapter_ without lock_.
Changed(adapter) ==
    ~ /\ default # NoAdapter
      /\ SameAdapter(adapter, default) /\ SameAddressInfo(adapter, default)

\* A restart has queried the adapter and may be assigning it: whatever is
\* compared with it then may seem changed or not.
Assigning == \E i \in Restarts : restart[i] = "queried"

\* ... and starts a restart thread, detached, unless the adapter is the default
\* one already.
CallbackCompares(i) ==
    /\ restart[i] = "compare"
    /\ \/ /\ Changed(read[i]) \/ Assigning
          /\ restart' = [restart EXCEPT ![i] = "lock"]
          /\ UNCHANGED missed
       \/ /\ ~Changed(read[i]) \/ Assigning
          /\ restart' = [restart EXCEPT ![i] = "none"]
          /\ missed' = IF Assigning THEN missed \cup {"callback"} ELSE missed
    /\ read' = [read EXCEPT ![i] = NoAdapter]
    /\ UNCHANGED <<active, caller, lockVars, filterVars, interfaces, default,
                   network, changes, registered, starts>>

\* The restart thread holds lock_ exclusively from here on.
RestartLock(i) ==
    /\ restart[i] = "lock"
    /\ LockExclusive(i)
    /\ restart' = [restart EXCEPT ![i] = "stop"]
    /\ UNCHANGED <<active, caller, read, filterVars, interfaces, default,
                   networkVars, registered, starts>>

RestartStop(i) ==
    /\ restart[i] = "stop"
    /\ \/ /\ filter.state = "running"
          /\ StopBegins
          /\ restart' = [restart EXCEPT ![i] = "join"]
       \/ /\ filter.state # "running"
          /\ UNCHANGED filterVars
          /\ restart' = [restart EXCEPT ![i] = "update"]
    /\ UNCHANGED <<active, caller, lockVars, read, interfaces, default,
                   networkVars, registered, starts>>

RestartJoin(i) ==
    /\ restart[i] = "join"
    /\ StopEnds
    /\ restart' = [restart EXCEPT ![i] = "update"]
    /\ UNCHANGED <<active, caller, lockVars, read, interfaces, default,
                   networkVars, registered, starts>>

\* update_network_configuration: the adapter is queried ...
RestartQueries(i) ==
    /\ restart[i] = "update"
    /\ Reconfigure
    /\ read' = [read EXCEPT ![i] = BestInterface(network)]
    /\ restart' = [restart EXCEPT ![i] = "queried"]
    /\ missed' = {}
    /\ UNCHANGED <<active, caller, lockVars, filterVars, default, network,
                   changes, registered, starts>>

\* ... and assigned; without an interface the thread ends here.
RestartAssigns(i) ==
    /\ restart[i] = "queried"
    /\ default' = read[i]
    /\ \/ /\ FindInterface(default') # NoInterface
          /\ restart' = [restart EXCEPT ![i] = "start"]
          /\ UNCHANGED lockVars
       \/ /\ FindInterface(default') = NoInterface
          /\ restart' = [restart EXCEPT ![i] = "none"]
          /\ Unlock
    /\ read' = [read EXCEPT ![i] = NoAdapter]
    /\ UNCHANGED <<active, caller, filterVars, interfaces, networkVars,
                   registered, starts>>

RestartStart(i) ==
    /\ restart[i] = "start"
    /\ StartFilter(FindInterface(default))
    /\ restart' = [restart EXCEPT ![i] = "none"]
    /\ Unlock
    /\ UNCHANGED <<active, caller, read, interfaces, default, networkVars,
                   registered, starts>>
-----------------------------------------------------------------------------
PacketThread == ProcessSleeps \/ PacketMatched \/ BlockMatched \/ ProcessExits
Caller == StartUpdates \/ StartStartsFilter \/ StartNotifies \/ StopCancels
            \/ StopStopsFilter \/ StopJoinsFilter \/ StopReturns
CallerLocks == StartLocks \/ StopLocks
Thread(i) == CallbackQueries(i) \/ CallbackCompares(i)
                \/ RestartLock(i) \/ RestartStop(i) \/ RestartJoin(i)
                \/ RestartQueries(i) \/ RestartAssigns(i) \/ RestartStart(i)

Next == \/ ProcessTests \/ ProcessWakes \/ PacketComes \/ PacketLocks
        \/ PacketThread
        \/ StartCalled \/ StopCalled \/ CallerLocks \/ Caller
        \/ NetworkChanges
        \/ \E i \in Restarts : Thread(i)

Spec == Init /\ [][Next]_vars

\* Every thread that can run is scheduled, a block has finitely many packets,
\* and whoever waits for lock_ gets it if it is free again and again; but a
\* reader only if no writer waits.  Nothing wakes a thread whose notification is
\* lost.  The caller's last step waits for the threads of the proxies: that it
\* ends is StopReturns of TcpProxyServer and of UdpProxy.
Fairness == /\ WF_vars(PacketThread) /\ SF_vars(BlockMatched)
            /\ SF_vars(~WriterWaits /\ PacketLocks)
            /\ WF_vars(Caller) /\ SF_vars(~WriterWaits /\ CallerLocks)
            /\ \A i \in Restarts : /\ WF_vars(Thread(i))
                                   /\ SF_vars(RestartLock(i))
FairSpec == Spec /\ Fairness
-----------------------------------------------------------------------------
TypeOK ==
    /\ active \in BOOLEAN /\ registered \in BOOLEAN
    /\ caller \in {"idle", "start_lock", "start_update", "start_filter",
                   "start_notify", "stop_lock", "stop_cancel", "stop_filter",
                   "stop_join", "stop_proxies"}
    /\ writer \in Restarts \cup {NoWriter}
    /\ readers \subseteq {"caller", "packet"}
    /\ writer # NoWriter => readers = {}
    /\ restart \in [Restarts -> {"none", "notified", "compare", "lock", "stop",
                                 "join", "update", "queried", "start"}]
    /\ read \in [Restarts -> Adapters \cup {NoAdapter}]
    /\ filter \in [state : {"stopped", "starting", "running", "stopping"},
                   interface : {FindInterface(a) : a \in Adapters \cup {NoAdapter}}]
    /\ packet \in {"none", "between", "tested", "lost", "lock", "match"}
    /\ interfaces \in {"listed", "freed"}
    /\ default \in Adapters \cup {NoAdapter}
    /\ network \in Adapters \cup {NoAdapter}
    /\ missed \subseteq {"start", "callback"}
    /\ changes \in 0 .. MaxChanges /\ starts \in 0 .. MaxStarts

Working(i) == restart[i] \in {"stop", "join", "update", "queried", "start"}
CallerWorks == caller \notin {"idle", "start_lock", "stop_lock"}

\* The filter, default_adapter_ and if_index_ have no lock of their own: at
\* most one thread starts, stops or reconfigures at any time, because the
\* restart threads hold lock_ exclusively and start() and stop() shared.
OneAtATime ==
    /\ \A i, j \in Restarts : Working(i) /\ Working(j) => i = j
    /\ CallerWorks => \A i \in Restarts : ~Working(i)

\* reconfigure "Should be called when the filter is inactive": the interfaces
\* are never listed anew under a running process thread, even if a late
\* restart thread has started the filter between stop() and start().
InterfacesKept == interfaces = "listed"

\* The first start is over, and no call, notification or restart is under way.
Settled == /\ starts = 1 /\ registered /\ caller = "idle"
           /\ \A i \in Restarts : restart[i] = "none"

\* The filter runs on the interface of the network's adapter, which for a PPP
\* connection depends on its address, or stands still if it has none.
OnNetwork == LET i == FindInterface(network)
             IN IF i # NoInterface
                THEN filter = [state |-> "running", interface |-> i]
                ELSE filter.state = "stopped"

\* A filter that could start, in a network that routes somewhere.
CanFollow == filter.state # "starting" /\ BestInterface(network) # NoAdapter

\* After any sequence of changes the filter settles on the network's adapter,
\* unless one was missed: in start(), before changes are notified, or by a
\* callback that compares while a restart has queried the adapter and not yet
\* assigned it.  See README, "What the code does not ensure".
FollowsNetwork == Settled /\ CanFollow /\ missed = {} => OnNetwork

Joins == caller = "stop_join" \/ \E i \in Restarts : restart[i] = "join"

\* A restart thread waits for the process thread, and that one for lock_.
Deadlocked == packet = "lock" /\ \E i \in Restarts : restart[i] = "join"

\* stop() waits for the process thread, that one for lock_ behind a restart
\* thread, and this one for stop() to release it.
DeadlockedBehindWriter ==
    packet = "lock" /\ caller = "stop_join" /\ WriterWaits

\* stop_filter waits for a thread that has missed its notification.
WakeupLost == packet = "lost" /\ Joins

\* "Stop the current filter", "Update the network configuration", "start the
\* filter again": a restart that has lock_ ends, lost notifications apart.
RestartEnds == \A i \in Restarts :
                   restart[i] = "stop" ~> (restart[i] = "none" \/ WakeupLost)

\* A restart ends, and start() and stop() return, whatever packets come and
\* locks are waited for, or they hang for ever in one of the states above: a
\* deadlock with the packet thread, or a lost notification.
Hangs == [](Deadlocked \/ DeadlockedBehindWriter \/ WakeupLost)
EndsOrHangs ==
    /\ \A i \in Restarts :
         restart[i] = "lock" ~> (restart[i] = "none" \/ Hangs)
    /\ caller # "idle" ~> (caller = "idle" \/ Hangs)

\* stop() "stops the network filter": with the router inactive, and no call
\* under way, the filter does not run.
StoppedFilterStays == ~active /\ caller = "idle" => filter.state # "running"
=============================================================================
