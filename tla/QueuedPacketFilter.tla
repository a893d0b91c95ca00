------------------------- MODULE QueuedPacketFilter -------------------------
(***************************************************************************)
(* queued_packet_filter: four threads and four queues around which a fixed *)
(* number of packet blocks circulates.  The read thread fills a block from *)
(* the driver, the process thread calls the router's filter functions on   *)
(* its packets, the next two write the packets to the protocol stack       *)
(* (mstcp) and to the network (adapter), and the block returns to the read *)
(* thread.  A controller starts and stops the filter.                      *)
(*                                                                         *)
(* Each queue has its mutex and condition variable.  A thread that found   *)
(* the wait predicate false is "deciding" (it holds the mutex and is about *)
(* to block) before it is "asleep"; pushing needs the mutex, so it cannot  *)
(* happen in between, but changing filter_state_ and notifying the         *)
(* condition variable in release_filter need no mutex.                     *)
(*                                                                         *)
(* Packets are numbered in the order in which the driver queues them.      *)
(***************************************************************************)
EXTENDS Integers, Sequences, FiniteSets, SequencesExt

CONSTANTS Blocks,       \* the packet blocks, maximum_block_num of them
          NoBlock,      \* a null unique_ptr
          BlockSize,    \* maximum_packet_block, packets per block
          MaxPackets,   \* bounds the packets that arrive
          Sent,         \* packets this machine sends; it receives the others
          MaxStarts     \* bounds the calls of start_filter

ASSUME FilterAssumption == /\ IsFiniteSet(Blocks) /\ NoBlock \notin Blocks
                           /\ BlockSize \in Nat \ {0}
                           /\ MaxPackets \in Nat /\ MaxStarts \in Nat
                           /\ Sent \subseteq 1 .. MaxPackets

Threads == {"read", "process", "mstcp", "adapter"}

\* The thread that consumes what t produces.
Successor == [read |-> "process", process |-> "mstcp",
              mstcp |-> "adapter", adapter |-> "read"]

\* What release_filter does after notifying each thread's condition variable.
AfterNotify == [Successor EXCEPT !["adapter"] = "join"]

VARIABLES
    filterState,   \* filter_state_
    control,       \* where the controller is in stop_filter
    pc,            \* where each worker thread is
    held,          \* the block each thread has popped and not yet pushed
    queue,         \* the queue each thread consumes
    packets,       \* packets read into each block
    toMstcp,       \* packets of each block in its write_mstcp_request
    toAdapter,     \* packets of each block in its write_adapter_request
    mode,          \* the driver redirects packets to us (set_mode)
    event,         \* the packet event is signalled
    driver,        \* packets queued in the driver
    arrived,       \* number of packets that have arrived
    mstcpOut,      \* packets given to the protocol stack, in order
    adapterOut,    \* packets given to the network, in order
    gone,          \* packets dropped by a filter function or flushed by a stop
    starts         \* calls of start_filter that did something

stages == <<packets, toMstcp, toAdapter>>
driverVars == <<mode, event, driver, arrived>>
outputs == <<mstcpOut, adapterOut, gone>>
vars == <<filterState, control, pc, held, queue, stages, driverVars, outputs,
          starts>>

Running == filterState = "running"

Init == /\ filterState = "stopped" /\ control = "idle"
        /\ pc = [t \in Threads |-> "none"]
        /\ held = [t \in Threads |-> NoBlock]
        /\ queue = [t \in Threads |-> <<>>]
        /\ packets = [b \in Blocks |-> <<>>]
        /\ toMstcp = [b \in Blocks |-> <<>>]
        /\ toAdapter = [b \in Blocks |-> <<>>]
        /\ mode = FALSE /\ event = FALSE /\ driver = <<>> /\ arrived = 0
        /\ mstcpOut = <<>> /\ adapterOut = <<>> /\ gone = {}
        /\ starts = 0

\* Packets that are in some block.
InBlocks == UNION {Range(packets[b]) \cup Range(toMstcp[b])
                        \cup Range(toAdapter[b]) : b \in Blocks}
-----------------------------------------------------------------------------
\* The driver.

\* A packet enters the driver's queue, which signals the event.
PacketArrives ==
    /\ mode
    /\ arrived < MaxPackets
    /\ arrived' = arrived + 1
    /\ driver' = Append(driver, arrived')
    /\ event' = TRUE
    /\ UNCHANGED <<filterState, control, pc, held, queue, stages, mode,
                   outputs, starts>>
-----------------------------------------------------------------------------
\* Popping a block: the same in all threads except for the read thread, which
\* takes a block that is there without looking at filter_state_ again, unless it
\* had to wait for it.

Goto(t, label) == pc' = [pc EXCEPT ![t] = label]

\* Before and after waiting; the read thread tells the two apart.
Testing(t) == pc[t] \in {"test", "woken"}
Unwaited(t) == t = "read" /\ pc[t] = "test"

\* The loop condition.
LoopTop(t) ==
    /\ pc[t] = "top"
    /\ Goto(t, IF Running THEN "test" ELSE "exited")
    /\ UNCHANGED <<filterState, control, held, queue, stages, driverVars,
                   outputs, starts>>

\* A slip in Pop that the properties must catch.
Pop_LeavesFront(t) ==
    /\ Testing(t)
    /\ queue[t] # <<>>
    /\ Running \/ Unwaited(t)
    /\ held' = [held EXCEPT ![t] = Head(queue[t])]
    /\ Goto(t, IF t = "read" THEN "event" ELSE "work")
    /\ UNCHANGED <<filterState, control, queue, stages, driverVars, outputs,
                   starts>>

\* With the mutex, the wait predicate holds and the front block is popped.
Pop(t) ==
    /\ Testing(t)
    /\ queue[t] # <<>>
    /\ Running \/ Unwaited(t)
    /\ held' = [held EXCEPT ![t] = Head(queue[t])]
    /\ queue' = [queue EXCEPT ![t] = Tail(@)]
    /\ Goto(t, IF t = "read" THEN "event" ELSE "work")
    /\ UNCHANGED <<filterState, control, stages, driverVars, outputs, starts>>

\* The wait predicate holds because the filter is no longer running.
Return(t) ==
    /\ Testing(t)
    /\ ~Running
    /\ Unwaited(t) => queue[t] = <<>>
    /\ Goto(t, "exited")
    /\ UNCHANGED <<filterState, control, held, queue, stages, driverVars,
                   outputs, starts>>

\* The wait predicate is false.
Decide(t) ==
    /\ Testing(t)
    /\ Running /\ queue[t] = <<>>
    /\ Goto(t, "deciding")
    /\ UNCHANGED <<filterState, control, held, queue, stages, driverVars,
                   outputs, starts>>

\* condition_variable::wait blocks and releases the mutex.
FallAsleep(t) ==
    /\ pc[t] = "deciding"
    /\ Goto(t, "asleep")
    /\ UNCHANGED <<filterState, control, held, queue, stages, driverVars,
                   outputs, starts>>
-----------------------------------------------------------------------------
\* Slips in the definitions below that the properties must catch.

Push_NoNotify(t) ==
    LET next == Successor[t] IN
    /\ pc[t] = "push"
    /\ pc[next] # "deciding"
    /\ queue' = [queue EXCEPT ![next] = Append(@, held[t])]
    /\ held' = [held EXCEPT ![t] = NoBlock]
    /\ pc' = [pc EXCEPT ![t] = "top"]
    /\ UNCHANGED <<filterState, control, stages, driverVars, outputs, starts>>

Push_AtFront(t) ==
    LET next == Successor[t] IN
    /\ pc[t] = "push"
    /\ pc[next] # "deciding"
    /\ queue' = [queue EXCEPT ![next] = <<held[t]>> \o @]
    /\ held' = [held EXCEPT ![t] = NoBlock]
    /\ pc' = [pc EXCEPT ![t] = "top",
                        ![next] = IF @ = "asleep" THEN "woken" ELSE @]
    /\ UNCHANGED <<filterState, control, stages, driverVars, outputs, starts>>

\* The block is moved from before it is pushed.
Push_MovedFrom(t) ==
    LET next == Successor[t] IN
    /\ pc[t] = "push"
    /\ pc[next] # "deciding"
    /\ held' = [held EXCEPT ![t] = NoBlock]
    /\ queue' = [queue EXCEPT ![next] = Append(@, held'[t])]
    /\ pc' = [pc EXCEPT ![t] = "top",
                        ![next] = IF @ = "asleep" THEN "woken" ELSE @]
    /\ UNCHANGED <<filterState, control, stages, driverVars, outputs, starts>>

WriteMstcp_ClearsBoth ==
    /\ pc["mstcp"] = "work"
    /\ mstcpOut' = mstcpOut \o toMstcp[held["mstcp"]]
    /\ toMstcp' = [toMstcp EXCEPT ![held["mstcp"]] = <<>>]
    /\ toAdapter' = [toAdapter EXCEPT ![held["mstcp"]] = <<>>]
    /\ Goto("mstcp", "push")
    /\ UNCHANGED <<filterState, control, held, queue, packets, driverVars,
                   adapterOut, gone, starts>>

Joined_ReadOnly == pc["read"] = "exited"
-----------------------------------------------------------------------------
\* Pushing the block to the successor's queue and waking the successor.
Push(t) ==
    LET next == Successor[t] IN
    /\ pc[t] = "push"
    /\ pc[next] # "deciding"
    /\ queue' = [queue EXCEPT ![next] = Append(@, held[t])]
    /\ held' = [held EXCEPT ![t] = NoBlock]
    /\ pc' = [pc EXCEPT ![t] = "top",
                        ![next] = IF @ = "asleep" THEN "woken" ELSE @]
    /\ UNCHANGED <<filterState, control, stages, driverVars, outputs, starts>>
-----------------------------------------------------------------------------
\* The threads' work on the block they hold.

\* packet_read_thread: wait_event(INFINITE).
WaitEvent ==
    /\ pc["read"] = "event" /\ event
    /\ Goto("read", "reset")
    /\ UNCHANGED <<filterState, control, held, queue, stages, driverVars,
                   outputs, starts>>

\* packet_read_thread: reset_event.
ResetEvent ==
    /\ pc["read"] = "reset"
    /\ event' = FALSE
    /\ Goto("read", "fill")
    /\ UNCHANGED <<filterState, control, held, queue, stages, mode, driver,
                   arrived, outputs, starts>>

\* packet_read_thread: ReadPackets, and again if there was nothing to read.
ReadPackets ==
    LET b == held["read"]
        n == IF Len(driver) < BlockSize THEN Len(driver) ELSE BlockSize
    IN
    /\ pc["read"] = "fill"
    /\ packets' = [packets EXCEPT ![b] = SubSeq(driver, 1, n)]
    /\ driver' = SubSeq(driver, n + 1, Len(driver))
    /\ Goto("read", IF n = 0 /\ Running THEN "event" ELSE "push")
    /\ UNCHANGED <<filterState, control, held, queue, toMstcp, toAdapter,
                   mode, event, arrived, outputs, starts>>

\* The packets of s that are in P, in their order: the loop over a block.
Kept(s, P) ==
    LET f[n \in 0 .. Len(s)] ==
            IF n = 0 THEN << >>
            ELSE IF s[n] \in P THEN Append(f[n - 1], s[n]) ELSE f[n - 1]
    IN f[Len(s)]

\* packet_process_thread: a packet that passes continues in its direction, one
\* that is reverted goes back where it came from, the others are dropped.
ProcessPackets ==
    LET b == held["process"] IN
    /\ pc["process"] = "work"
    /\ \E verdict \in [Range(packets[b]) -> {"pass", "drop", "revert"}] :
          LET pass   == {p \in DOMAIN verdict : verdict[p] = "pass"}
              revert == {p \in DOMAIN verdict : verdict[p] = "revert"}
              outward == (pass \cap Sent) \cup (revert \ Sent)
              inward  == (pass \ Sent) \cup (revert \cap Sent)
          IN /\ toAdapter' = [toAdapter EXCEPT ![b] =
                                 @ \o Kept(packets[b], outward)]
             /\ toMstcp' = [toMstcp EXCEPT ![b] =
                                 @ \o Kept(packets[b], inward)]
             /\ gone' = gone \cup {p \in Range(packets[b]) :
                                       verdict[p] = "drop"}
    /\ packets' = [packets EXCEPT ![b] = <<>>]
    /\ Goto("process", "push")
    /\ UNCHANGED <<filterState, control, held, queue, driverVars, mstcpOut,
                   adapterOut, starts>>

\* packet_write_mstcp_thread: SendPacketsToMstcp.
WriteMstcp ==
    LET b == held["mstcp"] IN
    /\ pc["mstcp"] = "work"
    /\ mstcpOut' = mstcpOut \o toMstcp[b]
    /\ toMstcp' = [toMstcp EXCEPT ![b] = <<>>]
    /\ Goto("mstcp", "push")
    /\ UNCHANGED <<filterState, control, held, queue, packets, toAdapter,
                   driverVars, adapterOut, gone, starts>>

\* packet_write_adapter_thread: SendPacketsToAdapter.
WriteAdapter ==
    LET b == held["adapter"] IN
    /\ pc["adapter"] = "work"
    /\ adapterOut' = adapterOut \o toAdapter[b]
    /\ toAdapter' = [toAdapter EXCEPT ![b] = <<>>]
    /\ Goto("adapter", "push")
    /\ UNCHANGED <<filterState, control, held, queue, packets, toMstcp,
                   driverVars, mstcpOut, gone, starts>>
-----------------------------------------------------------------------------
\* The controller.

\* start_filter: allocates the blocks, sets the mode and starts the threads.
\* If init_filter fails the state stays "starting".
StartFilter ==
    /\ control = "idle" /\ filterState = "stopped"
    /\ starts < MaxStarts
    /\ starts' = starts + 1
    /\ \/ /\ filterState' = "running"
          /\ queue' = [queue EXCEPT !["read"] = SetToSeq(Blocks)]
          /\ pc' = [t \in Threads |-> "top"]
          /\ mode' = TRUE
       \/ /\ filterState' = "starting"
          /\ UNCHANGED <<queue, pc, mode>>
    /\ UNCHANGED <<control, held, stages, event, driver, arrived, outputs>>

\* stop_filter: the state changes first, without any mutex.
StopFilter ==
    /\ control = "idle" /\ Running
    /\ filterState' = "stopping"
    /\ control' = "release"
    /\ UNCHANGED <<pc, held, queue, stages, driverVars, outputs, starts>>

\* network_adapter::release: signals the event, resets the mode and flushes.
Release ==
    /\ control = "release"
    /\ event' = TRUE
    /\ mode' = FALSE
    /\ gone' = gone \cup Range(driver)
    /\ driver' = <<>>
    /\ control' = "read"
    /\ UNCHANGED <<filterState, pc, held, queue, stages, arrived, mstcpOut,
                   adapterOut, starts>>

\* release_filter: notify_all on one condition variable after the other.
NotifyAll ==
    /\ control \in Threads
    /\ pc' = [pc EXCEPT ![control] = IF @ = "asleep" THEN "woken" ELSE @]
    /\ control' = AfterNotify[control]
    /\ UNCHANGED <<filterState, held, queue, stages, driverVars, outputs,
                   starts>>

\* The joins of release_filter have all returned.
Joined == \A t \in Threads : pc[t] = "exited"

\* release_filter empties the queues, which frees the blocks with the packets
\* still in them, and stop_filter returns.
JoinThreads ==
    /\ control = "join"
    /\ Joined
    /\ pc' = [t \in Threads |-> "none"]
    /\ queue' = [t \in Threads |-> <<>>]
    /\ gone' = gone \cup InBlocks
    /\ packets' = [b \in Blocks |-> <<>>]
    /\ toMstcp' = [b \in Blocks |-> <<>>]
    /\ toAdapter' = [b \in Blocks |-> <<>>]
    /\ filterState' = "stopped"
    /\ control' = "idle"
    /\ UNCHANGED <<held, driverVars, mstcpOut, adapterOut, starts>>
-----------------------------------------------------------------------------
Work == WaitEvent \/ ResetEvent \/ ReadPackets
            \/ ProcessPackets \/ WriteMstcp \/ WriteAdapter

Thread(t) == LoopTop(t) \/ Pop(t) \/ Return(t) \/ Decide(t) \/ FallAsleep(t)
                 \/ Push(t)

Stopping == Release \/ NotifyAll \/ JoinThreads

Next == \/ PacketArrives
        \/ \E t \in Threads : Thread(t)
        \/ Work
        \/ StartFilter \/ StopFilter \/ Stopping

Spec == Init /\ [][Next]_vars

\* The operating system schedules every thread that can run, the controller
\* inside stop_filter included; nobody is obliged to start, to stop or to send.
Fairness == /\ \A t \in Threads : WF_vars(Thread(t))
            /\ WF_vars(WaitEvent \/ ResetEvent \/ ReadPackets)
            /\ WF_vars(ProcessPackets)
            /\ WF_vars(WriteMstcp) /\ WF_vars(WriteAdapter)
            /\ WF_vars(Stopping)
FairSpec == Spec /\ Fairness
-----------------------------------------------------------------------------
Increasing(s) == \A i, j \in DOMAIN s : i < j => s[i] < s[j]

\* Packets leave the filter, on each side, in the order in which they came and
\* at most once, through all the queues and however the threads interleave.
KeepsOrder == /\ Increasing(mstcpOut) /\ Increasing(adapterOut)
              /\ Range(mstcpOut) \cap Range(adapterOut) = {}

\* Every packet the driver has handed over is in a queue, in a block, written
\* or deliberately discarded: the pipeline loses none.
NoPacketLost ==
    1 .. arrived = Range(driver) \cup InBlocks \cup Range(mstcpOut)
                         \cup Range(adapterOut) \cup gone

\* Together: the filter is a pipe that neither loses, repeats nor reorders.
PacketsKept == KeepsOrder /\ NoPacketLost

\* Where a block is: with a thread, or at a position of a queue.
Places(b) == {<<t, 0>> : t \in {u \in Threads : held[u] = b}}
                 \cup UNION {{<<t, i>> : i \in {j \in DOMAIN queue[t] :
                                                   queue[t][j] = b}} :
                             t \in Threads}

\* A block is in one place only: two threads never work on the same block, and
\* as long as the filter runs no block is lost to the circulation.
BlocksCirculate ==
    \A b \in Blocks : /\ \A p, q \in Places(b) : p = q
                      /\ Running => Places(b) # {}

\* When stop_filter has returned no thread holds a block, and what a thread
\* left unfinished cannot appear in the next run.
StopLeavesNothing ==
    filterState = "stopped" =>
        /\ \A t \in Threads : pc[t] = "none" /\ held[t] = NoBlock
        /\ InBlocks = {} /\ driver = <<>> /\ ~mode

\* While the filter runs no worker sleeps on a queue that has a block: whatever
\* the moment of a push, its notification reaches the consumer before, between
\* or after the test of the wait predicate and the wait.
NoLostWakeup ==
    Running => \A t \in Threads : pc[t] = "asleep" => queue[t] = <<>>

\* stop_filter "Stops packet filtering"; release_filter "Wait for working
\* threads to exit": once stopping, the filter is eventually stopped.
StopCompletes == filterState = "stopping" ~> filterState = "stopped"
=============================================================================
