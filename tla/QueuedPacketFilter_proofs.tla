--------------------- MODULE QueuedPacketFilter_proofs ---------------------
(***************************************************************************)
(* For any number of blocks and packets: no worker of the packet filter    *)
(* sleeps over a block, no two threads work on the same block, no block is *)
(* lost while the filter runs, stop_filter leaves nothing behind, and      *)
(* packets come out once, in their order, unless the filter is stopped.    *)
(*                                                                         *)
(* The invariant says which labels of a thread go with a block in its      *)
(* hands, that a thread about to sleep has an empty queue (nothing can be  *)
(* pushed to it, for it holds the mutex), and that hands and queues hold   *)
(* each block once.  That of the packets comes before its proofs, below.   *)
(***************************************************************************)
EXTENDS QueuedPacketFilter, FiniteSetTheorems, WellFoundedInduction, TLAPS

Waiting == {"deciding", "asleep"}
Free    == {"none", "top", "test", "woken", "exited"} \cup Waiting
Labels  == Free \cup {"event", "reset", "fill", "work", "push"}
Off     == {"stopped", "starting"}

Types ==
    /\ filterState \in Off \cup {"running", "stopping"}
    /\ control \in {"idle", "release", "join"} \cup Threads
    /\ pc \in [Threads -> Labels]
    /\ held \in [Threads -> Blocks \cup {NoBlock}]
    /\ queue \in [Threads -> Seq(Blocks)]

Hands == \A t \in Threads : held[t] = NoBlock <=> pc[t] \in Free

Wakes == \A t \in Threads : pc[t] \in Waiting => queue[t] = <<>>

OnePlace ==
    /\ \A t, u \in Threads : held[t] = held[u] /\ held[t] # NoBlock => t = u
    /\ \A t, u \in Threads : \A i \in 1 .. Len(queue[u]) : held[t] # queue[u][i]
    /\ \A t, u \in Threads :
         \A i \in 1 .. Len(queue[t]) : \A j \in 1 .. Len(queue[u]) :
           queue[t][i] = queue[u][j] => t = u /\ i = j

Somewhere ==
    Running => \A b \in Blocks :
                 \/ \E t \in Threads : held[t] = b
                 \/ \E t \in Threads : \E i \in 1 .. Len(queue[t]) :
                      queue[t][i] = b

NoPackets == \A b \in Blocks : packets[b] = <<>> /\ toMstcp[b] = <<>>
                                                 /\ toAdapter[b] = <<>>

StopInv ==
    /\ filterState \in Off =>
         /\ control = "idle" /\ NoPackets
         /\ \A t \in Threads : pc[t] = "none" /\ queue[t] = <<>>
    /\ control # "idle" => filterState = "stopping"
    /\ filterState \in Off \/ control \notin {"idle", "release"}
         => ~mode /\ driver = <<>>

IInv == Types /\ Hands /\ Wakes /\ OnePlace /\ Somewhere /\ StopInv
-----------------------------------------------------------------------------
\* The order of the threads, written out.
LEMMA ThreadFacts ==
  /\ "read" \in Threads /\ "process" \in Threads
  /\ "mstcp" \in Threads /\ "adapter" \in Threads
  /\ \A t \in Threads : Successor[t] \in Threads /\ Successor[t] # t
  /\ \A t \in Threads : AfterNotify[t] \in Threads \cup {"join"}
  /\ "idle" \notin Threads /\ "release" \notin Threads /\ "join" \notin Threads
BY DEF Threads, Successor, AfterNotify

\* A step that moves no block.
LEMMA StillStep ==
  ASSUME IInv, UNCHANGED <<held, queue>>, Running' => Running
  PROVE  OnePlace' /\ Somewhere'
BY DEF IInv, OnePlace, Somewhere

\* A thread moves on without touching its queue or its block.
LEMMA GotoStep ==
  ASSUME IInv, NEW t \in Threads, NEW label \in Labels, Goto(t, label),
         pc[t] # "none", pc[t] \in Free <=> label \in Free,
         label \in Waiting => queue[t] = <<>>,
         UNCHANGED <<filterState, control, held, queue, mode>>,
         driver' = driver \/ control \in {"idle", "release"}
  PROVE  IInv'
<1>1. filterState \notin Off
  BY DEF IInv, StopInv
<1>2. /\ pc' \in [Threads -> Labels] /\ pc'[t] = label
      /\ \A u \in Threads \ {t} : pc'[u] = pc[u]
  BY DEF IInv, Types, Goto
<1>3. Types'
  BY <1>2 DEF IInv, Types
<1>4. Hands' /\ Wakes'
  BY <1>2 DEF IInv, Hands, Wakes
<1>5. StopInv'
  BY <1>1 DEF IInv, StopInv
<1> QED
  BY <1>3, <1>4, <1>5, StillStep DEF IInv, Running

\* A thread that tests its predicate, goes to sleep, or wakes.
LEMMA IdleStep ==
  ASSUME IInv, NEW t \in Threads,
         LoopTop(t) \/ Return(t) \/ Decide(t) \/ FallAsleep(t)
  PROVE  IInv'
<1>1. UNCHANGED <<filterState, control, held, queue, mode, driver>>
  BY DEF LoopTop, Return, Decide, FallAsleep, driverVars
<1>2. \E label \in {"test", "exited", "deciding", "asleep"} :
        /\ Goto(t, label) /\ pc[t] \in {"top", "test", "woken", "deciding"}
        /\ label \in Waiting => queue[t] = <<>>
  BY DEF IInv, Wakes, LoopTop, Testing, Return, Decide, FallAsleep, Waiting
<1> QED
  BY <1>1, <1>2, GotoStep DEF Labels, Free, Waiting

\* A thread that hands a block on.
LEMMA WorkStep ==
  ASSUME IInv, Work
  PROVE  IInv'
<1>1. UNCHANGED <<filterState, control, held, queue, mode>>
  BY DEF Work, WaitEvent, ResetEvent, ReadPackets, ProcessPackets, WriteMstcp,
         WriteAdapter, driverVars
<1>2. \E t \in Threads : \E label \in {"reset", "fill", "event", "push"} :
        Goto(t, label) /\ pc[t] \in {"event", "reset", "fill", "work"}
  BY ThreadFacts
     DEF Work, WaitEvent, ResetEvent, ReadPackets, ProcessPackets, WriteMstcp,
         WriteAdapter
<1>3. driver' = driver \/ control \in {"idle", "release"}
  <2>1. CASE ReadPackets
    <3>1. control \notin {"idle", "release"} => driver = <<>>
      BY DEF IInv, StopInv
    <3>2. driver = <<>> => driver' = <<>>
      BY <2>1 DEF ReadPackets
    <3> QED
      BY <3>1, <3>2
  <2>2. CASE ~ReadPackets
    BY <2>2 DEF Work, WaitEvent, ResetEvent, ProcessPackets, WriteMstcp,
       WriteAdapter, driverVars
  <2> QED
    BY <2>1, <2>2
<1> QED
  BY <1>1, <1>2, <1>3, GotoStep DEF Labels, Free, Waiting

\* A block in two places is in one.
LEMMA OnePlaceFacts ==
  ASSUME OnePlace, NEW t \in Threads, NEW u \in Threads
  PROVE  /\ held[t] = held[u] /\ held[t] # NoBlock => t = u
         /\ \A i \in 1 .. Len(queue[u]) : held[t] # queue[u][i]
         /\ \A i \in 1 .. Len(queue[t]) : \A j \in 1 .. Len(queue[u]) :
              queue[t][i] = queue[u][j] => t = u /\ i = j
BY DEF OnePlace
-----------------------------------------------------------------------------
\* A thread takes the first block of its queue.
LEMMA PopStep ==
  ASSUME IInv, NEW t \in Threads, Pop(t)
  PROVE  IInv'
<1> DEFINE q == queue[t]
<1>1. /\ q \in Seq(Blocks) /\ q # <<>> /\ pc[t] \in {"test", "woken"} /\ held[t] = NoBlock
      /\ UNCHANGED <<filterState, control, mode, driver>>
  BY DEF IInv, Types, Hands, Pop, Testing, driverVars, Free
<1>2. /\ Head(q) = q[1] /\ Tail(q) \in Seq(Blocks) /\ Len(q) \in Nat \ {0}
      /\ Len(Tail(q)) = Len(q) - 1
      /\ \A i \in 1 .. Len(q) - 1 : Tail(q)[i] = q[i + 1]
      /\ q[1] \in Blocks
  BY <1>1
<1>3. /\ held' \in [Threads -> Blocks \cup {NoBlock}] /\ held'[t] = q[1]
      /\ \A u \in Threads \ {t} : held'[u] = held[u]
      /\ queue' \in [Threads -> Seq(Blocks)] /\ queue'[t] = Tail(q)
      /\ \A u \in Threads \ {t} : queue'[u] = queue[u]
  BY <1>1, <1>2 DEF IInv, Types, Pop
<1>4. /\ pc' \in [Threads -> Labels] /\ pc'[t] \in {"event", "work"}
      /\ \A u \in Threads \ {t} : pc'[u] = pc[u]
  BY DEF IInv, Types, Pop, Goto, Labels
<1>5. Types' /\ Hands' /\ Wakes'
  <2>1. Types'
    BY <1>1, <1>3, <1>4 DEF IInv, Types
  <2>2. held'[t] # NoBlock
    BY <1>2, <1>3, FilterAssumption DEF FilterAssumption
  <2>3. Hands'
    BY <1>1, <1>3, <1>4, <2>2 DEF IInv, Hands, Free, Waiting
  <2>4. Wakes'
    BY <1>3, <1>4 DEF IInv, Wakes, Waiting
  <2> QED
    BY <2>1, <2>3, <2>4
<1> HIDE DEF q
<1>6. \A i \in 1 .. Len(queue'[t]) :
        i + 1 \in 1 .. Len(queue[t]) /\ queue'[t][i] = queue[t][i + 1]
  BY <1>2, <1>3 DEF q
<1>7. \A u \in Threads : \A i \in 1 .. Len(queue'[u]) :
        \E j \in 1 .. Len(queue[u]) :
          queue'[u][i] = queue[u][j] /\ j = IF u = t THEN i + 1 ELSE i
  <2> SUFFICES ASSUME NEW u \in Threads, NEW i \in 1 .. Len(queue'[u])
               PROVE  \E j \in 1 .. Len(queue[u]) :
                        /\ queue'[u][i] = queue[u][j]
                        /\ j = IF u = t THEN i + 1 ELSE i
    OBVIOUS
  <2>1. CASE u = t
    BY <1>6, <2>1
  <2>2. CASE u # t
    BY <1>3, <2>2
  <2> QED
    BY <2>1, <2>2
<1>8. 1 \in 1 .. Len(queue[t]) /\ held'[t] = queue[t][1]
  BY <1>2, <1>3 DEF q
<1>9. OnePlace'
  <2>1. ASSUME NEW u \in Threads, NEW v \in Threads,
               held'[u] = held'[v], held'[u] # NoBlock
        PROVE  u = v
    <3>1. CASE u # t /\ v # t
      <4>1. held[u] = held[v] /\ held[u] # NoBlock
        BY <1>3, <2>1, <3>1
      <4> QED
        BY <4>1, OnePlaceFacts DEF IInv
    <3>2. CASE u = t /\ v # t
      <4>1. held[v] = queue[t][1]
        BY <1>3, <1>8, <2>1, <3>2
      <4> QED
        BY <1>8, <4>1, OnePlaceFacts DEF IInv
    <3>3. CASE u # t /\ v = t
      <4>1. held[u] = queue[t][1]
        BY <1>3, <1>8, <2>1, <3>3
      <4> QED
        BY <1>8, <4>1, OnePlaceFacts DEF IInv
    <3> QED
      BY <3>1, <3>2, <3>3
  <2>2. ASSUME NEW u \in Threads, NEW v \in Threads, NEW i \in 1 .. Len(queue'[v])
        PROVE  held'[u] # queue'[v][i]
    <3>1. PICK j \in 1 .. Len(queue[v]) :
            queue'[v][i] = queue[v][j] /\ j = IF v = t THEN i + 1 ELSE i
      BY <1>7
    <3>2. CASE u # t
      <4>1. held[u] # queue[v][j]
        BY OnePlaceFacts DEF IInv
      <4> QED
        BY <1>3, <3>1, <3>2, <4>1
    <3>3. CASE u = t
      <4>1. ~(v = t /\ j = 1)
        BY <3>1
      <4>2. queue[t][1] # queue[v][j]
        BY <1>8, <4>1, OnePlaceFacts DEF IInv
      <4> QED
        BY <1>8, <3>1, <3>3, <4>2
    <3> QED
      BY <3>2, <3>3
  <2>3. ASSUME NEW u \in Threads, NEW v \in Threads,
               NEW i \in 1 .. Len(queue'[u]), NEW j \in 1 .. Len(queue'[v]),
               queue'[u][i] = queue'[v][j]
        PROVE  u = v /\ i = j
    <3>1. PICK k \in 1 .. Len(queue[u]) :
            queue'[u][i] = queue[u][k] /\ k = IF u = t THEN i + 1 ELSE i
      BY <1>7
    <3>2. PICK l \in 1 .. Len(queue[v]) :
            queue'[v][j] = queue[v][l] /\ l = IF v = t THEN j + 1 ELSE j
      BY <1>7
    <3>3. u = v /\ k = l
      <4>1. queue[u][k] = queue[v][l]
        BY <2>3, <3>1, <3>2
      <4> QED
        BY <4>1, OnePlaceFacts DEF IInv
    <3> QED
      BY <3>1, <3>2, <3>3
  <2> QED
    BY <2>1, <2>2, <2>3 DEF OnePlace
<1>10. Somewhere'
  <2> SUFFICES ASSUME Running', NEW b \in Blocks
               PROVE  \/ \E u \in Threads : held'[u] = b
                      \/ \E u \in Threads : \E i \in 1 .. Len(queue'[u]) :
                           queue'[u][i] = b
    BY DEF Somewhere
  <2>1. Running /\ b # NoBlock
    BY <1>1, FilterAssumption DEF Running, FilterAssumption
  <2>2. CASE \E u \in Threads : held[u] = b
    BY <1>1, <1>3, <2>1, <2>2
  <2>3. CASE \E u \in Threads : \E i \in 1 .. Len(queue[u]) : queue[u][i] = b
    <3>0. PICK u \in Threads : \E i \in 1 .. Len(queue[u]) : queue[u][i] = b
      BY <2>3
    <3>1. PICK i \in 1 .. Len(queue[u]) : queue[u][i] = b
      BY <3>0
    <3>2. CASE u # t
      BY <1>3, <3>1, <3>2
    <3>3. CASE u = t /\ i = 1
      BY <1>3, <3>1, <3>3 DEF q
    <3>4. CASE u = t /\ i # 1
      <4>1. i - 1 \in 1 .. Len(queue'[t]) /\ queue'[t][i - 1] = q[i]
        BY <1>2, <1>3, <3>4 DEF q
      <4> QED
        BY <3>1, <3>4, <4>1 DEF q
    <3> QED
      BY <3>2, <3>3, <3>4
  <2> QED
    BY <2>1, <2>2, <2>3 DEF IInv, Somewhere
<1>11. StopInv'
  BY <1>1 DEF IInv, StopInv
<1> QED
  BY <1>5, <1>9, <1>10, <1>11 DEF IInv

\* A thread hands its block to its successor, and wakes it.
LEMMA PushStep ==
  ASSUME IInv, NEW t \in Threads, Push(t)
  PROVE  IInv'
<1> DEFINE n == Successor[t]
           q == queue[n]
           b == held[t]
<1>1. /\ n \in Threads /\ n # t /\ q \in Seq(Blocks) /\ b \in Blocks
      /\ pc[t] = "push" /\ pc[n] # "deciding"
      /\ UNCHANGED <<filterState, control, mode, driver>>
  BY ThreadFacts DEF IInv, Types, Hands, Push, driverVars, Free, Waiting
<1>2. /\ Append(q, b) \in Seq(Blocks) /\ Len(q) \in Nat
      /\ Len(Append(q, b)) = Len(q) + 1
      /\ \A i \in 1 .. Len(q) : Append(q, b)[i] = q[i]
      /\ Append(q, b)[Len(q) + 1] = b
  BY <1>1
<1>3. /\ held' \in [Threads -> Blocks \cup {NoBlock}] /\ held'[t] = NoBlock
      /\ \A u \in Threads \ {t} : held'[u] = held[u]
      /\ queue' \in [Threads -> Seq(Blocks)] /\ queue'[n] = Append(q, b)
      /\ \A u \in Threads \ {n} : queue'[u] = queue[u]
  BY <1>1, <1>2 DEF IInv, Types, Push
<1>4. /\ pc' \in [Threads -> Labels] /\ pc'[t] = "top"
      /\ pc'[n] = IF pc[n] = "asleep" THEN "woken" ELSE pc[n]
      /\ \A u \in Threads \ {t, n} : pc'[u] = pc[u]
  BY <1>1 DEF IInv, Types, Push, Labels, Free
<1>5. Types' /\ Hands' /\ Wakes'
  <2>1. Types'
    BY <1>1, <1>3, <1>4 DEF IInv, Types
  <2>2. Hands'
    BY <1>1, <1>3, <1>4 DEF IInv, Hands, Free, Waiting
  <2>3. Wakes'
    BY <1>1, <1>3, <1>4 DEF IInv, Wakes, Waiting
  <2> QED
    BY <2>1, <2>2, <2>3
<1>6. b # NoBlock /\ held[t] = b
  BY <1>1, FilterAssumption DEF FilterAssumption
<1> HIDE DEF q, b, n
<1>7. \A u \in Threads : \A i \in 1 .. Len(queue'[u]) :
        \/ i \in 1 .. Len(queue[u]) /\ queue'[u][i] = queue[u][i]
        \/ u = n /\ i = Len(q) + 1 /\ queue'[u][i] = b
  <2> SUFFICES ASSUME NEW u \in Threads, NEW i \in 1 .. Len(queue'[u])
               PROVE  \/ i \in 1 .. Len(queue[u]) /\ queue'[u][i] = queue[u][i]
                      \/ u = n /\ i = Len(q) + 1 /\ queue'[u][i] = b
    OBVIOUS
  <2>1. CASE u = n
    BY <1>2, <1>3, <2>1 DEF q
  <2>2. CASE u # n
    BY <1>3, <2>2
  <2> QED
    BY <2>1, <2>2
<1>8. OnePlace'
  <2>1. ASSUME NEW u \in Threads, NEW v \in Threads,
               held'[u] = held'[v], held'[u] # NoBlock
        PROVE  u = v
    <3>1. held[u] = held[v] /\ held[u] # NoBlock
      BY <1>3, <2>1
    <3> QED
      BY <3>1, OnePlaceFacts DEF IInv
  <2>2. ASSUME NEW u \in Threads, NEW v \in Threads, NEW i \in 1 .. Len(queue'[v])
        PROVE  held'[u] # queue'[v][i]
    <3>1. queue'[v][i] # NoBlock
      <4>1. queue'[v] \in Seq(Blocks)
        BY <1>3
      <4>2. queue'[v][i] \in Blocks
        BY <4>1
      <4> QED
        BY <4>2, FilterAssumption DEF FilterAssumption
    <3>2. CASE u = t
      BY <1>3, <3>1, <3>2
    <3>3. CASE u # t
      BY <1>3, <1>6, <1>7, <3>3 DEF IInv, OnePlace
    <3> QED
      BY <3>2, <3>3
  <2>3. ASSUME NEW u \in Threads, NEW v \in Threads,
               NEW i \in 1 .. Len(queue'[u]), NEW j \in 1 .. Len(queue'[v]),
               queue'[u][i] = queue'[v][j]
        PROVE  u = v /\ i = j
    BY <1>6, <1>7, <2>3 DEF IInv, OnePlace
  <2> QED
    BY <2>1, <2>2, <2>3 DEF OnePlace
<1>9. Somewhere'
  <2> SUFFICES ASSUME Running', NEW c \in Blocks
               PROVE  \/ \E u \in Threads : held'[u] = c
                      \/ \E u \in Threads : \E i \in 1 .. Len(queue'[u]) :
                           queue'[u][i] = c
    BY DEF Somewhere
  <2>1. Running
    BY <1>1 DEF Running
  <2>2. CASE \E u \in Threads : held[u] = c
    <3>1. PICK u \in Threads : held[u] = c
      BY <2>2
    <3>2. CASE u # t
      BY <1>3, <3>1, <3>2
    <3>3. CASE u = t
      <4>1. Len(q) + 1 \in 1 .. Len(queue'[n]) /\ queue'[n][Len(q) + 1] = c
        BY <1>2, <1>3, <1>6, <3>1, <3>3
      <4> QED
        BY <1>1, <4>1
    <3> QED
      BY <3>2, <3>3
  <2>3. CASE \E u \in Threads : \E i \in 1 .. Len(queue[u]) : queue[u][i] = c
    <3>0. PICK u \in Threads : \E i \in 1 .. Len(queue[u]) : queue[u][i] = c
      BY <2>3
    <3>1. PICK i \in 1 .. Len(queue[u]) : queue[u][i] = c
      BY <3>0
    <3>2. i \in 1 .. Len(queue'[u]) /\ queue'[u][i] = c
      <4>1. CASE u = n
        <5>1. queue[u] = q /\ queue'[u] = Append(q, b)
          BY <1>3, <4>1 DEF q
        <5>2. i \in 1 .. Len(q) /\ q[i] = c
          BY <3>1, <5>1
        <5> QED
          BY <1>2, <5>1, <5>2
      <4>2. CASE u # n
        BY <1>3, <3>1, <4>2
      <4> QED
        BY <4>1, <4>2
    <3> QED
      BY <3>2
  <2> QED
    BY <2>1, <2>2, <2>3 DEF IInv, Somewhere
<1>10. StopInv'
  BY <1>1 DEF IInv, StopInv
<1> QED
  BY <1>5, <1>8, <1>9, <1>10 DEF IInv
-----------------------------------------------------------------------------
\* The blocks that start_filter allocates: each once.
LEMMA AllBlocks ==
  /\ SetToSeq(Blocks) \in Seq(Blocks)
  /\ \A i, j \in 1 .. Len(SetToSeq(Blocks)) :
       SetToSeq(Blocks)[i] = SetToSeq(Blocks)[j] => i = j
  /\ \A b \in Blocks : \E i \in 1 .. Len(SetToSeq(Blocks)) :
       SetToSeq(Blocks)[i] = b
<1> DEFINE n == Cardinality(Blocks)
           s == SetToSeq(Blocks)
<1>1. n \in Nat /\ ExistsBijection(1 .. n, Blocks)
  BY FS_CardinalityType, FilterAssumption DEF FilterAssumption
<1>2. \E f \in [1 .. n -> Blocks] : IsInjective(f)
  BY <1>1 DEF ExistsBijection, Bijection, Injection
<1>3. s \in [1 .. n -> Blocks] /\ IsInjective(s)
  BY <1>2 DEF SetToSeq
<1>4. s \in Injection(1 .. n, Blocks)
  BY <1>3 DEF Injection
<1>5. Cardinality(1 .. n) = n
  BY <1>1, FS_Interval
<1>6. s \in Surjection(1 .. n, Blocks)
  BY <1>4, <1>5, FS_Injection, FilterAssumption DEF FilterAssumption
<1> HIDE DEF s, n
<1>7. s \in Seq(Blocks) /\ Len(s) = n
  BY <1>1, <1>3
<1>8. \A i, j \in 1 .. n : s[i] = s[j] => i = j
  BY <1>3 DEF IsInjective
<1>9. \A b \in Blocks : \E i \in 1 .. n : s[i] = b
  BY <1>6 DEF Surjection
<1> QED
  BY <1>7, <1>8, <1>9 DEF s

\* start_filter, from its guard to the running threads.
LEMMA StartStep ==
  ASSUME IInv, StartFilter
  PROVE  IInv'
<1>1. /\ filterState = "stopped" /\ control = "idle" /\ control' = "idle"
      /\ held' = held /\ UNCHANGED stages /\ driver = <<>> /\ ~mode
      /\ driver' = driver /\ NoPackets
      /\ \A t \in Threads : queue[t] = <<>> /\ held[t] = NoBlock /\ pc[t] = "none"
  BY DEF StartFilter, IInv, StopInv, Hands, Free, Off
<1>2. CASE filterState' = "starting" /\ UNCHANGED <<queue, pc, mode>>
  <2>1. Types' /\ Hands' /\ Wakes'
    BY <1>1, <1>2 DEF IInv, Types, Hands, Wakes, Off
  <2>2. StopInv'
    BY <1>1, <1>2 DEF IInv, StopInv, Off, NoPackets, stages
  <2>3. OnePlace' /\ Somewhere'
    BY <1>1, <1>2, StillStep DEF Running
  <2> QED
    BY <2>1, <2>2, <2>3 DEF IInv
<1>3. CASE /\ filterState' = "running"
           /\ queue' = [queue EXCEPT !["read"] = SetToSeq(Blocks)]
           /\ pc' = [t \in Threads |-> "top"]
  <2> DEFINE s == SetToSeq(Blocks)
  <2>1. /\ queue' \in [Threads -> Seq(Blocks)] /\ queue'["read"] = s
        /\ \A t \in Threads \ {"read"} : queue'[t] = <<>>
    BY <1>1, <1>3, AllBlocks, ThreadFacts DEF IInv, Types
  <2>2. \A t \in Threads : pc'[t] = "top" /\ held'[t] = NoBlock
    BY <1>1, <1>3
  <2>3. Types' /\ Hands' /\ Wakes'
    BY <1>1, <1>3, <2>1, <2>2
       DEF IInv, Types, Hands, Wakes, Labels, Free, Waiting
  <2>4. StopInv'
    BY <1>1, <1>3 DEF StopInv, Off
  <2>5. \A t \in Threads : \A i \in 1 .. Len(queue'[t]) :
           t = "read" /\ i \in 1 .. Len(s) /\ queue'[t][i] = s[i] /\ s[i] \in Blocks
    <3> HIDE DEF s
    <3>1. s \in Seq(Blocks)
      BY AllBlocks DEF s
    <3> QED
      BY <2>1, <3>1
  <2>6. OnePlace'
    <3> HIDE DEF s
    <3>1. \A i, j \in 1 .. Len(s) : s[i] = s[j] => i = j
      BY AllBlocks DEF s
    <3>2. \A t, u \in Threads : \A i \in 1 .. Len(queue'[u]) : held'[t] # queue'[u][i]
      BY <2>2, <2>5, FilterAssumption DEF FilterAssumption
    <3>3. \A t, u \in Threads :
            \A i \in 1 .. Len(queue'[t]) : \A j \in 1 .. Len(queue'[u]) :
              queue'[t][i] = queue'[u][j] => t = u /\ i = j
      BY <2>5, <3>1
    <3> QED
      BY <2>2, <3>2, <3>3 DEF OnePlace
  <2>7. Somewhere'
    <3> HIDE DEF s
    <3>1. \A b \in Blocks : \E i \in 1 .. Len(s) : s[i] = b
      BY AllBlocks DEF s
    <3>2. ASSUME NEW b \in Blocks
          PROVE  \E t \in Threads : \E i \in 1 .. Len(queue'[t]) : queue'[t][i] = b
      <4>1. PICK i \in 1 .. Len(s) : s[i] = b
        BY <3>1
      <4>2. i \in 1 .. Len(queue'["read"]) /\ queue'["read"][i] = b
        BY <2>1, <4>1
      <4> QED
        BY <4>2, ThreadFacts
    <3> QED
      BY <3>2 DEF Somewhere
  <2> QED
    BY <2>3, <2>4, <2>6, <2>7 DEF IInv
<1> QED
  BY <1>2, <1>3 DEF StartFilter

\* stop_filter up to its notifications; a packet arrives.
LEMMA StopStep ==
  ASSUME IInv, StopFilter \/ Release \/ PacketArrives
  PROVE  IInv'
<1>1. /\ UNCHANGED <<pc, held, queue>> /\ (Running' => Running)
  BY DEF StopFilter, Release, PacketArrives, Running
<1>2. /\ filterState' \in Off \cup {"running", "stopping"}
      /\ control' \in {"idle", "release", "join"} \cup Threads
  BY ThreadFacts DEF IInv, Types, StopFilter, Release, PacketArrives
<1>3. Types' /\ Hands' /\ Wakes'
  BY <1>1, <1>2 DEF IInv, Types, Hands, Wakes
<1>4. StopInv'
  <2>1. CASE StopFilter
    BY <2>1, ThreadFacts DEF StopFilter, StopInv, Off
  <2>2. CASE Release
    <3>1. /\ filterState = "stopping" /\ filterState' = "stopping"
          /\ ~mode' /\ driver' = <<>>
      BY <2>2, ThreadFacts DEF Release, IInv, StopInv
    <3> QED
      BY <3>1 DEF StopInv, Off
  <2>3. CASE PacketArrives
    <3>1. /\ mode /\ filterState' = filterState /\ control' = control
      BY <2>3 DEF PacketArrives
    <3> QED
      BY <3>1 DEF IInv, StopInv
  <2> QED
    BY <2>1, <2>2, <2>3
<1> QED
  BY <1>1, <1>3, <1>4, StillStep DEF IInv

\* stop_filter notifies the condition variables, one after another.
LEMMA NotifyStep ==
  ASSUME IInv, NotifyAll
  PROVE  IInv'
<1>1. /\ control \in Threads /\ control' \in Threads \cup {"join"}
      /\ UNCHANGED <<filterState, held, queue, mode, driver>>
      /\ filterState = "stopping"
  BY ThreadFacts DEF NotifyAll, driverVars, IInv, StopInv
<1>2. /\ pc' \in [Threads -> Labels]
      /\ \A t \in Threads : pc'[t] = pc[t] \/ (pc[t] = "asleep" /\ pc'[t] = "woken")
  BY <1>1 DEF NotifyAll, IInv, Types, Labels, Free
<1>3. Types' /\ Hands' /\ Wakes'
  <2>1. Types'
    BY <1>1, <1>2 DEF IInv, Types
  <2>2. Hands' /\ Wakes'
    BY <1>1, <1>2 DEF IInv, Hands, Wakes, Free, Waiting
  <2> QED
    BY <2>1, <2>2
<1>4. StopInv'
  BY <1>1, ThreadFacts DEF IInv, StopInv, Off
<1> QED
  BY <1>1, <1>3, <1>4, StillStep DEF IInv, Running

\* stop_filter has joined the threads and empties their queues.
LEMMA JoinStep ==
  ASSUME IInv, JoinThreads
  PROVE  IInv'
<1>1. /\ \A t \in Threads : pc[t] = "exited"
      /\ pc' = [t \in Threads |-> "none"] /\ queue' = [t \in Threads |-> <<>>]
      /\ filterState' = "stopped" /\ control' = "idle"
      /\ UNCHANGED <<held, mode, driver>> /\ control = "join"
  BY DEF JoinThreads, Joined, driverVars
<1>2. \A t \in Threads : held'[t] = NoBlock /\ pc'[t] = "none" /\ queue'[t] = <<>>
  BY <1>1 DEF IInv, Hands, Free
<1>3. Types' /\ Hands' /\ Wakes'
  BY <1>1, <1>2 DEF IInv, Types, Hands, Wakes, Labels, Free, Waiting, Off
<1>4. OnePlace' /\ Somewhere'
  BY <1>1, <1>2 DEF OnePlace, Somewhere, Running
<1>5. StopInv'
  BY <1>1, <1>2 DEF IInv, StopInv, Off, NoPackets, JoinThreads
<1> QED
  BY <1>3, <1>4, <1>5 DEF IInv

\* A filter that was never started.
LEMMA InitIInv == Init => IInv
<1> SUFFICES ASSUME Init PROVE IInv
  OBVIOUS
<1>1. Types /\ Hands /\ Wakes
  BY DEF Init, Types, Hands, Wakes, Labels, Free, Waiting, Off
<1>2. OnePlace /\ Somewhere
  BY DEF Init, OnePlace, Somewhere, Running
<1>3. StopInv
  BY DEF Init, StopInv, Off, NoPackets
<1> QED
  BY <1>1, <1>2, <1>3 DEF IInv

\* Every step preserves the invariant.
LEMMA NextIInv == IInv /\ [Next]_vars => IInv'
<1> SUFFICES ASSUME IInv, [Next]_vars PROVE IInv'
  OBVIOUS
<1>1. ASSUME NEW t \in Threads, Thread(t) PROVE IInv'
  BY <1>1, IdleStep, PopStep, PushStep DEF Thread
<1>2. CASE UNCHANGED vars
  <2>1. Types' /\ Hands' /\ Wakes'
    BY <1>2 DEF vars, IInv, Types, Hands, Wakes
  <2>2. OnePlace' /\ Somewhere'
    BY <1>2, StillStep DEF vars, Running
  <2>3. StopInv'
    BY <1>2 DEF vars, stages, driverVars, IInv, StopInv, NoPackets
  <2> QED
    BY <2>1, <2>2, <2>3 DEF IInv
<1> QED
  BY <1>1, <1>2, WorkStep, StartStep, StopStep, NotifyStep, JoinStep
     DEF Next, Stopping

\* Throughout all runs of the filter, every block is in one place, none is lost
\* while it runs, and a queue with a block has a worker that will look at it.
THEOREM FilterInvariant == Spec => []IInv
BY InitIInv, NextIInv, PTL DEF Spec

\* However pushes, tests and waits interleave, no worker of the packet filter
\* sleeps on a queue that has a block.
THEOREM FilterNoLostWakeup == Spec => []NoLostWakeup
<1>1. IInv => NoLostWakeup
  BY DEF IInv, Wakes, Waiting, NoLostWakeup
<1> QED
  BY <1>1, FilterInvariant, PTL

\* A packet block is with one thread or in one queue, once, and as long as the
\* filter runs no block is lost, whatever their number.
THEOREM FilterBlocksCirculate == Spec => []BlocksCirculate
<1>1. IInv => BlocksCirculate
  <2> SUFFICES ASSUME IInv, NEW b \in Blocks
               PROVE  /\ \A p, q \in Places(b) : p = q
                      /\ Running => Places(b) # {}
    BY DEF BlocksCirculate
  <2>1. b # NoBlock
    BY FilterAssumption DEF FilterAssumption
  <2>2. \A t \in Threads : DOMAIN queue[t] = 1 .. Len(queue[t])
    BY DEF IInv, Types
  <2>3. \A p \in Places(b) :
          \E t \in Threads : \/ p = <<t, 0>> /\ held[t] = b
                             \/ \E i \in 1 .. Len(queue[t]) :
                                  p = <<t, i>> /\ queue[t][i] = b
    BY <2>2 DEF Places
  <2>4. ASSUME NEW p \in Places(b), NEW q \in Places(b) PROVE p = q
    <3>1. PICK t \in Threads : \/ p = <<t, 0>> /\ held[t] = b
                               \/ \E i \in 1 .. Len(queue[t]) :
                                    p = <<t, i>> /\ queue[t][i] = b
      BY <2>3
    <3>2. PICK u \in Threads : \/ q = <<u, 0>> /\ held[u] = b
                               \/ \E i \in 1 .. Len(queue[u]) :
                                    q = <<u, i>> /\ queue[u][i] = b
      BY <2>3
    <3>3. CASE p = <<t, 0>> /\ held[t] = b
      BY <2>1, <3>2, <3>3, OnePlaceFacts DEF IInv
    <3>4. ASSUME NEW i \in 1 .. Len(queue[t]), p = <<t, i>>, queue[t][i] = b
          PROVE  p = q
      BY <3>2, <3>4, OnePlaceFacts DEF IInv
    <3> QED
      BY <3>1, <3>3, <3>4
  <2>5. ASSUME Running PROVE Places(b) # {}
    <3>1. CASE \E t \in Threads : held[t] = b
      BY <3>1 DEF Places
    <3>2. ASSUME NEW t \in Threads, NEW i \in 1 .. Len(queue[t]), queue[t][i] = b
          PROVE  Places(b) # {}
      <4> DEFINE At(u) == {<<u, j>> : j \in {j \in DOMAIN queue[u] : queue[u][j] = b}}
      <4>1. <<t, i>> \in At(t)
        BY <2>2, <3>2
      <4>2. At(t) \in {At(u) : u \in Threads}
        OBVIOUS
      <4>3. UNION {At(u) : u \in Threads} \subseteq Places(b)
        BY DEF Places
      <4> HIDE DEF At
      <4> QED
        BY <4>1, <4>2, <4>3
    <3> QED
      BY <2>5, <3>1, <3>2 DEF IInv, Somewhere
  <2> QED
    BY <2>4, <2>5
<1> QED
  BY <1>1, FilterInvariant, PTL

\* When stop_filter has returned no thread, block or packet is left over from
\* the run, wherever the four threads were when it was called.
THEOREM FilterStopLeavesNothing == Spec => []StopLeavesNothing
<1>1. IInv => StopLeavesNothing
  <2> SUFFICES ASSUME IInv, filterState = "stopped" PROVE StopLeavesNothing
    BY DEF StopLeavesNothing
  <2>1. /\ \A t \in Threads : pc[t] = "none" /\ held[t] = NoBlock
        /\ driver = <<>> /\ ~mode /\ NoPackets
    BY DEF IInv, StopInv, Hands, Off, Free
  <2>2. InBlocks = {}
    BY <2>1 DEF InBlocks, NoPackets, Range
  <2> QED
    BY <2>1, <2>2 DEF StopLeavesNothing
<1> QED
  BY <1>1, FilterInvariant, PTL

-----------------------------------------------------------------------------
(***************************************************************************)
(* The packets.  A block is empty except between the read thread and the   *)
(* adapter thread, where each of its three lists has its stretch of the    *)
(* way; a block ahead of another on the way holds the older packets; what  *)
(* was written is older than what may still be written on that side, and   *)
(* what is in the driver is the newest of all.                             *)
(***************************************************************************)
Ready(b, t) == \/ \E i \in 1 .. Len(queue[t]) : queue[t][i] = b
               \/ held[t] = b /\ pc[t] = "work"
Done(b, t)  == held[t] = b /\ pc[t] = "push"

Content(b) == Range(packets[b]) \cup Range(toMstcp[b]) \cup Range(toAdapter[b])

Below(S, T) == \A p \in S, q \in T : p < q

\* Where a thread is on the way, and the block that is there: in the thread's
\* hands, or at a place of its queue.
Rank == [adapter |-> 0, mstcp |-> 1, process |-> 2, read |-> 3]
Block(t, i) == IF i = 0 THEN held[t] ELSE queue[t][i]
Ahead(t, i, u, j) == Rank[t] < Rank[u] \/ (t = u /\ i < j)

Lists == /\ packets \in [Blocks -> Seq(Int)]
         /\ toMstcp \in [Blocks -> Seq(Int)] /\ toAdapter \in [Blocks -> Seq(Int)]
         /\ driver \in Seq(Int) /\ arrived \in Nat
         /\ mstcpOut \in Seq(Int) /\ adapterOut \in Seq(Int)

Staged ==
    \A b \in Blocks :
      /\ packets[b] # <<>> => Done(b, "read") \/ Ready(b, "process")
      /\ toMstcp[b] # <<>> => Done(b, "process") \/ Ready(b, "mstcp")
      /\ toAdapter[b] # <<>> => \/ Done(b, "process") \/ Ready(b, "mstcp")
                                \/ Done(b, "mstcp") \/ Ready(b, "adapter")

InLine ==
    \A t, u \in Threads :
      \A i \in 0 .. Len(queue[t]), j \in 0 .. Len(queue[u]) :
        Ahead(t, i, u, j) /\ Block(t, i) \in Blocks /\ Block(u, j) \in Blocks
          => Below(Content(Block(t, i)), Content(Block(u, j)))

Ascending ==
    /\ Increasing(driver) /\ Increasing(mstcpOut) /\ Increasing(adapterOut)
    /\ \A b \in Blocks : /\ Increasing(packets[b]) /\ Increasing(toMstcp[b])
                         /\ Increasing(toAdapter[b])

OutBefore ==
    /\ Below(Range(mstcpOut), Range(driver))
    /\ Below(Range(adapterOut), Range(driver))
    /\ \A b \in Blocks :
         /\ Below(Range(mstcpOut), Range(toMstcp[b]) \cup Range(packets[b]))
         /\ Below(Range(adapterOut), Range(toAdapter[b]) \cup Range(packets[b]))
         /\ Below(Content(b), Range(driver))

OneSide ==
    /\ Range(mstcpOut) \cap Range(adapterOut) = {}
    /\ \A b \in Blocks : /\ Range(mstcpOut) \cap Range(toAdapter[b]) = {}
                         /\ Range(adapterOut) \cap Range(toMstcp[b]) = {}
    /\ \A a, b \in Blocks : Range(toMstcp[a]) \cap Range(toAdapter[b]) = {}

PacketInv == /\ Lists /\ Staged /\ InLine /\ Ascending /\ OutBefore /\ OneSide
             /\ NoPacketLost
-----------------------------------------------------------------------------
\* Induction over the natural numbers up to a limit, for a set.
LEMMA SetInduction ==
  ASSUME NEW N \in Nat, NEW S, 0 \in S,
         \A n \in 1 .. N : n - 1 \in S => n \in S
  PROVE  0 .. N \subseteq S
<1> DEFINE R == {ss \in Nat \X Nat : ss[1] < ss[2]}
           T == (0 .. N) \ S
<1> SUFFICES ASSUME T # {} PROVE FALSE
  OBVIOUS
<1>1. IsWellFoundedOn(R, Nat)
  BY NatLessThanWellFounded DEF OpToRel
<1>2. \A k, m \in Nat : k < m => <<k, m>> \in R
  OBVIOUS
<1>3. T \subseteq Nat
  OBVIOUS
<1> HIDE DEF R
<1>4. PICK m \in T : \A k \in T : <<k, m>> \notin R
  BY <1>1, <1>3, WFMin
<1>5. m \in 1 .. N /\ m - 1 \in 0 .. N /\ m - 1 \in Nat /\ m \in Nat
  BY <1>4
<1>6. m - 1 \in S
  <2>1. <<m - 1, m>> \in R
    BY <1>2, <1>5
  <2> QED
    BY <1>4, <1>5, <2>1
<1> QED
  BY <1>4, <1>5, <1>6

\* g holds the results of the first n steps F[1], F[2], ... from e.
Steps(g, n, T, e, F) == /\ g \in [0 .. n -> T] /\ g[0] = e
                        /\ \A i \in 1 .. n : g[i] = F[i][g[i - 1]]

\* A function over an interval may be defined by recursion.
LEMMA Recursion ==
  ASSUME NEW N \in Nat, NEW T, NEW e \in T, NEW F \in [1 .. N -> [T -> T]]
  PROVE  \E g : Steps(g, N, T, e, F)
<1> DEFINE P(g, n) == Steps(g, n, T, e, F)
           E == {n \in 0 .. N : \E g : P(g, n)}
<1>1. 0 \in E
  <2> DEFINE g == [i \in 0 .. 0 |-> e]
  <2>1. P(g, 0)
    BY DEF Steps
  <2> HIDE DEF P, g
  <2> QED
    BY <2>1
<1>2. ASSUME NEW n \in 1 .. N, n - 1 \in E
      PROVE  n \in E
  <2>0. PICK g : P(g, n - 1)
    BY <1>2
  <2>1. /\ g \in [0 .. n - 1 -> T] /\ g[0] = e
        /\ \A i \in 1 .. n - 1 : g[i] = F[i][g[i - 1]]
    BY <2>0 DEF Steps
  <2> DEFINE v == F[n][g[n - 1]]
             h == [i \in 0 .. n |-> IF i = n THEN v ELSE g[i]]
  <2>2. v \in T
    BY <2>1
  <2> HIDE DEF v
  <2>3. \A i \in 0 .. n : i = n \/ i \in 0 .. n - 1
    OBVIOUS
  <2>4. h \in [0 .. n -> T] /\ h[0] = e
    BY <2>1, <2>2, <2>3
  <2>5. ASSUME NEW i \in 1 .. n PROVE h[i] = F[i][h[i - 1]]
    <3>1. i - 1 \in 0 .. n /\ i - 1 # n /\ h[i - 1] = g[i - 1]
      OBVIOUS
    <3>2. CASE i = n
      BY <3>1, <3>2 DEF v
    <3>3. CASE i # n
      <4>1. i \in 1 .. n - 1
        BY <3>3
      <4> QED
        BY <2>1, <3>1, <3>3, <4>1
    <3> QED
      BY <3>2, <3>3
  <2>6. P(h, n)
    BY <2>4, <2>5 DEF Steps
  <2> HIDE DEF P, h
  <2> QED
    BY <2>6
<1>3. 0 .. N \subseteq E
  <2> HIDE DEF E
  <2> QED
    BY <1>1, <1>2, SetInduction
<1>4. PICK g : P(g, N)
  BY <1>3
<1> QED
  BY <1>4

\* A sequence grows by an element.
LEMMA AppendFacts ==
  ASSUME NEW D, NEW s \in Seq(D), NEW x \in D
  PROVE  /\ Range(Append(s, x)) = Range(s) \cup {x}
         /\ Increasing(s) /\ D \subseteq Int /\ (\A y \in Range(s) : y < x)
              => Increasing(Append(s, x))
<1> DEFINE t == Append(s, x)
<1>1. /\ Len(s) \in Nat /\ DOMAIN s = 1 .. Len(s) /\ DOMAIN t = 1 .. Len(s) + 1
      /\ t[Len(s) + 1] = x /\ \A i \in 1 .. Len(s) : t[i] = s[i]
  OBVIOUS
<1> HIDE DEF t
<1>2. \A i \in 1 .. Len(s) + 1 : i \in 1 .. Len(s) \/ i = Len(s) + 1
  BY <1>1
<1>3. Range(t) = Range(s) \cup {x}
  BY <1>1, <1>2 DEF Range
<1>4. ASSUME Increasing(s), \A y \in Range(s) : y < x
      PROVE  Increasing(t)
  BY <1>1, <1>2, <1>4 DEF Increasing, Range
<1> QED
  BY <1>3, <1>4 DEF t

\* What the process thread selects from a block: the packets of the set, in
\* their order.
LEMMA KeptFacts ==
  ASSUME NEW D, NEW s \in Seq(D), NEW P
  PROVE  /\ Kept(s, P) \in Seq(D)
         /\ Range(Kept(s, P)) = Range(s) \cap P
         /\ D \subseteq Int /\ Increasing(s) => Increasing(Kept(s, P))
<1> DEFINE N == Len(s)
           Step(g, n) == [i \in 0 .. n |->
              IF i = 0 THEN << >>
              ELSE IF s[i] \in P THEN Append(g[i - 1], s[i]) ELSE g[i - 1]]
           f == CHOOSE g : g = Step(g, N)
<1>1. N \in Nat
  OBVIOUS
<1>2. Kept(s, P) = f[N]
  BY DEF Kept
<1>3. f = Step(f, N)
  <2> DEFINE F == [i \in 1 .. N |-> [t \in Seq(D) |->
                     IF s[i] \in P THEN Append(t, s[i]) ELSE t]]
  <2>1. F \in [1 .. N -> [Seq(D) -> Seq(D)]]
    OBVIOUS
  <2>2. \A t \in Seq(D), i \in 1 .. N :
          F[i][t] = IF s[i] \in P THEN Append(t, s[i]) ELSE t
    OBVIOUS
  <2> HIDE DEF F
  <2>3. << >> \in Seq(D)
    OBVIOUS
  <2> HIDE DEF N
  <2>4. PICK g \in [0 .. N -> Seq(D)] :
          g[0] = << >> /\ \A i \in 1 .. N : g[i] = F[i][g[i - 1]]
    <3> DEFINE T == Seq(D)
               e == << >>
    <3>1. F \in [1 .. N -> [T -> T]] /\ e \in T
      BY <2>1, <2>3
    <3> HIDE DEF T, e
    <3>2. \E g : Steps(g, N, T, e, F)
      BY <1>1, <3>1, Recursion
    <3> QED
      BY <3>2 DEF Steps, T, e
  <2>5. \A i \in 0 .. N : i # 0 => i \in 1 .. N /\ g[i - 1] \in Seq(D)
    <3>1. \A i \in 0 .. N : i # 0 => i \in 1 .. N /\ i - 1 \in 0 .. N
      BY <1>1
    <3> QED
      BY <2>4, <3>1
  <2>6. g = Step(g, N)
    <3>1. \A i \in 0 .. N : g[i] = IF i = 0 THEN << >>
              ELSE IF s[i] \in P THEN Append(g[i - 1], s[i]) ELSE g[i - 1]
      BY <1>1, <2>2, <2>4, <2>5
    <3> QED
      BY <3>1
  <2> HIDE DEF Step
  <2> QED
    BY <2>6
<1> DEFINE G == {n \in 0 .. N :
              /\ f[n] \in Seq(D)
              /\ Range(f[n]) = {s[i] : i \in 1 .. n} \cap P
              /\ D \subseteq Int /\ Increasing(s) => Increasing(f[n])}
<1>4. f[0] = << >> /\ \A n \in 1 .. N :
        f[n] = IF s[n] \in P THEN Append(f[n - 1], s[n]) ELSE f[n - 1]
  <2> HIDE DEF f, N
  <2>1. /\ 0 \in 0 .. N /\ \A n \in 1 .. N : n \in 0 .. N /\ n # 0
    BY <1>1
  <2> QED
    BY <1>3, <2>1
<1> HIDE DEF f
<1>5. 0 \in G
  <2>1. << >> \in Seq(D) /\ Range(<< >>) = {} /\ {s[i] : i \in 1 .. 0} = {}
    BY DEF Range
  <2>2. Increasing(<< >>)
    BY DEF Increasing
  <2>3. /\ f[0] \in Seq(D) /\ Range(f[0]) = {s[i] : i \in 1 .. 0} \cap P
        /\ Increasing(f[0])
    BY <1>4, <2>1, <2>2
  <2>4. 0 \in 0 .. N
    BY <1>1
  <2> QED
    BY <2>3, <2>4
<1>6. ASSUME NEW n \in 1 .. N, n - 1 \in G
      PROVE  n \in G
  <2>1. /\ f[n - 1] \in Seq(D)
        /\ Range(f[n - 1]) = {s[i] : i \in 1 .. n - 1} \cap P
        /\ D \subseteq Int /\ Increasing(s) => Increasing(f[n - 1])
    BY <1>6
  <2>2. {s[i] : i \in 1 .. n} = {s[i] : i \in 1 .. n - 1} \cup {s[n]}
    <3>1. \A i \in 1 .. n : i = n \/ i \in 1 .. n - 1
      OBVIOUS
    <3> QED
      BY <3>1
  <2>3. s[n] \in D
    OBVIOUS
  <2>4. CASE s[n] \notin P
    BY <1>4, <2>1, <2>2, <2>4
  <2>5. CASE s[n] \in P
    <3>1. f[n] = Append(f[n - 1], s[n])
      BY <1>4, <2>5
    <3>2. f[n] \in Seq(D)
      BY <2>1, <2>3, <3>1
    <3>3. Range(f[n]) = Range(f[n - 1]) \cup {s[n]}
      BY <2>1, <2>3, <3>1, AppendFacts
    <3>4. ASSUME D \subseteq Int, Increasing(s)
          PROVE  Increasing(f[n])
      <4>1. \A x \in Range(f[n - 1]) : x < s[n]
        <5>1. \A i \in 1 .. n - 1 : i \in DOMAIN s /\ n \in DOMAIN s /\ i < n
          OBVIOUS
        <5> QED
          BY <2>1, <3>4, <5>1 DEF Increasing
      <4> QED
        <5>1. Increasing(f[n - 1])
          BY <2>1, <3>4
        <5> DEFINE u == f[n - 1]
                   v == s[n]
        <5>2. u \in Seq(D) /\ v \in D /\ D \subseteq Int /\ Increasing(u)
              /\ \A y \in Range(u) : y < v
          BY <2>1, <2>3, <3>4, <4>1, <5>1
        <5> HIDE DEF u, v
        <5>3. Increasing(Append(u, v))
          BY <5>2, AppendFacts
        <5> QED
          BY <3>1, <5>3 DEF u, v
    <3> QED
      BY <2>1, <2>2, <2>5, <3>2, <3>3, <3>4
  <2> QED
    BY <2>4, <2>5
<1>7. N \in G
  <2> HIDE DEF G, N
  <2>1. 0 .. N \subseteq G
    BY <1>1, <1>5, <1>6, SetInduction
  <2> QED
    BY <1>1, <2>1
<1>8. Range(s) = {s[i] : i \in 1 .. N}
  BY DEF Range
<1> QED
  BY <1>2, <1>7, <1>8

\* One sequence after another.
LEMMA ConcatFacts ==
  ASSUME NEW s \in Seq(Int), NEW t \in Seq(Int)
  PROVE  /\ s \o t \in Seq(Int) /\ Range(s \o t) = Range(s) \cup Range(t)
         /\ Increasing(s) /\ Increasing(t) /\ Below(Range(s), Range(t))
              => Increasing(s \o t)
<1> DEFINE r == s \o t
           m == Len(s)
           n == Len(t)
<1>1. /\ m \in Nat /\ n \in Nat /\ r \in Seq(Int) /\ Len(r) = m + n
      /\ DOMAIN s = 1 .. m /\ DOMAIN t = 1 .. n /\ DOMAIN r = 1 .. m + n
      /\ \A i \in 1 .. m : r[i] = s[i]
      /\ \A i \in 1 .. n : r[m + i] = t[i]
  OBVIOUS
<1>2. \A i \in DOMAIN s : s[i] \in Int
  OBVIOUS
<1>3. \A i \in DOMAIN t : t[i] \in Int
  OBVIOUS
<1> HIDE DEF r, m, n
<1>4. \A i \in 1 .. m + n : \/ i \in 1 .. m
                            \/ i - m \in 1 .. n /\ r[i] = t[i - m]
  <2> TAKE i \in 1 .. m + n
  <2>1. i \in 1 .. m \/ (i - m \in 1 .. n /\ i = m + (i - m))
    BY <1>1
  <2> QED
    BY <1>1, <2>1
<1>5. Range(r) = Range(s) \cup Range(t)
  <2>1. \A i \in 1 .. m : i \in 1 .. m + n
    BY <1>1
  <2>2. \A i \in 1 .. n : m + i \in 1 .. m + n
    BY <1>1
  <2>3. \A i \in DOMAIN r : r[i] \in Range(s) \cup Range(t)
    BY <1>1, <1>4 DEF Range
  <2>4. \A i \in DOMAIN s : s[i] \in Range(r)
    BY <1>1, <2>1 DEF Range
  <2>5. \A i \in DOMAIN t : t[i] \in Range(r)
    BY <1>1, <2>2 DEF Range
  <2> QED
    BY <2>3, <2>4, <2>5 DEF Range
<1>6. ASSUME Increasing(s), Increasing(t), Below(Range(s), Range(t))
      PROVE  Increasing(r)
  <2> SUFFICES ASSUME NEW i \in 1 .. m + n, NEW j \in 1 .. m + n, i < j
               PROVE  r[i] < r[j]
    BY <1>1 DEF Increasing
  <2>1. CASE i \in 1 .. m /\ j \in 1 .. m
    BY <1>1, <1>6, <2>1 DEF Increasing
  <2>2. CASE i \in 1 .. m /\ j - m \in 1 .. n /\ r[j] = t[j - m]
    <3>1. s[i] \in Range(s) /\ t[j - m] \in Range(t)
      BY <1>1, <2>2 DEF Range
    <3> QED
      BY <1>1, <1>6, <2>2, <3>1 DEF Below
  <2>3. CASE i - m \in 1 .. n /\ j - m \in 1 .. n /\ r[i] = t[i - m] /\ r[j] = t[j - m]
    <3>1. i - m < j - m
      BY <1>1
    <3> QED
      BY <1>1, <1>6, <2>3, <3>1 DEF Increasing
  <2> QED
    BY <1>1, <1>4, <2>1, <2>2, <2>3
<1> QED
  BY <1>1, <1>5, <1>6 DEF r

\* A sequence cut in two.
LEMMA SplitFacts ==
  ASSUME NEW s \in Seq(Int), NEW n \in 0 .. Len(s)
  PROVE  LET a == SubSeq(s, 1, n)
             z == SubSeq(s, n + 1, Len(s))
         IN /\ a \in Seq(Int) /\ z \in Seq(Int) /\ Len(a) = n
            /\ Range(s) = Range(a) \cup Range(z)
            /\ Increasing(s) => /\ Increasing(a) /\ Increasing(z)
                                /\ Below(Range(a), Range(z))
<1> DEFINE a == SubSeq(s, 1, n)
           z == SubSeq(s, n + 1, Len(s))
           m == Len(s)
<1>1. /\ m \in Nat /\ n \in Nat /\ n <= m /\ DOMAIN s = 1 .. m
      /\ a \in Seq(Int) /\ Len(a) = n /\ DOMAIN a = 1 .. n
      /\ \A i \in 1 .. n : a[i] = s[i]
  OBVIOUS
<1>2. /\ z \in Seq(Int) /\ Len(z) = m - n /\ DOMAIN z = 1 .. m - n
      /\ \A i \in 1 .. m - n : z[i] = s[n + i]
  OBVIOUS
<1>3. \A i \in DOMAIN s : s[i] \in Int
  OBVIOUS
<1> HIDE DEF a, z, m
<1>4. /\ \A i \in 1 .. n : i \in 1 .. m
      /\ \A i \in 1 .. m - n : n + i \in 1 .. m
      /\ \A i \in 1 .. m : i \in 1 .. n \/ (i - n \in 1 .. m - n /\ i = n + (i - n))
  BY <1>1
<1>5. Range(s) = Range(a) \cup Range(z)
  <2>1. \A i \in DOMAIN s : s[i] \in Range(a) \cup Range(z)
    <3> TAKE i \in DOMAIN s
    <3>1. CASE i \in 1 .. n
      BY <1>1, <3>1 DEF Range
    <3>2. CASE i - n \in 1 .. m - n /\ i = n + (i - n)
      <4>1. z[i - n] = s[i]
        BY <1>2, <3>2
      <4> QED
        BY <1>2, <3>2, <4>1 DEF Range
    <3> QED
      BY <1>1, <1>4, <3>1, <3>2
  <2>2. \A i \in DOMAIN a : a[i] \in Range(s)
    BY <1>1, <1>4 DEF Range
  <2>3. \A i \in DOMAIN z : z[i] \in Range(s)
    BY <1>1, <1>2, <1>4 DEF Range
  <2> QED
    BY <2>1, <2>2, <2>3 DEF Range
<1>6. ASSUME Increasing(s)
      PROVE  Increasing(a) /\ Increasing(z) /\ Below(Range(a), Range(z))
  <2>1. Increasing(a)
    BY <1>1, <1>4, <1>6 DEF Increasing
  <2>2. Increasing(z)
    <3> SUFFICES ASSUME NEW i \in 1 .. m - n, NEW j \in 1 .. m - n, i < j
                 PROVE  z[i] < z[j]
      BY <1>2 DEF Increasing
    <3>1. n + i < n + j /\ n + i \in DOMAIN s /\ n + j \in DOMAIN s
      BY <1>1, <1>4
    <3> QED
      BY <1>2, <1>6, <3>1 DEF Increasing
  <2>3. Below(Range(a), Range(z))
    <3> SUFFICES ASSUME NEW i \in 1 .. n, NEW j \in 1 .. m - n PROVE a[i] < z[j]
      BY <1>1, <1>2 DEF Below, Range
    <3>1. i < n + j /\ i \in DOMAIN s /\ n + j \in DOMAIN s
      BY <1>1, <1>4
    <3> QED
      BY <1>1, <1>2, <1>6, <3>1 DEF Increasing
  <2> QED
    BY <2>1, <2>2, <2>3
<1> QED
  BY <1>1, <1>2, <1>5, <1>6 DEF a, z, m

\* An empty sequence holds nothing, another one something.
LEMMA EmptyFacts ==
  /\ Range(<<>>) = {} /\ Increasing(<<>>) /\ <<>> \in Seq(Int)
  /\ \A s \in Seq(Int) : Range(s) \subseteq Int /\ (Range(s) = {} => s = <<>>)
<1>1. Range(<<>>) = {} /\ Increasing(<<>>) /\ <<>> \in Seq(Int)
  BY DEF Range, Increasing
<1>2. ASSUME NEW s \in Seq(Int), Range(s) = {} PROVE s = <<>>
  <2>1. Len(s) \notin Nat \ {0}
    <3> SUFFICES ASSUME Len(s) \in Nat \ {0} PROVE FALSE
      OBVIOUS
    <3>1. 1 \in DOMAIN s
      OBVIOUS
    <3> QED
      BY <1>2, <3>1 DEF Range
  <2> QED
    BY <2>1
<1>3. ASSUME NEW s \in Seq(Int) PROVE Range(s) \subseteq Int
  BY DEF Range
<1> QED
  BY <1>1, <1>2, <1>3

-----------------------------------------------------------------------------
\* A block in a thread's hands, or in its queue, is nowhere else.
LEMMA HeldFacts ==
  ASSUME IInv, NEW t \in Threads, held[t] \in Blocks, NEW u \in Threads
  PROVE  /\ Ready(held[t], u) => u = t /\ pc[t] = "work"
         /\ Done(held[t], u) => u = t /\ pc[t] = "push"
<1>1. held[t] # NoBlock
  BY FilterAssumption DEF FilterAssumption
<1>2. held[u] = held[t] => u = t
  BY <1>1, OnePlaceFacts DEF IInv
<1>3. \A i \in 1 .. Len(queue[u]) : queue[u][i] # held[t]
  BY OnePlaceFacts DEF IInv
<1> QED
  BY <1>2, <1>3 DEF Ready, Done

LEMMA QueuedFacts ==
  ASSUME IInv, NEW t \in Threads, NEW i \in 1 .. Len(queue[t]), NEW u \in Threads
  PROVE  /\ queue[t][i] \in Blocks
         /\ ~Done(queue[t][i], u)
         /\ Ready(queue[t][i], u) => u = t
<1>1. queue[t][i] \in Blocks
  <2>1. queue[t] \in Seq(Blocks)
    BY DEF IInv, Types
  <2> QED
    BY <2>1
<1>2. held[u] # queue[t][i]
  BY OnePlaceFacts DEF IInv
<1>3. \A j \in 1 .. Len(queue[u]) : queue[u][j] = queue[t][i] => u = t
  BY OnePlaceFacts DEF IInv
<1> QED
  BY <1>1, <1>2, <1>3 DEF Ready, Done

\* What a thread finds in the block in its hands, and what cannot be there.
LEMMA HeldContent ==
  ASSUME IInv, Staged, NEW t \in Threads, held[t] \in Blocks
  PROVE  LET b == held[t]
         IN /\ t = "read" => toMstcp[b] = <<>> /\ toAdapter[b] = <<>>
            /\ t = "read" /\ pc[t] # "push" => packets[b] = <<>>
            /\ t = "process" /\ pc[t] = "work"
                 => toMstcp[b] = <<>> /\ toAdapter[b] = <<>>
            /\ t \in {"mstcp", "adapter"} => packets[b] = <<>>
            /\ t = "mstcp" /\ pc[t] = "push" => toMstcp[b] = <<>>
            /\ t = "adapter" => toMstcp[b] = <<>>
            /\ t = "adapter" /\ pc[t] = "push" => toAdapter[b] = <<>>
<1> DEFINE b == held[t]
<1>1. \A u \in Threads : /\ Ready(b, u) => u = t /\ pc[t] = "work"
                         /\ Done(b, u) => u = t /\ pc[t] = "push"
  BY HeldFacts
<1>2. /\ packets[b] # <<>> => Done(b, "read") \/ Ready(b, "process")
      /\ toMstcp[b] # <<>> => Done(b, "process") \/ Ready(b, "mstcp")
      /\ toAdapter[b] # <<>> => \/ Done(b, "process") \/ Ready(b, "mstcp")
                                \/ Done(b, "mstcp") \/ Ready(b, "adapter")
  BY DEF Staged
<1> HIDE DEF b
<1>4. /\ pc[t] = "push" => pc[t] # "work"
      /\ "read" # "process" /\ "read" # "mstcp" /\ "read" # "adapter"
      /\ "process" # "mstcp" /\ "process" # "adapter" /\ "mstcp" # "adapter"
  OBVIOUS
<1> QED
  BY <1>1, <1>2, <1>4, ThreadFacts DEF b

\* A block that is not empty is somewhere on the way.
LEMMA OnTheWay ==
  ASSUME IInv, Staged, Lists, NEW b \in Blocks, Content(b) # {}
  PROVE  \E t \in Threads : \E i \in 0 .. Len(queue[t]) : Block(t, i) = b
<1>1. \E t \in Threads : Done(b, t) \/ Ready(b, t)
  <2>1. packets[b] # <<>> \/ toMstcp[b] # <<>> \/ toAdapter[b] # <<>>
    BY EmptyFacts DEF Content
  <2> QED
    BY <2>1, ThreadFacts DEF Staged
<1>2. PICK t \in Threads : Done(b, t) \/ Ready(b, t)
  BY <1>1
<1>3. Len(queue[t]) \in Nat
  BY DEF IInv, Types
<1>4. CASE held[t] = b
  <2>1. 0 \in 0 .. Len(queue[t]) /\ Block(t, 0) = b
    BY <1>3, <1>4 DEF Block
  <2> QED
    BY <2>1
<1>5. ASSUME NEW i \in 1 .. Len(queue[t]), queue[t][i] = b
      PROVE  \E j \in 0 .. Len(queue[t]) : Block(t, j) = b
  <2>1. i \in 0 .. Len(queue[t]) /\ i # 0
    BY <1>3
  <2> QED
    BY <1>5, <2>1 DEF Block
<1> QED
  BY <1>2, <1>4, <1>5 DEF Done, Ready

\* Of two places one is ahead of the other.
LEMMA AheadFacts ==
  ASSUME NEW t \in Threads, NEW u \in Threads, NEW i \in Int, NEW j \in Int
  PROVE  Ahead(t, i, u, j) \/ Ahead(u, j, t, i) \/ (t = u /\ i = j)
<1>1. /\ \A v \in Threads : Rank[v] \in Int
      /\ Rank[t] = Rank[u] => t = u
  BY DEF Rank, Threads
<1>2. Rank[t] < Rank[u] \/ Rank[u] < Rank[t] \/ t = u
  BY <1>1
<1>3. i < j \/ j < i \/ i = j
  OBVIOUS
<1> QED
  BY <1>2, <1>3 DEF Ahead

\* No packet is in two blocks.
LEMMA Apart ==
  ASSUME IInv, PacketInv, NEW a \in Blocks, NEW b \in Blocks, a # b
  PROVE  Content(a) \cap Content(b) = {}
<1> SUFFICES ASSUME NEW p \in Content(a), p \in Content(b) PROVE FALSE
  OBVIOUS
<1>1. PICK t \in Threads : \E i \in 0 .. Len(queue[t]) : Block(t, i) = a
  BY OnTheWay DEF PacketInv
<1>2. PICK i \in 0 .. Len(queue[t]) : Block(t, i) = a
  BY <1>1
<1>3. PICK u \in Threads : \E i_1 \in 0 .. Len(queue[u]) : Block(u, i_1) = b
  BY OnTheWay DEF PacketInv
<1>4. PICK j \in 0 .. Len(queue[u]) : Block(u, j) = b
  BY <1>3
<1>5. Ahead(t, i, u, j) \/ Ahead(u, j, t, i)
  BY <1>2, <1>4, AheadFacts
<1>6. Below(Content(a), Content(b)) \/ Below(Content(b), Content(a))
  BY <1>2, <1>4, <1>5 DEF PacketInv, InLine
<1>7. p \in Int
  BY EmptyFacts DEF PacketInv, Lists, Content
<1> QED
  BY <1>6, <1>7 DEF Below
-----------------------------------------------------------------------------
\* A step that leaves the packets where they are.
Still == UNCHANGED <<stages, driver, arrived, mstcpOut, adapterOut, gone>>

LEMMA StillPackets ==
  ASSUME PacketInv, Still, Staged', InLine'
  PROVE  PacketInv'
<1> USE DEF Still, stages
<1>1. Lists' /\ Ascending'
  BY DEF PacketInv, Lists, Ascending
<1>2. OutBefore' /\ OneSide'
  BY DEF PacketInv, OutBefore, OneSide, Content
<1>3. NoPacketLost'
  BY DEF PacketInv, NoPacketLost, InBlocks
<1> QED
  BY <1>1, <1>2, <1>3 DEF PacketInv

\* A step that neither moves a block nor starts or ends work on one.
LEMMA QuietPackets ==
  ASSUME PacketInv, Still, UNCHANGED <<held, queue>>,
         \A t \in Threads : (pc'[t] = "work" <=> pc[t] = "work")
                         /\ (pc'[t] = "push" <=> pc[t] = "push")
  PROVE  PacketInv'
<1> USE DEF Still, stages
<1>1. \A b, t : t \in Threads => (Ready(b, t)' <=> Ready(b, t))
                              /\ (Done(b, t)' <=> Done(b, t))
  BY DEF Ready, Done
<1>2. Staged'
  BY <1>1, ThreadFacts DEF PacketInv, Staged
<1>3. InLine'
  BY DEF PacketInv, InLine, Block, Content, Ahead
<1> QED
  BY <1>2, <1>3, StillPackets

\* The steps of that kind.
LEMMA QuietSteps ==
  ASSUME IInv, PacketInv,
         \/ \E t \in Threads : LoopTop(t) \/ Return(t) \/ Decide(t) \/ FallAsleep(t)
         \/ WaitEvent \/ ResetEvent \/ StopFilter \/ NotifyAll \/ UNCHANGED vars
  PROVE  PacketInv'
<1>1. Still /\ UNCHANGED <<held, queue>>
  BY DEF LoopTop, Return, Decide, FallAsleep, WaitEvent, ResetEvent, StopFilter,
         NotifyAll, vars, Still, stages, driverVars, outputs
<1>2. ASSUME NEW t \in Threads,
             LoopTop(t) \/ Return(t) \/ Decide(t) \/ FallAsleep(t)
      PROVE  PacketInv'
  <2>1. PICK label \in {"test", "exited", "deciding", "asleep"} :
          Goto(t, label) /\ pc[t] \in {"top", "test", "woken", "deciding"}
    BY <1>2 DEF LoopTop, Testing, Return, Decide, FallAsleep
  <2>2. \A u \in Threads : (pc'[u] = "work" <=> pc[u] = "work")
                        /\ (pc'[u] = "push" <=> pc[u] = "push")
    BY <2>1 DEF Goto, IInv, Types
  <2> QED
    BY <1>1, <2>2, QuietPackets
<1>3. CASE WaitEvent \/ ResetEvent
  <2>1. PICK label \in {"reset", "fill"} :
          Goto("read", label) /\ pc["read"] \in {"event", "reset"}
    BY <1>3 DEF WaitEvent, ResetEvent
  <2>2. \A u \in Threads : (pc'[u] = "work" <=> pc[u] = "work")
                        /\ (pc'[u] = "push" <=> pc[u] = "push")
    BY <2>1, ThreadFacts DEF Goto, IInv, Types
  <2> QED
    BY <1>1, <2>2, QuietPackets
<1>4. CASE NotifyAll
  <2>1. \A u \in Threads : (pc'[u] = "work" <=> pc[u] = "work")
                        /\ (pc'[u] = "push" <=> pc[u] = "push")
    BY <1>4 DEF NotifyAll, IInv, Types
  <2> QED
    BY <1>1, <2>1, QuietPackets
<1>5. CASE StopFilter \/ UNCHANGED vars
  BY <1>1, <1>5, QuietPackets DEF StopFilter, vars
<1> QED
  BY <1>2, <1>3, <1>4, <1>5

\* A thread takes a block from its queue: the order of the blocks is the same.
LEMMA PopPackets ==
  ASSUME IInv, PacketInv, NEW t \in Threads, Pop(t)
  PROVE  PacketInv'
<1> DEFINE q == queue[t]
           old(u, i) == IF u = t THEN i + 1 ELSE i
<1>1. /\ q \in Seq(Blocks) /\ q # <<>> /\ pc[t] \in {"test", "woken"} /\ Still
      /\ held' = [held EXCEPT ![t] = Head(q)]
      /\ queue' = [queue EXCEPT ![t] = Tail(q)]
      /\ Goto(t, IF t = "read" THEN "event" ELSE "work")
  BY DEF IInv, Types, Pop, Testing, Still, driverVars, outputs
<1>2. /\ Head(q) = q[1] /\ Len(q) \in Nat \ {0} /\ Len(Tail(q)) = Len(q) - 1
      /\ \A i \in 1 .. Len(q) - 1 : Tail(q)[i] = q[i + 1]
  BY <1>1
<1>3. /\ held'[t] = q[1] /\ queue'[t] = Tail(q) /\ queue[t] = q
      /\ \A u \in Threads \ {t} : held'[u] = held[u] /\ queue'[u] = queue[u]
      /\ pc'[t] = (IF t = "read" THEN "event" ELSE "work")
      /\ \A u \in Threads \ {t} : pc'[u] = pc[u]
  BY <1>1, <1>2 DEF IInv, Types, Goto
<1>4. \A u \in Threads : Len(queue[u]) \in Nat
  BY DEF IInv, Types
<1> HIDE DEF q
<1>5. \A u \in Threads : \A i \in 0 .. Len(queue'[u]) :
        old(u, i) \in 0 .. Len(queue[u]) /\ Block(u, i)' = Block(u, old(u, i))
  <2> SUFFICES ASSUME NEW u \in Threads, NEW i \in 0 .. Len(queue'[u])
               PROVE  /\ old(u, i) \in 0 .. Len(queue[u])
                      /\ Block(u, i)' = Block(u, old(u, i))
    OBVIOUS
  <2>1. CASE u = t
    <3>1. i + 1 \in 1 .. Len(q) /\ i + 1 # 0 /\ (i # 0 => i \in 1 .. Len(q) - 1)
      BY <1>2, <1>3, <2>1
    <3>2. (IF i = 0 THEN held'[u] ELSE queue'[u][i]) = q[i + 1]
      BY <1>2, <1>3, <2>1, <3>1
    <3> QED
      BY <1>2, <1>3, <2>1, <3>1, <3>2 DEF Block
  <2>2. CASE u # t
    BY <1>3, <2>2 DEF Block
  <2> QED
    BY <2>1, <2>2
<1>6. \A b : Content(b)' = Content(b)
  BY <1>1 DEF Content, Still, stages
<1>7. InLine'
  <2> SUFFICES ASSUME NEW u \in Threads, NEW v \in Threads,
                      NEW i \in 0 .. Len(queue'[u]), NEW j \in 0 .. Len(queue'[v]),
                      Ahead(u, i, v, j),
                      Block(u, i)' \in Blocks, Block(v, j)' \in Blocks
               PROVE  Below(Content(Block(u, i)'), Content(Block(v, j)'))
    BY <1>6 DEF InLine, Ahead, Below
  <2> DEFINE k == old(u, i)
             l == old(v, j)
  <2>1. Ahead(u, k, v, l)
    <3>1. i < j => i + 1 < j + 1
      BY <1>3, <1>4
    <3> QED
      BY <3>1 DEF Ahead
  <2>2. /\ k \in 0 .. Len(queue[u]) /\ Block(u, i)' = Block(u, k)
        /\ l \in 0 .. Len(queue[v]) /\ Block(v, j)' = Block(v, l)
    BY <1>5
  <2> HIDE DEF k, l
  <2> QED
    BY <2>1, <2>2 DEF PacketInv, InLine
<1>8. \A b, u : b \in Blocks /\ u \in Threads =>
         /\ Done(b, u) => Done(b, u)'
         /\ Ready(b, u) /\ u # "read" => Ready(b, u)'
  <2> SUFFICES ASSUME NEW b \in Blocks, NEW u \in Threads
               PROVE  /\ Done(b, u) => Done(b, u)'
                      /\ Ready(b, u) /\ u # "read" => Ready(b, u)'
    OBVIOUS
  <2>1. CASE u # t
    BY <1>3, <2>1 DEF Done, Ready
  <2>2. CASE u = t
    <3>1. ~Done(b, u) /\ pc[u] # "work"
      BY <1>1, <2>2 DEF Done
    <3>2. ASSUME NEW i \in 1 .. Len(q), q[i] = b, u # "read"
          PROVE  Ready(b, u)'
      <4>1. CASE i = 1
        BY <1>3, <2>2, <3>2, <4>1 DEF Ready
      <4>2. CASE i # 1
        <5>1. i - 1 \in 1 .. Len(queue'[u]) /\ queue'[u][i - 1] = q[i]
          BY <1>2, <1>3, <2>2, <4>2
        <5> QED
          BY <3>2, <5>1 DEF Ready
      <4> QED
        BY <4>1, <4>2
    <3> QED
      BY <1>3, <2>2, <3>1, <3>2 DEF Ready
  <2> QED
    BY <2>1, <2>2
<1>9. Staged'
  <2>1. UNCHANGED <<packets, toMstcp, toAdapter>>
    BY <1>1 DEF Still, stages
  <2> QED
    BY <1>8, <2>1, ThreadFacts DEF PacketInv, Staged
<1> QED
  BY <1>1, <1>7, <1>9, StillPackets

\* A thread hands its block on.  The adapter thread's is empty; any other goes
\* behind those the next thread has and stays ahead of the rest.
LEMMA PushPackets ==
  ASSUME IInv, PacketInv, NEW t \in Threads, Push(t)
  PROVE  PacketInv'
<1> DEFINE n == Successor[t]
           q == queue[n]
           b == held[t]
           new(u, i) == u = n /\ i = Len(q) + 1
<1>1. /\ n \in Threads /\ n # t /\ q \in Seq(Blocks) /\ b \in Blocks
      /\ pc[t] = "push" /\ Still
      /\ held' = [held EXCEPT ![t] = NoBlock]
      /\ queue' = [queue EXCEPT ![n] = Append(q, b)]
      /\ pc' = [pc EXCEPT ![t] = "top", ![n] = IF @ = "asleep" THEN "woken" ELSE @]
  BY ThreadFacts
     DEF IInv, Types, Hands, Push, driverVars, outputs, Still, Free, Waiting
<1>2. /\ Len(q) \in Nat /\ Len(Append(q, b)) = Len(q) + 1
      /\ \A i \in 1 .. Len(q) : Append(q, b)[i] = q[i]
      /\ Append(q, b)[Len(q) + 1] = b
  BY <1>1
<1>3. /\ held'[t] = NoBlock /\ \A u \in Threads \ {t} : held'[u] = held[u]
      /\ queue'[n] = Append(q, b)
      /\ \A u \in Threads \ {n} : queue'[u] = queue[u]
      /\ pc'[n] = (IF pc[n] = "asleep" THEN "woken" ELSE pc[n])
      /\ \A u \in Threads \ {t, n} : pc'[u] = pc[u]
  BY <1>1 DEF IInv, Types
<1>4. \A u \in Threads : Len(queue[u]) \in Nat
  BY DEF IInv, Types
<1>5. NoBlock \notin Blocks
  BY FilterAssumption DEF FilterAssumption
<1> HIDE DEF n, q, b
<1>6. ASSUME NEW u \in Threads, NEW i \in 0 .. Len(queue'[u]),
             Block(u, i)' \in Blocks
      PROVE  /\ ~(u = t /\ i = 0)
             /\ new(u, i) => Block(u, i)' = b
             /\ ~new(u, i) => /\ i \in 0 .. Len(queue[u])
                              /\ Block(u, i)' = Block(u, i)
  <2>1. ~(u = t /\ i = 0)
    BY <1>3, <1>5, <1>6 DEF Block
  <2>2. CASE u = n
    <3>1. i \in 0 .. Len(q) + 1 /\ queue[u] = q /\ queue'[u] = Append(q, b)
      BY <1>2, <1>3, <2>2 DEF q
    <3>2. i = 0 \/ i \in 1 .. Len(q) \/ i = Len(q) + 1
      BY <1>2, <3>1
    <3>3. i = 0 => Block(u, i)' = Block(u, i)
      BY <1>1, <1>3, <2>1, <2>2 DEF Block
    <3>4. i \in 1 .. Len(q) => i # 0 /\ i # Len(q) + 1 /\ Block(u, i)' = Block(u, i)
      BY <1>2, <3>1 DEF Block
    <3>5. i = Len(q) + 1 => i # 0 /\ Block(u, i)' = b
      BY <1>2, <3>1 DEF Block
    <3>7. i # Len(q) + 1 => i \in 0 .. Len(queue[u]) /\ Block(u, i)' = Block(u, i)
      BY <1>2, <3>1, <3>2, <3>3, <3>4
    <3> QED
      BY <2>1, <2>2, <3>5, <3>7
  <2>3. CASE u # n
    BY <1>3, <2>1, <2>3 DEF Block
  <2> QED
    BY <2>2, <2>3
<1>7. \A c : Content(c)' = Content(c)
  BY <1>1 DEF Content, Still, stages
<1>8. t = "adapter" => Content(b) = {}
  <2>1. t = "adapter" => packets[b] = <<>> /\ toMstcp[b] = <<>> /\ toAdapter[b] = <<>>
    BY <1>1, HeldContent DEF b, PacketInv
  <2> QED
    BY <2>1, EmptyFacts DEF Content
<1>9. t # "adapter" => Rank[t] = Rank[n] + 1
  BY DEF n, Threads, Successor, Rank
<1>10. \A u \in Threads : Rank[u] \in Int
  BY DEF Threads, Rank
<1>11. 0 \in 0 .. Len(queue[t]) /\ Block(t, 0) = b
  BY <1>4 DEF Block, b
<1>12. \A u \in Threads : Rank[u] = Rank[t] => u = t
  BY DEF Threads, Rank
<1>13. InLine'
  <2> SUFFICES ASSUME NEW u \in Threads, NEW v \in Threads,
                      NEW i \in 0 .. Len(queue'[u]), NEW j \in 0 .. Len(queue'[v]),
                      Ahead(u, i, v, j),
                      Block(u, i)' \in Blocks, Block(v, j)' \in Blocks
               PROVE  Below(Content(Block(u, i)'), Content(Block(v, j)'))
    BY <1>7 DEF InLine, Ahead, Below
  <2>0. Len(queue'[u]) \in Nat /\ Len(queue'[v]) \in Nat
    BY <1>2, <1>3, <1>4
  <2>1. CASE ~new(u, i) /\ ~new(v, j)
    <3>1. /\ i \in 0 .. Len(queue[u]) /\ Block(u, i)' = Block(u, i)
          /\ j \in 0 .. Len(queue[v]) /\ Block(v, j)' = Block(v, j)
      BY <1>6, <2>1
    <3> QED
      BY <3>1 DEF PacketInv, InLine
  <2>2. CASE t = "adapter" /\ (new(u, i) \/ new(v, j))
    <3>1. Content(Block(u, i)') = {} \/ Content(Block(v, j)') = {}
      BY <1>6, <1>8, <2>2
    <3> QED
      BY <3>1 DEF Below
  <2>3. CASE t # "adapter" /\ new(u, i)
    <3>1. Block(u, i)' = b
      BY <1>6, <2>3
    <3>2. ~new(v, j) /\ Rank[n] < Rank[v]
      <4>1. ~(u = v /\ i < j)
        BY <1>2, <1>3, <2>0, <2>3
      <4> QED
        BY <1>1, <1>10, <2>3, <4>1 DEF Ahead
    <3>3. j \in 0 .. Len(queue[v]) /\ Block(v, j)' = Block(v, j) /\ ~(v = t /\ j = 0)
      BY <1>6, <3>2
    <3>4. Ahead(t, 0, v, j)
      <4>1. Rank[t] < Rank[v] \/ v = t
        BY <1>1, <1>9, <1>10, <1>12, <2>3, <3>2
      <4>2. v = t => 0 < j
        BY <1>4, <3>3
      <4> QED
        BY <4>1, <4>2 DEF Ahead
    <3> QED
      BY <1>1, <1>11, <3>1, <3>3, <3>4 DEF PacketInv, InLine
  <2>4. CASE t # "adapter" /\ ~new(u, i) /\ new(v, j)
    <3>1. /\ Block(v, j)' = b
          /\ i \in 0 .. Len(queue[u]) /\ Block(u, i)' = Block(u, i)
      BY <1>6, <2>4
    <3>2. Ahead(u, i, t, 0)
      <4>1. Rank[u] < Rank[n] \/ Rank[u] = Rank[n]
        BY <2>4 DEF Ahead
      <4>2. Rank[u] < Rank[t]
        BY <1>1, <1>9, <1>10, <2>4, <4>1
      <4> QED
        BY <4>2 DEF Ahead
    <3> QED
      BY <1>1, <1>11, <3>1, <3>2 DEF PacketInv, InLine
  <2> QED
    BY <2>1, <2>2, <2>3, <2>4
<1>14. \A c, u : c \in Blocks /\ u \in Threads =>
         /\ Done(c, u) => (c = b /\ u = t) \/ Done(c, u)'
         /\ Ready(c, u) => Ready(c, u)'
  <2> SUFFICES ASSUME NEW c \in Blocks, NEW u \in Threads
               PROVE  /\ Done(c, u) => (c = b /\ u = t) \/ Done(c, u)'
                      /\ Ready(c, u) => Ready(c, u)'
    OBVIOUS
  <2>1. pc[u] \in {"work", "push"} /\ u # t => pc'[u] = pc[u] /\ held'[u] = held[u]
    BY <1>3
  <2>2. Done(c, u) => (c = b /\ u = t) \/ Done(c, u)'
    BY <2>1 DEF Done, b
  <2>3. ASSUME NEW i \in 1 .. Len(queue[u]), queue[u][i] = c PROVE Ready(c, u)'
    <3>1. i \in 1 .. Len(queue'[u]) /\ queue'[u][i] = c
      <4>1. CASE u = n
        <5>1. queue[u] = q /\ queue'[u] = Append(q, b)
          BY <1>3, <4>1 DEF q
        <5>2. i \in 1 .. Len(q) /\ q[i] = c
          BY <2>3, <5>1
        <5> QED
          BY <1>2, <5>1, <5>2
      <4>2. CASE u # n
        BY <1>3, <2>3, <4>2
      <4> QED
        BY <4>1, <4>2
    <3> QED
      BY <3>1 DEF Ready
  <2>4. held[u] = c /\ pc[u] = "work" => Ready(c, u)'
    BY <1>1, <2>1 DEF Ready
  <2> QED
    BY <2>2, <2>3, <2>4 DEF Ready
<1>15. \A c \in Blocks : c = b => Ready(c, n)'
  <2>1. Len(q) + 1 \in 1 .. Len(queue'[n]) /\ queue'[n][Len(q) + 1] = b
    BY <1>2, <1>3
  <2> QED
    BY <2>1 DEF Ready
<1>16. Staged'
  <2>1. UNCHANGED <<packets, toMstcp, toAdapter>>
    BY <1>1 DEF Still, stages
  <2>2. /\ t = "read" => n = "process" /\ toMstcp[b] = <<>> /\ toAdapter[b] = <<>>
        /\ t = "process" => n = "mstcp"
        /\ t = "mstcp" => n = "adapter" /\ packets[b] = <<>> /\ toMstcp[b] = <<>>
        /\ t = "adapter" => packets[b] = <<>> /\ toMstcp[b] = <<>> /\ toAdapter[b] = <<>>
    BY <1>1, HeldContent DEF b, n, Successor, PacketInv
  <2>3. ASSUME NEW c \in Blocks
        PROVE  /\ packets[c] # <<>> => Done(c, "read")' \/ Ready(c, "process")'
               /\ toMstcp[c] # <<>> => Done(c, "process")' \/ Ready(c, "mstcp")'
               /\ toAdapter[c] # <<>> =>
                    \/ Done(c, "process")' \/ Ready(c, "mstcp")'
                    \/ Done(c, "mstcp")' \/ Ready(c, "adapter")'
    <3>1. packets[c] # <<>> => Done(c, "read")' \/ Ready(c, "process")'
      BY <1>14, <1>15, <2>2, ThreadFacts DEF PacketInv, Staged
    <3>2. toMstcp[c] # <<>> => Done(c, "process")' \/ Ready(c, "mstcp")'
      BY <1>14, <1>15, <2>2, ThreadFacts DEF PacketInv, Staged
    <3>3. toAdapter[c] # <<>> =>
                    \/ Done(c, "process")' \/ Ready(c, "mstcp")'
                    \/ Done(c, "mstcp")' \/ Ready(c, "adapter")'
      BY <1>14, <1>15, <2>2, ThreadFacts DEF PacketInv, Staged
    <3> QED
      BY <3>1, <3>2, <3>3
  <2> QED
    BY <2>1, <2>3 DEF Staged
<1> QED
  BY <1>1, <1>13, <1>16, StillPackets
-----------------------------------------------------------------------------
\* The blocks stay where they are, and no block gets a packet.
LEMMA FewerPackets ==
  ASSUME PacketInv, UNCHANGED <<held, queue>>,
         \A c \in Blocks : Content(c)' \subseteq Content(c)
  PROVE  InLine'
BY DEF PacketInv, InLine, Block, Ahead, Below

\* The read thread fills its block with the oldest packets of the driver.
LEMMA ReadPacketsStep ==
  ASSUME IInv, PacketInv, ReadPackets
  PROVE  PacketInv'
<1> DEFINE h == held["read"]
           n == IF Len(driver) < BlockSize THEN Len(driver) ELSE BlockSize
           new == SubSeq(driver, 1, n)
           rest == SubSeq(driver, n + 1, Len(driver))
<1>1. /\ h \in Blocks /\ pc["read"] = "fill"
      /\ packets' = [packets EXCEPT ![h] = new] /\ driver' = rest
      /\ UNCHANGED <<held, queue, toMstcp, toAdapter, arrived, mstcpOut,
                     adapterOut, gone>>
      /\ pc' = [pc EXCEPT !["read"] = IF n = 0 /\ Running THEN "event" ELSE "push"]
  BY ThreadFacts DEF ReadPackets, Goto, outputs, IInv, Types, Hands, Free, Waiting
<1>2. n \in 0 .. Len(driver)
  BY FilterAssumption DEF FilterAssumption, PacketInv, Lists
<1>3. /\ new \in Seq(Int) /\ rest \in Seq(Int) /\ Len(new) = n
      /\ Range(driver) = Range(new) \cup Range(rest)
      /\ Increasing(new) /\ Increasing(rest) /\ Below(Range(new), Range(rest))
  BY <1>2, SplitFacts DEF PacketInv, Lists, Ascending
<1>4. packets[h] = <<>> /\ toMstcp[h] = <<>> /\ toAdapter[h] = <<>>
  BY <1>1, ThreadFacts, HeldContent DEF PacketInv
<1> HIDE DEF new, rest, n
<1>5. \E b \in Blocks : b = h
  BY <1>1
<1>6. PICK b \in Blocks : b = h
  BY <1>5
<1>7. /\ packets'[b] = new /\ \A c \in Blocks \ {b} : packets'[c] = packets[c]
      /\ \A c \in Blocks : toMstcp'[c] = toMstcp[c] /\ toAdapter'[c] = toAdapter[c]
      /\ packets[b] = <<>> /\ toMstcp[b] = <<>> /\ toAdapter[b] = <<>>
      /\ held["read"] = b
  BY <1>1, <1>4, <1>6 DEF PacketInv, Lists
<1> HIDE DEF h
<1>8. /\ Content(b)' = Range(new) /\ Content(b) = {}
      /\ \A c \in Blocks \ {b} : Content(c)' = Content(c)
  BY <1>7, EmptyFacts DEF Content
<1>9. Lists'
  BY <1>1, <1>3, <1>6 DEF PacketInv, Lists
<1>10. \A c, t : c \in Blocks /\ t \in Threads =>
          (Done(c, t) => Done(c, t)') /\ (Ready(c, t) => Ready(c, t)')
  <2>1. \A t \in Threads : pc[t] \in {"work", "push"} => pc'[t] = pc[t]
    BY <1>1 DEF IInv, Types
  <2> QED
    BY <1>1, <2>1 DEF Done, Ready
<1>11. Staged'
  <2>1. packets'[b] # <<>> => Done(b, "read")'
    <3>1. n = 0 => new = <<>>
      BY <1>3
    <3>2. pc'["read"] = IF n = 0 /\ Running THEN "event" ELSE "push"
      BY <1>1, ThreadFacts DEF IInv, Types
    <3> QED
      BY <1>1, <1>7, <3>1, <3>2 DEF Done
  <2>2. \A c \in Blocks : packets'[c] # <<>> =>
          Done(c, "read")' \/ Ready(c, "process")'
    BY <1>7, <1>10, <2>1, ThreadFacts DEF PacketInv, Staged
  <2>3. \A c \in Blocks :
          /\ toMstcp'[c] # <<>> => Done(c, "process")' \/ Ready(c, "mstcp")'
          /\ toAdapter'[c] # <<>> =>
               \/ Done(c, "process")' \/ Ready(c, "mstcp")'
               \/ Done(c, "mstcp")' \/ Ready(c, "adapter")'
    BY <1>7, <1>10, ThreadFacts DEF PacketInv, Staged
  <2> QED
    BY <2>2, <2>3 DEF Staged
<1>12. Ascending'
  BY <1>1, <1>3, <1>7 DEF PacketInv, Ascending
<1>13. InLine'
  <2> SUFFICES ASSUME NEW t \in Threads, NEW u \in Threads,
                      NEW i \in 0 .. Len(queue[t]), NEW j \in 0 .. Len(queue[u]),
                      Ahead(t, i, u, j),
                      Block(t, i) \in Blocks, Block(u, j) \in Blocks
               PROVE  Below(Content(Block(t, i))', Content(Block(u, j))')
    BY <1>1 DEF InLine, Block, Ahead, Below, Content
  <2>1. CASE Block(t, i) # b /\ Block(u, j) # b
    <3>1. Below(Content(Block(t, i)), Content(Block(u, j)))
      BY DEF PacketInv, InLine
    <3>2. /\ Content(Block(t, i))' = Content(Block(t, i))
          /\ Content(Block(u, j))' = Content(Block(u, j))
      BY <1>1, <1>7, <2>1 DEF Block, Content
    <3> QED
      BY <3>1, <3>2
  <2>2. CASE Block(u, j) = b /\ Block(t, i) # b
    <3>1. Below(Content(Block(t, i)), Range(driver))
      BY DEF PacketInv, OutBefore
    <3>2. /\ Content(Block(t, i))' = Content(Block(t, i))
          /\ Content(Block(u, j))' = Range(new)
      BY <1>1, <1>7, <2>2, EmptyFacts DEF Block, Content
    <3> QED
      BY <1>3, <3>1, <3>2 DEF Below
  <2>3. CASE Block(t, i) = b
    <3>1. Len(queue[t]) \in Nat /\ Len(queue[u]) \in Nat
      BY DEF IInv, Types
    <3>2. t = "read" /\ i = 0
      <4>1. i # 0 => i \in 1 .. Len(queue[t]) /\ Block(t, i) = queue[t][i]
        BY <3>1 DEF Block
      <4>2. i = 0
        BY <1>7, <2>3, <4>1, ThreadFacts, OnePlaceFacts DEF IInv
      <4>3. held[t] = held["read"] /\ held[t] # NoBlock
        BY <1>7, <2>3, <4>2, FilterAssumption DEF Block, FilterAssumption
      <4> QED
        BY <4>2, <4>3, ThreadFacts, OnePlaceFacts DEF IInv
    <3>3. u = "read" /\ j \in 1 .. Len(queue[u]) /\ Block(u, j) = queue[u][j]
      <4>1. u = "read"
        BY <3>2, ThreadFacts DEF Ahead, Rank, Threads
      <4> QED
        BY <3>1, <3>2, <4>1 DEF Ahead, Rank, Block
    <3>4. \A v \in Threads : ~Done(queue[u][j], v) /\ (Ready(queue[u][j], v) => v = u)
      BY <3>3, QueuedFacts
    <3>5. /\ packets[queue[u][j]] = <<>> /\ toMstcp[queue[u][j]] = <<>>
          /\ toAdapter[queue[u][j]] = <<>>
      BY <3>3, <3>4, ThreadFacts DEF PacketInv, Staged
    <3>6. queue[u][j] # b
      BY <1>7, <3>3, ThreadFacts, OnePlaceFacts DEF IInv
    <3>7. Content(Block(u, j))' = {}
      BY <1>1, <1>7, <3>3, <3>5, <3>6, EmptyFacts DEF Content, Block
    <3> QED
      BY <3>7 DEF Below
  <2> QED
    BY <2>1, <2>2, <2>3
<1>14. OutBefore'
  <2>1. /\ Below(Range(mstcpOut), Range(driver'))
        /\ Below(Range(adapterOut), Range(driver'))
    BY <1>1, <1>3 DEF PacketInv, OutBefore, Below
  <2>2. ASSUME NEW c \in Blocks, c # b
        PROVE  /\ Below(Range(mstcpOut), Range(toMstcp'[c]) \cup Range(packets'[c]))
               /\ Below(Range(adapterOut), Range(toAdapter'[c]) \cup Range(packets'[c]))
               /\ Below(Content(c)', Range(driver'))
    BY <1>1, <1>3, <1>7, <1>8, <2>2 DEF PacketInv, OutBefore, Below
  <2>3. /\ Below(Range(mstcpOut), Range(toMstcp'[b]) \cup Range(packets'[b]))
        /\ Below(Range(adapterOut), Range(toAdapter'[b]) \cup Range(packets'[b]))
        /\ Below(Content(b)', Range(driver'))
    BY <1>1, <1>3, <1>7, <1>8, EmptyFacts DEF PacketInv, OutBefore, Below
  <2> QED
    BY <1>1, <2>1, <2>2, <2>3 DEF OutBefore
<1>15. OneSide'
  BY <1>1 DEF PacketInv, OneSide
<1>16. NoPacketLost'
  <2>1. InBlocks' = InBlocks \cup Range(new)
    <3>1. InBlocks = UNION {Content(c) : c \in Blocks}
      BY DEF InBlocks, Content
    <3>2. InBlocks' = UNION {Content(c)' : c \in Blocks}
      BY DEF InBlocks, Content
    <3> QED
      BY <1>8, <3>1, <3>2
  <2> QED
    BY <1>1, <1>3, <2>1 DEF PacketInv, NoPacketLost
<1> QED
  BY <1>9, <1>11, <1>12, <1>13, <1>14, <1>15, <1>16 DEF PacketInv

\* The process thread sorts the packets of its block into the two lists.
LEMMA ProcessPacketsStep ==
  ASSUME IInv, PacketInv, ProcessPackets
  PROVE  PacketInv'
<1> DEFINE h == held["process"]
<1>1. /\ h \in Blocks /\ pc["process"] = "work"
      /\ packets' = [packets EXCEPT ![h] = <<>>]
      /\ UNCHANGED <<held, queue, driver, arrived, mstcpOut, adapterOut>>
      /\ pc' = [pc EXCEPT !["process"] = "push"]
  BY ThreadFacts
     DEF ProcessPackets, Goto, driverVars, IInv, Types, Hands, Free, Waiting
<1>2. toMstcp[h] = <<>> /\ toAdapter[h] = <<>>
  BY <1>1, ThreadFacts, HeldContent DEF PacketInv
<1> DEFINE s == packets[h]
<1>3. s \in Seq(Int) /\ Increasing(s)
  BY <1>1 DEF PacketInv, Lists, Ascending
<1>4. PICK verdict \in [Range(s) -> {"pass", "drop", "revert"}] :
        LET pass   == {p \in DOMAIN verdict : verdict[p] = "pass"}
            revert == {p \in DOMAIN verdict : verdict[p] = "revert"}
            outward == (pass \cap Sent) \cup (revert \ Sent)
            inward  == (pass \ Sent) \cup (revert \cap Sent)
        IN /\ toAdapter' = [toAdapter EXCEPT ![h] = @ \o Kept(s, outward)]
           /\ toMstcp' = [toMstcp EXCEPT ![h] = @ \o Kept(s, inward)]
           /\ gone' = gone \cup {p \in Range(s) : verdict[p] = "drop"}
  BY DEF ProcessPackets
<1> DEFINE pass   == {p \in DOMAIN verdict : verdict[p] = "pass"}
           revert == {p \in DOMAIN verdict : verdict[p] = "revert"}
           outward == (pass \cap Sent) \cup (revert \ Sent)
           inward  == (pass \ Sent) \cup (revert \cap Sent)
           dropped == {p \in Range(s) : verdict[p] = "drop"}
           o == Kept(s, outward)
           w == Kept(s, inward)
<1>5. /\ toAdapter' = [toAdapter EXCEPT ![h] = @ \o o]
      /\ toMstcp' = [toMstcp EXCEPT ![h] = @ \o w]
      /\ gone' = gone \cup dropped
  BY <1>4
<1>6. /\ Range(s) \cap outward \cap inward = {}
      /\ Range(s) = (Range(s) \cap outward) \cup (Range(s) \cap inward) \cup dropped
  OBVIOUS
<1> HIDE DEF outward, inward, dropped, s
<1>7. /\ o \in Seq(Int) /\ Range(o) = Range(s) \cap outward /\ Increasing(o)
      /\ w \in Seq(Int) /\ Range(w) = Range(s) \cap inward /\ Increasing(w)
  BY <1>3, KeptFacts
<1> HIDE DEF o, w
<1>8. <<>> \o o = o /\ <<>> \o w = w
  BY <1>7
<1>9. /\ Range(o) \cap Range(w) = {} /\ Range(o) \subseteq Range(s)
      /\ Range(w) \subseteq Range(s)
      /\ Range(s) = Range(o) \cup Range(w) \cup dropped
  BY <1>6, <1>7
<1>10. \E b \in Blocks : b = h
  BY <1>1
<1>11. PICK b \in Blocks : b = h
  BY <1>10
<1>12. /\ packets'[b] = <<>> /\ toMstcp'[b] = w /\ toAdapter'[b] = o
       /\ \A c \in Blocks \ {b} : /\ packets'[c] = packets[c]
                                  /\ toMstcp'[c] = toMstcp[c]
                                  /\ toAdapter'[c] = toAdapter[c]
       /\ packets[b] = s /\ toMstcp[b] = <<>> /\ toAdapter[b] = <<>>
       /\ held["process"] = b
  BY <1>1, <1>2, <1>5, <1>8, <1>11 DEF PacketInv, Lists, s
<1>13. Lists'
  BY <1>1, <1>2, <1>5, <1>7, <1>8 DEF PacketInv, Lists
<1> HIDE DEF h
<1>14. /\ Content(b)' = Range(o) \cup Range(w) /\ Content(b) = Range(s)
       /\ \A c \in Blocks \ {b} : Content(c)' = Content(c)
  BY <1>12, EmptyFacts DEF Content
<1>15. Staged'
  <2>1. \A t \in Threads \ {"process"} : pc'[t] = pc[t]
    BY <1>1 DEF IInv, Types
  <2>2. Done(b, "process")'
    BY <1>1, <1>12, ThreadFacts DEF Done, IInv, Types
  <2>3. \A c, t : c \in Blocks \ {b} /\ t \in Threads =>
          (Done(c, t) => Done(c, t)') /\ (Ready(c, t) => Ready(c, t)')
    BY <1>1, <1>12, <2>1 DEF Done, Ready
  <2>4. ASSUME NEW c \in Blocks \ {b}
        PROVE  /\ packets'[c] # <<>> => Done(c, "read")' \/ Ready(c, "process")'
               /\ toMstcp'[c] # <<>> => Done(c, "process")' \/ Ready(c, "mstcp")'
               /\ toAdapter'[c] # <<>> =>
                    \/ Done(c, "process")' \/ Ready(c, "mstcp")'
                    \/ Done(c, "mstcp")' \/ Ready(c, "adapter")'
    BY <1>12, <2>3, ThreadFacts DEF PacketInv, Staged
  <2> QED
    BY <1>12, <2>2, <2>4 DEF Staged
<1>16. Ascending'
  BY <1>1, <1>7, <1>12, EmptyFacts DEF PacketInv, Ascending
<1>17. InLine'
  BY <1>1, <1>9, <1>14, FewerPackets
<1>18. OutBefore'
  <2>1. ASSUME NEW c \in Blocks, c # b
        PROVE  /\ Below(Range(mstcpOut), Range(toMstcp'[c]) \cup Range(packets'[c]))
               /\ Below(Range(adapterOut), Range(toAdapter'[c]) \cup Range(packets'[c]))
               /\ Below(Content(c)', Range(driver))
    BY <1>12, <1>14, <2>1 DEF PacketInv, OutBefore
  <2>2. /\ Below(Range(mstcpOut), Range(toMstcp'[b]) \cup Range(packets'[b]))
        /\ Below(Range(adapterOut), Range(toAdapter'[b]) \cup Range(packets'[b]))
        /\ Below(Content(b)', Range(driver))
    BY <1>9, <1>12, <1>14, EmptyFacts DEF PacketInv, OutBefore, Below
  <2>3. /\ Below(Range(mstcpOut), Range(driver))
        /\ Below(Range(adapterOut), Range(driver))
    BY DEF PacketInv, OutBefore
  <2> QED
    BY <1>1, <2>1, <2>2, <2>3 DEF OutBefore
<1>19. OneSide'
  <2>1. Range(s) \cap Range(mstcpOut) = {} /\ Range(s) \cap Range(adapterOut) = {}
    <3>1. Below(Range(mstcpOut), Range(s)) /\ Below(Range(adapterOut), Range(s))
      BY <1>12 DEF PacketInv, OutBefore, Below
    <3>2. Range(s) \subseteq Int
      BY <1>3, EmptyFacts
    <3> QED
      BY <3>1, <3>2 DEF Below
  <2>2. \A c \in Blocks \ {b} : Range(s) \cap Content(c) = {}
    BY <1>14, Apart
  <2>3. \A a, c \in Blocks : Range(toMstcp'[a]) \cap Range(toAdapter'[c]) = {}
    <3> SUFFICES ASSUME NEW a \in Blocks, NEW c \in Blocks
                 PROVE  Range(toMstcp'[a]) \cap Range(toAdapter'[c]) = {}
      OBVIOUS
    <3>1. CASE a # b /\ c # b
      BY <1>12, <3>1 DEF PacketInv, OneSide
    <3>2. CASE a = b /\ c # b
      BY <1>9, <1>12, <2>2, <3>2 DEF Content
    <3>3. CASE a # b /\ c = b
      BY <1>9, <1>12, <2>2, <3>3 DEF Content
    <3>4. CASE a = b /\ c = b
      BY <1>9, <1>12, <3>4
    <3> QED
      BY <3>1, <3>2, <3>3, <3>4
  <2>4. \A c \in Blocks : /\ Range(mstcpOut) \cap Range(toAdapter'[c]) = {}
                          /\ Range(adapterOut) \cap Range(toMstcp'[c]) = {}
    BY <1>9, <1>12, <2>1 DEF PacketInv, OneSide
  <2> QED
    BY <1>1, <2>3, <2>4 DEF PacketInv, OneSide
<1>20. NoPacketLost'
  <2>1. InBlocks' \cup dropped = InBlocks \cup dropped
    <3>1. InBlocks = UNION {Content(c) : c \in Blocks}
      BY DEF InBlocks, Content
    <3>2. InBlocks' = UNION {Content(c)' : c \in Blocks}
      BY DEF InBlocks, Content
    <3>3. Content(b)' \cup dropped = Content(b) \cup dropped
      BY <1>9, <1>14
    <3> QED
      BY <1>14, <3>1, <3>2, <3>3
  <2>2. /\ dropped \subseteq InBlocks
        /\ gone' = gone \cup dropped
    <3>1. Content(b) \subseteq InBlocks
      BY DEF InBlocks, Content
    <3> QED
      BY <1>5, <1>9, <1>14, <3>1
  <2> QED
    BY <1>1, <2>1, <2>2 DEF PacketInv, NoPacketLost
<1> QED
  BY <1>13, <1>15, <1>16, <1>17, <1>18, <1>19, <1>20 DEF PacketInv

\* The mstcp thread writes the packets for the protocol stack.
LEMMA WriteMstcpStep ==
  ASSUME IInv, PacketInv, WriteMstcp
  PROVE  PacketInv'
<1> DEFINE h == held["mstcp"]
<1>1. /\ h \in Blocks /\ pc["mstcp"] = "work"
      /\ mstcpOut' = mstcpOut \o toMstcp[h]
      /\ toMstcp' = [toMstcp EXCEPT ![h] = <<>>]
      /\ UNCHANGED <<held, queue, packets, toAdapter, driver, arrived, adapterOut,
                     gone>>
      /\ pc' = [pc EXCEPT !["mstcp"] = "push"]
  BY ThreadFacts
     DEF WriteMstcp, Goto, driverVars, IInv, Types, Hands, Free, Waiting
<1>2. packets[h] = <<>>
  BY <1>1, ThreadFacts, HeldContent DEF PacketInv
<1> DEFINE s == toMstcp[h]
<1>3. s \in Seq(Int) /\ Increasing(s) /\ Below(Range(mstcpOut), Range(s))
  BY <1>1 DEF PacketInv, Lists, Ascending, OutBefore, Below
<1>4. /\ mstcpOut' \in Seq(Int) /\ Range(mstcpOut') = Range(mstcpOut) \cup Range(s)
      /\ Increasing(mstcpOut')
  BY <1>1, <1>3, ConcatFacts DEF PacketInv, Lists, Ascending
<1> HIDE DEF s
<1>5. \E b \in Blocks : b = h
  BY <1>1
<1>6. PICK b \in Blocks : b = h
  BY <1>5
<1>7. /\ toMstcp'[b] = <<>> /\ toMstcp[b] = s /\ packets[b] = <<>>
      /\ \A c \in Blocks \ {b} : toMstcp'[c] = toMstcp[c]
      /\ held["mstcp"] = b
  BY <1>1, <1>2, <1>6 DEF PacketInv, Lists, s
<1>8. Lists'
  BY <1>1, <1>4, EmptyFacts DEF PacketInv, Lists
<1> HIDE DEF h
<1>9. /\ Content(b) = Content(b)' \cup Range(s) /\ Content(b)' \subseteq Content(b)
      /\ \A c \in Blocks \ {b} : Content(c)' = Content(c)
  BY <1>1, <1>7, EmptyFacts DEF Content
<1>10. Staged'
  <2>1. \A t \in Threads \ {"mstcp"} : pc'[t] = pc[t]
    BY <1>1 DEF IInv, Types
  <2>2. Done(b, "mstcp")'
    BY <1>1, <1>7, ThreadFacts DEF Done, IInv, Types
  <2>3. \A c, t : c \in Blocks \ {b} /\ t \in Threads =>
          (Done(c, t) => Done(c, t)') /\ (Ready(c, t) => Ready(c, t)')
    BY <1>1, <1>7, <2>1 DEF Done, Ready
  <2>4. ASSUME NEW c \in Blocks \ {b}
        PROVE  /\ packets[c] # <<>> => Done(c, "read")' \/ Ready(c, "process")'
               /\ toMstcp'[c] # <<>> => Done(c, "process")' \/ Ready(c, "mstcp")'
               /\ toAdapter[c] # <<>> =>
                    \/ Done(c, "process")' \/ Ready(c, "mstcp")'
                    \/ Done(c, "mstcp")' \/ Ready(c, "adapter")'
    BY <1>7, <2>3, ThreadFacts DEF PacketInv, Staged
  <2> QED
    BY <1>1, <1>7, <2>2, <2>4 DEF Staged
<1>11. Ascending'
  BY <1>1, <1>4, <1>7, EmptyFacts DEF PacketInv, Ascending
<1>12. InLine'
  BY <1>1, <1>9, FewerPackets
<1>13. ASSUME NEW c \in Blocks, c # b
       PROVE  Below(Range(s), Range(toMstcp[c]) \cup Range(packets[c]))
  <2>1. CASE toMstcp[c] = <<>> /\ packets[c] = <<>>
    BY <2>1, EmptyFacts DEF Below
  <2>2. CASE toMstcp[c] # <<>> \/ packets[c] # <<>>
    <3>1. \E t \in {"mstcp", "process", "read"} : Done(c, t) \/ Ready(c, t)
      BY <2>2 DEF PacketInv, Staged
    <3>2. PICK t \in {"mstcp", "process", "read"} : Done(c, t) \/ Ready(c, t)
      BY <3>1
    <3>3. t \in Threads /\ Len(queue[t]) \in Nat /\ Len(queue["mstcp"]) \in Nat
      BY <3>2, ThreadFacts DEF IInv, Types
    <3>4. \E j \in 0 .. Len(queue[t]) : Block(t, j) = c /\ (t = "mstcp" => 0 < j)
      <4>1. CASE held[t] = c
        <5>1. t # "mstcp"
          BY <1>7, <1>13, <4>1
        <5>2. 0 \in 0 .. Len(queue[t]) /\ Block(t, 0) = c
          BY <3>3, <4>1 DEF Block
        <5> QED
          BY <5>1, <5>2
      <4>2. ASSUME NEW i \in 1 .. Len(queue[t]), queue[t][i] = c
            PROVE  \E j \in 0 .. Len(queue[t]) : Block(t, j) = c /\ 0 < j
        <5>1. i \in 0 .. Len(queue[t]) /\ i # 0 /\ 0 < i
          BY <3>3
        <5> QED
          BY <4>2, <5>1 DEF Block
      <4> QED
        BY <3>2, <4>1, <4>2 DEF Done, Ready
    <3>5. PICK j \in 0 .. Len(queue[t]) : Block(t, j) = c /\ (t = "mstcp" => 0 < j)
      BY <3>4
    <3>6. Ahead("mstcp", 0, t, j)
      BY <3>2, <3>5 DEF Ahead, Rank, Threads
    <3>7. 0 \in 0 .. Len(queue["mstcp"]) /\ Block("mstcp", 0) = b
      BY <1>7, <3>3 DEF Block
    <3>8. Below(Content(b), Content(c))
      BY <3>3, <3>5, <3>6, <3>7, ThreadFacts DEF PacketInv, InLine
    <3> QED
      BY <1>9, <3>8 DEF Below, Content
  <2> QED
    BY <2>1, <2>2
<1>14. OutBefore'
  <2>1. Below(Content(b), Range(driver))
    BY DEF PacketInv, OutBefore
  <2>2. /\ Below(Range(mstcpOut'), Range(driver))
        /\ Below(Range(adapterOut), Range(driver))
    BY <1>4, <1>9, <2>1 DEF PacketInv, OutBefore, Below
  <2>3. ASSUME NEW c \in Blocks, c # b
        PROVE  /\ Below(Range(mstcpOut'), Range(toMstcp'[c]) \cup Range(packets[c]))
               /\ Below(Range(adapterOut), Range(toAdapter[c]) \cup Range(packets[c]))
               /\ Below(Content(c)', Range(driver))
    <3>1. /\ Below(Range(mstcpOut), Range(toMstcp[c]) \cup Range(packets[c]))
          /\ Below(Range(adapterOut), Range(toAdapter[c]) \cup Range(packets[c]))
          /\ Below(Content(c), Range(driver))
      BY DEF PacketInv, OutBefore
    <3> QED
      BY <1>4, <1>7, <1>9, <1>13, <2>3, <3>1 DEF Below
  <2>4. /\ Below(Range(mstcpOut'), Range(toMstcp'[b]) \cup Range(packets[b]))
        /\ Below(Range(adapterOut), Range(toAdapter[b]) \cup Range(packets[b]))
        /\ Below(Content(b)', Range(driver))
    BY <1>7, <1>9, <2>1, EmptyFacts DEF PacketInv, OutBefore, Below
  <2> QED
    BY <1>1, <2>2, <2>3, <2>4 DEF OutBefore
<1>15. OneSide'
  <2>1. \A a \in Blocks : Range(toMstcp'[a]) \subseteq Range(toMstcp[a])
    BY <1>7, EmptyFacts
  <2> QED
    BY <1>1, <1>4, <1>7, <2>1 DEF PacketInv, OneSide
<1>16. NoPacketLost'
  <2>1. InBlocks = InBlocks' \cup Range(s)
    <3>1. InBlocks = UNION {Content(c) : c \in Blocks}
      BY DEF InBlocks, Content
    <3>2. InBlocks' = UNION {Content(c)' : c \in Blocks}
      BY DEF InBlocks, Content
    <3> QED
      BY <1>9, <3>1, <3>2
  <2> QED
    BY <1>1, <1>4, <2>1 DEF PacketInv, NoPacketLost
<1> QED
  BY <1>8, <1>10, <1>11, <1>12, <1>14, <1>15, <1>16 DEF PacketInv

\* The adapter thread writes the packets for the network.
LEMMA WriteAdapterStep ==
  ASSUME IInv, PacketInv, WriteAdapter
  PROVE  PacketInv'
<1> DEFINE h == held["adapter"]
<1>1. /\ h \in Blocks /\ pc["adapter"] = "work"
      /\ adapterOut' = adapterOut \o toAdapter[h]
      /\ toAdapter' = [toAdapter EXCEPT ![h] = <<>>]
      /\ UNCHANGED <<held, queue, packets, toMstcp, driver, arrived, mstcpOut,
                     gone>>
      /\ pc' = [pc EXCEPT !["adapter"] = "push"]
  BY ThreadFacts
     DEF WriteAdapter, Goto, driverVars, IInv, Types, Hands, Free, Waiting
<1>2. packets[h] = <<>> /\ toMstcp[h] = <<>>
  BY <1>1, ThreadFacts, HeldContent DEF PacketInv
<1> DEFINE s == toAdapter[h]
<1>3. s \in Seq(Int) /\ Increasing(s) /\ Below(Range(adapterOut), Range(s))
  BY <1>1 DEF PacketInv, Lists, Ascending, OutBefore, Below
<1>4. /\ adapterOut' \in Seq(Int) /\ Range(adapterOut') = Range(adapterOut) \cup Range(s)
      /\ Increasing(adapterOut')
  BY <1>1, <1>3, ConcatFacts DEF PacketInv, Lists, Ascending
<1> HIDE DEF s
<1>5. \E b \in Blocks : b = h
  BY <1>1
<1>6. PICK b \in Blocks : b = h
  BY <1>5
<1>7. /\ toAdapter'[b] = <<>> /\ toAdapter[b] = s /\ packets[b] = <<>>
      /\ toMstcp[b] = <<>>
      /\ \A c \in Blocks \ {b} : toAdapter'[c] = toAdapter[c]
      /\ held["adapter"] = b
  BY <1>1, <1>2, <1>6 DEF PacketInv, Lists, s
<1>8. Lists'
  BY <1>1, <1>4, EmptyFacts DEF PacketInv, Lists
<1> HIDE DEF h
<1>9. /\ Content(b) = Content(b)' \cup Range(s) /\ Content(b)' \subseteq Content(b)
      /\ \A c \in Blocks \ {b} : Content(c)' = Content(c)
  BY <1>1, <1>7, EmptyFacts DEF Content
<1>10. Staged'
  <2>1. \A t \in Threads \ {"adapter"} : pc'[t] = pc[t]
    BY <1>1 DEF IInv, Types
  <2>2. Done(b, "adapter")'
    BY <1>1, <1>7, ThreadFacts DEF Done, IInv, Types
  <2>3. \A c, t : c \in Blocks \ {b} /\ t \in Threads =>
          (Done(c, t) => Done(c, t)') /\ (Ready(c, t) => Ready(c, t)')
    BY <1>1, <1>7, <2>1 DEF Done, Ready
  <2>4. ASSUME NEW c \in Blocks \ {b}
        PROVE  /\ packets[c] # <<>> => Done(c, "read")' \/ Ready(c, "process")'
               /\ toMstcp[c] # <<>> => Done(c, "process")' \/ Ready(c, "mstcp")'
               /\ toAdapter'[c] # <<>> =>
                    \/ Done(c, "process")' \/ Ready(c, "mstcp")'
                    \/ Done(c, "mstcp")' \/ Ready(c, "adapter")'
    BY <1>7, <2>3, ThreadFacts DEF PacketInv, Staged
  <2> QED
    BY <1>1, <1>7, <2>2, <2>4 DEF Staged
<1>11. Ascending'
  BY <1>1, <1>4, <1>7, EmptyFacts DEF PacketInv, Ascending
<1>12. InLine'
  BY <1>1, <1>9, FewerPackets
<1>13. ASSUME NEW c \in Blocks, c # b
       PROVE  Below(Range(s), Range(toAdapter[c]) \cup Range(packets[c]))
  <2>1. CASE toAdapter[c] = <<>> /\ packets[c] = <<>>
    BY <2>1, EmptyFacts DEF Below
  <2>2. CASE toAdapter[c] # <<>> \/ packets[c] # <<>>
    <3>1. \E t \in Threads : Done(c, t) \/ Ready(c, t)
      BY <2>2, ThreadFacts DEF PacketInv, Staged
    <3>2. PICK t \in Threads : Done(c, t) \/ Ready(c, t)
      BY <3>1
    <3>3. t \in Threads /\ Len(queue[t]) \in Nat /\ Len(queue["adapter"]) \in Nat
      BY <3>2, ThreadFacts DEF IInv, Types
    <3>4. \E j \in 0 .. Len(queue[t]) : Block(t, j) = c /\ (t = "adapter" => 0 < j)
      <4>1. CASE held[t] = c
        <5>1. t # "adapter"
          BY <1>7, <1>13, <4>1
        <5>2. 0 \in 0 .. Len(queue[t]) /\ Block(t, 0) = c
          BY <3>3, <4>1 DEF Block
        <5> QED
          BY <5>1, <5>2
      <4>2. ASSUME NEW i \in 1 .. Len(queue[t]), queue[t][i] = c
            PROVE  \E j \in 0 .. Len(queue[t]) : Block(t, j) = c /\ 0 < j
        <5>1. i \in 0 .. Len(queue[t]) /\ i # 0 /\ 0 < i
          BY <3>3
        <5> QED
          BY <4>2, <5>1 DEF Block
      <4> QED
        BY <3>2, <4>1, <4>2 DEF Done, Ready
    <3>5. PICK j \in 0 .. Len(queue[t]) : Block(t, j) = c /\ (t = "adapter" => 0 < j)
      BY <3>4
    <3>6. Ahead("adapter", 0, t, j)
      BY <3>2, <3>5 DEF Ahead, Rank, Threads
    <3>7. 0 \in 0 .. Len(queue["adapter"]) /\ Block("adapter", 0) = b
      BY <1>7, <3>3 DEF Block
    <3>8. Below(Content(b), Content(c))
      BY <3>3, <3>5, <3>6, <3>7, ThreadFacts DEF PacketInv, InLine
    <3> QED
      BY <1>9, <3>8 DEF Below, Content
  <2> QED
    BY <2>1, <2>2
<1>14. OutBefore'
  <2>1. Below(Content(b), Range(driver))
    BY DEF PacketInv, OutBefore
  <2>2. /\ Below(Range(adapterOut'), Range(driver))
        /\ Below(Range(mstcpOut), Range(driver))
    BY <1>4, <1>9, <2>1 DEF PacketInv, OutBefore, Below
  <2>3. ASSUME NEW c \in Blocks, c # b
        PROVE  /\ Below(Range(adapterOut'), Range(toAdapter'[c]) \cup Range(packets[c]))
               /\ Below(Range(mstcpOut), Range(toMstcp[c]) \cup Range(packets[c]))
               /\ Below(Content(c)', Range(driver))
    <3>1. /\ Below(Range(adapterOut), Range(toAdapter[c]) \cup Range(packets[c]))
          /\ Below(Range(mstcpOut), Range(toMstcp[c]) \cup Range(packets[c]))
          /\ Below(Content(c), Range(driver))
      BY DEF PacketInv, OutBefore
    <3> QED
      BY <1>4, <1>7, <1>9, <1>13, <2>3, <3>1 DEF Below
  <2>4. /\ Below(Range(adapterOut'), Range(toAdapter'[b]) \cup Range(packets[b]))
        /\ Below(Range(mstcpOut), Range(toMstcp[b]) \cup Range(packets[b]))
        /\ Below(Content(b)', Range(driver))
    BY <1>7, <1>9, <2>1, EmptyFacts DEF PacketInv, OutBefore, Below
  <2> QED
    BY <1>1, <2>2, <2>3, <2>4 DEF OutBefore
<1>15. OneSide'
  <2>1. \A a \in Blocks : Range(toAdapter'[a]) \subseteq Range(toAdapter[a])
    BY <1>7, EmptyFacts
  <2> QED
    BY <1>1, <1>4, <1>7, <2>1 DEF PacketInv, OneSide
<1>16. NoPacketLost'
  <2>1. InBlocks = InBlocks' \cup Range(s)
    <3>1. InBlocks = UNION {Content(c) : c \in Blocks}
      BY DEF InBlocks, Content
    <3>2. InBlocks' = UNION {Content(c)' : c \in Blocks}
      BY DEF InBlocks, Content
    <3> QED
      BY <1>9, <3>1, <3>2
  <2> QED
    BY <1>1, <1>4, <2>1 DEF PacketInv, NoPacketLost
<1> QED
  BY <1>8, <1>10, <1>11, <1>12, <1>14, <1>15, <1>16 DEF PacketInv

\* While the filter is started or stopped, its blocks are empty.
LEMMA EmptyPackets ==
  ASSUME PacketInv, NoPackets', Lists', NoPacketLost',
         UNCHANGED <<mstcpOut, adapterOut, driver>>
  PROVE  PacketInv'
<1>1. \A b \in Blocks : /\ Content(b)' = {} /\ packets'[b] = <<>>
                        /\ toMstcp'[b] = <<>> /\ toAdapter'[b] = <<>>
  BY EmptyFacts DEF NoPackets, Content
<1>2. Staged' /\ Ascending'
  BY <1>1, EmptyFacts DEF PacketInv, Ascending, Staged
<1>3. InLine'
  BY <1>1, EmptyFacts DEF InLine, Below, Content
<1>4. OutBefore'
  BY <1>1, EmptyFacts DEF PacketInv, OutBefore, Below
<1>5. OneSide'
  BY <1>1, EmptyFacts DEF PacketInv, OneSide
<1> QED
  BY <1>2, <1>3, <1>4, <1>5 DEF PacketInv

\* start_filter begins with empty blocks and stop_filter ends with them.
LEMMA ControlPackets ==
  ASSUME IInv, PacketInv, StartFilter \/ JoinThreads
  PROVE  PacketInv'
<1>1. CASE StartFilter
  <2>1. UNCHANGED <<stages, driver, arrived, outputs>> /\ NoPackets
    BY <1>1 DEF StartFilter, IInv, StopInv, Off
  <2>2. Lists' /\ NoPackets' /\ NoPacketLost'
    BY <2>1 DEF PacketInv, Lists, NoPackets, NoPacketLost, InBlocks, stages, outputs
  <2> QED
    BY <2>1, <2>2, EmptyPackets DEF outputs
<1>2. CASE JoinThreads
  <2>1. UNCHANGED <<driver, arrived, mstcpOut, adapterOut>> /\ NoPackets'
    BY <1>2 DEF JoinThreads, driverVars, NoPackets
  <2>2. Lists'
    BY <1>2, <2>1, EmptyFacts DEF JoinThreads, PacketInv, Lists
  <2>3. InBlocks' = {}
    BY <2>1, EmptyFacts DEF InBlocks, NoPackets
  <2>4. NoPacketLost'
    BY <1>2, <2>1, <2>3 DEF JoinThreads, PacketInv, NoPacketLost
  <2> QED
    BY <2>1, <2>2, <2>4, EmptyPackets
<1> QED
  BY <1>1, <1>2

\* A packet arrives in the driver, or stop_filter flushes the driver.
LEMMA DriverPackets ==
  ASSUME IInv, PacketInv, PacketArrives \/ Release
  PROVE  PacketInv'
<1>1. /\ UNCHANGED <<stages, mstcpOut, adapterOut, pc, held, queue>>
      /\ arrived' \in Nat
  BY DEF PacketArrives, Release, outputs, PacketInv, Lists
<1>2. Staged'
  BY <1>1 DEF PacketInv, Staged, Done, Ready, stages
<1>3. InLine'
  BY <1>1 DEF PacketInv, InLine, Block, Ahead, Content, Below, stages
<1>4. OneSide'
  BY <1>1 DEF PacketInv, OneSide, stages
<1>5. InBlocks' = InBlocks
  BY <1>1 DEF InBlocks, stages
<1>6. \A b \in Blocks : Content(b)' = Content(b)
  BY <1>1 DEF Content, stages
<1>7. CASE Release
  <2>1. driver' = <<>> /\ arrived' = arrived /\ gone' = gone \cup Range(driver)
    BY <1>7 DEF Release
  <2>2. Lists' /\ Ascending'
    BY <1>1, <2>1, EmptyFacts DEF PacketInv, Lists, Ascending, stages
  <2>3. OutBefore'
    BY <1>1, <1>6, <2>1, EmptyFacts DEF PacketInv, OutBefore, Below, stages
  <2>4. NoPacketLost'
    BY <1>1, <1>5, <2>1, EmptyFacts DEF PacketInv, NoPacketLost
  <2> QED
    BY <1>2, <1>3, <1>4, <2>2, <2>3, <2>4 DEF PacketInv
<1>8. CASE PacketArrives
  <2> DEFINE n == arrived + 1
  <2>1. driver' = Append(driver, n) /\ arrived' = n /\ gone' = gone
    BY <1>8 DEF PacketArrives, outputs
  <2>2. arrived \in Nat /\ n \in Int /\ 1 .. n = (1 .. arrived) \cup {n}
    BY DEF PacketInv, Lists
  <2>3. \A p \in Range(driver) \cup InBlocks \cup Range(mstcpOut) \cup Range(adapterOut) :
          p < n
    <3>1. \A p \in 1 .. arrived : p < n
      BY <2>2
    <3> QED
      BY <3>1 DEF PacketInv, NoPacketLost
  <2> HIDE DEF n
  <2>4. /\ Range(driver') = Range(driver) \cup {n} /\ Increasing(driver')
        /\ driver' \in Seq(Int)
    <3>1. \A y \in Range(driver) : y < n
      BY <2>3
    <3> QED
      BY <2>1, <2>2, <3>1, AppendFacts DEF PacketInv, Lists, Ascending
  <2>5. Lists' /\ Ascending'
    BY <1>1, <2>4 DEF PacketInv, Lists, Ascending, stages
  <2>6. \A b \in Blocks : \A p \in Content(b) : p < n
    BY <2>3 DEF InBlocks, Content
  <2>7. OutBefore'
    BY <1>1, <1>6, <2>3, <2>4, <2>6 DEF PacketInv, OutBefore, Below, stages
  <2>8. NoPacketLost'
    BY <1>1, <1>5, <2>1, <2>2, <2>4 DEF PacketInv, NoPacketLost
  <2> QED
    BY <1>2, <1>3, <1>4, <2>5, <2>7, <2>8 DEF PacketInv
<1> QED
  BY <1>7, <1>8

\* Nothing has arrived, and no block has a packet.
LEMMA InitPackets == Init => PacketInv
<1> SUFFICES ASSUME Init PROVE PacketInv
  OBVIOUS
<1>1. \A b \in Blocks : packets[b] = <<>> /\ toMstcp[b] = <<>> /\ toAdapter[b] = <<>>
  BY DEF Init
<1>2. Lists /\ Staged /\ Ascending
  BY <1>1, EmptyFacts DEF Init, Lists, Staged, Ascending
<1>3. InLine /\ OutBefore /\ OneSide
  BY <1>1, EmptyFacts DEF Init, InLine, OutBefore, OneSide, Below, Content
<1>4. NoPacketLost
  <2>1. InBlocks = {} /\ 1 .. 0 = {}
    BY <1>1, EmptyFacts DEF InBlocks
  <2> QED
    BY <2>1, EmptyFacts DEF Init, NoPacketLost
<1> QED
  BY <1>2, <1>3, <1>4 DEF PacketInv

LEMMA NextPackets == IInv /\ PacketInv /\ [Next]_vars => PacketInv'
<1> SUFFICES ASSUME IInv, PacketInv, [Next]_vars PROVE PacketInv'
  OBVIOUS
<1>1. ASSUME NEW t \in Threads, Thread(t) PROVE PacketInv'
  BY <1>1, QuietSteps, PopPackets, PushPackets DEF Thread
<1>2. CASE Work
  BY <1>2, QuietSteps, ReadPacketsStep, ProcessPacketsStep, WriteMstcpStep,
     WriteAdapterStep DEF Work
<1>3. CASE PacketArrives \/ StartFilter \/ StopFilter \/ Stopping
  BY <1>3, DriverPackets, ControlPackets, QuietSteps DEF Stopping
<1>4. CASE UNCHANGED vars
  BY <1>4, QuietSteps
<1> QED
  BY <1>1, <1>2, <1>3, <1>4 DEF Next

\* The filter is a pipe: for any number of blocks and packets, however the four
\* threads and a stop interleave, the packets leave on either side in the order
\* in which they came, each at most once and on one side, and each is in the
\* driver, in a block, written, or dropped on purpose.
THEOREM FilterKeepsPackets == Spec => []PacketsKept
<1>1. PacketInv => PacketsKept
  BY DEF PacketInv, Ascending, OneSide, PacketsKept, KeepsOrder
<1>2. Spec => []PacketInv
  BY InitPackets, NextPackets, FilterInvariant, PTL DEF Spec
<1> QED
  BY <1>1, <1>2, PTL
=============================================================================
