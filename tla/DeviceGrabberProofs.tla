------------------------- MODULE DeviceGrabberProofs -------------------------
(***************************************************************************)
(* Proofs about the devices device_grabber seizes, for any number of       *)
(* devices and keys, and any length of the queues.                         *)
(***************************************************************************)
EXTENDS DeviceGrabber, SubsequenceProofs

\* SetToSeqs, in which BlocksFor lists the devices.
LOCAL INSTANCE SequencesExt

\* Blocks of one kind for some devices.
LEMMA BlocksAreFor ==
    ASSUME NEW kind \in {"open_timer", "start", "stop", "superseded"},
           NEW ds \in SUBSET Devices, NEW blocks \in BlocksFor(kind, ds)
    PROVE  /\ blocks \in Seq(Block)
           /\ \A i \in DOMAIN blocks : blocks[i].kind = kind /\ blocks[i].device \in ds
<1>1. PICK f \in SetToSeqs(ds) : blocks = [i \in DOMAIN f |-> Task1(kind, f[i])]
    BY DEF BlocksFor
<1>2. f \in [1..Cardinality(ds) -> ds]
    BY <1>1 DEF SetToSeqs
<1>3. Cardinality(ds) \in Nat
    <2>1. IsFiniteSet(ds)
        BY DeviceAssumption, FS_Subset
    <2> QED
        BY <2>1, FS_CardinalityType
<1>4. DOMAIN blocks = 1..Cardinality(ds) /\ \A i \in DOMAIN blocks : blocks[i] = Task1(kind, f[i])
    BY <1>1, <1>2
<1>5. \A i \in DOMAIN blocks : blocks[i] \in Block /\ blocks[i].kind = kind /\ blocks[i].device \in ds
    BY <1>2, <1>4 DEF Task1, Block
<1>6. blocks \in [1..Cardinality(ds) -> Block]
    BY <1>1, <1>2, <1>4, <1>5
<1> QED
    BY <1>3, <1>5, <1>6

\* Stops that are superseded stay blocks of the same devices.
LEMMA SupersededBlocks ==
    ASSUME NEW blocks \in Seq(Block), NEW ds
    PROVE  /\ Superseded(blocks, ds) \in Seq(Block)
           /\ DOMAIN Superseded(blocks, ds) = DOMAIN blocks
           /\ \A i \in DOMAIN blocks :
                 /\ Superseded(blocks, ds)[i].device = blocks[i].device
                 /\ Superseded(blocks, ds)[i].kind = "stop" =>
                        blocks[i].kind = "stop" /\ blocks[i].device \notin ds
<1>1. /\ Len(blocks) \in Nat /\ DOMAIN blocks = 1..Len(blocks)
      /\ \A i \in DOMAIN blocks : blocks[i] \in Block
    OBVIOUS
<1>2. \A i \in DOMAIN blocks : Superseded(blocks, ds)[i] =
          IF blocks[i].kind = "stop" /\ blocks[i].device \in ds
          THEN Task1("superseded", blocks[i].device) ELSE blocks[i]
    BY DEF Superseded
<1>3. \A i \in DOMAIN blocks :
          /\ Superseded(blocks, ds)[i] \in Block
          /\ Superseded(blocks, ds)[i].device = blocks[i].device
          /\ Superseded(blocks, ds)[i].kind = "stop" =>
                 blocks[i].kind = "stop" /\ blocks[i].device \notin ds
    <2> SUFFICES ASSUME NEW i \in DOMAIN blocks
                 PROVE  /\ Superseded(blocks, ds)[i] \in Block
                        /\ Superseded(blocks, ds)[i].device = blocks[i].device
                        /\ Superseded(blocks, ds)[i].kind = "stop" =>
                               blocks[i].kind = "stop" /\ blocks[i].device \notin ds
        OBVIOUS
    <2> DEFINE b == blocks[i]
    <2>1. b \in Block
        BY <1>1
    <2>2. CASE b.kind = "stop" /\ b.device \in ds
        <3>1. Superseded(blocks, ds)[i] = Task1("superseded", b.device)
            BY <1>2, <2>2
        <3> QED
            BY <2>1, <3>1 DEF Task1, Block
    <2>3. CASE ~ (b.kind = "stop" /\ b.device \in ds)
        BY <1>2, <2>1, <2>3
    <2> QED
        BY <2>2, <2>3
<1>4. Superseded(blocks, ds) \in [1..Len(blocks) -> Block]
    BY <1>1, <1>3 DEF Superseded
<1> QED
    BY <1>1, <1>3, <1>4

\* Tasks of a kind, well typed.
LEMMA TaskTypes ==
    /\ [kind |-> "grab_devices"] \in Task
    /\ \A d \in Devices : Task1("started", d) \in Task /\ Task1("stopped", d) \in Task
    /\ \A d \in Devices, k \in Keys, type \in Types :
           [kind |-> "values", device |-> d, key |-> k, type |-> type] \in Task
    /\ \A d \in Devices : Task1("start", d) \in Block
    BY DEF Task, Task1, Block

\* The first task, and the queue after it.
LEMMA FirstTask ==
    ASSUME NEW T, NEW s \in Seq(T), s # <<>>
    PROVE  /\ Head(s) \in T /\ Head(s) = s[1] /\ 1 \in DOMAIN s
           /\ Tail(s) \in Seq(T)
           /\ \A j \in DOMAIN Tail(s) : j + 1 \in DOMAIN s /\ Tail(s)[j] = s[j + 1]
           /\ \A i \in DOMAIN s : i # 1 => i - 1 \in DOMAIN Tail(s) /\ s[i] = Tail(s)[i - 1]
    OBVIOUS

\* The first block of the run loop.
LEMMA FirstBlock ==
    ASSUME TypeOK, run_loop # <<>>
    PROVE  Head(run_loop).device \in Devices /\ Tail(run_loop) \in Seq(Block)
<1>1. run_loop \in Seq(Block)
    BY DEF TypeOK
<1>2. Head(run_loop) \in Block /\ Tail(run_loop) \in Seq(Block)
    BY <1>1
<1> QED
    BY <1>2 DEF Block

\* Devices are disabled only while one of Disablers is there.
LEMMA DevicesDisabled ==
    ASSUME NEW es \in SUBSET Devices
    PROVE  /\ DisabledAmong(es) \subseteq es
           /\ Disablers = {} => DisabledAmong(es) = {}
    BY DEF DisabledAmong, need_to_disable_built_in_keyboard

\* The end of most handlers.
LEMMA RegrabKeepsTypes ==
    ASSUME NEW es \in SUBSET Devices, NEW tasks \in Seq(Task), Regrab(es, tasks)
    PROVE  /\ disabled' \subseteq es /\ queue' \in Seq(Task)
           /\ Disablers = {} => disabled' = {}
<1>1. disabled' = DisabledAmong(es) /\ queue' = Append(tasks, [kind |-> "grab_devices"])
    BY DEF Regrab
<1> QED
    BY <1>1, DevicesDisabled, TaskTypes

\* A stop that waits in the run loop is of a device nobody wants open.
StopsAreUnwanted ==
    \A i \in DOMAIN run_loop : run_loop[i].kind = "stop" => run_loop[i].device \notin requested

\* async_grab_devices asks for starts and stops, and supersedes the stops of both.
LEMMA GrabbedBlocks ==
    ASSUME TypeOK, GrabDevices
    PROVE  /\ run_loop' \in Seq(Block)
           /\ requested' \subseteq requested \cup entries
           /\ StopsAreUnwanted => StopsAreUnwanted'
<1> DEFINE starts == {d \in entries : Grabbable(d)}
           stops == {d \in entries : ~ Grabbable(d)} \cap requested
           waiting == Superseded(run_loop, starts \cup stops)
<1>1. PICK started \in BlocksFor("open_timer", starts), stopped \in BlocksFor("stop", stops) :
          run_loop' = waiting \o started \o stopped
    BY DEF GrabDevices
<1>2. requested' = (requested \ stops) \cup starts
    BY DEF GrabDevices
<1>3. starts \in SUBSET Devices /\ stops \in SUBSET Devices /\ starts \subseteq entries
    BY DEF TypeOK
<1>4. starts \cap stops = {}
    OBVIOUS
<1> HIDE DEF starts, stops
<1>5. /\ waiting \in Seq(Block)
      /\ DOMAIN waiting = DOMAIN run_loop
      /\ \A i \in DOMAIN waiting : waiting[i].kind = "stop" =>
             run_loop[i].kind = "stop" /\ waiting[i].device = run_loop[i].device
             /\ run_loop[i].device \notin starts \cup stops
    BY SupersededBlocks DEF TypeOK
<1>6. /\ started \in Seq(Block) /\ \A i \in DOMAIN started : started[i].kind = "open_timer"
    BY <1>3, BlocksAreFor
<1>7. /\ stopped \in Seq(Block) /\ \A i \in DOMAIN stopped : stopped[i].device \in stops
    BY <1>3, BlocksAreFor
<1> HIDE DEF waiting
<1>8. waiting \o started \in Seq(Block) /\ run_loop' \in Seq(Block)
    BY <1>1, <1>5, <1>6, <1>7
<1>9. ASSUME NEW i \in DOMAIN run_loop', run_loop'[i].kind = "stop"
      PROVE  \/ run_loop'[i].device \in stops
             \/ i \in DOMAIN waiting /\ run_loop'[i] = waiting[i]
    BY <1>1, <1>5, <1>6, <1>7, <1>9
<1>10. ASSUME StopsAreUnwanted, NEW i \in DOMAIN run_loop', run_loop'[i].kind = "stop"
       PROVE  run_loop'[i].device \notin requested'
    <2>1. CASE run_loop'[i].device \in stops
        BY <1>2, <1>4, <2>1
    <2>2. CASE i \in DOMAIN waiting /\ run_loop'[i] = waiting[i]
        BY <1>2, <1>5, <1>10, <2>2 DEF StopsAreUnwanted
    <2> QED
        BY <1>9, <1>10, <2>1, <2>2
<1>11. StopsAreUnwanted => StopsAreUnwanted'
    BY <1>10 DEF StopsAreUnwanted
<1> QED
    BY <1>2, <1>3, <1>8, <1>11

\* The two queues keep their tasks when those of a device leave.
LEMMA TasksLeave ==
    ASSUME TypeOK, NEW d
    PROVE  /\ Kept(queue, {i \in DOMAIN queue : ~ TaskOf(queue[i], d)}) \in Seq(Task)
           /\ Kept(run_loop, {i \in DOMAIN run_loop : run_loop[i].device # d}) \in Seq(Block)
<1> DEFINE tasks == {i \in DOMAIN queue : ~ TaskOf(queue[i], d)}
           blocks == {i \in DOMAIN run_loop : run_loop[i].device # d}
<1>1. tasks \in SUBSET DOMAIN queue /\ blocks \in SUBSET DOMAIN run_loop
    OBVIOUS
<1>2. queue \in Seq(Task) /\ run_loop \in Seq(Block)
    BY DEF TypeOK
<1> HIDE DEF tasks, blocks
<1>3. Kept(queue, tasks) \in Seq(Task)
    BY <1>1, <1>2, KeptIsSubsequence
<1>4. Kept(run_loop, blocks) \in Seq(Block)
    BY <1>1, <1>2, KeptIsSubsequence
<1> QED
    BY <1>3, <1>4 DEF tasks, blocks

\* Every action keeps the types; without Disablers no device is ever disabled.
LEMMA TypesKept ==
    ASSUME TypeOK, [Next]_vars
    PROVE  TypeOK'
<1> USE TaskTypes DEF TypeOK, config, gate, monitor, hardware
<1>1. CASE SetTemporarilyIgnoreAllDevices
    BY <1>1 DEF SetTemporarilyIgnoreAllDevices
<1>2. CASE ReadyChanged
    BY <1>2, RegrabKeepsTypes DEF ReadyChanged
<1>3. CASE GrabDevices
    BY <1>3, GrabbedBlocks, FirstTask DEF GrabDevices, Runs
<1>4. CASE Started
    BY <1>4, FirstTask DEF Started, Runs
<1>5. CASE Stopped
    BY <1>5, FirstTask DEF Stopped, Runs, Ungrabbed, Task
<1>6. CASE Values
    BY <1>6, FirstTask DEF Values, Runs, Task, EntryPressedAfter
<1>7. CASE OpenTimer
    BY <1>7, FirstBlock DEF OpenTimer, Executes
<1>8. CASE Opened
    BY <1>8, FirstBlock DEF Opened, Executes
<1>9. CASE OpenFails
    BY <1>9, FirstBlock DEF OpenFails, Executes
<1>10. CASE NothingToOpen
    BY <1>10, FirstBlock DEF NothingToOpen, Executes
<1>11. CASE Stop
    BY <1>11, FirstBlock DEF Stop, Executes
<1>12. CASE StopSuperseded
    BY <1>12, FirstBlock DEF StopSuperseded, Executes
<1>13. ASSUME NEW d \in Devices, DeviceMatched(d)
       PROVE  TypeOK'
    BY <1>13, RegrabKeepsTypes DEF DeviceMatched
<1>14. ASSUME NEW d \in Devices, DeviceTerminated(d)
       PROVE  TypeOK'
    BY <1>14, RegrabKeepsTypes, TasksLeave DEF DeviceTerminated, Ungrabbed
<1>15. ASSUME NEW d \in Devices, ConfigurationUpdated(d)
       PROVE  TypeOK'
    BY <1>15, RegrabKeepsTypes DEF ConfigurationUpdated
<1>16. ASSUME NEW d \in Devices, TimerFires(d)
       PROVE  TypeOK'
    BY <1>16 DEF TimerFires
<1>17. ASSUME NEW d \in Devices, Unplug(d)
       PROVE  TypeOK'
    <2>1. run_loop' \in Seq(Block)
        BY <1>17, SupersededBlocks DEF Unplug
    <2>2. queue' \in {queue, Append(queue, Task1("stopped", d))}
        BY <1>17 DEF Unplug
    <2>3. Task1("stopped", d) \in Task
        OBVIOUS
    <2>4. Append(queue, Task1("stopped", d)) \in Seq(Task)
        BY <2>3
    <2> QED
        BY <1>17, <2>1, <2>2, <2>4 DEF Unplug
<1>18. ASSUME NEW d \in Devices, NEW k \in Keys, NEW type \in Types, KeyMoves(d, k, type)
       PROVE  TypeOK'
    BY <1>18 DEF KeyMoves
<1>19. CASE UNCHANGED vars
    BY <1>19 DEF vars
<1> QED
    BY <1>1, <1>2, <1>3, <1>4, <1>5, <1>6, <1>7, <1>8, <1>9, <1>10, <1>11, <1>12, <1>13,
       <1>14, <1>15, <1>16, <1>17, <1>18, <1>19 DEF Next, RunTask, RunBlock

\* What is remembered at the gate is what the event queues hold; a device that is
\* open, or is to be, has an entry.
OpenAreEntries == requested \subseteq entries /\ current \subseteq entries

DeviceInvariant == TypeOK /\ pressed = down /\ OpenAreEntries /\ StopsAreUnwanted

\* Blocks that leave the run loop, or are superseded, bring no stop; fewer devices
\* are requested.
LEMMA FewerStops ==
    ASSUME StopsAreUnwanted, requested' \subseteq requested,
           \A i \in DOMAIN run_loop' : run_loop'[i].kind = "stop" =>
               \E j \in DOMAIN run_loop : run_loop[j] = run_loop'[i]
    PROVE  StopsAreUnwanted'
    BY DEF StopsAreUnwanted

\* Every action keeps the stops of the run loop unwanted.
LEMMA StopsKept ==
    ASSUME TypeOK, StopsAreUnwanted, [Next]_vars
    PROVE  StopsAreUnwanted'
<1>1. run_loop \in Seq(Block)
    BY DEF TypeOK
<1>2. ASSUME run_loop # <<>>, run_loop' = Tail(run_loop), UNCHANGED requested
      PROVE  StopsAreUnwanted'
    <2>1. \A i \in DOMAIN run_loop' : run_loop'[i] = run_loop[i + 1] /\ i + 1 \in DOMAIN run_loop
        BY <1>1, <1>2, FirstTask
    <2> QED
        BY <1>2, <2>1, FewerStops
<1>3. ASSUME UNCHANGED <<run_loop, requested>>
      PROVE  StopsAreUnwanted'
    BY <1>3 DEF StopsAreUnwanted
<1>4. CASE GrabDevices
    BY <1>4, GrabbedBlocks
<1>5. CASE RunBlock
    BY <1>2, <1>5 DEF RunBlock, OpenTimer, Opened, OpenFails, NothingToOpen, Stop,
                      StopSuperseded, Executes, monitor
<1>6. ASSUME NEW d \in Devices, DeviceTerminated(d)
      PROVE  StopsAreUnwanted'
    <2> DEFINE blocks == {i \in DOMAIN run_loop : run_loop[i].device # d}
    <2>1. blocks \in SUBSET DOMAIN run_loop
        OBVIOUS
    <2>2. run_loop' = Kept(run_loop, blocks) /\ requested' \subseteq requested
        BY <1>6 DEF DeviceTerminated
    <2> HIDE DEF blocks
    <2>3. PICK from \in [DOMAIN Kept(run_loop, blocks) -> blocks] :
              \A j \in DOMAIN Kept(run_loop, blocks) :
                  Kept(run_loop, blocks)[j] = run_loop[from[j]]
        BY <1>1, <2>1, KeptIsSubsequence
    <2>4. \A j \in DOMAIN run_loop' : \E i \in DOMAIN run_loop : run_loop[i] = run_loop'[j]
        BY <2>1, <2>2, <2>3
    <2> QED
        BY <2>2, <2>4, FewerStops
<1>7. ASSUME NEW d \in Devices, TimerFires(d)
      PROVE  StopsAreUnwanted'
    <2>1. run_loop' = Append(run_loop, Task1("start", d)) /\ UNCHANGED requested
        BY <1>7 DEF TimerFires, monitor
    <2>2. /\ DOMAIN run_loop' = 1..(Len(run_loop) + 1) /\ Len(run_loop) \in Nat
          /\ DOMAIN run_loop = 1..Len(run_loop)
          /\ run_loop'[Len(run_loop) + 1] = Task1("start", d)
          /\ \A i \in 1..Len(run_loop) : run_loop'[i] = run_loop[i]
        BY <1>1, <2>1
    <2>3. Task1("start", d).kind # "stop"
        BY DEF Task1
    <2>4. \A i \in DOMAIN run_loop' : i \in DOMAIN run_loop \/ i = Len(run_loop) + 1
        BY <2>2
    <2>5. \A i \in DOMAIN run_loop' : run_loop'[i].kind = "stop" =>
              i \in DOMAIN run_loop /\ run_loop[i] = run_loop'[i]
        BY <2>2, <2>3, <2>4
    <2> QED
        BY <2>1, <2>5, FewerStops
<1>8. ASSUME NEW d \in Devices, Unplug(d)
      PROVE  StopsAreUnwanted'
    <2>1. run_loop' = Superseded(run_loop, {d}) /\ requested' \subseteq requested
        BY <1>8 DEF Unplug
    <2>2. /\ DOMAIN run_loop' = DOMAIN run_loop
          /\ \A i \in DOMAIN run_loop : run_loop'[i].kind = "stop" =>
                 run_loop[i].kind = "stop" /\ run_loop[i].device = run_loop'[i].device
        BY <1>1, <2>1, SupersededBlocks
    <2> QED
        BY <2>1, <2>2 DEF StopsAreUnwanted
<1>9. CASE SetTemporarilyIgnoreAllDevices
    BY <1>3, <1>9 DEF SetTemporarilyIgnoreAllDevices, monitor
<1>10. CASE ReadyChanged
    BY <1>3, <1>10 DEF ReadyChanged, monitor
<1>11. CASE Started \/ Stopped \/ Values
    BY <1>3, <1>11 DEF Started, Stopped, Values, monitor
<1>12. ASSUME NEW d \in Devices,
              \/ DeviceMatched(d) \/ ConfigurationUpdated(d)
              \/ \E k \in Keys, type \in Types : KeyMoves(d, k, type)
       PROVE  StopsAreUnwanted'
    BY <1>3, <1>12 DEF DeviceMatched, ConfigurationUpdated, KeyMoves, monitor
<1>13. CASE UNCHANGED vars
    BY <1>3, <1>13 DEF vars, monitor
<1> QED
    BY <1>4, <1>5, <1>6, <1>7, <1>8, <1>9, <1>10, <1>11, <1>12, <1>13 DEF Next, RunTask

\* The gate and the event queues change together.
LEMMA GateKept ==
    ASSUME TypeOK, pressed = down, [Next]_vars
    PROVE  pressed' = down'
<1> USE DEF TypeOK, gate
<1>1. CASE Stopped
    BY <1>1 DEF Stopped, Ungrabbed
<1>2. CASE Values
    BY <1>2 DEF Values, unbalanced
<1>3. CASE GrabDevices \/ Started
    BY <1>3 DEF GrabDevices, Started
<1>4. CASE RunBlock
    BY <1>4 DEF RunBlock, OpenTimer, Opened, OpenFails, NothingToOpen, Stop, StopSuperseded
<1>5. CASE SetTemporarilyIgnoreAllDevices \/ ReadyChanged
    BY <1>5 DEF SetTemporarilyIgnoreAllDevices, ReadyChanged
<1>6. ASSUME NEW d \in Devices, DeviceTerminated(d)
      PROVE  pressed' = down'
    BY <1>6 DEF DeviceTerminated, Ungrabbed
<1>7. ASSUME NEW d \in Devices,
             \/ DeviceMatched(d) \/ ConfigurationUpdated(d) \/ TimerFires(d) \/ Unplug(d)
             \/ \E k \in Keys, type \in Types : KeyMoves(d, k, type)
      PROVE  pressed' = down'
    BY <1>7 DEF DeviceMatched, ConfigurationUpdated, TimerFires, Unplug, KeyMoves
<1>8. CASE UNCHANGED vars
    BY <1>8 DEF vars
<1> QED
    BY <1>1, <1>2, <1>3, <1>4, <1>5, <1>6, <1>7, <1>8 DEF Next, RunTask

\* Nothing is requested for a device without an entry, and nothing else is opened.
LEMMA EntriesKept ==
    ASSUME TypeOK, OpenAreEntries, [Next]_vars
    PROVE  OpenAreEntries'
<1> USE DEF OpenAreEntries, monitor
<1>1. CASE GrabDevices
    BY <1>1, GrabbedBlocks DEF GrabDevices
<1>2. CASE Started \/ Stopped \/ Values
    BY <1>2 DEF Started, Stopped, Values
<1>3. CASE RunBlock
    BY <1>3 DEF RunBlock, OpenTimer, Opened, OpenFails, NothingToOpen, Stop, StopSuperseded
<1>4. CASE SetTemporarilyIgnoreAllDevices \/ ReadyChanged
    BY <1>4 DEF SetTemporarilyIgnoreAllDevices, ReadyChanged
<1>5. ASSUME NEW d \in Devices,
             \/ DeviceMatched(d) \/ DeviceTerminated(d) \/ ConfigurationUpdated(d)
             \/ TimerFires(d) \/ Unplug(d)
             \/ \E k \in Keys, type \in Types : KeyMoves(d, k, type)
      PROVE  OpenAreEntries'
    BY <1>5 DEF DeviceMatched, DeviceTerminated, ConfigurationUpdated, TimerFires, Unplug, KeyMoves
<1>6. CASE UNCHANGED vars
    BY <1>6 DEF vars
<1> QED
    BY <1>1, <1>2, <1>3, <1>4, <1>5, <1>6 DEF Next, RunTask

\* The initial states satisfy the invariant.
LEMMA DevicesStart == Init => DeviceInvariant
<1> SUFFICES ASSUME Init
             PROVE  DeviceInvariant
    OBVIOUS
<1>1. run_loop \in Seq(Block) /\ DOMAIN run_loop = {} /\ queue \in Seq(Task)
    BY DEF Init
<1>2. TypeOK
    BY <1>1 DEF Init, TypeOK
<1>3. pressed = down /\ OpenAreEntries
    BY DEF Init, OpenAreEntries
<1>4. StopsAreUnwanted
    BY <1>1 DEF StopsAreUnwanted
<1> QED
    BY <1>2, <1>3, <1>4 DEF DeviceInvariant

\* Every variable has its type, the gate agrees with the event queues, and a stop
\* that waits in the run loop is still wanted: however requests, retries and
\* removals interleave (requested_open_options_generation_).
THEOREM DevicesAreConsistent == Spec => []DeviceInvariant
<1>1. DeviceInvariant /\ [Next]_vars => DeviceInvariant'
    BY TypesKept, GateKept, EntriesKept, StopsKept DEF DeviceInvariant
<1> QED
    BY <1>1, DevicesStart, PTL DEF Spec

\* A key_down of an open, enabled device is never taken for a repeated one while
\* the event queues have the key up (unbalanced_momentary_switch_event).
THEOREM KeyDownsPass == Spec => KeyDownGetsThrough
<1> DEFINE Passes == Values /\ Head(queue).type = "key_down"
                         /\ Head(queue).device \in current \ disabled
                     => Head(queue).key \in down'[Head(queue).device]
<1>1. DeviceInvariant /\ [Next]_vars => [Passes]_vars
    <2> SUFFICES ASSUME DeviceInvariant, Values, Head(queue).type = "key_down",
                        Head(queue).device \in current \ disabled
                 PROVE  Head(queue).key \in down'[Head(queue).device]
        OBVIOUS
    <2>1. queue \in Seq(Task) /\ queue # <<>> /\ Head(queue).kind = "values"
        BY DEF DeviceInvariant, TypeOK, Values, Runs
    <2>2. Head(queue) \in Task
        BY <2>1
    <2>3. Head(queue).device \in Devices /\ Head(queue).key \in Keys
        BY <2>1, <2>2 DEF Task
    <2> DEFINE d == Head(queue).device
               k == Head(queue).key
    <2>4. CASE k \in pressed[d]
        <3>1. down'[d] = down[d]
            BY <2>3, <2>4 DEF Values, unbalanced, DeviceInvariant, TypeOK
        <3> QED
            BY <2>4, <3>1 DEF DeviceInvariant
    <2>5. CASE k \notin pressed[d]
        BY <2>3, <2>5 DEF Values, unbalanced, DeviceInvariant, TypeOK
    <2> QED
        BY <2>4, <2>5
<1> QED
    BY <1>1, DevicesAreConsistent, PTL DEF Spec, KeyDownGetsThrough

\* A device is closed by the latest request, or because it is gone: a stop that an
\* async_start has overtaken never closes it (requested_open_options_generation_).
THEOREM ClosingIsWanted == Spec => ClosedOnlyWhenUnwanted
<1> DEFINE Wants == \A d \in current \ current' : d \notin requested'
<1>1. DeviceInvariant /\ [Next]_vars => [Wants]_vars
    <2> SUFFICES ASSUME DeviceInvariant, Next
                 PROVE  Wants
        BY DEF Wants
    <2>1. CASE Stop
        <3>1. /\ run_loop \in Seq(Block) /\ run_loop # <<>> /\ Head(run_loop).kind = "stop"
              /\ current' = current \ {Head(run_loop).device} /\ requested' = requested
            BY <2>1 DEF DeviceInvariant, TypeOK, Stop, Executes
        <3>2. Head(run_loop) = run_loop[1] /\ 1 \in DOMAIN run_loop
            BY <3>1
        <3> QED
            BY <3>1, <3>2 DEF DeviceInvariant, StopsAreUnwanted
    <2>2. ASSUME NEW d \in Devices, DeviceTerminated(d) \/ Unplug(d)
          PROVE  Wants
        BY <2>2 DEF DeviceTerminated, Unplug
    <2>3. CASE OpenTimer \/ Opened \/ OpenFails \/ NothingToOpen \/ StopSuperseded
        BY <2>3 DEF OpenTimer, Opened, OpenFails, NothingToOpen, StopSuperseded, monitor
    <2>4. CASE RunTask
        BY <2>4 DEF RunTask, GrabDevices, Started, Stopped, Values, monitor
    <2>5. CASE SetTemporarilyIgnoreAllDevices \/ ReadyChanged
        BY <2>5 DEF SetTemporarilyIgnoreAllDevices, ReadyChanged, monitor
    <2>6. ASSUME NEW d \in Devices,
                 \/ DeviceMatched(d) \/ ConfigurationUpdated(d) \/ TimerFires(d)
                 \/ \E k \in Keys, type \in Types : KeyMoves(d, k, type)
          PROVE  Wants
        BY <2>6 DEF DeviceMatched, ConfigurationUpdated, TimerFires, KeyMoves, monitor
    <2> QED
        BY <2>1, <2>2, <2>3, <2>4, <2>5, <2>6 DEF Next, RunBlock
<1> QED
    BY <1>1, DevicesAreConsistent, PTL DEF Spec, ClosedOnlyWhenUnwanted
-----------------------------------------------------------------------------
(* Nothing is left down: whatever holds a key down in the event queues, or  *)
(* will when its value is taken from the queue, is followed by a task that  *)
(* lets it go.                                                              *)

\* Task t is the stopped signal of d.
Ends(d, t) == t.kind = "stopped" /\ t.device = d

\* Task t is a value of key k of d.
Moves(d, k, type, t) ==
    t.kind = "values" /\ t.device = d /\ t.key = k /\ t.type = type

\* Task t lets key k go; a key_up does while d is open.
Clears(d, k, t) ==
    \/ Ends(d, t)
    \/ d \in current /\ Moves(d, k, "key_up", t)

ClearedAfter(d, k, i) == \E j \in DOMAIN queue : i < j /\ Clears(d, k, queue[j])

Due(d, k) ==
    /\ k \in down[d] => ClearedAfter(d, k, 0)
    /\ \A i \in DOMAIN queue : Moves(d, k, "key_down", queue[i]) => ClearedAfter(d, k, i)

\* A key may stay down while it is physically down and its device is open.
KeysAreCleared ==
    \A d \in Devices, k \in Keys : d \notin current \/ k \notin physical[d] => Due(d, k)

\* The released event or device_ungrabbed is still to come.
ReleaseIsDue ==
    \A d \in Devices : d \notin settled =>
        \/ d \in current /\ entry_pressed[d] # {}
        \/ \E j \in DOMAIN queue : Ends(d, queue[j])

\* What an appended task does to the indices of a queue.
LEMMA Appended ==
    ASSUME NEW T, NEW s \in Seq(T), NEW t
    PROVE  /\ Len(s) + 1 \in DOMAIN Append(s, t)
           /\ Append(s, t)[Len(s) + 1] = t
           /\ \A i \in DOMAIN s : i \in DOMAIN Append(s, t) /\ Append(s, t)[i] = s[i]
                                  /\ i < Len(s) + 1 /\ 0 < i
           /\ \A i \in DOMAIN Append(s, t) : i \in DOMAIN s \/ i = Len(s) + 1
           /\ 0 < Len(s) + 1
    OBVIOUS

\* A task that presses nothing joins the queue, or the queue stays as it is.
LEMMA DueGrows ==
    ASSUME queue \in Seq(Task), NEW d, NEW k, Due(d, k),
           d \in current => d \in current', k \in down'[d] => k \in down[d],
           NEW t, queue' = queue \/ queue' = Append(queue, t), ~ Moves(d, k, "key_down", t)
    PROVE  Due(d, k)'
<1>1. ASSUME NEW i \in DOMAIN queue
      PROVE  i \in DOMAIN queue' /\ queue'[i] = queue[i]
    BY Appended
<1>2. ASSUME NEW i, ClearedAfter(d, k, i)
      PROVE  ClearedAfter(d, k, i)'
    BY <1>1, <1>2 DEF ClearedAfter, Clears
<1>3. ASSUME NEW i \in DOMAIN queue', Moves(d, k, "key_down", queue'[i])
      PROVE  i \in DOMAIN queue
    BY <1>3, Appended
<1> QED
    BY <1>1, <1>2, <1>3 DEF Due

\* The task that joins the queue lets the key go.
LEMMA DueEnds ==
    ASSUME queue \in Seq(Task), NEW d, NEW k,
           NEW t, queue' = Append(queue, t), Clears(d, k, t)'
    PROVE  Due(d, k)'
<1>1. ~ Moves(d, k, "key_down", t)
    BY DEF Clears, Ends, Moves
<1> DEFINE n == Len(queue) + 1
<1>2. n \in DOMAIN queue' /\ queue'[n] = t /\ 0 < n
    BY Appended
<1>3. \A i \in DOMAIN queue' : i = n \/ i < n
    BY Appended
<1> HIDE DEF n
<1>4. \A i \in DOMAIN queue' : i < n => ClearedAfter(d, k, i)'
    BY <1>2 DEF ClearedAfter, Clears
<1>5. ClearedAfter(d, k, 0)'
    BY <1>2 DEF ClearedAfter, Clears
<1>6. \A i \in DOMAIN queue' : Moves(d, k, "key_down", queue'[i]) => i < n
    BY <1>1, <1>2, <1>3
<1> QED
    BY <1>4, <1>5, <1>6 DEF Due

\* The first task leaves the queue: it has pressed the key, or the key was down
\* and the task does not let it go.
LEMMA DuePops ==
    ASSUME queue \in Seq(Task), queue # <<>>, NEW d, NEW k, Due(d, k),
           current' = current, queue' = Tail(queue),
           k \in down'[d] => \/ Moves(d, k, "key_down", Head(queue))
                             \/ k \in down[d] /\ ~ Clears(d, k, Head(queue))
    PROVE  Due(d, k)'
<1>1. Head(queue) = queue[1] /\ 1 \in DOMAIN queue /\ DOMAIN queue \subseteq Nat \ {0}
      /\ DOMAIN queue' \subseteq Nat
    OBVIOUS
<1>2. \A j \in DOMAIN queue' : j + 1 \in DOMAIN queue /\ queue'[j] = queue[j + 1]
    BY FirstTask
<1>3. \A i \in DOMAIN queue : i # 1 => i - 1 \in DOMAIN queue' /\ queue[i] = queue'[i - 1]
    BY FirstTask
<1>4. ASSUME NEW i \in Nat, NEW j \in DOMAIN queue, i + 1 < j, Clears(d, k, queue[j])
      PROVE  ClearedAfter(d, k, i)'
    <2> DEFINE l == j - 1
    <2>1. l \in DOMAIN queue' /\ queue'[l] = queue[j] /\ i < l
        BY <1>1, <1>3, <1>4
    <2> HIDE DEF l
    <2> QED
        BY <1>4, <2>1 DEF ClearedAfter, Clears
<1>5. ASSUME NEW i \in DOMAIN queue', Moves(d, k, "key_down", queue'[i])
      PROVE  ClearedAfter(d, k, i)'
    <2> DEFINE l == i + 1
    <2>1. l \in DOMAIN queue /\ queue[l] = queue'[i] /\ i \in Nat
        BY <1>1, <1>2
    <2>2. ClearedAfter(d, k, l)
        <3> HIDE DEF l
        <3> QED
            BY <1>5, <2>1 DEF Due
    <2> QED
        BY <1>4, <2>1, <2>2 DEF ClearedAfter
<1>6. ASSUME k \in down'[d]
      PROVE  ClearedAfter(d, k, 0)'
    <2>1. \E j \in DOMAIN queue : 1 < j /\ Clears(d, k, queue[j])
        <3>1. CASE Moves(d, k, "key_down", Head(queue))
            BY <1>1, <3>1 DEF Due, ClearedAfter
        <3>2. CASE k \in down[d] /\ ~ Clears(d, k, Head(queue))
            <4>1. PICK j \in DOMAIN queue : 0 < j /\ Clears(d, k, queue[j])
                BY <3>2 DEF Due, ClearedAfter
            <4> QED
                BY <1>1, <3>2, <4>1
        <3> QED
            BY <1>6, <3>1, <3>2
    <2> QED
        BY <1>4, <2>1
<1> QED
    BY <1>5, <1>6 DEF Due

\* The tasks of another device leave with it.
LEMMA DueKept ==
    ASSUME queue \in Seq(Task), NEW d, NEW k, Due(d, k), NEW e, d # e,
           d \in current => d \in current', k \in down'[d] => k \in down[d],
           NEW t, ~ Moves(d, k, "key_down", t),
           queue' = Append(Kept(queue, {i \in DOMAIN queue : ~ TaskOf(queue[i], e)}), t)
    PROVE  Due(d, k)'
<1> DEFINE kept == {i \in DOMAIN queue : ~ TaskOf(queue[i], e)}
           q == Kept(queue, kept)
<1>1. kept \in SUBSET DOMAIN queue
    OBVIOUS
<1>2. \A i \in DOMAIN queue : Ends(d, queue[i]) \/ Moves(d, k, "key_up", queue[i]) => i \in kept
    BY DEF TaskOf, Ends, Moves
<1>3. queue' = Append(q, t)
    OBVIOUS
<1> HIDE DEF kept
<1>4. q \in Seq(Task)
    BY <1>1, KeptIsSubsequence
<1>0. PICK from : ComesFrom(q, queue, from, kept)
    BY <1>1, KeptComesFrom
<1> HIDE DEF q
<1>5. /\ from \in [DOMAIN q -> kept]
      /\ \A j \in DOMAIN q : q[j] = queue[from[j]]
      /\ \A j, l \in DOMAIN q : j < l => from[j] < from[l]
      /\ \A i \in kept : \E j \in DOMAIN q : from[j] = i
    BY <1>0 DEF ComesFrom
<1>6. DOMAIN q \in SUBSET Nat /\ DOMAIN queue \in SUBSET (Nat \ {0}) /\ \A j \in DOMAIN q : 0 < j
    BY <1>4
<1> HIDE DEF q
<1>7. /\ \A j \in DOMAIN q : j \in DOMAIN queue' /\ queue'[j] = q[j]
      /\ \A j \in DOMAIN queue' : j \in DOMAIN q \/ queue'[j] = t
    <2>1. /\ \A j \in DOMAIN q : j \in DOMAIN Append(q, t) /\ Append(q, t)[j] = q[j]
          /\ \A j \in DOMAIN Append(q, t) : j \in DOMAIN q \/ Append(q, t)[j] = t
        BY <1>4, Appended
    <2> QED
        BY <1>3, <2>1
<1>8. ASSUME NEW i \in DOMAIN queue, Clears(d, k, queue[i])
      PROVE  \E j \in DOMAIN q : from[j] = i /\ q[j] = queue[i]
    BY <1>2, <1>5, <1>8 DEF Clears
<1>9. ASSUME k \in down'[d]
      PROVE  ClearedAfter(d, k, 0)'
    <2>1. PICK i \in DOMAIN queue : Clears(d, k, queue[i])
        BY <1>9 DEF Due, ClearedAfter
    <2>2. PICK j \in DOMAIN q : q[j] = queue[i]
        BY <1>8, <2>1
    <2> QED
        BY <1>6, <1>7, <2>1, <2>2 DEF ClearedAfter, Clears
<1>10. ASSUME NEW i \in DOMAIN queue', Moves(d, k, "key_down", queue'[i])
       PROVE  ClearedAfter(d, k, i)'
    <2>1. i \in DOMAIN q /\ queue'[i] = queue[from[i]] /\ from[i] \in DOMAIN queue
        BY <1>1, <1>5, <1>7, <1>10
    <2>2. PICK j \in DOMAIN queue : from[i] < j /\ Clears(d, k, queue[j])
        BY <1>10, <2>1 DEF Due, ClearedAfter
    <2>3. PICK l \in DOMAIN q : from[l] = j /\ q[l] = queue[j]
        BY <1>8, <2>2
    <2>4. i < l
        <3> SUFFICES ASSUME ~ (i < l)
                     PROVE  FALSE
            OBVIOUS
        <3>1. i \in Nat /\ l \in Nat /\ from[i] \in Nat /\ from[l] \in Nat
            BY <1>5, <1>6, <2>1, <2>2, <2>3
        <3>2. l < i \/ l = i
            BY <3>1
        <3>3. l < i => from[l] < from[i]
            BY <1>5, <2>1
        <3> QED
            BY <2>2, <2>3, <3>1, <3>2, <3>3
    <2> QED
        BY <1>7, <2>2, <2>3, <2>4 DEF ClearedAfter, Clears
<1> QED
    BY <1>9, <1>10 DEF Due

\* The first task of the dispatcher.
LEMMA TaskRun ==
    ASSUME TypeOK, NEW kind, Runs(kind)
    PROVE  /\ queue \in Seq(Task) /\ queue # <<>> /\ Head(queue) \in Task
           /\ Head(queue).kind = kind
    BY DEF TypeOK, Runs

\* A value is of a key of a device.
LEMMA ValueTypes ==
    ASSUME NEW t \in Task
    PROVE  /\ t.kind = "values" => t.device \in Devices /\ t.key \in Keys /\ t.type \in Types
           /\ t.kind = "stopped" => t.device \in Devices
    BY DEF Task

\* Stopped forgets the keys of its device, other tasks clear none.
LEMMA StoppedKeepsDue ==
    ASSUME TypeOK, Stopped, NEW d \in Devices, NEW k \in Keys, Due(d, k)
    PROVE  Due(d, k)'
<1> DEFINE e == Head(queue).device
<1>1. queue \in Seq(Task) /\ queue # <<>> /\ Head(queue).kind = "stopped" /\ e \in Devices
    BY TaskRun, ValueTypes DEF Stopped
<1>2. /\ down' = [down EXCEPT ![e] = {}]
      /\ queue' = Tail(queue) /\ current' = current
    BY DEF Stopped, Ungrabbed, monitor
<1>3. ASSUME k \in down'[d]
      PROVE  k \in down[d] /\ ~ Clears(d, k, Head(queue))
    <2>1. d # e /\ k \in down[d]
        BY <1>1, <1>2, <1>3 DEF TypeOK
    <2> QED
        BY <1>1, <2>1 DEF Clears, Ends, Moves
<1> QED
    BY <1>1, <1>2, <1>3, DuePops

\* A value moves its key as long as the device is open.
LEMMA ValuesKeepDue ==
    ASSUME TypeOK, pressed = down, disabled = {}, Values,
           NEW d \in Devices, NEW k \in Keys, Due(d, k)
    PROVE  Due(d, k)'
<1> DEFINE t == Head(queue)
<1>1. /\ queue \in Seq(Task) /\ queue # <<>> /\ t.kind = "values"
      /\ t.device \in Devices /\ t.key \in Keys /\ t.type \in Types
    BY TaskRun, ValueTypes DEF Values
<1>2. queue' = Tail(queue) /\ current' = current
    BY DEF Values, monitor
<1>3. ASSUME k \in down'[d]
      PROVE  \/ Moves(d, k, "key_down", t)
             \/ k \in down[d] /\ ~ Clears(d, k, t)
    <2>1. CASE t.device = d /\ t.key = k
        <3>1. CASE t.type = "key_down"
            BY <1>1, <2>1, <3>1 DEF Moves
        <3>2. CASE t.type = "key_up"
            <4>1. d \notin current /\ k \in down[d]
                BY <1>1, <1>3, <2>1, <3>2 DEF Values, unbalanced, TypeOK
            <4> QED
                BY <1>1, <4>1 DEF Clears, Ends
        <3> QED
            BY <1>1, <3>1, <3>2 DEF Types
    <2>2. CASE ~ (t.device = d /\ t.key = k)
        <3>1. k \in down[d]
            BY <1>1, <1>3, <2>2 DEF Values, TypeOK
        <3> QED
            BY <1>1, <2>2, <3>1 DEF Clears, Ends, Moves
    <2> QED
        BY <2>1, <2>2
<1> QED
    BY <1>1, <1>2, <1>3, DuePops

\* The keys of a device that is terminated are forgotten, the tasks of the other
\* devices stay.
LEMMA TerminatedKeepsDue ==
    ASSUME TypeOK, NEW e \in Devices, DeviceTerminated(e),
           NEW d \in Devices, NEW k \in Keys, d # e => Due(d, k)
    PROVE  Due(d, k)'
<1> DEFINE kept == {i \in DOMAIN queue : ~ TaskOf(queue[i], e)}
           grab == [kind |-> "grab_devices"]
<1>1. /\ queue' = Append(Kept(queue, kept), grab)
      /\ down' = [down EXCEPT ![e] = {}] /\ current' = current \ {e}
    BY DEF DeviceTerminated, Regrab, Ungrabbed
<1>2. queue \in Seq(Task) /\ \A i \in DOMAIN queue : queue[i] \in Task
    BY DEF TypeOK
<1>3. ~ Moves(d, k, "key_down", grab)
    BY DEF Moves
<1>4. CASE d = e
    <2>1. k \notin down'[d]
        BY <1>1, <1>4 DEF TypeOK
    <2>2. kept \in SUBSET DOMAIN queue
        OBVIOUS
    <2>3. \A i \in kept : ~ Moves(d, k, "key_down", queue[i])
        BY <1>2, <1>4 DEF TaskOf, Moves
    <2> HIDE DEF kept
    <2>4. Kept(queue, kept) \in Seq(Task)
        BY <1>2, <2>2, KeptComesFrom
    <2>5. PICK from : ComesFrom(Kept(queue, kept), queue, from, kept)
        BY <1>2, <2>2, KeptComesFrom
    <2>6. \A i \in DOMAIN Kept(queue, kept) : ~ Moves(d, k, "key_down", Kept(queue, kept)[i])
        BY <2>3, <2>5 DEF ComesFrom
    <2> HIDE DEF grab
    <2>7. \A i \in DOMAIN queue' : ~ Moves(d, k, "key_down", queue'[i])
        <3> DEFINE s == Kept(queue, kept)
        <3> HIDE DEF s
        <3>1. s \in Seq(Task) /\ queue' = Append(s, grab)
            BY <1>1, <2>4 DEF s
        <3>2. \A i \in DOMAIN s : ~ Moves(d, k, "key_down", s[i])
            BY <2>6 DEF s
        <3>3. \A i \in DOMAIN queue' : (i \in DOMAIN s /\ queue'[i] = s[i]) \/ queue'[i] = grab
            BY <3>1, Appended
        <3> QED
            BY <1>3, <3>2, <3>3
    <2> QED
        BY <2>1, <2>7 DEF Due
<1>5. CASE d # e
    <2>1. d \in current => d \in current'
        BY <1>1, <1>5
    <2>2. k \in down'[d] => k \in down[d]
        BY <1>1, <1>5 DEF TypeOK
    <2> HIDE DEF grab
    <2> QED
        BY <1>1, <1>2, <1>3, <1>5, <2>1, <2>2, DueKept
<1> QED
    BY <1>4, <1>5

\* A device that is closed is said to be stopped.
LEMMA ClosedKeepsDue ==
    ASSUME queue \in Seq(Task), NEW e \in Devices, down' = down, current' = current \ {e},
           queue' = Append(queue, Task1("stopped", e)) \/ (queue' = queue /\ e \notin current),
           NEW d \in Devices, NEW k \in Keys, d # e => Due(d, k), e \notin current => Due(d, k)
    PROVE  Due(d, k)'
<1>1. /\ Ends(e, Task1("stopped", e))
      /\ \A type : ~ Moves(d, k, type, Task1("stopped", e))
    BY DEF Ends, Moves, Task1
<1> DEFINE t == Task1("stopped", e)
<1> HIDE DEF t
<1>2. Clears(e, k, t)'
    BY <1>1 DEF Clears, t
<1>3. CASE d = e /\ queue' = Append(queue, t)
    BY <1>2, <1>3, DueEnds
<1>4. CASE Due(d, k) /\ (d \in current => d \in current')
    BY <1>1, <1>4, DueGrows DEF t
<1> QED
    BY <1>3, <1>4 DEF t

\* A key that goes up lets itself go; one that goes down is physically down.
LEMMA MovesKeepDue ==
    ASSUME TypeOK, NEW e \in Devices, NEW l \in Keys, NEW type \in Types, KeyMoves(e, l, type),
           NEW d \in Devices, NEW k \in Keys,
           d \notin current \/ k \notin physical[d] => Due(d, k),
           d \notin current \/ k \notin physical'[d]
    PROVE  Due(d, k)'
<1> DEFINE t == [kind |-> "values", device |-> e, key |-> l, type |-> type]
<1>1. /\ queue \in Seq(Task) /\ down' = down /\ current' = current
      /\ physical' = [physical EXCEPT ![e] = IF type = "key_down" THEN @ \cup {l} ELSE @ \ {l}]
      /\ queue' = IF e \in current THEN Append(queue, t) ELSE queue
    BY DEF KeyMoves, TypeOK, gate, monitor
<1>2. /\ \A m : Moves(d, k, m, t) <=> e = d /\ l = k /\ type = m
      /\ type = "key_up" \/ type = "key_down"
    BY DEF Moves, Types
<1> HIDE DEF t
<1>3. CASE e = d /\ l = k /\ type = "key_up" /\ e \in current
    <2>1. Clears(d, k, t)'
        BY <1>1, <1>2, <1>3 DEF Clears
    <2> QED
        BY <1>1, <1>3, <2>1, DueEnds
<1>4. CASE ~ (e = d /\ l = k) \/ e \notin current
    <2>1. d \notin current \/ k \notin physical[d]
        BY <1>1, <1>4 DEF TypeOK
    <2>2. e \in current => ~ Moves(d, k, "key_down", t)
        BY <1>2, <1>4
    <2>3. CASE e \in current
        BY <1>1, <2>1, <2>2, <2>3, DueGrows
    <2>4. CASE e \notin current
        <3>1. \E m : ~ Moves(d, k, "key_down", m)
            <4>1. ~ Moves(d, k, "key_down", Task1("stopped", d))
                BY DEF Moves, Task1
            <4> QED
                BY <4>1
        <3> QED
            BY <1>1, <2>1, <2>4, <3>1, DueGrows
    <2> QED
        BY <2>3, <2>4
<1>5. CASE e = d /\ l = k /\ type = "key_down" /\ e \in current
    BY <1>1, <1>5 DEF TypeOK
<1> QED
    BY <1>2, <1>3, <1>4, <1>5

\* Every action keeps the keys cleared.
LEMMA KeysStayCleared ==
    ASSUME DeviceInvariant, disabled = {}, KeysAreCleared, [Next]_vars
    PROVE  KeysAreCleared'
<1> SUFFICES ASSUME NEW d \in Devices, NEW k \in Keys, d \notin current' \/ k \notin physical'[d]
             PROVE  Due(d, k)'
    BY DEF KeysAreCleared
<1>1. /\ TypeOK /\ pressed = down /\ queue \in Seq(Task)
      /\ d \notin current \/ k \notin physical[d] => Due(d, k)
    BY DEF DeviceInvariant, TypeOK, KeysAreCleared
<1>2. ASSUME current \subseteq current', UNCHANGED <<down, physical>>,
             NEW t, t.kind # "values", queue' = queue \/ queue' = Append(queue, t)
      PROVE  Due(d, k)'
    <2>1. ~ Moves(d, k, "key_down", t)
        BY <1>2 DEF Moves
    <2> QED
        BY <1>1, <1>2, <2>1, DueGrows
<1>3. /\ [kind |-> "grab_devices"].kind # "values"
      /\ \A e : Task1("started", e).kind # "values"
    BY DEF Task1
<1>4. CASE SetTemporarilyIgnoreAllDevices \/ ReadyChanged
    <2>1. /\ UNCHANGED <<current, down, physical>>
          /\ queue' = Append(queue, [kind |-> "grab_devices"])
        BY <1>4 DEF SetTemporarilyIgnoreAllDevices, ReadyChanged, Regrab, monitor, gate, hardware
    <2> QED
        BY <1>2, <1>3, <2>1
<1>5. CASE Started \/ GrabDevices
    <2>1. /\ UNCHANGED <<current, down, physical>> /\ queue' = Tail(queue) /\ queue # <<>>
          /\ Head(queue).kind \in {"started", "grab_devices"}
        BY <1>5 DEF Started, GrabDevices, Runs, monitor, gate, hardware
    <2>2. ~ Clears(d, k, Head(queue))
        BY <2>1 DEF Clears, Ends, Moves
    <2> QED
        BY <1>1, <2>1, <2>2, DuePops
<1>6. CASE Stopped
    <2>1. UNCHANGED <<current, physical>>
        BY <1>6 DEF Stopped, monitor, hardware
    <2> QED
        BY <1>1, <1>6, <2>1, StoppedKeepsDue
<1>7. CASE Values
    <2>1. UNCHANGED <<current, physical>>
        BY <1>7 DEF Values, monitor, hardware
    <2> QED
        BY <1>1, <1>7, <2>1, ValuesKeepDue
<1>8. CASE OpenTimer \/ OpenFails \/ NothingToOpen \/ StopSuperseded
    <2>1. UNCHANGED <<current, down, physical, queue>>
        BY <1>8 DEF OpenTimer, OpenFails, NothingToOpen, StopSuperseded, gate, monitor, hardware
    <2> QED
        BY <1>2, <1>3, <2>1
<1>9. CASE Opened
    <2>1. /\ current \subseteq current' /\ UNCHANGED <<down, physical>>
          /\ queue' = Append(queue, Task1("started", Head(run_loop).device))
        BY <1>9 DEF Opened, gate, hardware
    <2> QED
        BY <1>2, <1>3, <2>1
<1>10. CASE Stop
    <2> DEFINE e == Head(run_loop).device
    <2>1. e \in Devices
        BY <1>1, <1>10, FirstBlock DEF Stop, Executes
    <2>2. /\ current' = current \ {e} /\ UNCHANGED <<down, physical>>
          /\ queue' = Append(queue, Task1("stopped", e))
        BY <1>10 DEF Stop, gate, hardware
    <2> HIDE DEF e
    <2>3. d # e => Due(d, k)
        BY <1>1, <2>2
    <2>4. e \notin current => Due(d, k)
        BY <1>1, <2>2
    <2> QED
        BY <1>1, <2>1, <2>2, <2>3, <2>4, ClosedKeepsDue
<1>11. ASSUME NEW e \in Devices, Unplug(e)
       PROVE  Due(d, k)'
    <2>1. /\ current' = current \ {e} /\ UNCHANGED down
          /\ \A o \in Devices \ {e} : physical'[o] = physical[o]
          /\ \/ queue' = Append(queue, Task1("stopped", e))
             \/ queue' = queue /\ e \notin current
        BY <1>1, <1>11 DEF Unplug, gate, TypeOK
    <2>2. d # e => Due(d, k)
        BY <1>1, <2>1
    <2>3. e \notin current => Due(d, k)
        BY <1>1, <2>1
    <2> QED
        BY <1>1, <2>1, <2>2, <2>3, ClosedKeepsDue
<1>12. ASSUME NEW e \in Devices, DeviceTerminated(e)
       PROVE  Due(d, k)'
    <2>1. current' = current \ {e} /\ UNCHANGED physical
        BY <1>12 DEF DeviceTerminated, hardware
    <2>2. d # e => Due(d, k)
        BY <1>1, <2>1
    <2> QED
        BY <1>1, <1>12, <2>2, TerminatedKeepsDue
<1>13. ASSUME NEW e \in Devices, DeviceMatched(e) \/ ConfigurationUpdated(e)
       PROVE  Due(d, k)'
    <2>1. /\ UNCHANGED <<current, down, physical>>
          /\ queue' = Append(queue, [kind |-> "grab_devices"])
        BY <1>13 DEF DeviceMatched, ConfigurationUpdated, Regrab, monitor, gate, hardware
    <2> QED
        BY <1>2, <1>3, <2>1
<1>14. ASSUME NEW e \in Devices, TimerFires(e)
       PROVE  Due(d, k)'
    <2>1. UNCHANGED <<current, down, physical, queue>>
        BY <1>14 DEF TimerFires, monitor, gate, hardware
    <2> QED
        BY <1>2, <1>3, <2>1
<1>15. ASSUME NEW e \in Devices, NEW l \in Keys, NEW type \in Types, KeyMoves(e, l, type)
       PROVE  Due(d, k)'
    <2>1. current' = current
        BY <1>15 DEF KeyMoves, monitor
    <2> QED
        BY <1>1, <1>15, <2>1, MovesKeepDue
<1>16. CASE UNCHANGED vars
    <2>1. UNCHANGED <<current, down, physical, queue>>
        BY <1>16 DEF vars, monitor, gate, hardware
    <2> QED
        BY <1>2, <1>3, <2>1
<1> QED
    BY <1>4, <1>5, <1>6, <1>7, <1>8, <1>9, <1>10, <1>11, <1>12, <1>13, <1>14, <1>15, <1>16
       DEF Next, RunTask, RunBlock

\* Device d is settled, or its released event is still to come.
Settles(d) ==
    d \notin settled =>
        \/ d \in current /\ entry_pressed[d] # {}
        \/ \E j \in DOMAIN queue : Ends(d, queue[j])

\* Tasks that join the queue leave the stopped signals in it.
LEMMA SettlesGrows ==
    ASSUME queue \in Seq(Task), NEW d \in Devices, Settles(d),
           d \in settled => d \in settled', entry_pressed'[d] = entry_pressed[d],
           d \in current => d \in current',
           NEW t, queue' = queue \/ queue' = Append(queue, t)
    PROVE  Settles(d)'
<1>1. \A j \in DOMAIN queue : j \in DOMAIN queue' /\ queue'[j] = queue[j]
    BY Appended
<1> QED
    BY <1>1 DEF Settles, Ends

\* Any task but the stopped signal of d may leave the queue.
LEMMA SettlesPops ==
    ASSUME queue \in Seq(Task), queue # <<>>, NEW d \in Devices, Settles(d),
           \/ d \in settled'
           \/ d \notin settled /\ (d \in current /\ entry_pressed[d] # {}
                                   => d \in current' /\ entry_pressed'[d] # {}),
           ~ Ends(d, Head(queue)), queue' = Tail(queue)
    PROVE  Settles(d)'
<1>1. \A i \in DOMAIN queue : i # 1 => i - 1 \in DOMAIN queue' /\ queue'[i - 1] = queue[i]
    BY FirstTask
<1>2. Head(queue) = queue[1]
    OBVIOUS
<1> QED
    BY <1>1, <1>2 DEF Settles, Ends

\* A device that is closed is said to be stopped.
LEMMA SettlesCloses ==
    ASSUME queue \in Seq(Task), NEW e \in Devices, current' = current \ {e},
           UNCHANGED <<settled, entry_pressed>>,
           queue' = Append(queue, Task1("stopped", e)) \/ (queue' = queue /\ e \notin current),
           NEW d \in Devices, Settles(d)
    PROVE  Settles(d)'
<1> DEFINE t == Task1("stopped", e)
<1>1. Ends(e, t)
    BY DEF Ends, Task1
<1> HIDE DEF t
<1>2. ASSUME d = e, queue' = Append(queue, t)
      PROVE  Settles(d)'
    <2>1. \E j \in DOMAIN queue' : queue'[j] = t
        BY <1>2, Appended
    <2> QED
        BY <1>1, <1>2, <2>1 DEF Settles, Ends
<1>3. CASE d \in current => d \in current'
    BY <1>3, SettlesGrows DEF t
<1> QED
    BY <1>2, <1>3 DEF t

\* A device that is terminated is settled, the tasks of the others stay.
LEMMA SettlesTerminated ==
    ASSUME TypeOK, NEW e \in Devices, DeviceTerminated(e), NEW d \in Devices, Settles(d)
    PROVE  Settles(d)'
<1> DEFINE kept == {i \in DOMAIN queue : ~ TaskOf(queue[i], e)}
           q == Kept(queue, kept)
<1>1. /\ queue' = Append(q, [kind |-> "grab_devices"]) /\ settled' = settled \cup {e}
      /\ current' = current \ {e} /\ UNCHANGED entry_pressed
    BY DEF DeviceTerminated, Regrab, Ungrabbed
<1>2. queue \in Seq(Task) /\ kept \in SUBSET DOMAIN queue
    BY DEF TypeOK
<1>3. ASSUME d # e, NEW i \in DOMAIN queue, Ends(d, queue[i])
      PROVE  i \in kept
    BY <1>3 DEF Ends, TaskOf
<1> HIDE DEF kept
<1>4. q \in Seq(Task)
    BY <1>2, KeptComesFrom
<1>5. PICK from : ComesFrom(q, queue, from, kept)
    BY <1>2, KeptComesFrom
<1> HIDE DEF q
<1>6. \A j \in DOMAIN q : j \in DOMAIN queue' /\ queue'[j] = q[j]
    BY <1>1, <1>4, Appended
<1>7. ASSUME d # e, NEW i \in DOMAIN queue, Ends(d, queue[i])
      PROVE  \E j \in DOMAIN queue' : queue'[j] = queue[i]
    BY <1>3, <1>5, <1>6, <1>7 DEF ComesFrom
<1> QED
    BY <1>1, <1>7 DEF Settles, Ends

\* A value that is taken makes its device unsettled only while it has keys down.
LEMMA ValuesSettle ==
    ASSUME TypeOK, disabled = {}, Values, NEW d \in Devices, Settles(d)
    PROVE  Settles(d)'
<1> DEFINE t == Head(queue)
           released == /\ t.type = "key_up" /\ entry_pressed[t.device] # {}
                       /\ EntryPressedAfter(t.device, t.key, t.type) = {}
<1>1. /\ queue \in Seq(Task) /\ queue # <<>> /\ t.kind = "values"
      /\ t.device \in Devices /\ t.key \in Keys /\ t.type \in Types
    BY TaskRun, ValueTypes DEF Values
<1>2. /\ queue' = Tail(queue) /\ current' = current
      /\ entry_pressed' = [entry_pressed EXCEPT
             ![t.device] = EntryPressedAfter(t.device, t.key, t.type)]
      /\ t.device \in current /\ released => settled' = settled \cup {t.device}
      /\ t.device \notin current => settled' = settled
      /\ t.type # "key_down" => settled \subseteq settled'
      /\ settled \ {t.device} \subseteq settled'
      /\ settled' \subseteq settled \cup {t.device}
    BY DEF Values, monitor
<1>3. ~ Ends(d, t)
    BY <1>1 DEF Ends
<1>4. CASE d # t.device
    <2>1. entry_pressed'[d] = entry_pressed[d] /\ (d \in settled <=> d \in settled')
        BY <1>1, <1>2, <1>4 DEF TypeOK
    <2> QED
        BY <1>1, <1>2, <1>3, <2>1, SettlesPops
<1>5. CASE d = t.device /\ d \notin current
    BY <1>1, <1>2, <1>3, <1>5, SettlesPops
<1>6. CASE d = t.device /\ d \in current /\ t.type = "key_down"
    <2>1. entry_pressed'[d] # {}
        BY <1>1, <1>2, <1>6 DEF TypeOK, EntryPressedAfter
    <2> QED
        BY <1>2, <1>6, <2>1 DEF Settles
<1>7. CASE d = t.device /\ d \in current /\ t.type = "key_up"
    <2>1. entry_pressed'[d] = EntryPressedAfter(d, t.key, t.type)
        BY <1>1, <1>2, <1>7 DEF TypeOK
    <2>2. CASE released
        BY <1>2, <1>7, <2>2 DEF Settles
    <2>3. CASE ~ released
        <3>1. entry_pressed[d] # {} => entry_pressed'[d] # {}
            BY <1>7, <2>1, <2>3
        <3>2. d \in settled => d \in settled'
            BY <1>2, <1>7
        <3> QED
            BY <1>1, <1>2, <1>3, <3>1, <3>2, SettlesPops
    <2> QED
        BY <2>2, <2>3
<1> QED
    BY <1>1, <1>4, <1>5, <1>6, <1>7 DEF Types

\* Every action keeps the released event due.
LEMMA ReleaseStaysDue ==
    ASSUME DeviceInvariant, disabled = {}, ReleaseIsDue, [Next]_vars
    PROVE  ReleaseIsDue'
<1> SUFFICES ASSUME NEW d \in Devices
             PROVE  Settles(d)'
    BY DEF ReleaseIsDue, Settles
<1>1. TypeOK /\ OpenAreEntries /\ queue \in Seq(Task) /\ Settles(d)
    BY DEF DeviceInvariant, TypeOK, ReleaseIsDue, Settles
<1>2. ASSUME current \subseteq current', UNCHANGED <<settled, entry_pressed>>,
             NEW t, queue' = queue \/ queue' = Append(queue, t)
      PROVE  Settles(d)'
    BY <1>1, <1>2, SettlesGrows
<1>3. CASE SetTemporarilyIgnoreAllDevices \/ ReadyChanged
    <2>1. /\ UNCHANGED <<current, settled, entry_pressed>>
          /\ queue' = Append(queue, [kind |-> "grab_devices"])
        BY <1>3 DEF SetTemporarilyIgnoreAllDevices, ReadyChanged, Regrab, monitor, gate
    <2> QED
        BY <1>2, <2>1
<1>4. CASE Started \/ GrabDevices
    <2>1. /\ UNCHANGED <<current, settled, entry_pressed>>
          /\ queue' = Tail(queue) /\ queue # <<>>
          /\ Head(queue).kind \in {"started", "grab_devices"}
        BY <1>4 DEF Started, GrabDevices, Runs, monitor, gate
    <2>2. ~ Ends(d, Head(queue))
        BY <2>1 DEF Ends
    <2> QED
        BY <1>1, <2>1, <2>2, SettlesPops
<1>5. CASE Stopped
    <2>1. /\ UNCHANGED <<current, entry_pressed>>
          /\ queue' = Tail(queue) /\ queue # <<>>
          /\ settled' = settled \cup {Head(queue).device}
        BY <1>5 DEF Stopped, Ungrabbed, Runs, monitor
    <2>2. CASE d = Head(queue).device
        BY <2>1, <2>2 DEF Settles
    <2>3. CASE d # Head(queue).device
        <3>1. ~ Ends(d, Head(queue))
            BY <2>3 DEF Ends
        <3> QED
            BY <1>1, <2>1, <3>1, SettlesPops
    <2> QED
        BY <2>2, <2>3
<1>6. CASE Values
    BY <1>1, <1>6, ValuesSettle
<1>7. CASE OpenTimer \/ OpenFails \/ NothingToOpen \/ StopSuperseded
    <2>1. UNCHANGED <<current, settled, entry_pressed, queue>>
        BY <1>7 DEF OpenTimer, OpenFails, NothingToOpen, StopSuperseded, gate, monitor
    <2> QED
        BY <1>2, <2>1
<1>8. CASE Opened
    <2>1. /\ current \subseteq current' /\ UNCHANGED <<settled, entry_pressed>>
          /\ queue' = Append(queue, Task1("started", Head(run_loop).device))
        BY <1>8 DEF Opened, gate
    <2> QED
        BY <1>2, <2>1
<1>9. CASE Stop
    <2> DEFINE e == Head(run_loop).device
    <2>1. e \in Devices
        BY <1>1, <1>9, FirstBlock DEF Stop, Executes
    <2>2. /\ current' = current \ {e} /\ UNCHANGED <<settled, entry_pressed>>
          /\ queue' = Append(queue, Task1("stopped", e))
        BY <1>9 DEF Stop, gate
    <2> HIDE DEF e
    <2> QED
        BY <1>1, <2>1, <2>2, SettlesCloses
<1>10. ASSUME NEW e \in Devices, Unplug(e)
       PROVE  Settles(d)'
    <2>1. /\ current' = current \ {e} /\ UNCHANGED <<settled, entry_pressed>>
          /\ \/ queue' = Append(queue, Task1("stopped", e))
             \/ queue' = queue /\ e \notin current
        BY <1>1, <1>10 DEF Unplug, gate, TypeOK
    <2> QED
        BY <1>1, <2>1, SettlesCloses
<1>11. ASSUME NEW e \in Devices, DeviceTerminated(e)
       PROVE  Settles(d)'
    BY <1>1, <1>11, SettlesTerminated
<1>12. ASSUME NEW e \in Devices, DeviceMatched(e)
       PROVE  Settles(d)'
    <2>1. /\ UNCHANGED <<current, settled>> /\ e \notin current
          /\ entry_pressed' = [entry_pressed EXCEPT ![e] = {}]
          /\ queue' = Append(queue, [kind |-> "grab_devices"])
        BY <1>1, <1>12 DEF DeviceMatched, Regrab, monitor, gate, OpenAreEntries
    <2>2. d # e => entry_pressed'[d] = entry_pressed[d]
        BY <1>1, <2>1 DEF TypeOK
    <2>3. \A j \in DOMAIN queue : j \in DOMAIN queue' /\ queue'[j] = queue[j]
        BY <1>1, <2>1, Appended
    <2> QED
        BY <1>1, <2>1, <2>2, <2>3 DEF Settles, Ends
<1>13. ASSUME NEW e \in Devices, ConfigurationUpdated(e)
       PROVE  Settles(d)'
    <2>1. /\ UNCHANGED <<current, settled, entry_pressed>>
          /\ queue' = Append(queue, [kind |-> "grab_devices"])
        BY <1>13 DEF ConfigurationUpdated, Regrab, monitor, gate
    <2> QED
        BY <1>2, <2>1
<1>14. ASSUME NEW e \in Devices, TimerFires(e)
       PROVE  Settles(d)'
    <2>1. UNCHANGED <<current, settled, entry_pressed, queue>>
        BY <1>14 DEF TimerFires, monitor, gate
    <2> QED
        BY <1>2, <2>1
<1>15. ASSUME NEW e \in Devices, NEW l \in Keys, NEW type \in Types, KeyMoves(e, l, type)
       PROVE  Settles(d)'
    <2> DEFINE t == [kind |-> "values", device |-> e, key |-> l, type |-> type]
    <2>1. /\ UNCHANGED <<current, settled, entry_pressed>>
          /\ queue' = queue \/ queue' = Append(queue, t)
        BY <1>15 DEF KeyMoves, monitor, gate
    <2> HIDE DEF t
    <2> QED
        BY <1>2, <2>1
<1>16. CASE UNCHANGED vars
    <2>1. UNCHANGED <<current, settled, entry_pressed, queue>>
        BY <1>16 DEF vars, monitor, gate
    <2> QED
        BY <1>2, <2>1
<1> QED
    BY <1>3, <1>4, <1>5, <1>6, <1>7, <1>8, <1>9, <1>10, <1>11, <1>12, <1>13, <1>14, <1>15, <1>16
       DEF Next, RunTask, RunBlock

\* What the keys that are down, and the modifiers they leave, rest on.
LeftInvariant == DeviceInvariant /\ disabled = {} /\ KeysAreCleared /\ ReleaseIsDue

\* Without Disablers no action disables a device.
LEMMA NothingIsDisabled ==
    ASSUME Disablers = {}, TypeOK, disabled = {}, [Next]_vars
    PROVE  disabled' = {}
<1> USE DEF config, gate, monitor, hardware
<1>1. ASSUME NEW es, NEW tasks, Regrab(es, tasks)
      PROVE  disabled' = {}
    BY <1>1 DEF Regrab, DisabledAmong, need_to_disable_built_in_keyboard
<1>2. CASE SetTemporarilyIgnoreAllDevices
    BY <1>2 DEF SetTemporarilyIgnoreAllDevices
<1>3. CASE ReadyChanged
    BY <1>1, <1>3 DEF ReadyChanged
<1>4. CASE RunTask
    BY <1>4 DEF RunTask, GrabDevices, Started, Stopped, Values
<1>5. CASE RunBlock
    BY <1>5 DEF RunBlock, OpenTimer, Opened, OpenFails, NothingToOpen, Stop, StopSuperseded
<1>6. ASSUME NEW d \in Devices, DeviceMatched(d) \/ DeviceTerminated(d) \/ ConfigurationUpdated(d)
      PROVE  disabled' = {}
    BY <1>1, <1>6 DEF DeviceMatched, DeviceTerminated, ConfigurationUpdated
<1>7. ASSUME NEW d \in Devices,
             \/ TimerFires(d) \/ Unplug(d)
             \/ \E k \in Keys, type \in Types : KeyMoves(d, k, type)
      PROVE  disabled' = {}
    BY <1>7 DEF TimerFires, Unplug, KeyMoves
<1>8. CASE UNCHANGED vars
    BY <1>8 DEF vars
<1> QED
    BY <1>2, <1>3, <1>4, <1>5, <1>6, <1>7, <1>8 DEF Next

\* Once nothing is under way for a device, nothing is left to clear its keys, so
\* there is nothing to clear.
LEMMA NothingIsLeft == LeftInvariant => NothingLeftDown
<1> SUFFICES ASSUME LeftInvariant, NEW d \in Devices, ~ Waiting(d)
             PROVE  /\ down[d] \subseteq physical[d]
                    /\ physical[d] = {} /\ entry_pressed[d] = {} => d \in settled
    BY DEF NothingLeftDown, NoKeyLeftDown, ReleasedEventFollows
<1>1. \A j \in DOMAIN queue : ~ TaskOf(queue[j], d)
    BY DEF Waiting
<1>2. \A j \in DOMAIN queue : ~ Ends(d, queue[j]) /\ \A k, type : ~ Moves(d, k, type, queue[j])
    BY <1>1 DEF TaskOf, Ends, Moves
<1>3. ASSUME NEW k \in down[d]
      PROVE  k \in physical[d]
    <2>1. k \in Keys
        BY DEF LeftInvariant, DeviceInvariant, TypeOK
    <2>2. ~ Due(d, k)
        BY <1>2 DEF Due, ClearedAfter, Clears
    <2> QED
        BY <2>1, <2>2 DEF LeftInvariant, KeysAreCleared
<1>4. entry_pressed[d] = {} => d \in settled
    BY <1>2 DEF LeftInvariant, ReleaseIsDue
<1> QED
    BY <1>3, <1>4

\* A device leaves nothing down behind it, whatever the order in which it is seized,
\* ignored, unplugged and typed on, and whatever the run loop and the dispatcher
\* still have to do at each step; as long as no device disables the built-in
\* keyboard (a key held while it is disabled is left down).
THEOREM DevicesLeaveNothingDown ==
    ASSUME Disablers = {}
    PROVE  Spec => []NothingLeftDown
<1>1. Init => LeftInvariant
    <2> SUFFICES ASSUME Init
                 PROVE  LeftInvariant
        OBVIOUS
    <2>1. disabled = {} /\ DOMAIN queue = {} /\ (\A d \in Devices : down[d] = {}) /\ settled = Devices
        BY DEF Init
    <2>2. KeysAreCleared
        BY <2>1 DEF KeysAreCleared, Due
    <2>3. ReleaseIsDue
        BY <2>1 DEF ReleaseIsDue
    <2> QED
        BY <2>1, <2>2, <2>3, DevicesStart DEF LeftInvariant
<1>2. LeftInvariant /\ [Next]_vars => LeftInvariant'
    <2> SUFFICES ASSUME LeftInvariant, [Next]_vars
                 PROVE  LeftInvariant'
        OBVIOUS
    <2>1. DeviceInvariant /\ TypeOK /\ disabled = {} /\ KeysAreCleared /\ ReleaseIsDue
        BY DEF LeftInvariant, DeviceInvariant
    <2>2. DeviceInvariant'
        BY <2>1, TypesKept, GateKept, EntriesKept, StopsKept DEF DeviceInvariant
    <2>3. disabled' = {}
        BY <2>1, NothingIsDisabled
    <2> QED
        BY <2>1, <2>2, <2>3, KeysStayCleared, ReleaseStaysDue DEF LeftInvariant
<1> QED
    BY <1>1, <1>2, NothingIsLeft, PTL DEF Spec
=============================================================================
