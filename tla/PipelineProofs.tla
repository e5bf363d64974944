---------------------------- MODULE PipelineProofs ----------------------------
(***************************************************************************)
(* Proofs about the pipeline: for any devices, configurations and number   *)
(* of managers no event is left in a queue without a pass that will look   *)
(* at it.  What the manipulators make of an event does not matter to it.   *)
(***************************************************************************)
EXTENDS ManipulatorPipeline, SubsequenceProofs, SequenceTheorems

-----------------------------------------------------------------------------
(* The shape of the pipeline: a queue before each manager and one after the *)
(* last.                                                                     *)

Pipeline(ms, qs, n) == DOMAIN ms = 1..n /\ DOMAIN qs = 1..(n + 1)
               /\ ms = [i \in DOMAIN ms |-> ms[i]] /\ qs = [i \in DOMAIN qs |-> qs[i]]

Shape == \E n \in Nat : Pipeline(managers, queues, n)

\* No event of a stage or at its end waits unless a pass will come.
Scheduled == passes = {} => Quiet

\* What timers send to the last stage is dispatched before the time goes on.
Prompt == queues[LastQueue].events # <<>> => now * Unit \in passes

PipelineInvariant == Shape /\ now \in Nat /\ Scheduled /\ Prompt

\* A function over 1..n is a sequence of n elements.
LEMMA Length ==
    ASSUME NEW n \in Nat, NEW f, f = [i \in DOMAIN f |-> f[i]], DOMAIN f = 1..n
    PROVE  Len(f) = n
<1> DEFINE S == {f[i] : i \in 1..n}
<1>1. f \in [1..n -> S]
    OBVIOUS
<1> HIDE DEF S
<1>2. f \in Seq(S)
    BY <1>1, SeqDef
<1>3. Len(f) \in Nat /\ DOMAIN f = 1..Len(f)
    BY <1>2, LenProperties
<1> QED
    BY <1>3

\* There are as many stages as managers.
LEMMA StagesOf ==
    ASSUME NEW n \in Nat, Pipeline(managers, queues, n)
    PROVE  Len(managers) = n /\ Stages = 1..n /\ LastQueue = n + 1
<1>1. Len(managers) = n
    BY Length DEF Pipeline
<1> QED
    BY <1>1 DEF Stages, LastQueue

\* A stage changes its manager and the queues before and after it.
LEMMA StageKeepsShape ==
    ASSUME NEW n \in Nat, NEW a, Pipeline(a.managers, a.queues, n), NEW i, NEW at
    PROVE  Pipeline(RunStage(a, i, at).managers, RunStage(a, i, at).queues, n)
<1>1. \A end : Pipeline(EndStage(a, i, end).managers, EndStage(a, i, end).queues, n)
    BY DEF Pipeline, EndStage
<1> QED
    BY ONLY <1>1 DEF RunStage

-----------------------------------------------------------------------------
(* All stages, one after the other.                                          *)

Runs(f, k, at) ==
    f = [i \in 0..k |-> IF i = 0 THEN [managers |-> managers, queues |-> queues]
                                 ELSE RunStage(f[i - 1], i, at)]

\* The run of k stages exists.
LEMMA RunExists ==
    ASSUME NEW n \in Nat, NEW at
    PROVE  \E f : Runs(f, n, at)
<1> DEFINE Bad == {k \in 0..n : ~ \E f : Runs(f, k, at)}
<1>1. SUFFICES ASSUME Bad # {} PROVE FALSE
    OBVIOUS
<1>2. PICK k \in Bad : \A m \in Bad : k <= m
    <2>1. Bad \in SUBSET Nat
        OBVIOUS
    <2> HIDE DEF Bad
    <2> QED
        BY <1>1, <2>1, LeastNumber
<1>3. k # 0
    <2>1. Runs([i \in 0..0 |-> [managers |-> managers, queues |-> queues]], 0, at)
        BY DEF Runs
    <2> QED
        BY <2>1, <1>2
<1>4. k \in 1..n /\ k - 1 \in 0..n /\ k - 1 \notin Bad
    BY <1>2, <1>3
<1>5. PICK f : Runs(f, k - 1, at)
    BY <1>4
<1> DEFINE g == [i \in 0..k |-> IF i = k THEN RunStage(f[k - 1], k, at) ELSE f[i]]
<1>6. Runs(g, k, at)
    <2>1. ASSUME NEW i \in 0..k
          PROVE  g[i] = IF i = 0 THEN [managers |-> managers, queues |-> queues]
                                 ELSE RunStage(g[i - 1], i, at)
        <3>1. CASE i = k
            <4>1. g[i] = RunStage(f[k - 1], k, at)
                BY <3>1
            <4>2. g[i - 1] = f[k - 1]
                BY <3>1, <1>4
            <4> HIDE DEF g
            <4> QED
                BY <4>1, <4>2, <3>1, <1>4
        <3>2. CASE i # k
            <4>1. i \in 0..(k - 1) /\ g[i] = f[i] /\ (i # 0 => g[i - 1] = f[i - 1])
                BY <3>2, <1>4
            <4>2. f[i] = IF i = 0 THEN [managers |-> managers, queues |-> queues]
                                  ELSE RunStage(f[i - 1], i, at)
                BY <4>1, <1>5, Zenon DEF Runs
            <4> HIDE DEF g
            <4> QED
                BY <4>1, <4>2
        <3> QED
            BY <3>1, <3>2
    <2>2. DOMAIN g = 0..k /\ g = [i \in DOMAIN g |-> g[i]]
        OBVIOUS
    <2> HIDE DEF g
    <2> QED
        BY <2>1, <2>2, Zenon DEF Runs
<1> QED
    BY <1>2, <1>6

\* A pass keeps the shape of the pipeline.
LEMMA PassKeepsShape ==
    ASSUME NEW n \in Nat, Pipeline(managers, queues, n), NEW at
    PROVE  Pipeline(RunStages(at).managers, RunStages(at).queues, n)
<1>1. Len(managers) = n
    BY StagesOf
<1> DEFINE run == CHOOSE f : Runs(f, n, at)
<1>2. RunStages(at) = run[n]
    BY <1>1, Zenon DEF RunStages, Runs
<1>3. Runs(run, n, at)
    BY RunExists, Zenon
<1> HIDE DEF run
<1> DEFINE Good == {k \in 0..n : Pipeline(run[k].managers, run[k].queues, n)}
<1>4. 0 \in Good
    <2>1. run[0] = [managers |-> managers, queues |-> queues]
        BY <1>3 DEF Runs
    <2> QED
        BY <2>1
<1>5. ASSUME NEW k \in 1..n, k - 1 \in Good PROVE k \in Good
    <2>1. run[k] = RunStage(run[k - 1], k, at)
        BY <1>3, k \in 0..n, k # 0, Zenon DEF Runs
    <2> QED
        BY <2>1, <1>5, StageKeepsShape
<1>6. Good = 0..n
    <2> HIDE DEF Good
    <2>1. Good \in SUBSET (0..n)
        BY DEF Good
    <2> QED
        BY <1>4, <1>5, <2>1, Induction
<1> QED
    BY <1>2, <1>6

-----------------------------------------------------------------------------
(* The steps.                                                                *)

\* Arrivals and timers notify: a pass is requested for the present.
Notified ==
    /\ passes' = passes \cup {now * Unit} /\ now' = now
    /\ \E n \in Nat : Pipeline(managers, queues, n) /\ Pipeline(managers', queues', n)

LEMMA NotifiedIsSafe ==
    ASSUME PipelineInvariant, Notified
    PROVE  PipelineInvariant'
<1>1. Shape'
    BY DEF Notified, Shape
<1>2. now' \in Nat /\ now' * Unit \in passes'
    BY DEF Notified, PipelineInvariant
<1> QED
    BY <1>1, <1>2 DEF PipelineInvariant, Scheduled, Prompt

\* A step that leaves the queues, the passes and the clock alone.
LEMMA OtherManagersAreSafe ==
    ASSUME PipelineInvariant, UNCHANGED <<queues, passes, now>>,
           NEW n \in Nat, Pipeline(managers, queues, n), Pipeline(managers', queues', n)
    PROVE  PipelineInvariant'
<1>1. Shape'
    BY DEF Shape
<1>2. LastQueue = n + 1 /\ LastQueue' = n + 1
    <2>1. Len(managers) = n
        BY StagesOf
    <2>2. Len(managers') = n
        BY Length DEF Pipeline
    <2> QED
        BY <2>1, <2>2 DEF LastQueue
<1> QED
    BY <1>1, <1>2 DEF PipelineInvariant, Scheduled, Prompt, Quiet

\* An event enters the first queue.
LEMMA ArriveIsSafe ==
    ASSUME PipelineInvariant, NEW queue, Arrive(queue)
    PROVE  PipelineInvariant'
<1>1. PICK n \in Nat : Pipeline(managers, queues, n)
    BY DEF PipelineInvariant, Shape
<1>2. Pipeline(managers', queues', n)
    BY <1>1 DEF Arrive, Pipeline
<1>3. Notified
    BY <1>1, <1>2 DEF Notified, Arrive
<1> QED
    BY <1>3, NotifiedIsSafe

\* A timer posts to the queue after its manager.
LEMMA AfterTaskIsSafe ==
    ASSUME PipelineInvariant, NEW i, NEW j, NEW c, AfterTask(i, j, c)
    PROVE  PipelineInvariant'
<1>1. PICK n \in Nat : Pipeline(managers, queues, n)
    BY DEF PipelineInvariant, Shape
<1>2. Pipeline(managers', queues', n)
    BY <1>1 DEF AfterTask, Pipeline
<1>3. Notified
    BY <1>1, <1>2 DEF Notified, AfterTask
<1> QED
    BY <1>3, NotifiedIsSafe

\* A pass empties the last queue; it is the last one only if no event is left
\* before a stage.
LEMMA PassIsSafe ==
    ASSUME PipelineInvariant, NEW at, Manipulate(at)
    PROVE  PipelineInvariant'
<1>1. PICK n \in Nat : Pipeline(managers, queues, n)
    BY DEF PipelineInvariant, Shape
<1>2. Stages = 1..n /\ LastQueue = n + 1
    BY <1>1, StagesOf
<1>3. PICK end : end = RunStages(at)
    OBVIOUS
<1>4. Pipeline(end.managers, end.queues, n)
    BY <1>1, <1>3, PassKeepsShape
<1>5. FinishPass(at, end)
    BY <1>3 DEF Manipulate
<1>6. /\ managers' = end.managers
      /\ queues' = [end.queues EXCEPT ![n + 1] = clear_events(@)]
      /\ now' = now
    BY <1>2, <1>5 DEF FinishPass
<1>7. Pipeline(managers', queues', n)
    BY <1>4, <1>6 DEF Pipeline
<1>8. queues'[n + 1].events = <<>>
    BY <1>4, <1>6 DEF Pipeline, clear_events
<1>9. Prompt'
    <2>1. Len(managers') = n
        BY <1>7, Length DEF Pipeline
    <2> QED
        BY <1>8, <2>1 DEF Prompt, LastQueue
<1>10. ASSUME passes' = {} PROVE Quiet'
    <2>1. input_event_time_stamps(end.queues) = {}
        BY <1>5, <1>10 DEF FinishPass
    <2>2. \A k \in 1..n : end.queues[k].events = <<>>
        BY <1>2, <2>1 DEF input_event_time_stamps
    <2>3. \A k \in 1..n : queues'[k].events = <<>>
        BY <1>4, <1>6, <2>2 DEF Pipeline
    <2>4. \A k \in DOMAIN queues' : queues'[k].events = <<>>
        BY <1>7, <1>8, <2>3 DEF Pipeline
    <2> QED
        BY <1>10, <2>4 DEF Quiet
<1> QED
    BY <1>6, <1>7, <1>9, <1>10 DEF PipelineInvariant, Shape, Scheduled

\* Time goes on only when no pass is due.
LEMMA TickIsSafe ==
    ASSUME PipelineInvariant, Tick
    PROVE  PipelineInvariant'
<1>1. (now * Unit) \div Unit = now
    <2>1. now \in Nat /\ Unit \in Nat /\ Unit > 0
        BY PipelineAssumption DEF PipelineInvariant
    <2> QED
        BY <2>1
<1>2. now * Unit \notin passes
    BY <1>1 DEF Tick, PipelineInvariant
<1>3. LastQueue' = LastQueue
    BY DEF Tick, LastQueue
<1>4. queues[LastQueue].events = <<>>
    BY <1>2 DEF PipelineInvariant, Prompt
<1>5. Prompt'
    BY <1>3, <1>4 DEF Prompt, Tick
<1>6. Shape' /\ Scheduled' /\ now' \in Nat
    BY DEF Tick, PipelineInvariant, Shape, Scheduled, Quiet, Pipeline
<1> QED
    BY <1>5, <1>6 DEF PipelineInvariant

\* A reload exchanges the manipulators of each manager.
LEMMA ReloadIsSafe ==
    ASSUME PipelineInvariant, Reload
    PROVE  PipelineInvariant'
<1>1. PICK n \in Nat : Pipeline(managers, queues, n)
    BY DEF PipelineInvariant, Shape
<1>2. Pipeline(managers', queues', n)
    <2>1. Stages = 1..n
        BY <1>1, StagesOf
    <2> QED
        BY <1>1, <2>1 DEF Reload, Pipeline
<1> QED
    BY <1>1, <1>2, OtherManagersAreSafe DEF Reload

-----------------------------------------------------------------------------
LEMMA PipelineInit == Init => PipelineInvariant
<1> SUFFICES ASSUME Init PROVE PipelineInvariant
    OBVIOUS
<1>1. PICK n \in Nat : n = Len(configuration) /\ DOMAIN configuration = 1..n
    BY PipelineAssumption DEF Init
<1>2. Pipeline(managers, queues, n)
    BY <1>1 DEF Init, Pipeline
<1>3. \A i \in 1..(n + 1) : queues[i].events = <<>>
    BY <1>1 DEF Init, EmptyQueue
<1>4. Len(managers) = n
    BY <1>2, StagesOf
<1>5. Quiet
    BY <1>2, <1>3 DEF Quiet, Pipeline, Init
<1>6. Prompt
    BY <1>3, <1>4 DEF Prompt, LastQueue
<1> QED
    BY <1>2, <1>5, <1>6 DEF PipelineInvariant, Shape, Scheduled, Init

LEMMA PipelineStep == PipelineInvariant /\ [Next]_vars => PipelineInvariant'
<1> SUFFICES ASSUME PipelineInvariant, [Next]_vars PROVE PipelineInvariant'
    OBVIOUS
<1>1. ASSUME NEW d, NEW k, KeyDown(d, k) PROVE PipelineInvariant'
    BY <1>1, ArriveIsSafe DEF KeyDown
<1>2. ASSUME NEW d, NEW k, KeyUp(d, k) PROVE PipelineInvariant'
    BY <1>2, ArriveIsSafe DEF KeyUp
<1>3. ASSUME NEW d, Ungrab(d) PROVE PipelineInvariant'
    BY <1>3, ArriveIsSafe DEF Ungrab
<1>4. CASE Click
    BY <1>4, ArriveIsSafe DEF Click
<1>5. CASE RunPass
    BY <1>5, PassIsSafe DEF RunPass
<1>6. CASE HeldDown
    BY <1>6, AfterTaskIsSafe DEF HeldDown
<1>7. CASE DelayedAction
    BY <1>7, AfterTaskIsSafe DEF DelayedAction
<1>8. CASE Tick
    BY <1>8, TickIsSafe
<1>9. CASE Reload
    BY <1>9, ReloadIsSafe
<1>10. CASE UNCHANGED vars
    BY <1>10 DEF vars, PipelineInvariant, Shape, Pipeline, Scheduled, Prompt, Quiet, LastQueue
<1> QED
    BY <1>1, <1>2, <1>3, <1>4, <1>5, <1>6, <1>7, <1>8, <1>9, <1>10 DEF Next

\* No event is left behind: while one is in any queue of the pipeline a pass is
\* scheduled, so an event that waits for simultaneous keys, one a manipulator
\* or a timer posts, and one that arrives while others wait, is looked at again
\* (device_grabber::manipulate, async_post_manipulate_timer).
THEOREM NoEventIsForgotten == Spec => [](passes = {} => Quiet)
<1>1. PipelineInvariant => (passes = {} => Quiet)
    BY DEF PipelineInvariant, Scheduled
<1> QED
    BY PipelineInit, PipelineStep, <1>1, PTL DEF Spec

\* What reaches the last stage is dispatched at the time it was posted: only a
\* timer leaves events there, and it requests a pass for the present, which
\* comes before the time goes on (enqueue_input_event_arrived).
THEOREM LastStageIsPrompt ==
    Spec => [](queues[LastQueue].events # <<>> => now * Unit \in passes)
<1>1. PipelineInvariant => (queues[LastQueue].events # <<>> => now * Unit \in passes)
    BY DEF PipelineInvariant, Prompt
<1> QED
    BY PipelineInit, PipelineStep, <1>1, PTL DEF Spec
=============================================================================
