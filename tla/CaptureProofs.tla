---------------------------- MODULE CaptureProofs ----------------------------
(***************************************************************************)
(* Proofs about the two ways in which device_grabber gets at the keys, for *)
(* any number of devices, keys and monitors.                               *)
(***************************************************************************)
EXTENDS MCCapture, SubsequenceProofs

-----------------------------------------------------------------------------
(* The event tap.                                                           *)

TapState ==
    [grabber : tap!Grabber, monitors : [Monitors -> tap!Monitor], queue : Seq(tap!Task),
     crashed : {"no", "dangling_callback", "aborted", "joined_itself"}]

\* Index i of the queue is the completion of the stop of m.
CompletionAt(st, i, m) == st.queue[i] = tap!task("completion", m)

Completes(st, m) == \E i \in DOMAIN st.queue : CompletionAt(st, i, m)

\* The present device_grabber has let m go and waits for its completion.
BeingReplaced(st, m) ==
    /\ st.monitors[m].alive /\ st.monitors[m].owned
    /\ st.grabber.event_tap_monitor # m
    /\ ~ st.monitors[m].event_tap_cleanup_completed \/ Completes(st, m)

\* The monitor in use is not asked to stop, and none is being replaced.
MonitorInUse(st) ==
    LET m == st.grabber.event_tap_monitor
    IN  m # None =>
            /\ st.monitors[m].alive /\ st.monitors[m].owned
            /\ ~ st.monitors[m].event_tap_cleanup_completed
            /\ st.monitors[m].block = "none"
            /\ ~ st.grabber.event_tap_monitor_stopping

\* Only the monitor in use is connected; the others of the device_grabber go
\* on to the pending configuration when they complete.
MonitorsLetGo(st) ==
    \A m \in Monitors :
        /\ st.monitors[m].connected => st.grabber.event_tap_monitor = m
        /\ st.monitors[m].alive /\ st.monitors[m].owned /\ st.grabber.event_tap_monitor # m
               => st.monitors[m].continues

\* One monitor is replaced at a time, and while it is, the next one waits.
OneReplacement(st) ==
    \A m \in Monitors : BeingReplaced(st, m) =>
        /\ st.grabber.event_tap_monitor_stopping
        /\ \A n \in Monitors : BeingReplaced(st, n) => n = m

\* A completion comes once, after the tap was cleaned up, while the monitor lives.
CompletionsFollowCleanup(st) ==
    \A m \in Monitors : \A i \in DOMAIN st.queue : CompletionAt(st, i, m) =>
        /\ st.monitors[m].alive /\ st.monitors[m].event_tap_cleanup_completed
        /\ \A j \in DOMAIN st.queue : CompletionAt(st, j, m) => j = i

\* Without a device_grabber no monitor has an owner.
NoOwner(st) ==
    st.grabber.status = "none" =>
        /\ st.grabber.event_tap_monitor = None
        /\ \A m \in Monitors : ~ st.monitors[m].owned

TapInvariant(st) ==
    /\ MonitorInUse(st) /\ MonitorsLetGo(st) /\ OneReplacement(st)
    /\ CompletionsFollowCleanup(st) /\ NoOwner(st)
    /\ st.crashed \notin {"dangling_callback", "aborted"}

TapIsSafe == tap!Current \in TapState /\ TapInvariant(tap!Current)

\* Kept of the event tap's module is the one the lemmas are about.
LEMMA TapKept ==
    \A s, kept : tap!Kept(s, kept) = Kept(s, kept)
    BY DEF tap!Kept, Kept

\* Queue q is part of queue s, every task in it once.
Shrinks(s, q) ==
    \E from \in [DOMAIN q -> DOMAIN s] :
        /\ \A i \in DOMAIN q : q[i] = s[from[i]]
        /\ \A i, j \in DOMAIN q : from[i] = from[j] => i = j

\* Tasks that leave the queue take no other completions along and bring none.
LEMMA ShrinkingQueue ==
    ASSUME NEW st, NEW r, Shrinks(st.queue, r.queue), CompletionsFollowCleanup(st),
           \A m \in Monitors : Completes(r, m) =>
               /\ r.monitors[m].alive = st.monitors[m].alive
               /\ r.monitors[m].event_tap_cleanup_completed =
                      st.monitors[m].event_tap_cleanup_completed
    PROVE  /\ CompletionsFollowCleanup(r)
           /\ \A m \in Monitors : Completes(r, m) => Completes(st, m)
<1>1. PICK from \in [DOMAIN r.queue -> DOMAIN st.queue] :
          /\ \A i \in DOMAIN r.queue : r.queue[i] = st.queue[from[i]]
          /\ \A i, j \in DOMAIN r.queue : from[i] = from[j] => i = j
    BY DEF Shrinks
<1>2. ASSUME NEW m \in Monitors, NEW i \in DOMAIN r.queue, CompletionAt(r, i, m)
      PROVE  /\ r.monitors[m].alive /\ r.monitors[m].event_tap_cleanup_completed
             /\ \A j \in DOMAIN r.queue : CompletionAt(r, j, m) => j = i
             /\ Completes(st, m)
    <2>1. from[i] \in DOMAIN st.queue /\ CompletionAt(st, from[i], m)
        BY <1>1, <1>2 DEF CompletionAt
    <2>2. /\ st.monitors[m].alive /\ st.monitors[m].event_tap_cleanup_completed
          /\ \A j \in DOMAIN st.queue : CompletionAt(st, j, m) => j = from[i]
        BY <2>1 DEF CompletionsFollowCleanup
    <2>3. ASSUME NEW j \in DOMAIN r.queue, CompletionAt(r, j, m)
          PROVE  j = i
        <3>1. from[j] \in DOMAIN st.queue /\ CompletionAt(st, from[j], m)
            BY <1>1, <2>3 DEF CompletionAt
        <3>2. from[j] = from[i]
            BY <2>2, <3>1
        <3> QED
            BY <1>1, <3>2
    <2>4. Completes(r, m)
        BY <1>2 DEF Completes
    <2> QED
        BY <2>1, <2>2, <2>3, <2>4 DEF Completes
<1> QED
    BY <1>2 DEF CompletionsFollowCleanup, Completes

\* A task that is no completion joins the queue.
LEMMA OtherTaskJoins ==
    ASSUME NEW st \in TapState, NEW r, NEW t \in tap!Task, t.kind # "completion",
           r.queue = Append(st.queue, t), CompletionsFollowCleanup(st),
           \A m \in Monitors : st.monitors[m].alive =>
               /\ r.monitors[m].alive
               /\ r.monitors[m].event_tap_cleanup_completed =
                      st.monitors[m].event_tap_cleanup_completed
    PROVE  /\ CompletionsFollowCleanup(r)
           /\ \A m \in Monitors : Completes(r, m) <=> Completes(st, m)
<1>1. st.queue \in Seq(tap!Task)
    BY DEF TapState
<1>2. ASSUME NEW m \in Monitors, NEW i
      PROVE  i \in DOMAIN r.queue /\ CompletionAt(r, i, m) <=>
             i \in DOMAIN st.queue /\ CompletionAt(st, i, m)
    <2>1. DOMAIN r.queue = 1..(Len(st.queue) + 1) /\ DOMAIN st.queue = 1..Len(st.queue)
          /\ Len(st.queue) \in Nat
        BY <1>1
    <2>2. \A k \in 1..Len(st.queue) : r.queue[k] = st.queue[k]
        BY <1>1
    <2>3. r.queue[Len(st.queue) + 1] = t /\ t # tap!task("completion", m)
        BY <1>1 DEF tap!task
    <2> QED
        BY <2>1, <2>2, <2>3 DEF CompletionAt
<1>3. \A m \in Monitors : Completes(r, m) <=> Completes(st, m)
    BY <1>2 DEF Completes
<1>4. CompletionsFollowCleanup(r)
    BY <1>2 DEF CompletionsFollowCleanup
<1> QED
    BY <1>3, <1>4

\* What the invariant reads of the monitors and of the grabber stays as it is.
Alike(st, r) ==
    /\ r.grabber.event_tap_monitor = st.grabber.event_tap_monitor
    /\ r.grabber.event_tap_monitor_stopping = st.grabber.event_tap_monitor_stopping
    /\ r.grabber.status = "none" => st.grabber.status = "none"
    /\ \A m \in Monitors :
          /\ r.monitors[m].alive = st.monitors[m].alive
          /\ r.monitors[m].owned = st.monitors[m].owned
          /\ r.monitors[m].connected = st.monitors[m].connected
          /\ r.monitors[m].continues = st.monitors[m].continues
          /\ r.monitors[m].event_tap_cleanup_completed =
                 st.monitors[m].event_tap_cleanup_completed
          /\ st.monitors[m].block = "none" => r.monitors[m].block = "none"
    /\ r.crashed = st.crashed

\* Then only completions matter, and they may become fewer.
LEMMA AlikeKeeps ==
    ASSUME NEW st \in TapState, NEW r \in TapState, TapInvariant(st), Alike(st, r),
           CompletionsFollowCleanup(r),
           \A m \in Monitors : Completes(r, m) => Completes(st, m)
    PROVE  TapInvariant(r)
<1>1. r.grabber.event_tap_monitor \in Monitors \cup {None}
    BY DEF TapState, tap!Grabber
<1>2. MonitorInUse(r)
    BY <1>1 DEF Alike, TapInvariant, MonitorInUse
<1>3. MonitorsLetGo(r)
    BY DEF Alike, TapInvariant, MonitorsLetGo
<1>4. \A m \in Monitors : BeingReplaced(r, m) => BeingReplaced(st, m)
    BY DEF Alike, BeingReplaced
<1>5. OneReplacement(r)
    BY <1>4 DEF Alike, TapInvariant, OneReplacement
<1>6. NoOwner(r)
    BY DEF Alike, TapInvariant, NoOwner
<1> QED
    BY <1>2, <1>3, <1>5, <1>6 DEF Alike, TapInvariant

\* The next state is the one an operation returns.
LEMMA BecomesSafe ==
    ASSUME NEW r \in TapState, TapInvariant(r), tap!Becomes(r)
    PROVE  TapIsSafe'
<1>1. tap!Current' = r
    BY DEF tap!Becomes, tap!Current, TapState
<1> QED
    BY <1>1 DEF TapIsSafe

\* The first task leaves the queue.
LEMMA NextTask ==
    ASSUME NEW st \in TapState, st.queue # <<>>, CompletionsFollowCleanup(st)
    PROVE  /\ Head(st.queue) \in tap!Task
           /\ [st EXCEPT !.queue = Tail(@)] \in TapState
           /\ Shrinks(st.queue, Tail(st.queue))
           /\ \A m \in Monitors : Head(st.queue) = tap!task("completion", m) =>
                  Completes(st, m) /\ ~ Completes([st EXCEPT !.queue = Tail(@)], m)
<1> DEFINE r == [st EXCEPT !.queue = Tail(@)]
           later == [i \in DOMAIN r.queue |-> i + 1]
<1>1. /\ st.queue \in Seq(tap!Task) /\ Len(st.queue) \in Nat /\ Len(st.queue) # 0
      /\ DOMAIN st.queue = 1..Len(st.queue)
    BY DEF TapState
<1>2. r.queue = Tail(st.queue) /\ r.queue \in Seq(tap!Task) /\ r \in TapState
    <2>1. Tail(st.queue) \in Seq(tap!Task)
        BY <1>1
    <2> QED
        BY <2>1 DEF TapState
<1>3. DOMAIN r.queue = 1..(Len(st.queue) - 1)
    BY <1>1, <1>2
<1>4. \A i \in DOMAIN r.queue : i + 1 \in DOMAIN st.queue /\ r.queue[i] = st.queue[i + 1]
    BY <1>1, <1>2, <1>3
<1>5. 1 \in DOMAIN st.queue /\ Head(st.queue) = st.queue[1]
    BY <1>1
<1>6. Shrinks(st.queue, Tail(st.queue))
    <2>1. later \in [DOMAIN r.queue -> DOMAIN st.queue]
        BY <1>4
    <2>2. \A i \in DOMAIN r.queue : r.queue[i] = st.queue[later[i]]
        BY <1>4
    <2>3. \A i, j \in DOMAIN r.queue : later[i] = later[j] => i = j
        BY <1>3
    <2> HIDE DEF r, later
    <2> QED
        BY <1>2, <2>1, <2>2, <2>3 DEF Shrinks
<1>7. ASSUME NEW m \in Monitors, Head(st.queue) = tap!task("completion", m)
      PROVE  Completes(st, m) /\ ~ Completes(r, m)
    <2>1. CompletionAt(st, 1, m)
        BY <1>5, <1>7 DEF CompletionAt
    <2>2. \A j \in DOMAIN st.queue : CompletionAt(st, j, m) => j = 1
        BY <1>5, <2>1 DEF CompletionsFollowCleanup
    <2>3. ASSUME NEW i \in DOMAIN r.queue, CompletionAt(r, i, m)
          PROVE  FALSE
        <3>1. CompletionAt(st, i + 1, m) /\ i + 1 \in DOMAIN st.queue
            BY <1>4, <2>3 DEF CompletionAt
        <3>2. i + 1 = 1
            BY <2>2, <3>1
        <3> QED
            BY <1>3, <3>2
    <2> QED
        BY <1>5, <2>1, <2>3 DEF Completes
<1> HIDE DEF r
<1>8. Head(st.queue) \in tap!Task
    BY <1>1
<1> QED
    BY <1>2, <1>6, <1>7, <1>8 DEF r

\* Tasks are taken out of the queue.
LEMMA KeptTasks ==
    ASSUME NEW s \in Seq(tap!Task), NEW kept \in SUBSET DOMAIN s
    PROVE  /\ tap!Kept(s, kept) \in Seq(tap!Task)
           /\ Shrinks(s, tap!Kept(s, kept))
           /\ \A j \in DOMAIN tap!Kept(s, kept) : \E i \in kept : tap!Kept(s, kept)[j] = s[i]
<1> DEFINE q == Kept(s, kept)
<1>1. tap!Kept(s, kept) = q
    BY TapKept
<1>2. PICK from \in [DOMAIN q -> kept] :
          /\ \A j \in DOMAIN q : q[j] = s[from[j]]
          /\ \A j, l \in DOMAIN q : j < l => from[j] < from[l]
    BY KeptIsSubsequence
<1>3. q \in Seq(tap!Task)
    BY KeptIsSubsequence
<1> HIDE DEF q
<1>4. DOMAIN q \in SUBSET Nat /\ DOMAIN s \in SUBSET Nat
    BY <1>3
<1>5. \A i, j \in DOMAIN q : from[i] = from[j] => i = j
    <2> SUFFICES ASSUME NEW i \in DOMAIN q, NEW j \in DOMAIN q, from[i] = from[j], i # j
                 PROVE  FALSE
        OBVIOUS
    <2>1. i \in Nat /\ j \in Nat /\ from[i] \in Nat /\ from[j] \in Nat
        BY <1>4
    <2>2. i < j \/ j < i
        BY <2>1
    <2> QED
        BY <1>2, <2>1, <2>2
<1>6. from \in [DOMAIN q -> DOMAIN s]
    OBVIOUS
<1> QED
    BY <1>1, <1>2, <1>3, <1>5, <1>6 DEF Shrinks

\* A monitor is created for the pending configuration: a free one, while none
\* is being replaced.
LEMMA CreateKeeps ==
    ASSUME NEW st \in TapState, TapInvariant(st), NEW new \in Monitors,
           ~ st.monitors[new].alive, st.grabber.status # "none",
           st.grabber.event_tap_monitor = None,
           ~ st.grabber.event_tap_monitor_stopping
    PROVE  /\ tap!create_pending_event_tap_monitor(st, new) \in TapState
           /\ TapInvariant(tap!create_pending_event_tap_monitor(st, new))
<1> DEFINE pending == st.grabber.pending_event_tap_monitor_configuration
           fresh == [tap!NoMonitor EXCEPT !.alive = TRUE, !.owned = TRUE,
                         !.cgeventtap_fallback_enabled = pending, !.connected = TRUE]
           r == [st EXCEPT
                    !.grabber.pending_event_tap_monitor_configuration = None,
                    !.grabber.event_tap_monitor = new,
                    !.monitors[new] = fresh,
                    !.queue = Append(@, tap!task("start", new))]
<1>1. CASE pending = None
    BY <1>1 DEF tap!create_pending_event_tap_monitor
<1>2. CASE pending # None
    <2>1. tap!create_pending_event_tap_monitor(st, new) = r
        BY <1>2 DEF tap!create_pending_event_tap_monitor
    <2>2. /\ st.grabber \in tap!Grabber /\ st.monitors \in [Monitors -> tap!Monitor]
          /\ st.queue \in Seq(tap!Task)
        BY DEF TapState
    <2>3. pending \in BOOLEAN
        BY <1>2, <2>2 DEF tap!Grabber
    <2>4. tap!task("start", new) \in tap!Task /\ tap!task("start", new).kind # "completion"
        BY DEF tap!task, tap!Task
    <2>5. fresh \in tap!Monitor
        BY <2>3 DEF tap!NoMonitor, tap!Monitor
    <2>6. /\ r.grabber = [st.grabber EXCEPT
                             !.pending_event_tap_monitor_configuration = None,
                             !.event_tap_monitor = new]
          /\ r.monitors = [st.monitors EXCEPT ![new] = fresh]
          /\ r.queue = Append(st.queue, tap!task("start", new))
          /\ r.crashed = st.crashed
          /\ DOMAIN r = {"grabber", "monitors", "queue", "crashed"}
          /\ r = [x \in DOMAIN r |-> r[x]]
        BY DEF TapState
    <2> HIDE DEF r, fresh
    <2>7. r.grabber \in tap!Grabber
        BY <2>2, <2>6 DEF tap!Grabber
    <2>8. r \in TapState
        <3>1. r.monitors \in [Monitors -> tap!Monitor]
            BY <2>2, <2>5, <2>6
        <3>2. r.queue \in Seq(tap!Task)
            BY <2>2, <2>4, <2>6
        <3> QED
            BY <2>6, <2>7, <3>1, <3>2 DEF TapState
    <2>9. /\ r.grabber.event_tap_monitor = new /\ ~ r.grabber.event_tap_monitor_stopping
          /\ r.grabber.status # "none"
        BY <2>2, <2>6 DEF tap!Grabber
    <2>10. /\ r.monitors[new].alive /\ r.monitors[new].owned
           /\ ~ r.monitors[new].event_tap_cleanup_completed
           /\ r.monitors[new].block = "none"
        BY <2>2, <2>6 DEF fresh, tap!NoMonitor
    <2>11. \A m \in Monitors : m # new => r.monitors[m] = st.monitors[m]
        BY <2>2, <2>6
    <2>12. CompletionsFollowCleanup(r) /\ \A m \in Monitors : Completes(r, m) <=> Completes(st, m)
        BY <2>4, <2>6, <2>11, OtherTaskJoins DEF TapInvariant
    <2>13. MonitorInUse(r)
        BY <2>9, <2>10 DEF MonitorInUse
    <2>14. MonitorsLetGo(r)
        <3>1. ASSUME NEW m \in Monitors, m # new
              PROVE  /\ ~ r.monitors[m].connected
                     /\ r.monitors[m].alive /\ r.monitors[m].owned => r.monitors[m].continues
            BY <2>11, <3>1, TapAssumption DEF TapInvariant, MonitorsLetGo, tap!EventTapAssumption
        <3> QED
            BY <2>9, <3>1 DEF MonitorsLetGo
    <2>15. \A m \in Monitors : ~ BeingReplaced(r, m)
        <3>1. ASSUME NEW m \in Monitors, BeingReplaced(r, m)
              PROVE  BeingReplaced(st, m)
            BY <2>9, <2>11, <2>12, <3>1, TapAssumption DEF BeingReplaced, tap!EventTapAssumption
        <3> QED
            BY <3>1 DEF TapInvariant, OneReplacement
    <2>16. OneReplacement(r)
        BY <2>15 DEF OneReplacement
    <2>17. NoOwner(r)
        BY <2>9 DEF NoOwner
    <2> QED
        BY <2>1, <2>6, <2>8, <2>12, <2>13, <2>14, <2>16, <2>17 DEF TapInvariant
<1> QED
    BY <1>1, <1>2

\* A monitor of which one field changes.
LEMMA MonitorFields ==
    ASSUME NEW x \in tap!Monitor
    PROVE  /\ [x EXCEPT !.owned = FALSE] \in tap!Monitor
           /\ [x EXCEPT !.connected = FALSE] \in tap!Monitor
           /\ [x EXCEPT !.start_tried = TRUE] \in tap!Monitor
           /\ [x EXCEPT !.event_tap_cleanup_completed = TRUE] \in tap!Monitor
           /\ \A to \in {"none", "enabled", "disabled"} :
                  [x EXCEPT !.event_tap = to] \in tap!Monitor
           /\ \A to \in {"none", "queued", "executed"} :
                  [x EXCEPT !.block = to] \in tap!Monitor
           /\ \A to \in BOOLEAN : [x EXCEPT !.continues = to] \in tap!Monitor
<1>1. [x EXCEPT !.owned = FALSE] \in tap!Monitor
    BY DEF tap!Monitor
<1>2. [x EXCEPT !.connected = FALSE] \in tap!Monitor
    BY DEF tap!Monitor
<1>3. [x EXCEPT !.start_tried = TRUE] \in tap!Monitor
    BY DEF tap!Monitor
<1>4. [x EXCEPT !.event_tap_cleanup_completed = TRUE] \in tap!Monitor
    BY DEF tap!Monitor
<1>5. \A to \in {"none", "enabled", "disabled"} : [x EXCEPT !.event_tap = to] \in tap!Monitor
    BY DEF tap!Monitor
<1>6. \A to \in {"none", "queued", "executed"} : [x EXCEPT !.block = to] \in tap!Monitor
    BY DEF tap!Monitor
<1>7. \A to \in BOOLEAN : [x EXCEPT !.continues = to] \in tap!Monitor
    BY DEF tap!Monitor
<1> QED
    BY <1>1, <1>2, <1>3, <1>4, <1>5, <1>6, <1>7

\* One monitor changes, and nothing else.
WithMonitor(st, m, changed) == [st EXCEPT !.monitors[m] = changed]

\* Monitors keep their types when one of them changes.
LEMMA OneMonitorChanges ==
    ASSUME NEW st \in TapState, NEW m \in Monitors, NEW changed \in tap!Monitor
    PROVE  /\ WithMonitor(st, m, changed) \in TapState
           /\ WithMonitor(st, m, changed).grabber = st.grabber
           /\ WithMonitor(st, m, changed).queue = st.queue
           /\ WithMonitor(st, m, changed).crashed = st.crashed
           /\ WithMonitor(st, m, changed).monitors[m] = changed
           /\ \A k \in Monitors : k # m =>
                  WithMonitor(st, m, changed).monitors[k] = st.monitors[k]
    BY DEF TapState, WithMonitor

\* async_stop changes the monitor it stops, and nothing else.
LEMMA StoppedMonitor ==
    ASSUME NEW st \in TapState, NEW m \in Monitors, NEW continues \in BOOLEAN
    PROVE  /\ tap!async_stop(st, m, continues) \in TapState
           /\ tap!async_stop(st, m, continues).grabber = st.grabber
           /\ tap!async_stop(st, m, continues).queue = st.queue
           /\ tap!async_stop(st, m, continues).crashed = st.crashed
           /\ tap!async_stop(st, m, continues).monitors[m].alive = st.monitors[m].alive
           /\ tap!async_stop(st, m, continues).monitors[m].owned = st.monitors[m].owned
           /\ ~ tap!async_stop(st, m, continues).monitors[m].connected
           /\ tap!async_stop(st, m, continues).monitors[m].continues = continues
           /\ tap!async_stop(st, m, continues).monitors[m].event_tap_cleanup_completed =
                  st.monitors[m].event_tap_cleanup_completed
           /\ \A k \in Monitors : k # m =>
                  tap!async_stop(st, m, continues).monitors[k] = st.monitors[k]
<1> DEFINE x == [st.monitors[m] EXCEPT !.connected = FALSE]
           a == WithMonitor(st, m, x)
           y == [a.monitors[m] EXCEPT !.block = "queued"]
           b == WithMonitor(a, m, y)
           z == [b.monitors[m] EXCEPT !.continues = continues]
           c == WithMonitor(b, m, z)
<1>1. tap!async_stop(st, m, continues) = c
    BY DEF tap!async_stop, WithMonitor
<1>2. st.monitors[m] \in tap!Monitor
    BY DEF TapState
<1>3. x \in tap!Monitor
    BY <1>2, MonitorFields
<1>4. /\ x.alive = st.monitors[m].alive /\ x.owned = st.monitors[m].owned /\ ~ x.connected
      /\ x.event_tap_cleanup_completed = st.monitors[m].event_tap_cleanup_completed
    BY <1>2 DEF tap!Monitor
<1> HIDE DEF x
<1>5. /\ a \in TapState /\ a.grabber = st.grabber /\ a.queue = st.queue
      /\ a.crashed = st.crashed /\ a.monitors[m] = x
      /\ \A k \in Monitors : k # m => a.monitors[k] = st.monitors[k]
    BY <1>3, OneMonitorChanges
<1> HIDE DEF a
<1>6. y \in tap!Monitor
    BY <1>3, <1>5, MonitorFields
<1>7. /\ y.alive = x.alive /\ y.owned = x.owned /\ y.connected = x.connected
      /\ y.event_tap_cleanup_completed = x.event_tap_cleanup_completed
    BY <1>3, <1>5 DEF tap!Monitor
<1> HIDE DEF y
<1>8. /\ b \in TapState /\ b.grabber = a.grabber /\ b.queue = a.queue
      /\ b.crashed = a.crashed /\ b.monitors[m] = y
      /\ \A k \in Monitors : k # m => b.monitors[k] = a.monitors[k]
    BY <1>5, <1>6, OneMonitorChanges
<1> HIDE DEF b
<1>9. z \in tap!Monitor
    BY <1>6, <1>8, MonitorFields
<1>10. /\ z.alive = y.alive /\ z.owned = y.owned /\ z.connected = y.connected
       /\ z.continues = continues
       /\ z.event_tap_cleanup_completed = y.event_tap_cleanup_completed
    BY <1>6, <1>8 DEF tap!Monitor
<1> HIDE DEF z
<1>11. /\ c \in TapState /\ c.grabber = b.grabber /\ c.queue = b.queue
       /\ c.crashed = b.crashed /\ c.monitors[m] = z
       /\ \A k \in Monitors : k # m => c.monitors[k] = b.monitors[k]
    BY <1>8, <1>9, OneMonitorChanges
<1> HIDE DEF c
<1> QED
    BY <1>1, <1>4, <1>5, <1>7, <1>8, <1>10, <1>11

\* A new configuration: at once, or by replacing the monitor in use.
LEMMA SetupKeeps ==
    ASSUME NEW st \in TapState, TapInvariant(st), NEW value \in BOOLEAN,
           NEW new \in Monitors, ~ st.monitors[new].alive, st.grabber.status # "none"
    PROVE  /\ tap!setup_event_tap_monitor(st, value, new) \in TapState
           /\ TapInvariant(tap!setup_event_tap_monitor(st, value, new))
<1> DEFINE asked == [st EXCEPT !.grabber.pending_event_tap_monitor_configuration = value]
           old == st.grabber.event_tap_monitor
           stopping == [asked EXCEPT !.grabber.event_tap_monitor_stopping = TRUE]
           left == [stopping EXCEPT !.grabber.event_tap_monitor = None]
           yes == TRUE
           r == tap!async_stop(left, old, yes)
<1>0. /\ st.grabber \in tap!Grabber /\ st.monitors \in [Monitors -> tap!Monitor]
      /\ st.queue \in Seq(tap!Task)
    BY DEF TapState
<1>1. /\ asked.grabber = [st.grabber EXCEPT !.pending_event_tap_monitor_configuration = value]
      /\ asked.monitors = st.monitors /\ asked.queue = st.queue /\ asked.crashed = st.crashed
      /\ DOMAIN asked = {"grabber", "monitors", "queue", "crashed"}
      /\ asked = [x \in DOMAIN asked |-> asked[x]]
    BY DEF TapState
<1>2. tap!setup_event_tap_monitor(st, value, new) =
          IF asked.grabber.event_tap_monitor_stopping THEN asked
          ELSE IF asked.grabber.event_tap_monitor # None THEN
              tap!async_stop_event_tap_monitor(
                  [asked EXCEPT !.grabber.event_tap_monitor_stopping = TRUE], TRUE)
          ELSE tap!create_pending_event_tap_monitor(asked, new)
    BY DEF tap!setup_event_tap_monitor
<1>3. /\ asked.grabber.event_tap_monitor = old
      /\ asked.grabber.event_tap_monitor_stopping = st.grabber.event_tap_monitor_stopping
      /\ asked.grabber.status = st.grabber.status
      /\ asked.grabber \in tap!Grabber
    <2> HIDE DEF asked
    <2> QED
        BY <1>0, <1>1 DEF tap!Grabber
<1>4. asked \in TapState
    <2> HIDE DEF asked
    <2> QED
        BY <1>0, <1>1, <1>3 DEF TapState
<1> HIDE DEF asked
<1>5. /\ CompletionsFollowCleanup(asked)
      /\ \A m \in Monitors : Completes(asked, m) <=> Completes(st, m)
    BY <1>1 DEF TapInvariant, CompletionsFollowCleanup, Completes, CompletionAt
<1>6. Alike(st, asked)
    BY <1>1, <1>3 DEF Alike
<1>7. TapInvariant(asked)
    BY <1>4, <1>5, <1>6, AlikeKeeps
<1>8. CASE st.grabber.event_tap_monitor_stopping
    BY <1>2, <1>8, <1>3, <1>4, <1>7
<1>9. CASE ~ st.grabber.event_tap_monitor_stopping /\ old = None
    BY <1>1, <1>2, <1>9, <1>3, <1>4, <1>7, CreateKeeps
<1>10. CASE ~ st.grabber.event_tap_monitor_stopping /\ old # None
    <2>1. old \in Monitors
        BY <1>0, <1>10 DEF tap!Grabber
    <2>2. /\ stopping \in TapState /\ stopping.monitors = asked.monitors
          /\ stopping.queue = asked.queue /\ stopping.crashed = asked.crashed
          /\ stopping.grabber.event_tap_monitor = old
          /\ stopping.grabber.event_tap_monitor_stopping
          /\ stopping.grabber.status = asked.grabber.status
        BY <1>3, <1>4 DEF TapState, tap!Grabber
    <2> HIDE DEF stopping
    <2>3. /\ left \in TapState /\ left.monitors = stopping.monitors
          /\ left.queue = stopping.queue /\ left.crashed = stopping.crashed
          /\ left.grabber.event_tap_monitor = None
          /\ left.grabber.event_tap_monitor_stopping
          /\ left.grabber.status = stopping.grabber.status
        BY <2>2 DEF TapState, tap!Grabber
    <2>4. tap!setup_event_tap_monitor(st, value, new) = r
        BY <1>2, <1>10, <1>3, <2>2
        DEF tap!async_stop_event_tap_monitor, stopping
    <2> HIDE DEF left
    <2>5. /\ r \in TapState /\ r.grabber = left.grabber
          /\ r.queue = st.queue /\ r.crashed = st.crashed
          /\ r.monitors[old].alive = st.monitors[old].alive
          /\ r.monitors[old].owned = st.monitors[old].owned
          /\ ~ r.monitors[old].connected /\ r.monitors[old].continues
          /\ r.monitors[old].event_tap_cleanup_completed =
                 st.monitors[old].event_tap_cleanup_completed
          /\ \A m \in Monitors : m # old => r.monitors[m] = st.monitors[m]
        <3>1. left.monitors = st.monitors /\ left.queue = st.queue /\ left.crashed = st.crashed
            BY <1>1, <2>2, <2>3
        <3>2. /\ r \in TapState /\ r.grabber = left.grabber
              /\ r.queue = left.queue /\ r.crashed = left.crashed
              /\ r.monitors[old].alive = left.monitors[old].alive
              /\ r.monitors[old].owned = left.monitors[old].owned
              /\ ~ r.monitors[old].connected /\ r.monitors[old].continues = yes
              /\ r.monitors[old].event_tap_cleanup_completed =
                     left.monitors[old].event_tap_cleanup_completed
              /\ \A m \in Monitors : m # old => r.monitors[m] = left.monitors[m]
            <4>1. left \in TapState /\ yes \in BOOLEAN
                BY <2>3
            <4> HIDE DEF old, yes
            <4> QED
                BY <2>1, <4>1, StoppedMonitor
        <3> HIDE DEF r
        <3> QED
            BY <3>1, <3>2
    <2> HIDE DEF r
    <2>6. /\ r.grabber.event_tap_monitor = None /\ r.grabber.event_tap_monitor_stopping
          /\ r.grabber.status # "none"
        BY <1>3, <2>2, <2>3, <2>5
    <2>8. /\ CompletionsFollowCleanup(r)
          /\ \A m \in Monitors : Completes(r, m) <=> Completes(st, m)
        BY <2>5 DEF TapInvariant, CompletionsFollowCleanup, Completes, CompletionAt
    <2>9. MonitorInUse(r)
        BY <2>6 DEF MonitorInUse
    <2>10. MonitorsLetGo(r)
        BY <1>10, <2>5, <2>6 DEF TapInvariant, MonitorsLetGo
    <2>11. \A m \in Monitors : BeingReplaced(r, m) => m = old
        BY <1>10, <2>5, <2>6, <2>8 DEF TapInvariant, OneReplacement, BeingReplaced
    <2>12. OneReplacement(r)
        BY <2>6, <2>11 DEF OneReplacement
    <2>13. NoOwner(r)
        BY <2>6 DEF NoOwner
    <2> QED
        BY <2>4, <2>5, <2>8, <2>9, <2>10, <2>12, <2>13 DEF TapInvariant
<1> QED
    BY <1>8, <1>9, <1>10

\* A monitor that is not in use is destroyed: on its run loop, or elsewhere
\* after it was cleaned up.
LEMMA DestroyedKeeps ==
    ASSUME NEW st \in TapState, TapInvariant(st), NEW m \in Monitors,
           st.grabber.event_tap_monitor # m, NEW on_run_loop \in BOOLEAN,
           on_run_loop \/ st.monitors[m].event_tap_cleanup_completed
    PROVE  /\ tap!Destroyed(st, m, on_run_loop) \in TapState
           /\ TapInvariant(tap!Destroyed(st, m, on_run_loop))
<1> DEFINE r == tap!Destroyed(st, m, on_run_loop)
           kept == {i \in DOMAIN st.queue : st.queue[i].monitor # m}
<1>1. /\ r.grabber = st.grabber
      /\ r.monitors = [st.monitors EXCEPT ![m] = tap!NoMonitor]
      /\ r.queue = tap!Kept(st.queue, kept)
      /\ r.crashed = IF on_run_loop THEN "joined_itself"
                     ELSE IF ~ st.monitors[m].event_tap_cleanup_completed THEN "aborted"
                     ELSE st.crashed
      /\ DOMAIN r = {"grabber", "monitors", "queue", "crashed"}
      /\ r = [x \in DOMAIN r |-> r[x]]
    BY DEF TapState, tap!Destroyed
<1> HIDE DEF r
<1>2. r.crashed \in {"joined_itself", st.crashed}
    BY <1>1
<1>3. /\ r.queue \in Seq(tap!Task) /\ Shrinks(st.queue, r.queue)
      /\ \A j \in DOMAIN r.queue : \E i \in kept : r.queue[j] = st.queue[i]
    <2>1. kept \in SUBSET DOMAIN st.queue
        OBVIOUS
    <2>2. r.queue = tap!Kept(st.queue, kept) /\ st.queue \in Seq(tap!Task)
        BY <1>1 DEF TapState
    <2> HIDE DEF kept
    <2> QED
        BY <2>1, <2>2, KeptTasks
<1>4. ~ Completes(r, m)
    BY <1>3 DEF Completes, CompletionAt, tap!task
<1>5. /\ r.monitors[m] = tap!NoMonitor
      /\ \A k \in Monitors : k # m => r.monitors[k] = st.monitors[k]
    BY <1>1 DEF TapState
<1>6. tap!NoMonitor \in tap!Monitor
    BY DEF tap!NoMonitor, tap!Monitor
<1>7. r \in TapState
    <2>1. /\ st.grabber \in tap!Grabber /\ st.monitors \in [Monitors -> tap!Monitor]
          /\ st.crashed \in {"no", "dangling_callback", "aborted", "joined_itself"}
        BY DEF TapState
    <2>2. r.monitors \in [Monitors -> tap!Monitor]
        BY <1>1, <1>6, <2>1
    <2> QED
        BY <1>1, <1>2, <1>3, <2>1, <2>2 DEF TapState
<1>8. CompletionsFollowCleanup(r) /\ \A k \in Monitors : Completes(r, k) => Completes(st, k)
    BY <1>3, <1>4, <1>5, ShrinkingQueue DEF TapInvariant
<1>9. r.grabber.event_tap_monitor \in Monitors \cup {None}
    BY <1>7 DEF TapState, tap!Grabber
<1>10. MonitorInUse(r)
    BY <1>1, <1>5, <1>9 DEF TapInvariant, MonitorInUse
<1>11. ~ r.monitors[m].alive /\ ~ r.monitors[m].connected /\ ~ r.monitors[m].owned
    BY <1>5 DEF tap!NoMonitor
<1>12. MonitorsLetGo(r)
    BY <1>1, <1>5, <1>11 DEF TapInvariant, MonitorsLetGo
<1>13. \A k \in Monitors : BeingReplaced(r, k) => BeingReplaced(st, k)
    BY <1>1, <1>5, <1>8, <1>11 DEF BeingReplaced
<1>14. OneReplacement(r)
    BY <1>1, <1>13 DEF TapInvariant, OneReplacement
<1>15. NoOwner(r)
    BY <1>1, <1>5, <1>11 DEF TapInvariant, NoOwner
<1>16. TapInvariant(r)
    BY <1>2, <1>8, <1>10, <1>12, <1>14, <1>15 DEF TapInvariant
<1> QED
    BY <1>7, <1>16 DEF r

\* A task that has been taken from the queue leaves everything else as it was;
\* a completion was the only one of its monitor, which is cleaned up.
LEMMA PoppedKeeps ==
    ASSUME TapIsSafe, tap_queue # <<>>
    PROVE  /\ tap!Popped \in TapState /\ TapInvariant(tap!Popped)
           /\ tap!Popped.grabber = grabber /\ tap!Popped.monitors = monitors
           /\ tap!Popped.crashed = crashed
           /\ Head(tap_queue) \in tap!Task
           /\ \A m \in Monitors : Head(tap_queue) = tap!task("completion", m) =>
                 /\ monitors[m].alive /\ monitors[m].event_tap_cleanup_completed
                 /\ grabber.event_tap_monitor # m
                 /\ monitors[m].owned => grabber.event_tap_monitor = None
                 /\ monitors[m].owned => \A k \in Monitors : ~ BeingReplaced(tap!Popped, k)
<1> DEFINE st == tap!Current
           r == tap!Popped
<1>1. /\ st \in TapState /\ TapInvariant(st) /\ st.queue = tap_queue
      /\ st.grabber = grabber /\ st.monitors = monitors /\ st.crashed = crashed
    BY DEF TapIsSafe, tap!Current
<1>2. r = [st EXCEPT !.queue = Tail(@)]
    BY DEF tap!Popped
<1>3. r.grabber = st.grabber /\ r.monitors = st.monitors /\ r.crashed = st.crashed
      /\ r.queue = Tail(st.queue)
    BY <1>2 DEF tap!Current
<1> HIDE DEF st, r
<1>4. /\ Head(st.queue) \in tap!Task /\ r \in TapState /\ Shrinks(st.queue, r.queue)
      /\ \A m \in Monitors : Head(st.queue) = tap!task("completion", m) =>
             Completes(st, m) /\ ~ Completes(r, m)
    BY <1>1, <1>2, <1>3, NextTask DEF TapInvariant
<1>5. CompletionsFollowCleanup(r) /\ \A m \in Monitors : Completes(r, m) => Completes(st, m)
    BY <1>1, <1>3, <1>4, ShrinkingQueue DEF TapInvariant
<1>6. TapInvariant(r)
    BY <1>1, <1>3, <1>4, <1>5, AlikeKeeps DEF Alike
<1>7. ASSUME NEW m \in Monitors, Head(st.queue) = tap!task("completion", m)
      PROVE  /\ st.monitors[m].alive /\ st.monitors[m].event_tap_cleanup_completed
             /\ st.grabber.event_tap_monitor # m
             /\ st.monitors[m].owned =>
                    /\ st.grabber.event_tap_monitor = None
                    /\ \A k \in Monitors : ~ BeingReplaced(r, k)
    <2>1. st.monitors[m].alive /\ st.monitors[m].event_tap_cleanup_completed
        BY <1>1, <1>4, <1>7 DEF TapInvariant, CompletionsFollowCleanup, Completes
    <2>2. st.grabber.event_tap_monitor # m
        BY <1>1, <2>1, TapAssumption DEF TapInvariant, MonitorInUse, tap!EventTapAssumption
    <2>3. ASSUME st.monitors[m].owned
          PROVE  BeingReplaced(st, m)
        BY <1>4, <1>7, <2>1, <2>2, <2>3 DEF BeingReplaced
    <2>4. ASSUME st.monitors[m].owned
          PROVE  st.grabber.event_tap_monitor = None
        BY <1>1, <2>3, <2>4 DEF TapInvariant, OneReplacement, MonitorInUse
    <2>5. ASSUME st.monitors[m].owned, NEW k \in Monitors, BeingReplaced(r, k)
          PROVE  FALSE
        <3>1. BeingReplaced(st, k)
            BY <1>3, <1>5, <2>5 DEF BeingReplaced
        <3>2. k = m
            BY <1>1, <2>3, <2>5, <3>1 DEF TapInvariant, OneReplacement
        <3> QED
            BY <1>3, <1>4, <1>7, <2>1, <2>5, <3>2 DEF BeingReplaced
    <2> QED
        BY <2>1, <2>2, <2>4, <2>5
<1> QED
    BY <1>1, <1>3, <1>4, <1>6, <1>7 DEF r

\* receiver creates its device_grabber.
LEMMA StartKeepsTap ==
    ASSUME TapIsSafe, tap!StartDeviceGrabber
    PROVE  TapIsSafe'
<1> DEFINE st == tap!Current
           r == [st EXCEPT !.grabber = [tap!NoGrabber EXCEPT !.status = "starting"],
                           !.queue = Append(@, tap!task("async_start", None))]
<1>1. st \in TapState /\ TapInvariant(st) /\ st.grabber = grabber
    BY DEF TapIsSafe, tap!Current
<1>2. grabber.status = "none" /\ tap!Becomes(r)
    BY DEF tap!StartDeviceGrabber
<1> HIDE DEF st
<1>3. /\ r.grabber = [tap!NoGrabber EXCEPT !.status = "starting"]
      /\ r.monitors = st.monitors /\ r.crashed = st.crashed
      /\ r.queue = Append(st.queue, tap!task("async_start", None))
      /\ DOMAIN r = {"grabber", "monitors", "queue", "crashed"}
      /\ r = [x \in DOMAIN r |-> r[x]]
    BY <1>1 DEF TapState
<1> HIDE DEF r
<1>4. /\ r.grabber \in tap!Grabber /\ r.grabber.event_tap_monitor = None
      /\ r.grabber.status # "none"
    BY <1>3 DEF tap!NoGrabber, tap!Grabber
<1>5. /\ tap!task("async_start", None) \in tap!Task
      /\ tap!task("async_start", None).kind # "completion"
    BY DEF tap!task, tap!Task
<1>6. r \in TapState
    <2>1. r.queue \in Seq(tap!Task)
        BY <1>1, <1>3, <1>5 DEF TapState
    <2> QED
        BY <1>1, <1>3, <1>4, <2>1 DEF TapState
<1>7. CompletionsFollowCleanup(r) /\ \A m \in Monitors : Completes(r, m) <=> Completes(st, m)
    BY <1>1, <1>3, <1>5, OtherTaskJoins DEF TapInvariant
<1>8. \A m \in Monitors : ~ r.monitors[m].owned /\ ~ r.monitors[m].connected
    BY <1>1, <1>2, <1>3, TapAssumption DEF TapInvariant, NoOwner, MonitorsLetGo, tap!EventTapAssumption
<1>9. MonitorInUse(r)
    BY <1>4 DEF MonitorInUse
<1>10. MonitorsLetGo(r)
    BY <1>8 DEF MonitorsLetGo
<1>11. OneReplacement(r)
    BY <1>8 DEF OneReplacement, BeingReplaced
<1>12. NoOwner(r)
    BY <1>4 DEF NoOwner
<1>13. TapInvariant(r)
    BY <1>1, <1>3, <1>7, <1>9, <1>10, <1>11, <1>12 DEF TapInvariant
<1> QED
    BY <1>2, <1>6, <1>13, BecomesSafe

\* ~device_grabber stops its monitor and takes its task from the dispatcher.
LEMMA StopKeepsTap ==
    ASSUME TapIsSafe, tap!StopDeviceGrabber
    PROVE  TapIsSafe'
<1> DEFINE st == tap!Current
           old == st.grabber.event_tap_monitor
           left == [st EXCEPT !.grabber.event_tap_monitor = None]
           no == FALSE
           stopped == tap!async_stop_event_tap_monitor(st, no)
           kept == {i \in DOMAIN stopped.queue : stopped.queue[i].kind # "async_start"}
           r == [stopped EXCEPT !.grabber = tap!NoGrabber,
                     !.monitors = [m \in Monitors |-> [@[m] EXCEPT !.owned = FALSE]],
                     !.queue = tap!Kept(@, kept)]
<1>1. st \in TapState /\ TapInvariant(st)
    BY DEF TapIsSafe, tap!Current
<1>2. tap!Becomes(r)
    BY DEF tap!StopDeviceGrabber
<1>3. stopped = IF old = None THEN st ELSE tap!async_stop(left, old, no)
    BY DEF tap!async_stop_event_tap_monitor
<1> HIDE DEF st
<1>4. left \in TapState /\ left.monitors = st.monitors /\ left.queue = st.queue /\ left.crashed = st.crashed
    BY <1>1 DEF TapState, tap!Grabber
<1>5. old \in Monitors \cup {None}
    BY <1>1 DEF TapState, tap!Grabber
<1>6. no \in BOOLEAN
    OBVIOUS
<1> HIDE DEF old, left, no, stopped
<1>7. /\ stopped \in TapState /\ stopped.queue = st.queue /\ stopped.crashed = st.crashed
      /\ \A m \in Monitors :
            /\ stopped.monitors[m].alive = st.monitors[m].alive
            /\ ~ stopped.monitors[m].connected
            /\ stopped.monitors[m].event_tap_cleanup_completed =
                   st.monitors[m].event_tap_cleanup_completed
    <2>1. CASE old = None
        BY <1>1, <1>3, <2>1, TapAssumption DEF TapInvariant, MonitorsLetGo, old, tap!EventTapAssumption
    <2>2. CASE old # None
        <3>1. stopped = tap!async_stop(left, old, no) /\ old \in Monitors
            BY <1>3, <1>5, <2>2
        <3>2. \A m \in Monitors : m # old => ~ st.monitors[m].connected
            BY <1>1 DEF TapInvariant, MonitorsLetGo, old
        <3>3. /\ stopped \in TapState /\ stopped.queue = left.queue /\ stopped.crashed = left.crashed
              /\ stopped.monitors[old].alive = left.monitors[old].alive
              /\ ~ stopped.monitors[old].connected
              /\ stopped.monitors[old].event_tap_cleanup_completed =
                     left.monitors[old].event_tap_cleanup_completed
              /\ \A k \in Monitors : k # old => stopped.monitors[k] = left.monitors[k]
            BY <1>4, <1>6, <3>1, StoppedMonitor
        <3> QED
            BY <1>4, <3>2, <3>3
    <2> QED
        BY <2>1, <2>2
<1>8. /\ r.grabber = tap!NoGrabber
      /\ r.monitors = [m \in Monitors |-> [stopped.monitors[m] EXCEPT !.owned = FALSE]]
      /\ r.queue = tap!Kept(st.queue, kept) /\ r.crashed = st.crashed
      /\ DOMAIN r = {"grabber", "monitors", "queue", "crashed"}
      /\ r = [x \in DOMAIN r |-> r[x]]
    BY <1>7 DEF TapState
<1> HIDE DEF r
<1>9. r.queue \in Seq(tap!Task) /\ Shrinks(st.queue, r.queue)
    <2>1. kept \in SUBSET DOMAIN st.queue /\ st.queue \in Seq(tap!Task)
        BY <1>1, <1>7 DEF TapState
    <2> HIDE DEF kept
    <2> QED
        BY <1>8, <2>1, KeptTasks
<1>10. \A m \in Monitors :
          /\ r.monitors[m] \in tap!Monitor /\ r.monitors[m].alive = st.monitors[m].alive
          /\ ~ r.monitors[m].connected /\ ~ r.monitors[m].owned
          /\ r.monitors[m].event_tap_cleanup_completed =
                 st.monitors[m].event_tap_cleanup_completed
    <2> SUFFICES ASSUME NEW m \in Monitors
                 PROVE  /\ r.monitors[m] \in tap!Monitor
                        /\ r.monitors[m].alive = st.monitors[m].alive
                        /\ ~ r.monitors[m].connected /\ ~ r.monitors[m].owned
                        /\ r.monitors[m].event_tap_cleanup_completed =
                               st.monitors[m].event_tap_cleanup_completed
        OBVIOUS
    <2>1. stopped.monitors[m] \in tap!Monitor
        BY <1>7 DEF TapState
    <2>2. r.monitors[m] = [stopped.monitors[m] EXCEPT !.owned = FALSE]
        BY <1>8
    <2>3. r.monitors[m] \in tap!Monitor
        BY <2>1, <2>2, MonitorFields
    <2>4. /\ r.monitors[m].alive = stopped.monitors[m].alive
          /\ r.monitors[m].connected = stopped.monitors[m].connected
          /\ ~ r.monitors[m].owned
          /\ r.monitors[m].event_tap_cleanup_completed =
                 stopped.monitors[m].event_tap_cleanup_completed
        BY <2>1, <2>2 DEF tap!Monitor
    <2> QED
        BY <1>7, <2>3, <2>4
<1>11. /\ r.grabber \in tap!Grabber /\ r.grabber.event_tap_monitor = None
    BY <1>8 DEF tap!NoGrabber, tap!Grabber
<1>12. r \in TapState
    <2>1. r.monitors \in [Monitors -> tap!Monitor]
        BY <1>8, <1>10
    <2> QED
        BY <1>1, <1>8, <1>9, <1>11, <2>1 DEF TapState
<1>13. CompletionsFollowCleanup(r)
    BY <1>1, <1>9, <1>10, ShrinkingQueue DEF TapInvariant
<1>14. MonitorInUse(r)
    BY <1>11 DEF MonitorInUse
<1>15. MonitorsLetGo(r)
    BY <1>10 DEF MonitorsLetGo
<1>16. OneReplacement(r)
    BY <1>10 DEF OneReplacement, BeingReplaced
<1>17. NoOwner(r)
    BY <1>10, <1>11 DEF NoOwner
<1>18. TapInvariant(r)
    BY <1>1, <1>8, <1>13, <1>14, <1>15, <1>16, <1>17 DEF TapInvariant
<1> QED
    BY <1>2, <1>12, <1>18, BecomesSafe

\* core_configuration_updated sets up a monitor with the new configuration.
LEMMA ConfigurationKeepsTap ==
    ASSUME TapIsSafe, NEW value \in BOOLEAN, tap!ConfigurationUpdated(value)
    PROVE  TapIsSafe'
<1> DEFINE st == tap!Current
           a == [st EXCEPT !.grabber.cgeventtap_fallback_enabled = value]
<1>1. st \in TapState /\ TapInvariant(st) /\ st.grabber = grabber /\ st.monitors = monitors
    BY DEF TapIsSafe, tap!Current
<1>2. PICK new \in tap!Free : tap!Becomes(tap!setup_event_tap_monitor(a, value, new))
    BY DEF tap!ConfigurationUpdated
<1>3. st.grabber.status = "running"
    BY <1>1 DEF tap!ConfigurationUpdated
<1>4. new \in Monitors /\ ~ st.monitors[new].alive
    BY <1>1 DEF tap!Free
<1> HIDE DEF st
<1>5. /\ a \in TapState /\ a.monitors = st.monitors /\ a.queue = st.queue
      /\ a.crashed = st.crashed
      /\ a.grabber.event_tap_monitor = st.grabber.event_tap_monitor
      /\ a.grabber.event_tap_monitor_stopping = st.grabber.event_tap_monitor_stopping
      /\ a.grabber.status = st.grabber.status
    BY <1>1 DEF TapState, tap!Grabber
<1> HIDE DEF a
<1>6. CompletionsFollowCleanup(a) /\ \A m \in Monitors : Completes(a, m) => Completes(st, m)
    BY <1>1, <1>5 DEF TapInvariant, CompletionsFollowCleanup, Completes, CompletionAt
<1>7. TapInvariant(a)
    BY <1>1, <1>5, <1>6, AlikeKeeps DEF Alike
<1>8. /\ tap!setup_event_tap_monitor(a, value, new) \in TapState
      /\ TapInvariant(tap!setup_event_tap_monitor(a, value, new))
    BY <1>3, <1>4, <1>5, <1>7, SetupKeeps
<1> QED
    BY <1>2, <1>8, BecomesSafe

\* The task of async_start sets up the first monitor.
LEMMA AsyncStartKeepsTap ==
    ASSUME TapIsSafe, tap!AsyncStart
    PROVE  TapIsSafe'
<1> DEFINE st == tap!Popped
           a == [st EXCEPT !.grabber.status = "running"]
           no == FALSE
<1>1. PICK new \in tap!Free : tap!Becomes(tap!setup_event_tap_monitor(a, no, new))
    BY DEF tap!AsyncStart
<1>2. st \in TapState /\ TapInvariant(st) /\ st.monitors = monitors
    BY PoppedKeeps DEF tap!AsyncStart, tap!Runs
<1>3. new \in Monitors /\ ~ st.monitors[new].alive
    BY <1>2 DEF tap!Free
<1>4. no \in BOOLEAN
    OBVIOUS
<1> HIDE DEF st, no
<1>5. /\ a \in TapState /\ a.monitors = st.monitors /\ a.queue = st.queue
      /\ a.crashed = st.crashed
      /\ a.grabber.event_tap_monitor = st.grabber.event_tap_monitor
      /\ a.grabber.event_tap_monitor_stopping = st.grabber.event_tap_monitor_stopping
      /\ a.grabber.status = "running"
    BY <1>2 DEF TapState, tap!Grabber
<1> HIDE DEF a
<1>6. CompletionsFollowCleanup(a) /\ \A m \in Monitors : Completes(a, m) => Completes(st, m)
    BY <1>2, <1>5 DEF TapInvariant, CompletionsFollowCleanup, Completes, CompletionAt
<1>7. TapInvariant(a)
    BY <1>2, <1>5, <1>6, AlikeKeeps DEF Alike
<1>8. /\ tap!setup_event_tap_monitor(a, no, new) \in TapState
      /\ TapInvariant(tap!setup_event_tap_monitor(a, no, new))
    BY <1>3, <1>4, <1>5, <1>7, SetupKeeps
<1> QED
    BY <1>1, <1>8, BecomesSafe

\* A change of one monitor that the invariant does not look at.
LEMMA UnseenChange ==
    ASSUME NEW st \in TapState, TapInvariant(st), NEW m \in Monitors,
           NEW x \in tap!Monitor,
           x.alive = st.monitors[m].alive, x.owned = st.monitors[m].owned,
           x.connected = st.monitors[m].connected,
           x.continues = st.monitors[m].continues,
           x.event_tap_cleanup_completed = st.monitors[m].event_tap_cleanup_completed,
           st.monitors[m].block = "none" => x.block = "none"
    PROVE  WithMonitor(st, m, x) \in TapState /\ TapInvariant(WithMonitor(st, m, x))
<1> DEFINE r == WithMonitor(st, m, x)
<1>1. /\ r \in TapState /\ r.grabber = st.grabber /\ r.queue = st.queue
      /\ r.crashed = st.crashed /\ r.monitors[m] = x
      /\ \A k \in Monitors : k # m => r.monitors[k] = st.monitors[k]
    BY OneMonitorChanges
<1> HIDE DEF r
<1>2. CompletionsFollowCleanup(r) /\ \A k \in Monitors : Completes(r, k) => Completes(st, k)
    BY <1>1 DEF TapInvariant, CompletionsFollowCleanup, Completes, CompletionAt
<1>3. Alike(st, r)
    BY <1>1 DEF Alike
<1>4. TapInvariant(r)
    BY <1>1, <1>2, <1>3, AlikeKeeps
<1> QED
    BY <1>1, <1>4 DEF r

\* The task of the monitor's async_start creates its tap, or does not.
LEMMA TapStartKeepsTap ==
    ASSUME TapIsSafe, tap!Start
    PROVE  TapIsSafe'
<1> DEFINE st == tap!Popped
           m == Head(tap_queue).monitor
           x == [st.monitors[m] EXCEPT !.start_tried = TRUE]
<1>1. st \in TapState /\ TapInvariant(st) /\ Head(tap_queue) \in tap!Task
    BY PoppedKeeps DEF tap!Start, tap!Runs
<1>2. m \in Monitors
    BY <1>1 DEF tap!Start, tap!Runs, tap!Task
<1>3. PICK to \in {"enabled", "none"} :
          tap!Becomes([st EXCEPT !.monitors[m].start_tried = TRUE,
                                 !.monitors[m].event_tap = IF @ # "none" THEN @ ELSE to])
    BY DEF tap!Start
<1>4. tap!Becomes(WithMonitor(WithMonitor(st, m, x), m,
          [WithMonitor(st, m, x).monitors[m] EXCEPT
              !.event_tap = IF @ # "none" THEN @ ELSE to]))
    BY <1>3 DEF WithMonitor
<1> HIDE DEF st, m
<1>5. st.monitors[m] \in tap!Monitor
    BY <1>1, <1>2 DEF TapState
<1>6. x \in tap!Monitor
    BY <1>5, MonitorFields
<1>7. /\ x.alive = st.monitors[m].alive /\ x.owned = st.monitors[m].owned
      /\ x.connected = st.monitors[m].connected /\ x.continues = st.monitors[m].continues
      /\ x.event_tap_cleanup_completed = st.monitors[m].event_tap_cleanup_completed
      /\ x.block = st.monitors[m].block
    BY <1>5 DEF tap!Monitor
<1> HIDE DEF x
<1> DEFINE a == WithMonitor(st, m, x)
<1>8. a \in TapState /\ TapInvariant(a) /\ a.monitors[m] = x
    BY <1>1, <1>2, <1>6, <1>7, UnseenChange, OneMonitorChanges
<1> DEFINE z == [a.monitors[m] EXCEPT !.event_tap = IF @ # "none" THEN @ ELSE to]
<1> HIDE DEF a
<1>9. z \in tap!Monitor
    <2>1. x.event_tap \in {"none", "enabled", "disabled"}
        BY <1>6 DEF tap!Monitor
    <2> QED
        BY <1>6, <1>8, <2>1, MonitorFields
<1>10. /\ z.alive = x.alive /\ z.owned = x.owned
       /\ z.connected = x.connected /\ z.continues = x.continues
       /\ z.event_tap_cleanup_completed = x.event_tap_cleanup_completed
       /\ z.block = x.block
    BY <1>6, <1>8 DEF tap!Monitor
<1>11. tap!Becomes(WithMonitor(a, m, z))
    BY <1>4 DEF a
<1> HIDE DEF z
<1>12. WithMonitor(a, m, z) \in TapState /\ TapInvariant(WithMonitor(a, m, z))
    BY <1>2, <1>8, <1>9, <1>10, UnseenChange
<1> QED
    BY <1>11, <1>12, BecomesSafe

\* An event reaches a device_grabber that lives: its monitor is connected.
LEMMA EventKeepsTap ==
    ASSUME TapIsSafe, tap!Event
    PROVE  TapIsSafe'
<1> DEFINE st == tap!Popped
           m == Head(tap_queue).monitor
<1>1. /\ st \in TapState /\ TapInvariant(st) /\ Head(tap_queue) \in tap!Task
      /\ st.monitors = monitors /\ st.grabber = grabber
    BY PoppedKeeps DEF tap!Event, tap!Runs
<1>2. m \in Monitors
    BY <1>1 DEF tap!Event, tap!Runs, tap!Task
<1>3. tap!Becomes([st EXCEPT !.crashed =
          IF monitors[m].connected /\ ~ monitors[m].owned THEN "dangling_callback" ELSE @])
    BY DEF tap!Event
<1> HIDE DEF st, m
<1>4. ~ (monitors[m].connected /\ ~ monitors[m].owned)
    BY <1>1, <1>2, TapAssumption DEF TapInvariant, MonitorsLetGo, MonitorInUse, tap!EventTapAssumption
<1>5. tap!Becomes(st)
    BY <1>1, <1>3, <1>4 DEF tap!Becomes, TapState
<1> QED
    BY <1>1, <1>5, BecomesSafe

\* The run loop hands an event to the dispatcher.
LEMMA CallbackKeepsTap ==
    ASSUME TapIsSafe, NEW m \in Monitors, tap!Callback(m)
    PROVE  TapIsSafe'
<1> DEFINE st == tap!Current
           r == [st EXCEPT !.queue = Append(@, tap!task("event", m))]
<1>1. st \in TapState /\ TapInvariant(st)
    BY DEF TapIsSafe, tap!Current
<1>2. tap!Becomes(r)
    BY DEF tap!Callback
<1> HIDE DEF st
<1>3. tap!task("event", m) \in tap!Task /\ tap!task("event", m).kind # "completion"
    BY DEF tap!task, tap!Task
<1>4. /\ r \in TapState /\ r.grabber = st.grabber /\ r.monitors = st.monitors
      /\ r.crashed = st.crashed /\ r.queue = Append(st.queue, tap!task("event", m))
    <2>1. Append(st.queue, tap!task("event", m)) \in Seq(tap!Task)
        BY <1>1, <1>3 DEF TapState
    <2> QED
        BY <1>1, <2>1 DEF TapState
<1> HIDE DEF r
<1>5. CompletionsFollowCleanup(r) /\ \A k \in Monitors : Completes(r, k) <=> Completes(st, k)
    BY <1>1, <1>3, <1>4, OtherTaskJoins DEF TapInvariant
<1>6. TapInvariant(r)
    BY <1>1, <1>4, <1>5, AlikeKeeps DEF Alike
<1> QED
    BY <1>2, <1>4, <1>6, BecomesSafe

\* A tap is disabled by the system, or enabled again by its callback.
LEMMA EnablingKeepsTap ==
    ASSUME TapIsSafe, NEW m \in Monitors, tap!ReEnable(m) \/ tap!DisabledBySystem(m)
    PROVE  TapIsSafe'
<1> DEFINE st == tap!Current
           x(to) == [st.monitors[m] EXCEPT !.event_tap = to]
<1>1. st \in TapState /\ TapInvariant(st)
    BY DEF TapIsSafe, tap!Current
<1>2. PICK to \in {"none", "enabled", "disabled"} : tap!Becomes(WithMonitor(st, m, x(to)))
    BY DEF tap!ReEnable, tap!DisabledBySystem, WithMonitor
<1> HIDE DEF st
<1>3. st.monitors[m] \in tap!Monitor
    BY <1>1 DEF TapState
<1>4. x(to) \in tap!Monitor
    BY <1>3, MonitorFields
<1>5. /\ x(to).alive = st.monitors[m].alive /\ x(to).owned = st.monitors[m].owned
      /\ x(to).connected = st.monitors[m].connected
      /\ x(to).continues = st.monitors[m].continues
      /\ x(to).event_tap_cleanup_completed = st.monitors[m].event_tap_cleanup_completed
      /\ x(to).block = st.monitors[m].block
    BY <1>3 DEF tap!Monitor
<1> HIDE DEF x
<1>6. WithMonitor(st, m, x(to)) \in TapState /\ TapInvariant(WithMonitor(st, m, x(to)))
    BY <1>1, <1>4, <1>5, UnseenChange
<1> QED
    BY <1>2, <1>6, BecomesSafe

\* The run loop lets the block of async_stop go: the last reference goes with it
\* when the completion has run.
LEMMA BlockReleasedKeepsTap ==
    ASSUME TapIsSafe, NEW m \in Monitors, tap!BlockReleased(m)
    PROVE  TapIsSafe'
<1> DEFINE st == tap!Current
           x == [st.monitors[m] EXCEPT !.block = "none"]
           r == WithMonitor(st, m, x)
           yes == TRUE
<1>1. st \in TapState /\ TapInvariant(st) /\ st.monitors = monitors
    BY DEF TapIsSafe, tap!Current
<1>2. st.monitors[m].block = "executed"
    BY <1>1 DEF tap!BlockReleased
<1>3. tap!Becomes(r) \/ tap!Becomes(tap!Destroyed(r, m, yes))
    BY DEF tap!BlockReleased, WithMonitor
<1>4. yes \in BOOLEAN /\ yes
    OBVIOUS
<1> HIDE DEF st, yes
<1>5. st.monitors[m] \in tap!Monitor
    BY <1>1 DEF TapState
<1>6. x \in tap!Monitor
    BY <1>5, MonitorFields
<1>7. /\ x.alive = st.monitors[m].alive /\ x.owned = st.monitors[m].owned
      /\ x.connected = st.monitors[m].connected /\ x.continues = st.monitors[m].continues
      /\ x.event_tap_cleanup_completed = st.monitors[m].event_tap_cleanup_completed
      /\ x.block = "none"
    BY <1>5 DEF tap!Monitor
<1> HIDE DEF x
<1>8. r \in TapState /\ TapInvariant(r) /\ r.grabber = st.grabber
    BY <1>1, <1>6, <1>7, UnseenChange, OneMonitorChanges
<1>9. st.grabber.event_tap_monitor # m
    BY <1>1, <1>2, TapAssumption DEF TapInvariant, MonitorInUse, tap!EventTapAssumption
<1> HIDE DEF r
<1>10. /\ tap!Destroyed(r, m, yes) \in TapState
       /\ TapInvariant(tap!Destroyed(r, m, yes))
    BY <1>4, <1>8, <1>9, DestroyedKeeps
<1> QED
    BY <1>3, <1>8, <1>10, BecomesSafe

\* The block of async_stop cleans the tap up and sends the completion.
LEMMA CleanupKeepsTap ==
    ASSUME TapIsSafe, NEW m \in Monitors, tap!Cleanup(m)
    PROVE  TapIsSafe'
<1> DEFINE st == tap!Current
           done == tap!task("completion", m)
           x == [[[st.monitors[m] EXCEPT !.event_tap = "none"]
                      EXCEPT !.event_tap_cleanup_completed = TRUE]
                      EXCEPT !.block = "executed"]
           r == [st EXCEPT !.monitors[m].event_tap = "none",
                           !.monitors[m].event_tap_cleanup_completed = TRUE,
                           !.monitors[m].block = "executed",
                           !.queue = Append(@, done)]
<1>1. st \in TapState /\ TapInvariant(st) /\ st.monitors = monitors
    BY DEF TapIsSafe, tap!Current
<1>2. /\ st.monitors[m].alive /\ ~ st.monitors[m].event_tap_cleanup_completed
      /\ st.monitors[m].block = "queued"
    BY <1>1 DEF tap!Cleanup, tap!RunLoopRuns
<1>3. tap!Becomes(r)
    BY DEF tap!Cleanup
<1> HIDE DEF st
<1>4. /\ r.grabber = st.grabber /\ r.monitors = [st.monitors EXCEPT ![m] = x]
      /\ r.queue = Append(st.queue, done) /\ r.crashed = st.crashed
      /\ DOMAIN r = {"grabber", "monitors", "queue", "crashed"}
      /\ r = [k \in DOMAIN r |-> r[k]]
    BY <1>1 DEF TapState
<1> HIDE DEF r
<1>5. st.monitors[m] \in tap!Monitor
    BY <1>1 DEF TapState
<1>6. x \in tap!Monitor
    BY <1>5, MonitorFields
<1>7. /\ x.alive /\ x.owned = st.monitors[m].owned
      /\ x.connected = st.monitors[m].connected /\ x.continues = st.monitors[m].continues
      /\ x.event_tap_cleanup_completed
    BY <1>2, <1>5 DEF tap!Monitor
<1> HIDE DEF x
<1>8. /\ r.monitors[m] = x /\ \A k \in Monitors : k # m => r.monitors[k] = st.monitors[k]
    BY <1>1, <1>4 DEF TapState
<1>9. done \in tap!Task /\ \A k \in Monitors : done = tap!task("completion", k) => k = m
    BY DEF tap!task, tap!Task
<1>10. st.queue \in Seq(tap!Task) /\ r.queue \in Seq(tap!Task)
    BY <1>1, <1>4, <1>9 DEF TapState
<1>11. r \in TapState
    <2>1. r.monitors \in [Monitors -> tap!Monitor]
        BY <1>1, <1>4, <1>6 DEF TapState
    <2> QED
        BY <1>1, <1>4, <1>10, <2>1 DEF TapState
<1>12. /\ DOMAIN st.queue = 1..Len(st.queue) /\ DOMAIN r.queue = 1..(Len(st.queue) + 1)
       /\ Len(st.queue) \in Nat /\ r.queue[Len(st.queue) + 1] = done
       /\ \A i \in 1..Len(st.queue) : r.queue[i] = st.queue[i]
    BY <1>4, <1>9, <1>10
<1>13. ~ Completes(st, m)
    BY <1>1, <1>2 DEF TapInvariant, CompletionsFollowCleanup, Completes
<1>14. \A i \in DOMAIN r.queue : CompletionAt(r, i, m) <=> i = Len(st.queue) + 1
    BY <1>12, <1>13 DEF Completes, CompletionAt, done
<1>15. \A k \in Monitors : k # m =>
           \A i : i \in DOMAIN r.queue /\ CompletionAt(r, i, k) <=>
                  i \in DOMAIN st.queue /\ CompletionAt(st, i, k)
    <2> SUFFICES ASSUME NEW k \in Monitors, k # m, NEW i
                 PROVE  i \in DOMAIN r.queue /\ CompletionAt(r, i, k) <=>
                        i \in DOMAIN st.queue /\ CompletionAt(st, i, k)
        OBVIOUS
    <2>1. done # tap!task("completion", k)
        BY <1>9
    <2> HIDE DEF done
    <2> QED
        BY <1>12, <2>1 DEF CompletionAt
<1>16. CompletionsFollowCleanup(r)
    <2>1. ASSUME NEW k \in Monitors, k # m, NEW i \in DOMAIN r.queue, CompletionAt(r, i, k)
          PROVE  /\ r.monitors[k].alive /\ r.monitors[k].event_tap_cleanup_completed
                 /\ \A j \in DOMAIN r.queue : CompletionAt(r, j, k) => j = i
        BY <1>1, <1>8, <1>15, <2>1 DEF TapInvariant, CompletionsFollowCleanup
    <2>2. /\ r.monitors[m].alive /\ r.monitors[m].event_tap_cleanup_completed
          /\ \A i, j \in DOMAIN r.queue : CompletionAt(r, i, m) /\ CompletionAt(r, j, m) => j = i
        BY <1>7, <1>8, <1>14
    <2> QED
        BY <2>1, <2>2 DEF CompletionsFollowCleanup
<1>17. \A k \in Monitors : BeingReplaced(r, k) => BeingReplaced(st, k)
    BY <1>2, <1>4, <1>7, <1>8, <1>15 DEF BeingReplaced, Completes
<1>18. st.grabber.event_tap_monitor # m
    BY <1>1, <1>2, TapAssumption DEF TapInvariant, MonitorInUse, tap!EventTapAssumption
<1>19. r.grabber.event_tap_monitor \in Monitors \cup {None}
    BY <1>11 DEF TapState, tap!Grabber
<1>20. MonitorInUse(r)
    BY <1>1, <1>4, <1>8, <1>18, <1>19 DEF TapInvariant, MonitorInUse
<1>21. MonitorsLetGo(r)
    BY <1>1, <1>2, <1>4, <1>7, <1>8 DEF TapInvariant, MonitorsLetGo
<1>22. OneReplacement(r)
    BY <1>1, <1>4, <1>17 DEF TapInvariant, OneReplacement
<1>23. NoOwner(r)
    BY <1>1, <1>4, <1>7, <1>8 DEF TapInvariant, NoOwner
<1>24. TapInvariant(r)
    BY <1>1, <1>4, <1>16, <1>20, <1>21, <1>22, <1>23 DEF TapInvariant
<1> QED
    BY <1>3, <1>11, <1>24, BecomesSafe

\* The completion goes on to the pending configuration, for the device_grabber
\* it belongs to, and drops its reference.
LEMMA CompletionKeepsTap ==
    ASSUME TapIsSafe, tap!Completion
    PROVE  TapIsSafe'
<1> DEFINE st == tap!Popped
           m == Head(tap_queue).monitor
           resumed == [st EXCEPT !.grabber.event_tap_monitor_stopping = FALSE]
           no == FALSE
<1>1. /\ st \in TapState /\ TapInvariant(st) /\ Head(tap_queue) \in tap!Task
      /\ st.monitors = monitors /\ st.grabber = grabber
    BY PoppedKeeps DEF tap!Completion, tap!Runs
<1>2. m \in Monitors /\ Head(tap_queue) = tap!task("completion", m)
    BY <1>1 DEF tap!Completion, tap!Runs, tap!Task, tap!task
<1>3. /\ monitors[m].alive /\ monitors[m].event_tap_cleanup_completed
      /\ grabber.event_tap_monitor # m
      /\ monitors[m].owned => /\ grabber.event_tap_monitor = None
                              /\ \A k \in Monitors : ~ BeingReplaced(st, k)
    BY <1>2, PoppedKeeps DEF tap!Completion, tap!Runs
<1>4. \/ /\ monitors[m].owned
         /\ \E new \in tap!Free : tap!Becomes(tap!CompletionDropped(
                tap!create_pending_event_tap_monitor(resumed, new), m))
      \/ tap!Becomes(tap!CompletionDropped(st, m))
    BY DEF tap!Completion
<1> HIDE DEF st, m, resumed
<1>5. ASSUME NEW s \in TapState, TapInvariant(s), s.grabber.event_tap_monitor # m,
             s.monitors[m].event_tap_cleanup_completed
      PROVE  tap!CompletionDropped(s, m) \in TapState /\ TapInvariant(tap!CompletionDropped(s, m))
    <2>1. no \in BOOLEAN
        OBVIOUS
    <2>2. tap!CompletionDropped(s, m) \in {s, tap!Destroyed(s, m, no)}
        BY DEF tap!CompletionDropped
    <2> HIDE DEF no
    <2>3. tap!Destroyed(s, m, no) \in TapState /\ TapInvariant(tap!Destroyed(s, m, no))
        BY <1>2, <1>5, <2>1, DestroyedKeeps
    <2> QED
        BY <1>5, <2>2, <2>3
<1>6. CASE tap!Becomes(tap!CompletionDropped(st, m))
    <2>1. tap!CompletionDropped(st, m) \in TapState /\ TapInvariant(tap!CompletionDropped(st, m))
        BY <1>1, <1>3, <1>5
    <2> QED
        BY <1>6, <2>1, BecomesSafe
<1>7. CASE /\ monitors[m].owned
           /\ \E new \in tap!Free : tap!Becomes(tap!CompletionDropped(
                  tap!create_pending_event_tap_monitor(resumed, new), m))
    <2>1. PICK new \in tap!Free : tap!Becomes(tap!CompletionDropped(
              tap!create_pending_event_tap_monitor(resumed, new), m))
        BY <1>7
    <2>2. new \in Monitors /\ ~ monitors[new].alive
        BY DEF tap!Free
    <2>3. /\ resumed \in TapState /\ resumed.monitors = st.monitors
          /\ resumed.queue = st.queue /\ resumed.crashed = st.crashed
          /\ resumed.grabber.event_tap_monitor = None
          /\ ~ resumed.grabber.event_tap_monitor_stopping
          /\ resumed.grabber.status = st.grabber.status
        BY <1>1, <1>3, <1>7 DEF TapState, tap!Grabber, resumed
    <2>4. /\ CompletionsFollowCleanup(resumed)
          /\ \A k \in Monitors : Completes(resumed, k) <=> Completes(st, k)
        BY <1>1, <2>3 DEF TapInvariant, CompletionsFollowCleanup, Completes, CompletionAt
    <2>5. \A k \in Monitors : ~ BeingReplaced(resumed, k)
        BY <1>1, <1>3, <1>7, <2>3, <2>4 DEF BeingReplaced
    <2>6. TapInvariant(resumed)
        <3>1. MonitorInUse(resumed)
            BY <2>3 DEF MonitorInUse
        <3>2. MonitorsLetGo(resumed)
            BY <1>1, <1>3, <1>7, <2>3 DEF TapInvariant, MonitorsLetGo
        <3>3. OneReplacement(resumed)
            BY <2>5 DEF OneReplacement
        <3>4. NoOwner(resumed)
            BY <1>1, <2>3 DEF TapInvariant, NoOwner
        <3> QED
            BY <1>1, <2>3, <2>4, <3>1, <3>2, <3>3, <3>4 DEF TapInvariant
    <2>7. resumed.grabber.status # "none"
        BY <1>1, <1>2, <1>7, <2>3 DEF TapInvariant, NoOwner
    <2> DEFINE c == tap!create_pending_event_tap_monitor(resumed, new)
    <2>8. c \in TapState /\ TapInvariant(c)
        BY <1>1, <2>2, <2>3, <2>6, <2>7, CreateKeeps
    <2>9. new # m
        BY <1>3, <2>2
    <2>10. c.grabber.event_tap_monitor # m /\ c.monitors[m].event_tap_cleanup_completed
        <3>1. /\ c.grabber.event_tap_monitor \in {None, new}
              /\ c.monitors[m] = resumed.monitors[m]
            <4>1. resumed.grabber \in tap!Grabber /\ resumed.monitors \in [Monitors -> tap!Monitor]
                BY <2>3 DEF TapState
            <4>2. CASE resumed.grabber.pending_event_tap_monitor_configuration = None
                BY <2>3, <4>2 DEF tap!create_pending_event_tap_monitor
            <4>3. CASE resumed.grabber.pending_event_tap_monitor_configuration # None
                <5> DEFINE fresh == [tap!NoMonitor EXCEPT !.alive = TRUE, !.owned = TRUE,
                        !.cgeventtap_fallback_enabled =
                            resumed.grabber.pending_event_tap_monitor_configuration,
                        !.connected = TRUE]
                <5>1. c = [resumed EXCEPT
                              !.grabber.pending_event_tap_monitor_configuration = None,
                              !.grabber.event_tap_monitor = new,
                              !.monitors[new] = fresh,
                              !.queue = Append(@, tap!task("start", new))]
                    BY <4>3 DEF tap!create_pending_event_tap_monitor
                <5> HIDE DEF c, fresh
                <5>2. /\ c.grabber = [resumed.grabber EXCEPT
                                         !.pending_event_tap_monitor_configuration = None,
                                         !.event_tap_monitor = new]
                      /\ c.monitors = [resumed.monitors EXCEPT ![new] = fresh]
                    BY <2>3, <5>1 DEF TapState
                <5> QED
                    BY <1>2, <2>9, <4>1, <5>2 DEF tap!Grabber
            <4> QED
                BY <4>2, <4>3
        <3> QED
            BY <1>1, <1>2, <1>3, <2>3, <2>9, <3>1, TapAssumption DEF tap!EventTapAssumption
    <2> HIDE DEF c
    <2>11. tap!CompletionDropped(c, m) \in TapState /\ TapInvariant(tap!CompletionDropped(c, m))
        BY <1>5, <2>8, <2>10
    <2> QED
        BY <2>1, <2>11, BecomesSafe DEF c
<1> QED
    BY <1>4, <1>6, <1>7

\* The initial states satisfy the invariant.
LEMMA TapStartsSafe ==
    ASSUME CaptureInit
    PROVE  TapIsSafe
<1>1. /\ grabber = tap!NoGrabber /\ monitors = [m \in Monitors |-> tap!NoMonitor]
      /\ tap_queue = <<>> /\ crashed = "no"
    BY DEF CaptureInit, tap!Init
<1>2. tap!NoGrabber \in tap!Grabber /\ tap!NoMonitor \in tap!Monitor
    BY DEF tap!NoGrabber, tap!Grabber, tap!NoMonitor, tap!Monitor
<1>3. tap_queue \in Seq(tap!Task) /\ DOMAIN tap_queue = {}
    BY <1>1
<1>4. tap!Current \in TapState
    BY <1>1, <1>2, <1>3 DEF TapState, tap!Current
<1>5. /\ grabber.event_tap_monitor = None
      /\ \A m \in Monitors : ~ monitors[m].connected /\ ~ monitors[m].owned
    BY <1>1 DEF tap!NoGrabber, tap!NoMonitor
<1>6. MonitorInUse(tap!Current)
    BY <1>5 DEF MonitorInUse, tap!Current
<1>7. MonitorsLetGo(tap!Current)
    BY <1>5 DEF MonitorsLetGo, tap!Current
<1>8. OneReplacement(tap!Current)
    BY <1>5 DEF OneReplacement, BeingReplaced, tap!Current
<1>9. CompletionsFollowCleanup(tap!Current)
    BY <1>3 DEF CompletionsFollowCleanup, tap!Current
<1>10. NoOwner(tap!Current)
    BY <1>5 DEF NoOwner, tap!Current
<1>11. tap!Current.crashed = "no"
    BY <1>1 DEF tap!Current
<1> QED
    BY <1>4, <1>6, <1>7, <1>8, <1>9, <1>10, <1>11 DEF TapIsSafe, TapInvariant

\* Every action keeps the invariant.
LEMMA TapStaysSafe ==
    ASSUME TapIsSafe, [CaptureNext]_all
    PROVE  TapIsSafe'
<1>1. ASSUME UNCHANGED tap_vars
      PROVE  TapIsSafe'
    <2>1. tap!Current' = tap!Current
        BY <1>1 DEF tap_vars, tap!Current
    <2> QED
        BY <2>1 DEF TapIsSafe
<1>2. ASSUME tap!Next
      PROVE  TapIsSafe'
    <2>1. CASE tap!StartDeviceGrabber
        BY <2>1, StartKeepsTap
    <2>2. CASE tap!StopDeviceGrabber
        BY <2>2, StopKeepsTap
    <2>3. ASSUME NEW value \in BOOLEAN, tap!ConfigurationUpdated(value)
          PROVE  TapIsSafe'
        BY <2>3, ConfigurationKeepsTap
    <2>4. CASE tap!AsyncStart
        BY <2>4, AsyncStartKeepsTap
    <2>5. CASE tap!Start
        BY <2>5, TapStartKeepsTap
    <2>6. CASE tap!Event
        BY <2>6, EventKeepsTap
    <2>7. CASE tap!Completion
        BY <2>7, CompletionKeepsTap
    <2>8. ASSUME NEW m \in Monitors, tap!Callback(m)
          PROVE  TapIsSafe'
        BY <2>8, CallbackKeepsTap
    <2>9. ASSUME NEW m \in Monitors, tap!ReEnable(m) \/ tap!DisabledBySystem(m)
          PROVE  TapIsSafe'
        BY <2>9, EnablingKeepsTap
    <2>10. ASSUME NEW m \in Monitors, tap!Cleanup(m)
           PROVE  TapIsSafe'
        BY <2>10, CleanupKeepsTap
    <2>11. ASSUME NEW m \in Monitors, tap!BlockReleased(m)
           PROVE  TapIsSafe'
        BY <2>11, BlockReleasedKeepsTap
    <2> QED
        BY <1>2, <2>1, <2>2, <2>3, <2>4, <2>5, <2>6, <2>7, <2>8, <2>9, <2>10, <2>11
        DEF tap!Next, tap!RunTask
<1> QED
    BY <1>1, <1>2 DEF CaptureNext, InDevices, InTap, all

\* Every value of the event tap's part has its type, and one monitor is replaced
\* at a time: setup_event_tap_monitor, async_stop and the completion together.
THEOREM TapSafety == CaptureSpec => [](tap!TypeOK /\ TapIsSafe)
<1>1. CaptureInit => TapIsSafe
    BY TapStartsSafe
<1>2. TapIsSafe /\ [CaptureNext]_all => TapIsSafe'
    BY TapStaysSafe
<1>3. TapIsSafe => tap!TypeOK
    BY DEF TapIsSafe, TapState, tap!Current, tap!TypeOK
<1> QED
    BY <1>1, <1>2, <1>3, PTL DEF CaptureSpec

\* However configurations, callbacks and completions interleave, the monitors of
\* one device_grabber never listen two at a time (setup_event_tap_monitor).
THEOREM OneTapListens == CaptureSpec => []AtMostOneTapListens
<1>1. ASSUME TapIsSafe
      PROVE  AtMostOneTapListens
    <2> DEFINE st == tap!Current
    <2>1. st.grabber = grabber /\ st.monitors = monitors /\ TapInvariant(st)
        BY <1>1 DEF TapIsSafe, tap!Current
    <2> HIDE DEF st
    <2>2. ASSUME NEW m \in Monitors, monitors[m].owned, tap!Listening(m)
          PROVE  m = grabber.event_tap_monitor \/ BeingReplaced(st, m)
        BY <2>1, <2>2 DEF tap!Listening, tap!RunLoopRuns, BeingReplaced
    <2>3. ASSUME NEW m \in Monitors, NEW n \in Monitors, monitors[m].owned,
                 monitors[n].owned, tap!Listening(m), tap!Listening(n)
          PROVE  m = n
        <3>1. ASSUME NEW k \in Monitors, BeingReplaced(st, k)
              PROVE  grabber.event_tap_monitor \notin Monitors
            BY <2>1, <3>1, TapAssumption
            DEF TapInvariant, OneReplacement, MonitorInUse, tap!EventTapAssumption
        <3>2. CASE m = grabber.event_tap_monitor
            BY <2>2, <2>3, <3>1, <3>2
        <3>3. CASE BeingReplaced(st, m)
            BY <2>1, <2>2, <2>3, <3>1, <3>3 DEF TapInvariant, OneReplacement
        <3> QED
            BY <2>2, <2>3, <3>2, <3>3
    <2> QED
        BY <2>3 DEF AtMostOneTapListens, tap!AtMostOneTapListens
<1> QED
    BY <1>1, TapSafety, PTL

\* No event calls a device_grabber that was destroyed, and no monitor is destroyed
\* before its tap is cleaned up, whoever drops the last reference (async_stop).
THEOREM StoppedMonitors == CaptureSpec => []StoppedMonitorsAreSafe
<1>1. TapIsSafe => StoppedMonitorsAreSafe
    BY DEF TapIsSafe, TapInvariant, tap!Current, StoppedMonitorsAreSafe, tap!StoppedMonitorsAreSafe
<1> QED
    BY <1>1, TapSafety, PTL
=============================================================================
