--------------------------- MODULE LastStageProofs ---------------------------
(***************************************************************************)
(* Proofs about post_event_to_virtual_devices, for any keys, flags,        *)
(* buttons, devices and times: the report follows the dispatcher, and      *)
(* nothing stays down on the virtual devices when the physical ones are    *)
(* up: keys and buttons because the stage forgets them with their devices, *)
(* modifiers because no plain entry outlives what its device holds and the *)
(* flags remembered as pressed are those whose entries sum up to more than *)
(* zero.  The theorems are about the stage without the event tap fallback. *)
(***************************************************************************)
EXTENDS PostEventToVirtualDevices, SubsequenceProofs

OrdinaryUsages == Usages \ ModifierUsages

-----------------------------------------------------------------------------
(* Snapshots: the last event of a kind has the value under construction.    *)

\* The events of a page, and the pointing events, with what they carry.
OfPage(p) == {e \in Q!Event : e.page = p}
ReportOf == [e \in Q!Event |-> e.report]
Pointing == {e \in Q!Event : e.kind = "pointing"}
ButtonsOf == [e \in Q!Event |-> e.buttons]

\* The last event in P carries v; without one, the device has at most v.
Snapshot(events, P, carried, device, v) ==
    \/ /\ \A i \in DOMAIN events : events[i] \notin P
       /\ device \subseteq v
    \/ \E i \in DOMAIN events :
           /\ events[i] \in P /\ carried[events[i]] = v
           /\ \A k \in DOMAIN events : events[k] \in P => k <= i

\* One more event, of the kind in question or of another.
LEMMA SnapshotAppended ==
    ASSUME NEW T, NEW events \in Seq(T), NEW e \in T, NEW P, NEW carried, NEW device, NEW v, NEW w,
           Snapshot(events, P, carried, device, v),
           IF e \in P THEN w = carried[e] ELSE w = v
    PROVE  Snapshot(Append(events, e), P, carried, device, w)
<1> DEFINE n == Len(events)
           r == Append(events, e)
<1>1. /\ n \in Nat /\ DOMAIN events = 1..n /\ DOMAIN r = 1..(n + 1)
      /\ \A i \in 1..n : r[i] = events[i]
      /\ r[n + 1] = e
    OBVIOUS
<1> HIDE DEF n, r
<1>2. CASE e \in P
    <2>1. r[n + 1] \in P /\ carried[r[n + 1]] = w
        BY <1>1, <1>2
    <2>2. n + 1 \in DOMAIN r /\ \A k \in DOMAIN r : k <= n + 1
        BY <1>1
    <2>3. Snapshot(r, P, carried, device, w)
        BY <2>1, <2>2 DEF Snapshot
    <2> QED
        BY <2>3 DEF r
<1>3. CASE e \notin P
    <2>1. \A i \in DOMAIN r : r[i] \in P => i \in DOMAIN events
        BY <1>1, <1>3
    <2>2. \A i \in DOMAIN events : i \in DOMAIN r /\ r[i] = events[i]
        BY <1>1
    <2>3. Snapshot(r, P, carried, device, w)
        BY <1>3, <2>1, <2>2 DEF Snapshot
    <2> QED
        BY <2>3 DEF r
<1> QED
    BY <1>2, <1>3

\* The front event is handed over to the device.
LEMMA SnapshotPosted ==
    ASSUME NEW T, NEW events \in Seq(T), events # <<>>, NEW P, NEW carried, NEW device, NEW v,
           Snapshot(events, P, carried, device, v),
           NEW received, IF events[1] \in P THEN received \subseteq carried[events[1]]
                                            ELSE received \subseteq device
    PROVE  Snapshot(Tail(events), P, carried, received, v)
<1> DEFINE n == Len(events)
           r == Tail(events)
<1>1. /\ n \in Nat /\ n > 0 /\ DOMAIN events = 1..n /\ DOMAIN r = 1..(n - 1)
      /\ \A i \in 1..(n - 1) : r[i] = events[i + 1]
    OBVIOUS
<1> HIDE DEF n, r
<1>2. CASE \A i \in 2..n : events[i] \notin P
    <2>1. \A i \in DOMAIN r : r[i] \notin P
        BY <1>1, <1>2
    <2>2. received \subseteq v
        <3>1. \A i \in DOMAIN events : events[i] \in P => i = 1
            BY <1>1, <1>2
        <3>2. 1 \in DOMAIN events
            BY <1>1
        <3> QED
            BY <3>1, <3>2 DEF Snapshot
    <2>3. Snapshot(r, P, carried, received, v)
        BY <2>1, <2>2 DEF Snapshot
    <2> QED
        BY <2>3 DEF r
<1>3. CASE \E i \in 2..n : events[i] \in P
    <2>1. PICK i \in DOMAIN events :
              /\ events[i] \in P /\ carried[events[i]] = v
              /\ \A k \in DOMAIN events : events[k] \in P => k <= i
        BY <1>1, <1>3 DEF Snapshot
    <2>2. i \in 2..n
        BY <1>1, <1>3, <2>1
    <2>3. PICK h : h = i - 1
        OBVIOUS
    <2>4. h \in 1..(n - 1) /\ h + 1 = i
        BY <1>1, <2>2, <2>3
    <2>5. r[h] = events[i]
        BY <1>1, <2>4
    <2>6. ASSUME NEW k \in DOMAIN r, r[k] \in P
          PROVE  k <= h
        <3>1. k + 1 \in DOMAIN events /\ events[k + 1] \in P /\ k \in Nat
            BY <1>1, <2>6
        <3> QED
            BY <2>1, <2>4, <3>1
    <2>7. Snapshot(r, P, carried, received, v)
        BY <1>1, <2>1, <2>4, <2>5, <2>6 DEF Snapshot
    <2> QED
        BY <2>7 DEF r
<1> QED
    BY <1>2, <1>3

-----------------------------------------------------------------------------
(* The queue: what appending an event does to it.                           *)

\* adjust_time_stamp and emplace_back keep the type of the queue and leave all
\* but the events and the time stamps alone.
LEMMA Enqueued ==
    ASSUME NEW q \in Q!Queue, NEW e \in Q!Event, NEW m \in BOOLEAN
    PROVE  /\ Q!Enqueue(q, e, m) \in Q!Queue
           /\ Q!Enqueue(q, e, m).report = q.report
           /\ \E x \in Q!Event :
                  /\ Q!Enqueue(q, e, m).events = Append(q.events, x)
                  /\ x.kind = e.kind /\ x.page = e.page
                  /\ x.report = e.report /\ x.buttons = e.buttons
<1> DEFINE t == Q!adjusted_time_stamp(q, e.time_stamp, e.type, m)
           x == [e EXCEPT !.time_stamp = t]
<1>1. e.time_stamp \in Nat /\ e.type \in Q!EventTypes
    BY DEF Q!Event
<1>2. t \in Nat
    BY <1>1, NameAssumption DEF Q!adjusted_time_stamp, Q!Queue
<1> HIDE DEF t
<1>3. /\ x \in Q!Event /\ x.kind = e.kind /\ x.page = e.page
      /\ x.report = e.report /\ x.buttons = e.buttons
    BY <1>2 DEF Q!Event
<1> HIDE DEF x
<1>4. Append(q.events, x) \in Seq(Q!Event)
    BY <1>3 DEF Q!Queue
<1>5. Q!Enqueue(q, e, m) =
          [q EXCEPT !.events = Append(q.events, x),
                    !.last_event_type = IF Q!skips_wait(q, e.type, m) THEN q.last_event_type
                                                                       ELSE e.type,
                    !.last_event_time_stamp = IF q.last_event_time_stamp < t THEN t
                                              ELSE q.last_event_time_stamp]
    BY DEF Q!Enqueue, t, x
<1>6. Q!Enqueue(q, e, m) \in Q!Queue
    BY <1>1, <1>2, <1>4, <1>5 DEF Q!Queue
<1>7. Q!Enqueue(q, e, m).report = q.report /\ Q!Enqueue(q, e, m).events = Append(q.events, x)
    BY <1>5 DEF Q!Queue
<1> QED
    BY <1>3, <1>6, <1>7

\* Every snapshot of the queue is accounted for: the reports of the keyboard,
\* and the buttons b of the pointing device.
Reports(q) ==
    \A p \in Pages : Snapshot(q.events, OfPage(p), ReportOf, device_report[p], q.report[p])

Moves(q, b) == Snapshot(q.events, Pointing, ButtonsOf, device_buttons, b)

\* A key event changes the report of its page and takes a snapshot of it.
KeyTaken(q, r, u, type, b) ==
    /\ r \in Q!Queue
    /\ r.report = [q.report EXCEPT ![PageOf[u]] = Q!next_report(q, u, type)]
    /\ Reports(r) /\ Moves(r, b)

\* emplace_back_key_event does so.
LEMMA KeyAppended ==
    ASSUME NEW q \in Q!Queue, NEW u \in Usages, NEW type \in {"key_down", "key_up"},
           NEW t \in Nat, NEW b, Reports(q), Moves(q, b),
           NEW r, r = Q!emplace_back_key_event(q, u, type, t)
    PROVE  KeyTaken(q, r, u, type, b)
<1> DEFINE page == PageOf[u]
           report == Q!next_report(q, u, type)
           e == [kind |-> "key", type |-> type, usage |-> u, page |-> page,
                 report |-> report, buttons |-> {}, time_stamp |-> t]
           m == u \in ModifierUsages
           n == Q!Enqueue(q, e, m)
<1>1. page \in Pages /\ report \in SUBSET Usages
    <2>1. page \in Pages
        BY NameAssumption
    <2>2. q.report[page] \in SUBSET Usages
        BY <2>1 DEF Q!Queue
    <2> QED
        BY <2>1, <2>2 DEF Q!next_report
<1>2. e \in Q!Event
    BY <1>1 DEF Q!Event, Q!EventTypes
<1>3. m \in BOOLEAN
    OBVIOUS
<1>4. /\ n \in Q!Queue /\ n.report = q.report
      /\ \E x \in Q!Event :
             /\ n.events = Append(q.events, x)
             /\ x.kind = e.kind /\ x.page = e.page
             /\ x.report = e.report /\ x.buttons = e.buttons
    <2> HIDE DEF e, m
    <2> QED
        BY <1>2, <1>3, Enqueued
<1>5. PICK x \in Q!Event :
          /\ n.events = Append(q.events, x)
          /\ x.kind = "key" /\ x.page = page /\ x.report = report
    <2> HIDE DEF n, page, report
    <2> QED
        BY <1>4
<1>6. PICK k : k = Q!next_repeating_key(n.repeating_key, u, type)
    OBVIOUS
<1>7. k \in Usages \cup {None}
    <2> HIDE DEF n
    <2> QED
        BY <1>4, <1>6 DEF Q!next_repeating_key, Q!Queue
<1>8. r = [n EXCEPT !.report = [n.report EXCEPT ![page] = report], !.repeating_key = k]
    BY <1>6 DEF Q!emplace_back_key_event
<1> HIDE DEF n, e, m, page, report
<1>9. [n.report EXCEPT ![page] = report] \in [Pages -> SUBSET Usages]
    BY <1>1, <1>4 DEF Q!Queue
<1>10. r \in Q!Queue /\ r.events = n.events /\ r.report = [n.report EXCEPT ![page] = report]
    BY <1>4, <1>7, <1>8, <1>9 DEF Q!Queue
<1>11. r.events = Append(q.events, x) /\ q.events \in Seq(Q!Event)
    BY <1>5, <1>10 DEF Q!Queue
<1>12. Reports(r)
    <2> SUFFICES ASSUME NEW p \in Pages
                 PROVE  Snapshot(r.events, OfPage(p), ReportOf, device_report[p], r.report[p])
        BY DEF Reports
    <2>1. Snapshot(q.events, OfPage(p), ReportOf, device_report[p], q.report[p])
        BY DEF Reports
    <2>2. r.report[p] = IF p = page THEN report ELSE q.report[p]
        BY <1>4, <1>10 DEF Q!Queue
    <2>3. x \in OfPage(p) <=> p = page
        BY <1>5 DEF OfPage
    <2>4. ReportOf[x] = report
        BY <1>5 DEF ReportOf
    <2>5. IF x \in OfPage(p) THEN r.report[p] = ReportOf[x] ELSE r.report[p] = q.report[p]
        BY <2>2, <2>3, <2>4
    <2> QED
        BY <1>11, <2>1, <2>5, SnapshotAppended
<1>13. Moves(r, b)
    <2>1. x \notin Pointing
        BY <1>5 DEF Pointing
    <2> QED
        BY <1>11, <2>1, SnapshotAppended DEF Moves
<1> QED
    BY <1>4, <1>10, <1>12, <1>13 DEF page, report, KeyTaken

\* A pointing event leaves the reports of the keyboard alone.
LEMMA PointingAppended ==
    ASSUME NEW q \in Q!Queue, NEW c \in SUBSET Buttons, NEW type \in Q!EventTypes,
           NEW t \in Nat, NEW b, Reports(q), Moves(q, b),
           NEW r, r = Q!emplace_back_pointing_input(q, c, type, t)
    PROVE  /\ r \in Q!Queue /\ r.report = q.report
           /\ Reports(r) /\ Moves(r, c)
<1> DEFINE e == [kind |-> "pointing", type |-> type, usage |-> None, page |-> None,
                 report |-> {}, buttons |-> c, time_stamp |-> t]
<1>1. e \in Q!Event
    BY DEF Q!Event, Q!EventTypes
<1>2. PICK m \in BOOLEAN : r = Q!Enqueue(q, e, m)
    BY DEF Q!emplace_back_pointing_input
<1>3. /\ r \in Q!Queue /\ r.report = q.report
      /\ \E x \in Q!Event :
             /\ r.events = Append(q.events, x)
             /\ x.kind = e.kind /\ x.page = e.page
             /\ x.report = e.report /\ x.buttons = e.buttons
    <2> HIDE DEF e
    <2>1. PICK n : n = Q!Enqueue(q, e, m)
        OBVIOUS
    <2>2. /\ n \in Q!Queue /\ n.report = q.report
          /\ \E x \in Q!Event :
                 /\ n.events = Append(q.events, x)
                 /\ x.kind = e.kind /\ x.page = e.page
                 /\ x.report = e.report /\ x.buttons = e.buttons
        BY <1>1, <2>1, Enqueued
    <2> QED
        BY ONLY <1>2, <2>1, <2>2
<1>4. PICK x \in Q!Event :
          /\ r.events = Append(q.events, x)
          /\ x.kind = "pointing" /\ x.page = None /\ x.buttons = c
    BY <1>3
<1>5. q.events \in Seq(Q!Event)
    BY DEF Q!Queue
<1>6. Reports(r)
    <2> SUFFICES ASSUME NEW p \in Pages
                 PROVE  Snapshot(r.events, OfPage(p), ReportOf, device_report[p], r.report[p])
        BY DEF Reports
    <2>1. Snapshot(q.events, OfPage(p), ReportOf, device_report[p], q.report[p])
        BY DEF Reports
    <2>2. x \notin OfPage(p)
        BY <1>4, NameAssumption DEF OfPage
    <2> QED
        BY <1>3, <1>4, <1>5, <2>1, <2>2, SnapshotAppended
<1>7. Moves(r, c)
    <2>1. x \in Pointing /\ ButtonsOf[x] = c
        BY <1>4 DEF Pointing, ButtonsOf
    <2> QED
        BY <1>4, <1>5, <2>1, SnapshotAppended DEF Moves
<1> QED
    BY <1>3, <1>6, <1>7

\* A command leaves both alone.
LEMMA CommandAppended ==
    ASSUME NEW q \in Q!Queue, NEW t \in Nat, NEW b, Reports(q), Moves(q, b),
           NEW r, r = Q!push_back_command_event(q, t)
    PROVE  /\ r \in Q!Queue /\ r.report = q.report
           /\ Reports(r) /\ Moves(r, b)
<1> DEFINE x == [kind |-> "command", type |-> "single", usage |-> None, page |-> None,
                 report |-> {}, buttons |-> {}, time_stamp |-> t]
<1>1. x \in Q!Event /\ x.kind = "command" /\ x.page = None
    BY DEF Q!Event, Q!EventTypes
<1>2. r = [q EXCEPT !.events = Append(q.events, x)]
    BY DEF Q!push_back_command_event
<1> HIDE DEF x
<1>3. q.events \in Seq(Q!Event) /\ Append(q.events, x) \in Seq(Q!Event)
    BY <1>1 DEF Q!Queue
<1>4. r \in Q!Queue /\ r.report = q.report /\ r.events = Append(q.events, x)
    BY <1>2, <1>3 DEF Q!Queue
<1>5. Reports(r)
    <2> SUFFICES ASSUME NEW p \in Pages
                 PROVE  Snapshot(r.events, OfPage(p), ReportOf, device_report[p], r.report[p])
        BY DEF Reports
    <2>1. Snapshot(q.events, OfPage(p), ReportOf, device_report[p], q.report[p])
        BY DEF Reports
    <2>2. x \notin OfPage(p)
        BY <1>1, NameAssumption DEF OfPage
    <2> QED
        BY <1>1, <1>3, <1>4, <2>1, <2>2, SnapshotAppended
<1>6. Moves(r, b)
    <2>1. x \notin Pointing
        BY <1>1 DEF Pointing
    <2> QED
        BY <1>1, <1>3, <1>4, <2>1, SnapshotAppended DEF Moves
<1> QED
    BY <1>4, <1>5, <1>6

-----------------------------------------------------------------------------
(* key_event_dispatcher: what it believes to be down is in the report.      *)

\* The states of the stage with the members of base the dispatcher does not
\* touch.
Stage(base) ==
    [queue : Q!Queue, pressed_keys : Seq(KeyboardDevices \X OrdinaryUsages),
     pressed_modifier_flags : SUBSET Flags, flags : {base.flags},
     active_buttons : {base.active_buttons}, buttons : {base.buttons},
     mouse_keys : {base.mouse_keys}, mouse_timer : {base.mouse_timer}]

Elements(keys) == {keys[i] : i \in DOMAIN keys}
KeysOf(st) == Elements(st.pressed_keys)

\* The usages the dispatcher believes to be down.
DownOf(st) ==
    {k[2] : k \in KeysOf(st)} \cup {UsageOf[m] : m \in st.pressed_modifier_flags \ {caps_lock}}

\* The report under construction holds the usages in down.
Carries(st, down) ==
    /\ st \in Stage(st)
    /\ \A p \in Pages : st.queue.report[p] = {u \in down : PageOf[u] = p}
    /\ Reports(st.queue) /\ Moves(st.queue, st.buttons)

\* The invariant of one call after the other.
Tracked(st) == Carries(st, DownOf(st))

\* Calls of the dispatcher keep it, and leave the rest of the stage alone.
Dispatched(st, r) == Tracked(r) /\ r \in Stage(st)

LEMMA DispatchedTwice ==
    ASSUME NEW st, NEW r, NEW x, Dispatched(st, r), Dispatched(r, x)
    PROVE  Dispatched(st, x)
    BY DEF Dispatched, Tracked, Carries, Stage

LEMMA DispatchedSame ==
    ASSUME NEW st, Tracked(st)
    PROVE  Dispatched(st, st)
    BY DEF Dispatched, Tracked, Carries

\* One usage goes down or up in the records of s, which is st otherwise ...
Recorded(st, s, u, type) ==
    /\ s \in Stage(st) /\ s.queue = st.queue
    /\ DownOf(s) = IF type = "key_down" THEN DownOf(st) \cup {u} ELSE DownOf(st) \ {u}

\* ... and r is s with the event in the queue.
Reported(st, s, r) ==
    /\ Dispatched(st, r)
    /\ KeysOf(r) = KeysOf(s) /\ r.pressed_modifier_flags = s.pressed_modifier_flags

\* r is s but for the queue.
SameRecords(s, r) ==
    /\ r \in Stage(s)
    /\ r.pressed_keys = s.pressed_keys /\ r.pressed_modifier_flags = s.pressed_modifier_flags

\* enqueue_key_event changes the report.
LEMMA EventCarried ==
    ASSUME NEW s, NEW down, Carries(s, down),
           NEW u \in Usages, NEW type \in {"key_down", "key_up"}, NEW t \in Nat,
           NEW r, r = D!enqueue_key_event(s, u, type, t)
    PROVE  /\ Carries(r, IF type = "key_down" THEN down \cup {u} ELSE down \ {u})
           /\ SameRecords(s, r)
<1>1. PICK q : q = Q!emplace_back_key_event(s.queue, u, type, t)
    OBVIOUS
<1>2. s \in Stage(s) /\ s.queue \in Q!Queue
    BY DEF Carries, Stage
<1>3. /\ q \in Q!Queue
      /\ q.report = [s.queue.report EXCEPT ![PageOf[u]] = Q!next_report(s.queue, u, type)]
      /\ Reports(q) /\ Moves(q, s.buttons)
    <2>1. Reports(s.queue) /\ Moves(s.queue, s.buttons)
        BY DEF Carries
    <2>2. KeyTaken(s.queue, q, u, type, s.buttons)
        BY <1>1, <1>2, <2>1, KeyAppended
    <2> QED
        BY <2>2 DEF KeyTaken
<1>4. r = [s EXCEPT !.queue = q]
    BY <1>1, <1>2 DEF D!enqueue_key_event, Stage
<1>5. /\ r \in Stage(s) /\ r \in Stage(r)
      /\ r.queue = q /\ r.pressed_keys = s.pressed_keys
      /\ r.pressed_modifier_flags = s.pressed_modifier_flags
      /\ r.buttons = s.buttons
    BY <1>2, <1>3, <1>4 DEF Stage
<1>6. PICK after : after = IF type = "key_down" THEN down \cup {u} ELSE down \ {u}
    OBVIOUS
<1>7. ASSUME NEW p \in Pages
      PROVE  q.report[p] = {x \in after : PageOf[x] = p}
    <2>1. s.queue.report \in [Pages -> SUBSET Usages] /\ PageOf[u] \in Pages
        BY <1>2, NameAssumption DEF Q!Queue
    <2>2. \A x \in Pages : s.queue.report[x] = {y \in down : PageOf[y] = x}
        BY DEF Carries
    <2>3. q.report[p] = IF p = PageOf[u]
                        THEN IF type = "key_down" THEN s.queue.report[p] \cup {u}
                                                  ELSE s.queue.report[p] \ {u}
                        ELSE s.queue.report[p]
        BY <1>3, <2>1 DEF Q!next_report
    <2> QED
        BY <1>6, <2>2, <2>3
<1>8. Carries(r, after) /\ SameRecords(s, r)
    BY <1>3, <1>5, <1>7 DEF Carries, SameRecords
<1> QED
    BY <1>6, <1>8

\* Together: what is recorded is reported.
LEMMA KeyEnqueued ==
    ASSUME NEW st, Tracked(st), NEW u \in Usages, NEW type \in {"key_down", "key_up"}, NEW t \in Nat,
           NEW s, Recorded(st, s, u, type),
           NEW r, r = D!enqueue_key_event(s, u, type, t)
    PROVE  Reported(st, s, r)
<1>1. /\ s \in Stage(st) /\ s.queue = st.queue
      /\ DownOf(s) = IF type = "key_down" THEN DownOf(st) \cup {u} ELSE DownOf(st) \ {u}
    BY DEF Recorded
<1>2. Carries(s, DownOf(st))
    <2>1. s \in Stage(s) /\ s.buttons = st.buttons
        BY <1>1 DEF Stage
    <2> QED
        BY <1>1, <2>1 DEF Tracked, Carries
<1>3. Carries(r, DownOf(s)) /\ SameRecords(s, r)
    BY <1>1, <1>2, EventCarried
<1>4. r \in Stage(st) /\ KeysOf(r) = KeysOf(s) /\ DownOf(r) = DownOf(s)
    <2>1. r \in Stage(st)
        BY <1>1, <1>3 DEF SameRecords, Stage
    <2>2. KeysOf(r) = KeysOf(s)
        BY <1>3 DEF SameRecords, KeysOf
    <2>3. DownOf(r) = DownOf(s)
        BY <1>3, <2>2 DEF SameRecords, DownOf
    <2> QED
        BY <2>1, <2>2, <2>3
<1> QED
    BY <1>3, <1>4 DEF Tracked, Dispatched, Reported, SameRecords

\* The ordinary keys are not modifiers.
LEMMA ModifierUsage ==
    ASSUME NEW m \in Flags, m # caps_lock
    PROVE  UsageOf[m] \in Usages /\ UsageOf[m] \notin OrdinaryUsages
    BY OrderAssumption DEF OrdinaryUsages

\* The keys before and after one more of them, and what is left without a usage.
LEMMA KeysAppended ==
    ASSUME NEW T, NEW keys \in Seq(T), NEW k \in T
    PROVE  Elements(Append(keys, k)) = Elements(keys) \cup {k}
<1> DEFINE n == Len(keys)
           r == Append(keys, k)
<1>1. /\ n \in Nat /\ DOMAIN keys = 1..n /\ DOMAIN r = 1..(n + 1)
      /\ (\A i \in 1..n : r[i] = keys[i])
      /\ r[n + 1] = k
    OBVIOUS
<1>2. \A i \in 1..(n + 1) : i \in 1..n \/ i = n + 1
    BY <1>1
<1>3. n + 1 \in 1..(n + 1) /\ \A i \in 1..n : i \in 1..(n + 1)
    BY <1>1
<1> HIDE DEF n, r
<1>4. {r[i] : i \in DOMAIN r} = {keys[i] : i \in DOMAIN keys} \cup {k}
    BY <1>1, <1>2, <1>3
<1> QED
    BY <1>4 DEF Elements, r

\* The elements of a subsequence are those at the indices kept.
LEMMA ElementsKept ==
    ASSUME NEW T, NEW keys \in Seq(T), NEW kept \in SUBSET DOMAIN keys
    PROVE  /\ D!Kept(keys, kept) \in Seq(T)
           /\ Elements(D!Kept(keys, kept)) = {keys[i] : i \in kept}
<1> DEFINE r == Kept(keys, kept)
<1>1. D!Kept(keys, kept) = r
    BY DEF D!Kept, Kept
<1>2. r \in Seq(T)
    BY KeptIsSubsequence
<1>3. PICK from \in [DOMAIN r -> kept] :
          /\ \A j \in DOMAIN r : r[j] = keys[from[j]]
          /\ \A i \in kept : \E j \in DOMAIN r : from[j] = i
    BY KeptIsSubsequence
<1> HIDE DEF r
<1>4. Elements(r) = {keys[i] : i \in kept}
    BY <1>3 DEF Elements
<1> QED
    BY <1>1, <1>2, <1>4

\* A key goes down: its device is remembered if no other holds the key.
LEMMA KeyDownDispatched ==
    ASSUME NEW st, Tracked(st), NEW d \in KeyboardDevices, NEW u \in OrdinaryUsages, NEW t \in Nat,
           NEW r, r = D!dispatch_key_down_event(st, d, u, t)
    PROVE  /\ Dispatched(st, r)
           /\ KeysOf(r) \subseteq KeysOf(st) \cup {<<d, u>>}
           /\ r.pressed_modifier_flags = st.pressed_modifier_flags
<1>1. CASE D!key_event_exists(st, u)
    <2>1. r = st
        BY <1>1 DEF D!dispatch_key_down_event
    <2> QED
        BY <2>1, DispatchedSame
<1>2. CASE ~ D!key_event_exists(st, u)
    <2>1. PICK s : s = [st EXCEPT !.pressed_keys = Append(@, <<d, u>>)]
        OBVIOUS
    <2>2. st \in Stage(st) /\ st.pressed_keys \in Seq(KeyboardDevices \X OrdinaryUsages)
        BY DEF Tracked, Carries, Stage
    <2>3. PICK keys : keys = Append(st.pressed_keys, <<d, u>>)
        OBVIOUS
    <2>4. /\ keys \in Seq(KeyboardDevices \X OrdinaryUsages)
          /\ Elements(keys) = KeysOf(st) \cup {<<d, u>>}
        <3> PICK T : T = KeyboardDevices \X OrdinaryUsages
            OBVIOUS
        <3> PICK k : k = <<d, u>>
            OBVIOUS
        <3> PICK old : old = st.pressed_keys
            OBVIOUS
        <3>1. k \in T /\ old \in Seq(T)
            BY <2>2
        <3>2. keys = Append(old, k)
            BY <2>3
        <3>3. keys \in Seq(T) /\ Elements(keys) = Elements(old) \cup {k}
            BY ONLY <3>1, <3>2, KeysAppended
        <3> QED
            BY <3>3 DEF KeysOf
    <2>5. /\ s \in Stage(st) /\ s.queue = st.queue /\ s.pressed_keys = keys
          /\ s.pressed_modifier_flags = st.pressed_modifier_flags
        BY <2>1, <2>2, <2>3, <2>4 DEF Stage
    <2>6. KeysOf(s) = KeysOf(st) \cup {<<d, u>>}
        BY <2>4, <2>5 DEF KeysOf
    <2>7. DownOf(s) = DownOf(st) \cup {u}
        <3> PICK K : K = KeysOf(st)
            OBVIOUS
        <3> PICK pressed : pressed = <<d, u>>
            OBVIOUS
        <3>1. pressed[2] = u
            OBVIOUS
        <3>2. {k[2] : k \in K \cup {pressed}} = {k[2] : k \in K} \cup {u}
            BY ONLY <3>1
        <3> QED
            BY ONLY <2>5, <2>6, <3>2, K = KeysOf(st), pressed = <<d, u>> DEF DownOf
    <2>8. Recorded(st, s, u, "key_down")
        BY <2>5, <2>7 DEF Recorded
    <2>9. r = D!enqueue_key_event(s, u, "key_down", t)
        BY <1>2, <2>1 DEF D!dispatch_key_down_event
    <2>10. Reported(st, s, r)
        BY <2>8, <2>9, KeyEnqueued DEF OrdinaryUsages
    <2> QED
        BY <2>5, <2>6, <2>10 DEF Reported
<1> QED
    BY <1>1, <1>2

\* A key goes up: no device holds it any more.
LEMMA KeyUpDispatched ==
    ASSUME NEW st, Tracked(st), NEW u \in Usages, NEW t \in Nat,
           NEW r, r = D!dispatch_key_up_event(st, u, t)
    PROVE  /\ Dispatched(st, r)
           /\ KeysOf(r) = {k \in KeysOf(st) : k[2] # u}
           /\ r.pressed_modifier_flags = st.pressed_modifier_flags
<1>1. CASE ~ D!key_event_exists(st, u)
    <2>1. r = st
        BY <1>1 DEF D!dispatch_key_up_event
    <2>2. \A k \in KeysOf(st) : k[2] # u
        BY <1>1 DEF D!key_event_exists, KeysOf, Elements
    <2> QED
        BY <2>1, <2>2, DispatchedSame
<1>2. CASE D!key_event_exists(st, u)
    <2>1. PICK s : s = [st EXCEPT !.pressed_keys =
                            D!Kept(@, {i \in DOMAIN @ : @[i][2] # u})]
        OBVIOUS
    <2>2. st \in Stage(st) /\ st.pressed_keys \in Seq(KeyboardDevices \X OrdinaryUsages)
          /\ st.pressed_modifier_flags \subseteq Flags
        BY DEF Tracked, Carries, Stage
    <2>3. PICK old : old = st.pressed_keys
        OBVIOUS
    <2>4. PICK kept : kept = {i \in DOMAIN old : old[i][2] # u}
        OBVIOUS
    <2>5. PICK keys : keys = D!Kept(old, kept)
        OBVIOUS
    <2>6. s = [st EXCEPT !.pressed_keys = keys]
        BY <2>1, <2>3, <2>4, <2>5
    <2>7. old \in Seq(KeyboardDevices \X OrdinaryUsages) /\ kept \in SUBSET DOMAIN old
        BY <2>2, <2>3, <2>4
    <2>8. /\ keys \in Seq(KeyboardDevices \X OrdinaryUsages)
          /\ Elements(keys) = {old[i] : i \in kept}
        <3> PICK T : T = KeyboardDevices \X OrdinaryUsages
            OBVIOUS
        <3>1. old \in Seq(T) /\ kept \in SUBSET DOMAIN old
            BY <2>7
        <3>2. keys \in Seq(T) /\ Elements(keys) = {old[i] : i \in kept}
            BY ONLY <2>5, <3>1, ElementsKept
        <3> QED
            BY <3>2
    <2>9. /\ s \in Stage(st) /\ s.queue = st.queue /\ s.pressed_keys = keys
          /\ s.pressed_modifier_flags = st.pressed_modifier_flags
        BY ONLY <2>2, <2>6, <2>8 DEF Stage
    <2>10. KeysOf(s) = {k \in KeysOf(st) : k[2] # u}
        <3>1. KeysOf(s) = {old[i] : i \in kept}
            BY ONLY <2>8, <2>9, Zenon DEF KeysOf
        <3>2. KeysOf(st) = {old[i] : i \in DOMAIN old}
            BY ONLY <2>3, Zenon DEF KeysOf, Elements
        <3> QED
            BY ONLY <2>4, <3>1, <3>2
    <2>11. DownOf(s) = DownOf(st) \ {u}
        <3>1. u \in OrdinaryUsages
            BY <1>2, <2>2 DEF D!key_event_exists
        <3>2. \A m \in st.pressed_modifier_flags : m # caps_lock => UsageOf[m] # u
            BY <2>2, <3>1, ModifierUsage
        <3>3. PICK flags : flags = st.pressed_modifier_flags
            OBVIOUS
        <3> QED
            BY ONLY <2>9, <2>10, <3>2, <3>3 DEF DownOf
    <2>12. Recorded(st, s, u, "key_up")
        BY <2>9, <2>11 DEF Recorded
    <2>13. r = D!enqueue_key_event(s, u, "key_up", t)
        BY <1>2, <2>1 DEF D!dispatch_key_up_event
    <2>14. Reported(st, s, r)
        BY <2>12, <2>13, KeyEnqueued
    <2> QED
        BY <2>9, <2>10, <2>14 DEF Reported
<1> QED
    BY <1>1, <1>2

\* caps_lock is remembered as pressed or not without a report.
LEMMA CapsLockRemembered ==
    ASSUME NEW st, Tracked(st), NEW flags \in SUBSET Flags,
           flags \ {caps_lock} = st.pressed_modifier_flags \ {caps_lock},
           NEW s, s = [st EXCEPT !.pressed_modifier_flags = flags]
    PROVE  Dispatched(st, s) /\ KeysOf(s) = KeysOf(st) /\ s.pressed_modifier_flags = flags
<1>1. /\ st \in Stage(st) /\ s \in Stage(st) /\ s \in Stage(s)
      /\ s.queue = st.queue /\ s.pressed_keys = st.pressed_keys
      /\ s.pressed_modifier_flags = flags /\ s.buttons = st.buttons
    BY DEF Tracked, Carries, Stage
<1>2. KeysOf(s) = KeysOf(st)
    BY <1>1 DEF KeysOf
<1>3. DownOf(s) = DownOf(st)
    BY <1>1, <1>2 DEF DownOf
<1> QED
    BY <1>1, <1>2, <1>3 DEF Tracked, Carries, Dispatched

\* The tap of caps_lock leaves the report as it was, without the key itself.
LEMMA CapsLockSent ==
    ASSUME NEW st, Tracked(st), NEW t \in Nat,
           NEW r, r = D!send_caps_lock(st, t)
    PROVE  /\ Dispatched(st, r)
           /\ KeysOf(r) \subseteq KeysOf(st)
           /\ r.pressed_modifier_flags = st.pressed_modifier_flags
<1>1. PICK u : u = UsageOf[caps_lock]
    OBVIOUS
<1>2. u \in Usages
    BY <1>1, OrderAssumption
<1>3. PICK up : up = D!dispatch_key_up_event(st, u, t)
    OBVIOUS
<1>4. /\ Dispatched(st, up)
      /\ KeysOf(up) = {k \in KeysOf(st) : k[2] # u}
      /\ up.pressed_modifier_flags = st.pressed_modifier_flags
    BY <1>2, <1>3, KeyUpDispatched
<1>5. PICK down : down = D!enqueue_key_event(up, u, "key_down", t)
    OBVIOUS
<1>6. r = D!enqueue_key_event(down, u, "key_up", t)
    BY <1>1, <1>3, <1>5 DEF D!send_caps_lock
<1>7. Carries(down, DownOf(up) \cup {u}) /\ SameRecords(up, down)
    <2>1. Carries(up, DownOf(up))
        BY <1>4 DEF Dispatched, Tracked
    <2> QED
        BY <1>2, <1>5, <2>1, EventCarried
<1>8. Carries(r, (DownOf(up) \cup {u}) \ {u}) /\ SameRecords(down, r)
    <2>1. PICK n : n = DownOf(up) \cup {u}
        OBVIOUS
    <2>2. Carries(down, n)
        BY <1>7, <2>1
    <2>3. PICK type : type = "key_up"
        OBVIOUS
    <2>4. type \in {"key_down", "key_up"} /\ type # "key_down" /\ r = D!enqueue_key_event(down, u, type, t)
        BY <1>6, <2>3
    <2>5. Carries(r, n \ {u}) /\ SameRecords(down, r)
        BY ONLY <1>2, <2>2, <2>4, EventCarried, t \in Nat
    <2> QED
        BY <2>1, <2>5
<1>9. u \notin DownOf(up)
    <2>1. \A k \in KeysOf(up) : k[2] # u
        BY <1>4
    <2>2. up.pressed_modifier_flags \subseteq Flags
        BY <1>4 DEF Dispatched, Tracked, Carries, Stage
    <2>3. \A m \in up.pressed_modifier_flags \ {caps_lock} : UsageOf[m] # u
        BY <1>1, <2>2, OrderAssumption
    <2> QED
        BY <2>1, <2>3 DEF DownOf
<1>10. /\ KeysOf(r) = KeysOf(up) /\ DownOf(r) = DownOf(up) /\ r \in Stage(up)
       /\ r.pressed_modifier_flags = up.pressed_modifier_flags
    <2>1. /\ r \in Stage(up) /\ r.pressed_keys = up.pressed_keys
          /\ r.pressed_modifier_flags = up.pressed_modifier_flags
        BY <1>7, <1>8 DEF SameRecords, Stage
    <2>2. KeysOf(r) = KeysOf(up)
        BY <2>1 DEF KeysOf
    <2> QED
        BY <2>1, <2>2 DEF DownOf
<1>11. Dispatched(up, r)
    <2>1. (DownOf(up) \cup {u}) \ {u} = DownOf(r)
        BY <1>9, <1>10
    <2> QED
        BY <1>8, <1>10, <2>1 DEF Dispatched, Tracked
<1>12. Dispatched(st, r)
    BY <1>4, <1>11, DispatchedTwice
<1> QED
    BY <1>4, <1>10, <1>12

\* is_pressed is a verdict.
LEMMA VerdictOfFlags ==
    ASSUME NEW flags, NEW m
    PROVE  M!is_pressed(flags, m) \in BOOLEAN
<1>1. PICK verdict : verdict = M!is_pressed(flags, m)
    BY Zenon
<1>2. \E a, b : verdict = (a > b)
    BY <1>1 DEF M!is_pressed
<1>3. PICK a, b : verdict = (a > b)
    BY <1>2
<1>4. (a > b) \in BOOLEAN
    OBVIOUS
<1> QED
    BY ONLY <1>1, <1>3, <1>4, Zenon

\* A turn of dispatch_modifier_key_event: what r has of st.
Turned(st, flags, m, r) ==
    /\ Dispatched(st, r)
    /\ KeysOf(r) \subseteq KeysOf(st)
    /\ \A x \in Flags : x \in r.pressed_modifier_flags
                            <=> IF x = m THEN M!is_pressed(flags, m)
                                         ELSE x \in st.pressed_modifier_flags

\* The flag is remembered as is_pressed has it, and the report follows.
LEMMA FlagDispatched ==
    ASSUME NEW st, Tracked(st), NEW m \in Flags, NEW flags, NEW t \in Nat,
           NEW r, r = D!dispatch_modifier_flag(st, flags, m, t)
    PROVE  Turned(st, flags, m, r)
<1>1. PICK pressed \in BOOLEAN : pressed = (m \in st.pressed_modifier_flags)
    <2>1. (m \in st.pressed_modifier_flags) \in BOOLEAN
        OBVIOUS
    <2> QED
        BY <2>1, Zenon
<1>2. PICK wanted \in BOOLEAN : wanted = M!is_pressed(flags, m)
    BY VerdictOfFlags
<1>3. PICK old : old = st.pressed_modifier_flags
    OBVIOUS
<1>4. PICK new : new = IF pressed THEN old \ {m} ELSE old \cup {m}
    OBVIOUS
<1>5. st \in Stage(st) /\ old \in SUBSET Flags /\ new \in SUBSET Flags
    BY <1>3, <1>4 DEF Tracked, Carries, Stage
<1>6. PICK s : s = [st EXCEPT !.pressed_modifier_flags = new]
    OBVIOUS
<1>7. r = IF wanted = pressed THEN st
          ELSE IF m = caps_lock THEN D!send_caps_lock(s, t)
          ELSE D!enqueue_key_event(s, UsageOf[m], IF pressed THEN "key_up" ELSE "key_down", t)
    <2>1. s = IF pressed THEN [st EXCEPT !.pressed_modifier_flags = @ \ {m}]
                         ELSE [st EXCEPT !.pressed_modifier_flags = @ \cup {m}]
        BY <1>3, <1>4, <1>6
    <2> QED
        BY <1>1, <1>2, <2>1, Zenon DEF D!dispatch_modifier_flag
<1>8. CASE wanted = pressed
    <2>1. r = st
        BY <1>7, <1>8
    <2> QED
        BY <1>1, <1>2, <1>8, <2>1, DispatchedSame DEF Turned
<1>9. CASE wanted # pressed /\ m = caps_lock
    <2>1. r = D!send_caps_lock(s, t)
        BY <1>7, <1>9
    <2>2. new \ {caps_lock} = st.pressed_modifier_flags \ {caps_lock}
        BY <1>3, <1>4, <1>9
    <2>3. Dispatched(st, s) /\ KeysOf(s) = KeysOf(st) /\ s.pressed_modifier_flags = new
        BY <1>5, <1>6, <2>2, CapsLockRemembered
    <2>4. Tracked(s)
        BY <2>3 DEF Dispatched
    <2>5. /\ Dispatched(s, r) /\ KeysOf(r) \subseteq KeysOf(s)
          /\ r.pressed_modifier_flags = s.pressed_modifier_flags
        BY <2>1, <2>4, CapsLockSent
    <2>6. Dispatched(st, r)
        BY <2>3, <2>5, DispatchedTwice
    <2>7. \A x \in Flags : x \in new <=> IF x = m THEN wanted ELSE x \in old
        BY <1>1, <1>3, <1>4, <1>9
    <2> QED
        BY <1>2, <1>3, <2>3, <2>5, <2>6, <2>7 DEF Turned
<1>10. CASE wanted # pressed /\ m # caps_lock
    <2>1. PICK u : u = UsageOf[m]
        OBVIOUS
    <2>2. u \in Usages /\ u \notin OrdinaryUsages
        BY <1>10, <2>1, ModifierUsage
    <2>3. PICK type \in {"key_down", "key_up"} : type = IF pressed THEN "key_up" ELSE "key_down"
        OBVIOUS
    <2>4. r = D!enqueue_key_event(s, u, type, t)
        BY <1>7, <1>10, <2>1, <2>3
    <2>5. /\ s \in Stage(st) /\ s.queue = st.queue /\ s.pressed_keys = st.pressed_keys
          /\ s.pressed_modifier_flags = new
        BY <1>5, <1>6 DEF Stage
    <2>6. KeysOf(s) = KeysOf(st)
        BY <2>5 DEF KeysOf
    <2>7. DownOf(s) = IF type = "key_down" THEN DownOf(st) \cup {u} ELSE DownOf(st) \ {u}
        <3> DEFINE down(f) == {UsageOf[x] : x \in f \ {caps_lock}}
        <3>1. \A k \in KeysOf(st) : k[2] # u
            <4>1. st.pressed_keys \in Seq(KeyboardDevices \X OrdinaryUsages)
                BY <1>5 DEF Stage
            <4> QED
                BY <2>2, <4>1 DEF KeysOf, Elements
        <3>2. u \notin {k[2] : k \in KeysOf(st)}
            BY <3>1
        <3>3. down(new) = IF type = "key_down" THEN down(old) \cup {u} ELSE down(old) \ {u}
            <4>1. CASE pressed
                <5>1. new = old \ {m} /\ type = "key_up" /\ m \in old
                    BY <1>1, <1>3, <1>4, <2>3, <4>1
                <5>2. \A x \in old : UsageOf[x] = u => x = m
                    BY <1>5, <2>1, OrderAssumption
                <5> QED
                    BY <5>1, <5>2, <2>1
            <4>2. CASE ~ pressed
                <5>1. new = old \cup {m} /\ type = "key_down"
                    BY <1>4, <2>3, <4>2
                <5> QED
                    BY <1>10, <5>1, <2>1
            <4> QED
                BY <4>1, <4>2
        <3> PICK K : K = {k[2] : k \in KeysOf(st)}
            OBVIOUS
        <3>4. DownOf(s) = K \cup down(new) /\ DownOf(st) = K \cup down(old)
            BY <1>3, <2>5, <2>6 DEF DownOf
        <3>5. u \notin K
            BY <3>2
        <3> HIDE DEF down
        <3> QED
            BY ONLY <3>3, <3>4, <3>5
    <2>8. Recorded(st, s, u, type)
        BY <2>5, <2>7 DEF Recorded
    <2>9. Reported(st, s, r)
        BY <2>2, <2>4, <2>8, KeyEnqueued
    <2>10. /\ Dispatched(st, r) /\ KeysOf(r) = KeysOf(st)
           /\ r.pressed_modifier_flags = new
        BY <2>5, <2>6, <2>9 DEF Reported
    <2>11. \A x \in Flags : x \in new <=> IF x = m THEN wanted ELSE x \in old
        BY <1>1, <1>3, <1>4, <1>10
    <2> QED
        BY <1>2, <1>3, <2>10, <2>11 DEF Turned
<1> QED
    BY <1>8, <1>9, <1>10

\* dispatch_modifier_key_event: the flags are remembered as is_pressed has
\* them, each in its turn.
LEMMA ModifiersDispatched ==
    ASSUME NEW st, Tracked(st), NEW flags, NEW t \in Nat,
           NEW r, r = D!dispatch_modifier_key_event(st, flags, t)
    PROVE  /\ Dispatched(st, r)
           /\ KeysOf(r) \subseteq KeysOf(st)
           /\ \A x \in Flags : x \in r.pressed_modifier_flags <=> M!is_pressed(flags, x)
<1> DEFINE n == Len(FlagOrder)
           States == {x \in Stage(st) : Tracked(x)}
           turn(x, i) == D!dispatch_modifier_flag(x, flags, FlagOrder[i], t)
           step == [p \in States \X (1..n) |-> turn(p[1], p[2])]
           IsAfter(g) == g = [i \in 0..n |-> IF i = 0 THEN st ELSE turn(g[i - 1], i)]
           after == CHOOSE g : IsAfter(g)
           Good == {i \in 0..n :
                       /\ Dispatched(st, after[i])
                       /\ KeysOf(after[i]) \subseteq KeysOf(st)
                       /\ \A j \in 1..i : FlagOrder[j] \in after[i].pressed_modifier_flags
                                              <=> M!is_pressed(flags, FlagOrder[j])}
<1>1. n \in Nat /\ \A i \in 1..n : FlagOrder[i] \in Flags
    BY OrderAssumption
<1>2. r = after[n]
    BY DEF D!dispatch_modifier_key_event
<1>3. st \in States
    BY DEF Tracked, Carries
<1>4. \A x \in States : Tracked(x) /\ Dispatched(st, x)
    BY DEF Dispatched
<1>5. ASSUME NEW x \in States, NEW i \in 1..n
      PROVE  Turned(x, flags, FlagOrder[i], turn(x, i)) /\ turn(x, i) \in States
    <2> HIDE DEF n, States
    <2>1. Turned(x, flags, FlagOrder[i], turn(x, i))
        BY <1>1, <1>4, FlagDispatched
    <2>2. Dispatched(st, turn(x, i))
        BY <1>4, <2>1, DispatchedTwice DEF Turned
    <2> QED
        BY <2>1, <2>2 DEF Dispatched, States
<1>0. 0 \in 0..n /\ (\A i \in 0..n : i # 0 <=> i \in 1..n) /\ n \in 0..n /\ \A i \in 1..n : i \in 0..n
    BY <1>1
<1> HIDE DEF n, turn
<1>6. IsAfter(after)
    <2>1. step \in [States \X (1..n) -> States]
        <3> HIDE DEF States
        <3> QED
            BY <1>5
    <2> HIDE DEF step, States
    <2>2. PICK g : Recursive(g, n, States, st, step)
        BY <1>1, <1>3, <2>1, Recursion
    <2>3. g \in [0..n -> States] /\ g[0] = st /\ \A i \in 1..n : g[i] = step[<<g[i - 1], i>>]
        BY <2>2 DEF Recursive
    <2>4. ASSUME NEW i \in 1..n
          PROVE  g[i] = turn(g[i - 1], i)
        <3>1. g[i - 1] \in States
            BY <1>1, <2>3
        <3>2. <<g[i - 1], i>> \in States \X (1..n)
            BY <3>1
        <3> QED
            BY <2>3, <3>2 DEF step
    <2>5. \A i \in 0..n : g[i] = IF i = 0 THEN st ELSE turn(g[i - 1], i)
        BY <1>0, <2>3, <2>4
    <2>6. IsAfter(g)
        BY <2>3, <2>5
    <2> QED
        BY <2>6
<1> HIDE DEF after
<1>7. after[0] = st /\ \A i \in 1..n : after[i] = turn(after[i - 1], i)
    <2>1. \A i \in 0..n : after[i] = IF i = 0 THEN st ELSE turn(after[i - 1], i)
        BY <1>6, Zenon
    <2> QED
        BY <1>0, <2>1
<1> HIDE DEF IsAfter, States
<1>8. Good = 0..n
    <2>1. 0 \in Good
        <3>1. Dispatched(st, after[0]) /\ KeysOf(after[0]) \subseteq KeysOf(st)
            BY <1>3, <1>4, <1>7
        <3> QED
            BY <1>0, <3>1
    <2>2. ASSUME NEW i \in 1..n, i - 1 \in Good
          PROVE  i \in Good
        <3> PICK h : h = i - 1
            OBVIOUS
        <3> PICK x : x = after[h]
            OBVIOUS
        <3> PICK y : y = after[i]
            OBVIOUS
        <3>1. /\ Dispatched(st, x) /\ KeysOf(x) \subseteq KeysOf(st)
              /\ \A j \in 1..h : FlagOrder[j] \in x.pressed_modifier_flags
                                     <=> M!is_pressed(flags, FlagOrder[j])
            BY <2>2
        <3>2. x \in States
            BY <3>1 DEF Dispatched, States
        <3>3. y = turn(x, i)
            BY <1>7
        <3>4. Turned(x, flags, FlagOrder[i], y) /\ y \in States
            BY <1>5, <3>2, <3>3
        <3>5. Dispatched(st, y) /\ KeysOf(y) \subseteq KeysOf(st)
            BY <1>4, <3>1, <3>4 DEF Turned
        <3>6. ASSUME NEW j \in 1..i
              PROVE  FlagOrder[j] \in y.pressed_modifier_flags <=> M!is_pressed(flags, FlagOrder[j])
            <4>1. j \in 1..n /\ (j = i \/ j \in 1..h)
                BY <1>1
            <4>2. FlagOrder[j] \in Flags
                BY <1>1, <4>1
            <4>3. FlagOrder[j] \in y.pressed_modifier_flags
                      <=> IF FlagOrder[j] = FlagOrder[i] THEN M!is_pressed(flags, FlagOrder[i])
                          ELSE FlagOrder[j] \in x.pressed_modifier_flags
                BY <3>4, <4>2 DEF Turned
            <4>4. CASE FlagOrder[j] = FlagOrder[i]
                BY <4>3, <4>4
            <4>5. CASE FlagOrder[j] # FlagOrder[i]
                BY <3>1, <4>1, <4>3, <4>5
            <4> QED
                BY <4>4, <4>5
        <3> QED
            BY <1>0, <3>5, <3>6
    <2>3. Good \in SUBSET (0..n)
        OBVIOUS
    <2> HIDE DEF Good
    <2> QED
        BY <1>1, <2>1, <2>2, <2>3, Induction
<1>9. n \in Good
    BY <1>0, <1>8
<1>10. ASSUME NEW x \in Flags
       PROVE  x \in r.pressed_modifier_flags <=> M!is_pressed(flags, x)
    <2>1. PICK j \in 1..n : FlagOrder[j] = x
        BY OrderAssumption DEF n
    <2> QED
        BY <1>2, <1>9, <2>1
<1> QED
    BY <1>2, <1>9, <1>10

\* dispatch_key_up_events_by_device_id: no key of the device is left.
LEMMA DeviceKeysDispatched ==
    ASSUME NEW st, Tracked(st), NEW d, NEW t \in Nat,
           NEW r, r = D!dispatch_key_up_events_by_device_id(st, d, t)
    PROVE  /\ Dispatched(st, r)
           /\ \A k \in KeysOf(r) : k \in KeysOf(st) /\ k[1] # d
           /\ r.pressed_modifier_flags = st.pressed_modifier_flags
<1> DEFINE keys == st.pressed_keys
           kept == {i \in DOMAIN keys : keys[i][1] = d}
           ofDevice == D!Kept(keys, kept)
           n == Len(ofDevice)
           States == {x \in Stage(st) : Tracked(x)}
           turn(x, i) == D!dispatch_key_up_event(x, ofDevice[i][2], t)
           step == [p \in States \X (1..n) |-> turn(p[1], p[2])]
           IsAfter(g) == g = [i \in 0..n |-> IF i = 0 THEN st ELSE turn(g[i - 1], i)]
           after == CHOOSE g : IsAfter(g)
           Good == {i \in 0..n :
                       /\ Dispatched(st, after[i])
                       /\ \A k \in KeysOf(after[i]) :
                              k \in KeysOf(st) /\ \A j \in 1..i : k[2] # ofDevice[j][2]
                       /\ after[i].pressed_modifier_flags = st.pressed_modifier_flags}
<1>1. keys \in Seq(KeyboardDevices \X OrdinaryUsages)
    BY DEF Tracked, Carries, Stage
<1>2. /\ ofDevice \in Seq(KeyboardDevices \X OrdinaryUsages)
      /\ Elements(ofDevice) = {keys[i] : i \in kept}
    <2> PICK T : T = KeyboardDevices \X OrdinaryUsages
        OBVIOUS
    <2> HIDE DEF keys
    <2>1. keys \in Seq(T) /\ kept \in SUBSET DOMAIN keys
        BY <1>1
    <2> HIDE DEF kept
    <2>2. ofDevice \in Seq(T) /\ Elements(ofDevice) = {keys[i] : i \in kept}
        BY ONLY <2>1, ElementsKept
    <2> QED
        BY <2>2
<1>3. r = after[n]
    BY DEF D!dispatch_key_up_events_by_device_id
<1> HIDE DEF ofDevice
<1>4. n \in Nat /\ DOMAIN ofDevice = 1..n /\ \A i \in 1..n : ofDevice[i][2] \in Usages
    <2> DEFINE T == KeyboardDevices \X OrdinaryUsages
    <2>1. n \in Nat /\ DOMAIN ofDevice = 1..n /\ \A i \in 1..n : ofDevice[i] \in T
        BY <1>2
    <2> QED
        BY <2>1 DEF OrdinaryUsages
<1>5. st \in States
    BY DEF Tracked, Carries
<1>6. \A x \in States : Tracked(x) /\ Dispatched(st, x)
    BY DEF Dispatched
<1>7. ASSUME NEW x \in States, NEW i \in 1..n
      PROVE  /\ Dispatched(x, turn(x, i)) /\ turn(x, i) \in States
             /\ KeysOf(turn(x, i)) = {k \in KeysOf(x) : k[2] # ofDevice[i][2]}
             /\ turn(x, i).pressed_modifier_flags = x.pressed_modifier_flags
    <2> HIDE DEF n, States, turn
    <2> PICK y : y = turn(x, i)
        OBVIOUS
    <2> PICK u : u = ofDevice[i][2]
        OBVIOUS
    <2>1. y = D!dispatch_key_up_event(x, u, t)
        BY DEF turn
    <2>2. u \in Usages /\ Tracked(x)
        BY <1>4, <1>6
    <2>3. /\ Dispatched(x, y)
          /\ KeysOf(y) = {k \in KeysOf(x) : k[2] # u}
          /\ y.pressed_modifier_flags = x.pressed_modifier_flags
        BY ONLY <2>1, <2>2, KeyUpDispatched, t \in Nat
    <2>4. Dispatched(st, y)
        BY <1>6, <2>3, DispatchedTwice
    <2> QED
        BY <2>3, <2>4 DEF Dispatched, States
<1>0. 0 \in 0..n /\ (\A i \in 0..n : i # 0 <=> i \in 1..n) /\ n \in 0..n /\ \A i \in 1..n : i \in 0..n
    BY <1>4
<1> HIDE DEF n, turn, keys, kept
<1>8. IsAfter(after)
    <2>1. step \in [States \X (1..n) -> States]
        <3> HIDE DEF States
        <3> QED
            BY <1>7
    <2> HIDE DEF step, States
    <2>2. PICK g : Recursive(g, n, States, st, step)
        BY <1>4, <1>5, <2>1, Recursion
    <2>3. g \in [0..n -> States] /\ g[0] = st /\ \A i \in 1..n : g[i] = step[<<g[i - 1], i>>]
        BY <2>2 DEF Recursive
    <2>4. ASSUME NEW i \in 1..n
          PROVE  g[i] = turn(g[i - 1], i)
        <3>1. g[i - 1] \in States
            BY <1>4, <2>3
        <3>2. <<g[i - 1], i>> \in States \X (1..n)
            BY <3>1
        <3> QED
            BY <2>3, <3>2 DEF step
    <2>5. \A i \in 0..n : g[i] = IF i = 0 THEN st ELSE turn(g[i - 1], i)
        BY <1>0, <2>3, <2>4
    <2>6. IsAfter(g)
        BY <2>3, <2>5
    <2> QED
        BY <2>6
<1> HIDE DEF after
<1>9. after[0] = st /\ \A i \in 1..n : after[i] = turn(after[i - 1], i)
    <2>1. \A i \in 0..n : after[i] = IF i = 0 THEN st ELSE turn(after[i - 1], i)
        BY <1>8, Zenon
    <2> QED
        BY <1>0, <2>1
<1> HIDE DEF IsAfter, States
<1>10. Good = 0..n
    <2>1. 0 \in Good
        <3>1. Dispatched(st, after[0])
            BY <1>5, <1>6, <1>9
        <3> QED
            BY <1>0, <1>9, <3>1
    <2>2. ASSUME NEW i \in 1..n, i - 1 \in Good
          PROVE  i \in Good
        <3> PICK h : h = i - 1
            OBVIOUS
        <3> PICK x : x = after[h]
            OBVIOUS
        <3> PICK y : y = after[i]
            OBVIOUS
        <3>1. /\ Dispatched(st, x)
              /\ \A k \in KeysOf(x) : k \in KeysOf(st) /\ \A j \in 1..h : k[2] # ofDevice[j][2]
              /\ x.pressed_modifier_flags = st.pressed_modifier_flags
            BY <2>2
        <3>2. x \in States
            BY <3>1 DEF Dispatched, States
        <3>3. y = turn(x, i)
            BY <1>9
        <3>4. /\ y \in States
              /\ KeysOf(y) = {k \in KeysOf(x) : k[2] # ofDevice[i][2]}
              /\ y.pressed_modifier_flags = x.pressed_modifier_flags
            BY <1>7, <3>2, <3>3
        <3>5. Dispatched(st, y)
            BY <1>6, <3>4
        <3>6. \A j \in 1..i : j = i \/ j \in 1..h
            BY <1>4
        <3>7. ASSUME NEW k \in KeysOf(y)
              PROVE  k \in KeysOf(st) /\ \A j \in 1..i : k[2] # ofDevice[j][2]
            BY <3>1, <3>4, <3>6
        <3> QED
            BY <1>0, <3>1, <3>4, <3>5, <3>7
    <2>3. Good \in SUBSET (0..n)
        OBVIOUS
    <2> HIDE DEF Good
    <2> QED
        BY <1>4, <2>1, <2>2, <2>3, Induction
<1>11. n \in Good
    BY <1>0, <1>10
<1>12. ASSUME NEW k \in KeysOf(r)
       PROVE  k[1] # d
    <2>1. k \in KeysOf(st) /\ \A j \in 1..n : k[2] # ofDevice[j][2]
        BY <1>3, <1>11
    <2>2. \A j \in DOMAIN ofDevice : k # ofDevice[j]
        BY <1>4, <2>1
    <2>3. k \notin Elements(ofDevice)
        BY <2>2 DEF Elements
    <2> QED
        BY <1>2, <2>1, <2>3 DEF KeysOf, Elements, kept, keys
<1> QED
    BY <1>3, <1>11, <1>12

-----------------------------------------------------------------------------
(* The handlers: nothing is down that the devices do not hold.              *)

ButtonEntries == Buttons \X KeyboardDevices

\* What is true of the stage between two events while the devices hold H.
Sound(st, H) ==
    /\ Tracked(st)
    /\ st.active_buttons \in SUBSET ButtonEntries
    /\ st.buttons = report_buttons(st)
    /\ st.mouse_timer \in Nat \cup {None}
    /\ KeysOf(st) \subseteq H
    /\ \A b \in st.active_buttons : <<b[2], b[1]>> \in H

\* The members the queue and its snapshots depend on are the same.
SameOutput(st, s) ==
    /\ s \in Stage(s)
    /\ s.queue = st.queue /\ s.pressed_keys = st.pressed_keys
    /\ s.pressed_modifier_flags = st.pressed_modifier_flags /\ s.buttons = st.buttons

LEMMA SameOutputTracked ==
    ASSUME NEW st, Tracked(st), NEW s, SameOutput(st, s)
    PROVE  Tracked(s) /\ KeysOf(s) = KeysOf(st)
<1>1. KeysOf(s) = KeysOf(st)
    BY DEF SameOutput, KeysOf
<1>2. DownOf(s) = DownOf(st)
    BY <1>1 DEF SameOutput, DownOf
<1> QED
    BY <1>1, <1>2 DEF SameOutput, Tracked, Carries

\* The flags, and those remembered as pressed, are the same.
SameFlags(st, s) ==
    s.flags = st.flags /\ s.pressed_modifier_flags = st.pressed_modifier_flags

\* A pointing report has been made.
Posted(st, r) ==
    /\ Tracked(r)
    /\ KeysOf(r) = KeysOf(st) /\ r.pressed_modifier_flags = st.pressed_modifier_flags
    /\ r.flags = st.flags /\ r.active_buttons = st.active_buttons
    /\ r.buttons = report_buttons(st)
    /\ r.mouse_keys = st.mouse_keys /\ r.mouse_timer = st.mouse_timer

\* The buttons of the report are those of the entries.
LEMMA ButtonsOfEntries ==
    ASSUME NEW st, st.active_buttons \in SUBSET ButtonEntries
    PROVE  report_buttons(st) \in SUBSET Buttons
    BY DEF report_buttons, ButtonEntries

\* emplace_back_pointing_input.
LEMMA PointingInputPosted ==
    ASSUME NEW st, Tracked(st), st.active_buttons \in SUBSET ButtonEntries,
           NEW type \in Q!EventTypes, NEW t \in Nat,
           NEW r, r = [st EXCEPT
               !.queue = Q!emplace_back_pointing_input(@, report_buttons(st), type, t),
               !.buttons = report_buttons(st)]
    PROVE  Posted(st, r)
<1>1. PICK c : c = report_buttons(st)
    OBVIOUS
<1>2. PICK q : q = Q!emplace_back_pointing_input(st.queue, c, type, t)
    OBVIOUS
<1>3. c \in SUBSET Buttons
    BY <1>1, ButtonsOfEntries
<1>4. /\ st \in Stage(st) /\ st.queue \in Q!Queue
      /\ Reports(st.queue) /\ Moves(st.queue, st.buttons)
    BY DEF Tracked, Carries, Stage
<1>5. /\ q \in Q!Queue /\ q.report = st.queue.report
      /\ Reports(q) /\ Moves(q, c)
    BY <1>2, <1>3, <1>4, PointingAppended
<1>6. r = [st EXCEPT !.queue = q, !.buttons = c]
    BY <1>1, <1>2
<1>7. /\ r \in Stage(r) /\ r.queue = q /\ r.buttons = c
      /\ r.pressed_keys = st.pressed_keys
      /\ r.pressed_modifier_flags = st.pressed_modifier_flags
      /\ r.flags = st.flags /\ r.active_buttons = st.active_buttons
      /\ r.mouse_keys = st.mouse_keys /\ r.mouse_timer = st.mouse_timer
    BY <1>4, <1>5, <1>6 DEF Stage
<1>8. KeysOf(r) = KeysOf(st)
    BY <1>7 DEF KeysOf
<1>9. DownOf(r) = DownOf(st)
    BY <1>7, <1>8 DEF DownOf
<1>10. Tracked(r)
    BY <1>5, <1>7, <1>9 DEF Tracked, Carries
<1> QED
    BY <1>1, <1>7, <1>8, <1>10 DEF Posted

\* A pointing report when the buttons have changed.
LEMMA ChangedButtonsPosted ==
    ASSUME now \in Nat, NEW st, Tracked(st), st.active_buttons \in SUBSET ButtonEntries,
           NEW r, r = PostChangedButtons(st)
    PROVE  Posted(st, r)
<1>1. CASE st.buttons = report_buttons(st)
    <2>1. r = st
        BY <1>1 DEF PostChangedButtons
    <2> QED
        BY <1>1, <2>1 DEF Posted
<1>2. CASE st.buttons # report_buttons(st)
    <2>1. PICK type \in Q!EventTypes : type = "key_up"
        BY DEF Q!EventTypes
    <2>2. r = [st EXCEPT
               !.queue = Q!emplace_back_pointing_input(@, report_buttons(st), type, now),
               !.buttons = report_buttons(st)]
        BY <1>2, <2>1 DEF PostChangedButtons
    <2> QED
        BY <2>2, PointingInputPosted
<1> QED
    BY <1>1, <1>2

\* A posted report makes the buttons those of the entries.
LEMMA PostedIsSound ==
    ASSUME NEW st, NEW r, NEW H, Posted(st, r),
           st.active_buttons \in SUBSET ButtonEntries, st.mouse_timer \in Nat \cup {None},
           KeysOf(st) \subseteq H, \A b \in st.active_buttons : <<b[2], b[1]>> \in H
    PROVE  Sound(r, H)
<1>1. report_buttons(r) = report_buttons(st)
    BY DEF Posted, report_buttons
<1> QED
    BY <1>1 DEF Posted, Sound

\* Dispatching keeps the stage sound, for fewer keys as well.
LEMMA DispatchedIsSound ==
    ASSUME NEW st, NEW r, NEW H, NEW K, Sound(st, H), Dispatched(st, r),
           KeysOf(r) \subseteq K, \A b \in st.active_buttons : <<b[2], b[1]>> \in K
    PROVE  Sound(r, K)
<1>1. /\ r.active_buttons = st.active_buttons /\ r.buttons = st.buttons
      /\ r.mouse_timer = st.mouse_timer
    BY DEF Dispatched, Stage
<1>2. report_buttons(r) = report_buttons(st)
    BY <1>1 DEF report_buttons
<1> QED
    BY <1>1, <1>2 DEF Sound, Dispatched

\* The modifiers are dispatched.
LEMMA ModifiersAreSound ==
    ASSUME now \in Nat, NEW st, NEW H, Sound(st, H), NEW r, r = DispatchModifiers(st)
    PROVE  Sound(r, H) /\ Dispatched(st, r)
<1>1. Tracked(st)
    BY DEF Sound
<1>2. PICK flags : flags = st.flags
    OBVIOUS
<1>3. r = D!dispatch_modifier_key_event(st, flags, now)
    BY <1>2 DEF DispatchModifiers
<1>4. Dispatched(st, r) /\ KeysOf(r) \subseteq KeysOf(st)
    BY ONLY <1>1, <1>3, ModifiersDispatched, now \in Nat
<1> QED
    BY <1>4, DispatchedIsSound DEF Sound

\* The members of the flags and of the mouse keys make no difference.
LEMMA SameOutputIsSound ==
    ASSUME NEW st, NEW s, NEW H, Sound(st, H), SameOutput(st, s),
           s.active_buttons = st.active_buttons, s.mouse_timer \in Nat \cup {None}
    PROVE  Sound(s, H)
<1>1. Tracked(s) /\ KeysOf(s) = KeysOf(st)
    BY SameOutputTracked DEF Sound
<1>2. report_buttons(s) = report_buttons(st)
    BY DEF report_buttons
<1> QED
    BY <1>1, <1>2 DEF Sound, SameOutput

\* A new vector of flags.
LEMMA NewFlagsAreSound ==
    ASSUME NEW st, NEW H, Sound(st, H), NEW flags, NEW s, s = [st EXCEPT !.flags = flags]
    PROVE  Sound(s, H)
<1>1. st \in Stage(st)
    BY DEF Sound, Tracked, Carries
<1>2. SameOutput(st, s) /\ s.active_buttons = st.active_buttons /\ s.mouse_timer = st.mouse_timer
    BY <1>1 DEF SameOutput, Stage
<1> QED
    BY <1>2, SameOutputIsSound DEF Sound

\* Other mouse keys.
LEMMA MouseKeysAreSound ==
    ASSUME now \in Nat, NEW st, NEW H, Sound(st, H), NEW keys, NEW s, s = SetMouseKeys(st, keys)
    PROVE  Sound(s, H) /\ SameFlags(st, s)
<1>1. st \in Stage(st)
    BY DEF Sound, Tracked, Carries
<1>2. PICK timer : timer = IF keys = {} THEN None ELSE now
    OBVIOUS
<1>3. timer \in Nat \cup {None}
    BY <1>2
<1>4. s = [st EXCEPT !.mouse_keys = keys, !.mouse_timer = timer]
    BY <1>2 DEF SetMouseKeys
<1>5. SameOutput(st, s) /\ s.active_buttons = st.active_buttons /\ s.mouse_timer = timer
    BY <1>1, <1>4 DEF SameOutput, Stage
<1>6. SameFlags(st, s)
    BY <1>1, <1>4 DEF SameFlags, Stage
<1> QED
    BY <1>3, <1>5, <1>6, SameOutputIsSound

\* The entries of a device are erased: flags and buttons.
Erased(st, flags, d) ==
    [st EXCEPT !.flags = flags, !.active_buttons = {b \in @ : b[2] # d}]

HasErased(st, s, flags, d) ==
    /\ Tracked(s) /\ KeysOf(s) = KeysOf(st) /\ s.flags = flags
    /\ s.active_buttons = {b \in st.active_buttons : b[2] # d}
    /\ s.active_buttons \in SUBSET ButtonEntries
    /\ s.mouse_timer \in Nat \cup {None}

\* The rest is as it was.
LEMMA EntriesErased ==
    ASSUME NEW st, NEW H, Sound(st, H), NEW flags, NEW d, NEW s, s = Erased(st, flags, d)
    PROVE  HasErased(st, s, flags, d)
<1>1. /\ st \in Stage(st) /\ st.active_buttons \in SUBSET ButtonEntries
      /\ Tracked(st) /\ st.mouse_timer \in Nat \cup {None}
    BY DEF Sound, Tracked, Carries
<1>2. PICK a : a = {b \in st.active_buttons : b[2] # d}
    OBVIOUS
<1>3. a \in SUBSET ButtonEntries
    BY <1>1, <1>2
<1>4. s = [st EXCEPT !.flags = flags, !.active_buttons = a]
    BY <1>2 DEF Erased
<1>5. SameOutput(st, s) /\ s.flags = flags /\ s.active_buttons = a /\ s.mouse_timer = st.mouse_timer
    BY <1>1, <1>4 DEF SameOutput, Stage
<1>6. Tracked(s) /\ KeysOf(s) = KeysOf(st)
    BY <1>1, <1>5, SameOutputTracked
<1> QED
    BY <1>1, <1>2, <1>3, <1>5, <1>6 DEF HasErased

\* handle_device_keys_and_pointing_buttons_are_released_event.
LEMMA AllReleasedIsSound ==
    ASSUME now \in Nat, NEW st, NEW H, Sound(st, H), NEW d, NEW r, r = AllReleased(st, d)
    PROVE  Sound(r, H)
<1>1. PICK flags : flags = M!erase_all_active_modifier_flags_except_lock_and_sticky(st.flags, d)
    OBVIOUS
<1>2. PICK erased : erased = Erased(st, flags, d)
    OBVIOUS
<1>3. PICK dispatched : dispatched = DispatchModifiers(erased)
    OBVIOUS
<1>4. PICK unstuckFlags : unstuckFlags = M!erase_caps_lock_sticky_modifier_flags(dispatched.flags)
    OBVIOUS
<1>5. PICK unstuck : unstuck = [dispatched EXCEPT !.flags = unstuckFlags]
    OBVIOUS
<1>6. PICK posted_ : posted_ = PostChangedButtons(unstuck)
    OBVIOUS
<1>7. PICK keys : keys = {k \in posted_.mouse_keys : k[1] # d}
    OBVIOUS
<1>8. r = SetMouseKeys(posted_, keys)
    BY <1>1, <1>2, <1>3, <1>4, <1>5, <1>6, <1>7 DEF AllReleased, EraseMouseKeys, Erased
<1>9. /\ Tracked(erased) /\ KeysOf(erased) = KeysOf(st) /\ erased.flags = flags
      /\ erased.active_buttons = {b \in st.active_buttons : b[2] # d}
      /\ erased.active_buttons \in SUBSET ButtonEntries
      /\ erased.mouse_timer \in Nat \cup {None}
    <2>1. HasErased(st, erased, flags, d)
        BY ONLY <1>2, EntriesErased, Sound(st, H)
    <2> QED
        BY <2>1 DEF HasErased
<1>10. Dispatched(erased, dispatched) /\ KeysOf(dispatched) \subseteq KeysOf(erased)
    <2>1. dispatched = D!dispatch_modifier_key_event(erased, flags, now)
        BY <1>3, <1>9 DEF DispatchModifiers
    <2> QED
        BY ONLY <1>9, <2>1, ModifiersDispatched, now \in Nat
<1>11. /\ dispatched \in Stage(dispatched) /\ Tracked(dispatched)
       /\ dispatched.active_buttons = erased.active_buttons
       /\ dispatched.mouse_timer = erased.mouse_timer
    BY <1>10 DEF Dispatched, Tracked, Carries, Stage
<1>12. SameOutput(dispatched, unstuck) /\ unstuck.active_buttons = dispatched.active_buttons
       /\ unstuck.mouse_timer = dispatched.mouse_timer
    BY ONLY <1>5, <1>11 DEF SameOutput, Stage
<1>13. Tracked(unstuck) /\ KeysOf(unstuck) = KeysOf(dispatched)
    BY <1>11, <1>12, SameOutputTracked
<1>14. unstuck.active_buttons \in SUBSET ButtonEntries /\ unstuck.mouse_timer \in Nat \cup {None}
    BY <1>9, <1>11, <1>12
<1>15. Posted(unstuck, posted_)
    BY <1>6, <1>13, <1>14, ChangedButtonsPosted
<1>16. KeysOf(unstuck) \subseteq H /\ \A b \in unstuck.active_buttons : <<b[2], b[1]>> \in H
    BY <1>9, <1>10, <1>11, <1>12, <1>13 DEF Sound
<1>17. Sound(posted_, H)
    BY ONLY <1>14, <1>15, <1>16, PostedIsSound
<1> QED
    BY ONLY <1>8, <1>17, MouseKeysAreSound, now \in Nat

\* The released event after the last key_up.
LEMMA WithReleasedIsSound ==
    ASSUME now \in Nat, NEW st, NEW H, Sound(st, H), NEW d, NEW x, NEW r, r = WithReleased(st, d, x)
    PROVE  Sound(r, H)
<1>1. r = AllReleased(st, d) \/ r = st
    BY DEF WithReleased
<1> QED
    BY <1>1, AllReleasedIsSound

\* handle_device_ungrabbed_event: nothing of the device is left.
LEMMA UngrabbedIsSound ==
    ASSUME now \in Nat, NEW st, NEW H, Sound(st, H), NEW d, NEW r, r = Ungrabbed(st, d)
    PROVE  Sound(r, {k \in H : k[1] # d})
<1>1. PICK flags : flags = M!erase_all_active_modifier_flags(st.flags, d)
    OBVIOUS
<1>2. PICK erased : erased = Erased(st, flags, d)
    OBVIOUS
<1>3. PICK released : released = D!dispatch_key_up_events_by_device_id(erased, d, now)
    OBVIOUS
<1>4. PICK posted_ : posted_ = PostChangedButtons(released)
    OBVIOUS
<1>5. PICK dispatched : dispatched = DispatchModifiers(posted_)
    OBVIOUS
<1>6. PICK keys : keys = {k \in dispatched.mouse_keys : k[1] # d}
    OBVIOUS
<1>7. r = SetMouseKeys(dispatched, keys)
    BY <1>1, <1>2, <1>3, <1>4, <1>5, <1>6 DEF Ungrabbed, EraseMouseKeys, Erased
<1>8. /\ Tracked(erased) /\ KeysOf(erased) = KeysOf(st)
      /\ erased.active_buttons = {b \in st.active_buttons : b[2] # d}
      /\ erased.active_buttons \in SUBSET ButtonEntries
      /\ erased.mouse_timer \in Nat \cup {None}
    <2>1. HasErased(st, erased, flags, d)
        BY ONLY <1>2, EntriesErased, Sound(st, H)
    <2> QED
        BY <2>1 DEF HasErased
<1>9. /\ Dispatched(erased, released)
      /\ \A k \in KeysOf(released) : k \in KeysOf(erased) /\ k[1] # d
    BY ONLY <1>3, <1>8, DeviceKeysDispatched, now \in Nat
<1>10. /\ Tracked(released)
       /\ released.active_buttons = erased.active_buttons
       /\ released.mouse_timer = erased.mouse_timer
    BY <1>9 DEF Dispatched, Stage
<1>11. released.active_buttons \in SUBSET ButtonEntries /\ released.mouse_timer \in Nat \cup {None}
    BY <1>8, <1>10
<1>12. Posted(released, posted_)
    BY <1>4, <1>10, <1>11, ChangedButtonsPosted
<1>13. PICK K : K = {k \in H : k[1] # d}
    OBVIOUS
<1>14. KeysOf(released) \subseteq K
    BY <1>8, <1>9, <1>13 DEF Sound
<1>15. \A b \in released.active_buttons : <<b[2], b[1]>> \in K
    BY <1>8, <1>10, <1>13 DEF Sound
<1>16. Sound(posted_, K)
    BY ONLY <1>11, <1>12, <1>14, <1>15, PostedIsSound
<1>17. Sound(dispatched, K)
    BY ONLY <1>5, <1>16, ModifiersAreSound, now \in Nat
<1>18. Sound(r, K)
    BY ONLY <1>7, <1>17, MouseKeysAreSound, now \in Nat
<1> QED
    BY <1>13, <1>18

\* What the devices hold may grow, or lose a modifier or a mouse key.
LEMMA HoldingMore ==
    ASSUME NEW st, NEW H, NEW K, Sound(st, H), H \subseteq K
    PROVE  Sound(st, K)
    BY DEF Sound

\* Neither the keys nor the buttons of the stage are among them.
LEMMA HoldingLess ==
    ASSUME NEW st, NEW H, Sound(st, H), NEW d, NEW x, x \notin OrdinaryUsages, x \notin Buttons
    PROVE  Sound(st, H \ {<<d, x>>})
<1>1. \A k \in KeysOf(st) : k[2] \in OrdinaryUsages
    <2>1. st.pressed_keys \in Seq(KeyboardDevices \X OrdinaryUsages)
        BY DEF Sound, Tracked, Carries, Stage
    <2> QED
        BY <2>1 DEF KeysOf, Elements
<1>2. \A b \in st.active_buttons : b[1] \in Buttons
    BY DEF Sound, ButtonEntries
<1>3. KeysOf(st) \subseteq H \ {<<d, x>>}
    <2>1. \A k \in KeysOf(st) : k # <<d, x>>
        BY <1>1
    <2> QED
        BY <2>1 DEF Sound
<1>4. \A b \in st.active_buttons : <<b[2], b[1]>> \in H \ {<<d, x>>}
    <2>1. \A b \in st.active_buttons : <<b[2], b[1]>> # <<d, x>>
        BY <1>2
    <2> QED
        BY <2>1 DEF Sound
<1> QED
    BY <1>3, <1>4 DEF Sound

\* A key goes up on every device.
LEMMA KeyUpIsSound ==
    ASSUME now \in Nat, NEW st, NEW H, Sound(st, H), NEW d, NEW u \in Usages,
           NEW r, r = D!dispatch_key_up_event(st, u, now)
    PROVE  Sound(r, H) /\ Sound(r, H \ {<<d, u>>}) /\ SameFlags(st, r)
<1>1. Tracked(st)
    BY DEF Sound
<1>2. /\ Dispatched(st, r) /\ KeysOf(r) = {k \in KeysOf(st) : k[2] # u}
      /\ r.pressed_modifier_flags = st.pressed_modifier_flags
    BY <1>1, KeyUpDispatched
<1>3. KeysOf(r) \subseteq H /\ KeysOf(r) \subseteq H \ {<<d, u>>}
    BY <1>2 DEF Sound
<1>4. \A b \in st.active_buttons : <<b[2], b[1]>> \in H \ {<<d, u>>}
    <2>1. \A b \in st.active_buttons : b[1] \in Buttons /\ <<b[2], b[1]>> \in H
        BY DEF Sound, ButtonEntries
    <2> QED
        BY <2>1, NameAssumption
<1>5. \A b \in st.active_buttons : <<b[2], b[1]>> \in H
    BY <1>4
<1>6. Sound(r, H) /\ Sound(r, H \ {<<d, u>>})
    BY ONLY Sound(st, H), <1>2, <1>3, <1>4, <1>5, DispatchedIsSound
<1>7. SameFlags(st, r)
    BY <1>2 DEF SameFlags, Dispatched, Stage
<1> QED
    BY <1>6, <1>7

\* A key goes down.
LEMMA PressKeyIsSound ==
    ASSUME now \in Nat, NEW st, NEW H, Sound(st, H), NEW d \in KeyboardDevices, NEW u \in OrdinaryUsages,
           NEW delayed \in BOOLEAN, NEW r, r = PressKey(st, d, u, delayed)
    PROVE  /\ Sound(r, H \cup {<<d, u>>})
           /\ r.flags = M!erase_all_sticky_modifier_flags(st.flags)
<1>1. PICK before : before = DispatchModifiers(st)
    OBVIOUS
<1>2. PICK flags : flags = M!erase_all_sticky_modifier_flags(before.flags)
    OBVIOUS
<1>3. PICK pushed : pushed = [before EXCEPT !.flags = flags]
    OBVIOUS
<1>4. PICK t : t = now + (IF delayed THEN SleepDelay ELSE 0)
    OBVIOUS
<1>5. t \in Nat
    BY <1>4, NameAssumption
<1>6. r = D!dispatch_key_down_event(pushed, d, u, t)
    BY <1>1, <1>2, <1>3, <1>4 DEF PressKey
<1>7. Sound(pushed, H) /\ pushed.flags = flags /\ before.flags = st.flags
    <2>1. Sound(before, H) /\ Dispatched(st, before)
        BY ONLY <1>1, ModifiersAreSound, now \in Nat, Sound(st, H)
    <2>2. Sound(pushed, H)
        BY ONLY <1>3, <2>1, NewFlagsAreSound
    <2>3. before.flags = st.flags /\ before \in Stage(before)
        BY <2>1 DEF Dispatched, Tracked, Carries, Stage
    <2>4. pushed.flags = flags
        BY ONLY <1>3, <2>3 DEF Stage
    <2> QED
        BY <2>2, <2>3, <2>4
<1>8. Dispatched(pushed, r) /\ KeysOf(r) \subseteq KeysOf(pushed) \cup {<<d, u>>}
    <2>1. Tracked(pushed)
        BY <1>7 DEF Sound
    <2> QED
        BY <1>5, <1>6, <2>1, KeyDownDispatched
<1>9. PICK K : K = H \cup {<<d, u>>}
    OBVIOUS
<1>10. KeysOf(r) \subseteq K /\ \A b \in pushed.active_buttons : <<b[2], b[1]>> \in K
    BY <1>7, <1>8, <1>9 DEF Sound
<1>11. Sound(r, K)
    BY ONLY <1>7, <1>8, <1>10, DispatchedIsSound
<1>12. r.flags = flags
    BY <1>7, <1>8 DEF Dispatched, Stage
<1> QED
    BY <1>2, <1>7, <1>9, <1>11, <1>12

-----------------------------------------------------------------------------
(* The vector of modifier flags: who has entries in it, and what they sum   *)
(* up to.                                                                   *)

\* Some key or button of the device is down.
Holds(H, d) == \E k \in H : k[1] = d

\* While the devices hold H: the entries of their modifier keys and lazy events,
\* stickies, and the led lock of caps_lock.
StageEntries(H) ==
    {f \in M!Entry :
        \/ f.kind = "plain" /\ Holds(H, f.device)
        \/ f.kind = "sticky"
        \/ f.kind = "led_lock" /\ f.flag = caps_lock}

\* No entry of a device is left when the device holds nothing.
Owned(flags, H) == flags \in Seq(StageEntries(H))

Raises(m) == {f \in M!Entry : f.flag = m /\ f.count = 1}
Lowers(m) == {f \in M!Entry : f.flag = m /\ f.count = -1}

\* How often a flag is raised more than it is lowered.
Balance(flags, m) == Number(flags, Raises(m)) - Number(flags, Lowers(m))

\* Cardinality of the flags' module is the one the lemmas are about.
LEMMA SameCardinality ==
    ASSUME NEW S
    PROVE  M!Cardinality(S) = Cardinality(S)
BY Zenon DEF M!Cardinality, Cardinality, M!IsFiniteSet, IsFiniteSet

\* The balance is a number.
LEMMA BalanceIsInteger ==
    ASSUME NEW T, NEW s \in Seq(T), NEW m
    PROVE  /\ Number(s, Raises(m)) \in Nat /\ Number(s, Lowers(m)) \in Nat
           /\ Balance(s, m) \in Int
<1>1. \A P : Number(s, P) \in 0..Len(s)
    BY NumberIsNatural
<1>2. Len(s) \in Nat
    OBVIOUS
<1>3. \A P : Number(s, P) \in Nat
    BY <1>1, <1>2
<1> QED
    BY <1>3 DEF Balance

\* An entry of another flag is appended.
LEMMA BalanceAppended ==
    ASSUME NEW T \in SUBSET M!Entry, NEW s \in Seq(T), NEW f \in T, NEW m, m # f.flag
    PROVE  Balance(Append(s, f), m) = Balance(s, m)
<1>1. f \notin Raises(m) /\ f \notin Lowers(m)
    BY DEF Raises, Lowers
<1>2. \A P : Number(Append(s, f), P) = Number(s, P) + (IF f \in P THEN 1 ELSE 0)
    BY NumberAppended
<1>3. Number(s, Raises(m)) \in Nat /\ Number(s, Lowers(m)) \in Nat
    BY BalanceIsInteger
<1>4. Number(Append(s, f), Raises(m)) = Number(s, Raises(m))
      /\ Number(Append(s, f), Lowers(m)) = Number(s, Lowers(m))
    BY <1>1, <1>2, <1>3
<1> QED
    BY <1>4 DEF Balance

\* Entries are taken out.
LEMMA EntriesKept ==
    ASSUME NEW T, NEW s \in Seq(T), NEW kept \in SUBSET DOMAIN s,
           NEW R, \A i \in kept : s[i] \in R,
           NEW r, r = M!Kept(s, kept)
    PROVE  r \in Seq(R)
<1>1. r = Kept(s, kept)
    BY DEF M!Kept, Kept
<1>2. r \in Seq(T) /\ \E from : TakenFrom(r, s, from, kept)
    BY <1>1, KeptTaken
<1>3. PICK from : TakenFrom(r, s, from, kept)
    BY <1>2
<1>4. \A j \in DOMAIN r : r[j] \in R
    BY <1>3 DEF TakenFrom
<1>5. r \in [1..Len(r) -> R] /\ Len(r) \in Nat
    BY <1>2, <1>4
<1> QED
    BY <1>5

\* None of them is of the flag.
LEMMA BalanceKept ==
    ASSUME NEW T \in SUBSET M!Entry, NEW s \in Seq(T), NEW kept \in SUBSET DOMAIN s, NEW m,
           \A i \in DOMAIN s : s[i].flag = m => i \in kept,
           NEW r, r = M!Kept(s, kept)
    PROVE  Balance(r, m) = Balance(s, m)
<1>1. r = Kept(s, kept)
    BY DEF M!Kept, Kept
<1>2. ASSUME NEW P, \A f \in P : f.flag = m
      PROVE  Number(r, P) = Number(s, P)
    <2>1. Number(r, P) = Cardinality({i \in kept : s[i] \in P})
        BY <1>1, NumberOfKept
    <2>2. {i \in kept : s[i] \in P} = {i \in DOMAIN s : s[i] \in P}
        BY <1>2
    <2> QED
        BY <2>1, <2>2 DEF Number
<1>3. (\A f \in Raises(m) : f.flag = m) /\ \A f \in Lowers(m) : f.flag = m
    BY DEF Raises, Lowers
<1>4. Number(r, Raises(m)) = Number(s, Raises(m)) /\ Number(r, Lowers(m)) = Number(s, Lowers(m))
    BY <1>2, <1>3
<1> QED
    BY <1>4 DEF Balance

\* A pair raises and lowers the same flag.
LEMMA BalanceOfPair ==
    ASSUME NEW T \in SUBSET M!Entry, NEW s \in Seq(T), NEW i \in DOMAIN s, NEW j \in DOMAIN s, i < j,
           M!is_paired(s[i], s[j]),
           NEW r, r = M!RemoveAt(M!RemoveAt(s, j), i), NEW m
    PROVE  r \in Seq(T) /\ Balance(r, m) = Balance(s, m)
<1>1. PICK x : x = Without(s, j)
    OBVIOUS
<1>2. r = Without(x, i)
    BY <1>1 DEF M!RemoveAt, Without
<1>3. /\ x \in Seq(T) /\ Len(x) = Len(s) - 1
      /\ \A k \in DOMAIN x : x[k] = IF k < j THEN s[k] ELSE s[k + 1]
      /\ \A P : Number(x, P) = Number(s, P) - (IF s[j] \in P THEN 1 ELSE 0)
    BY <1>1, NumberWithout
<1>4. i \in DOMAIN x /\ x[i] = s[i]
    <2>1. i \in 1..(Len(s) - 1)
        OBVIOUS
    <2> QED
        BY <1>3, <2>1
<1>5. r \in Seq(T) /\ \A P : Number(r, P) = Number(x, P) - (IF x[i] \in P THEN 1 ELSE 0)
    BY <1>2, <1>3, <1>4, NumberWithout
<1>6. s[i] \in M!Entry /\ s[j] \in M!Entry
    OBVIOUS
<1>7. s[i].flag = s[j].flag /\ s[i].count = -s[j].count
    BY DEF M!is_paired
<1>8. s[i].count \in {1, -1} /\ s[j].count \in {1, -1}
    BY <1>6 DEF M!Entry
<1>9. (s[i] \in Raises(m) <=> s[j] \in Lowers(m)) /\ (s[i] \in Lowers(m) <=> s[j] \in Raises(m))
    BY <1>6, <1>7, <1>8 DEF Raises, Lowers
<1>10. ~ (s[j] \in Raises(m) /\ s[j] \in Lowers(m))
    BY DEF Raises, Lowers
<1>11. Number(s, Raises(m)) \in Nat /\ Number(s, Lowers(m)) \in Nat
    BY BalanceIsInteger
<1>12. PICK up, down : /\ up = Number(s, Raises(m)) /\ down = Number(s, Lowers(m))
                       /\ up \in Nat /\ down \in Nat
    BY <1>11
<1>13. PICK c \in {0, 1} : c = IF s[j] \in Raises(m) THEN 1 ELSE 0
    OBVIOUS
<1>14. PICK e \in {0, 1} : e = IF s[j] \in Lowers(m) THEN 1 ELSE 0
    OBVIOUS
<1>15. Number(r, Raises(m)) = (up - c) - e /\ Number(r, Lowers(m)) = (down - e) - c
    BY <1>3, <1>4, <1>5, <1>9, <1>12, <1>13, <1>14
<1> QED
    BY <1>5, <1>12, <1>15 DEF Balance

\* The vectors erase_pairs goes through.
Vectors(T, s) ==
    {a \in [flags : Seq(T), i : Nat \ {0}] : \A m \in Flags : Balance(a.flags, m) = Balance(s, m)}

\* A round of erase_pairs.
LEMMA RoundBalanced ==
    ASSUME NEW T \in SUBSET M!Entry, NEW s, NEW a \in Vectors(T, s)
    PROVE  M!erase_pair(a) \in Vectors(T, s)
<1>1. a \in [flags : Seq(T), i : Nat \ {0}] /\ \A m \in Flags : Balance(a.flags, m) = Balance(s, m)
    BY DEF Vectors
<1>2. PICK v \in Seq(T), i \in Nat \ {0} : a = [flags |-> v, i |-> i]
    BY <1>1
<1>3. PICK partners : partners = {j \in (i + 1)..Len(v) : M!is_paired(v[i], v[j])}
    OBVIOUS
<1>4. M!erase_pair(a) =
          IF i > Len(v) THEN a
          ELSE IF partners = {} THEN [a EXCEPT !.i = @ + 1]
          ELSE [flags |-> M!RemoveAt(M!RemoveAt(v, M!Min(partners)), i),
                i |-> IF i > 1 THEN i ELSE 2]
    BY <1>2, <1>3 DEF M!erase_pair
<1>5. CASE i > Len(v)
    BY <1>4, <1>5
<1>6. CASE ~ (i > Len(v)) /\ partners = {}
    <2>1. M!erase_pair(a) = [flags |-> v, i |-> i + 1]
        BY <1>2, <1>4, <1>6
    <2>2. [flags |-> v, i |-> i + 1] \in Vectors(T, s)
        BY <1>1, <1>2 DEF Vectors
    <2> QED
        BY <2>1, <2>2
<1>7. CASE ~ (i > Len(v)) /\ partners # {}
    <2>1. PICK j : j = M!Min(partners)
        OBVIOUS
    <2>2. j \in partners
        <3>1. partners \in SUBSET Nat
            BY <1>3
        <3>2. \E n \in partners : \A k \in partners : n <= k
            BY <1>7, <3>1, LeastNumber
        <3> QED
            BY <2>1, <3>2 DEF M!Min
    <2>3. /\ i \in DOMAIN v /\ j \in DOMAIN v /\ i < j
          /\ M!is_paired(v[i], v[j])
        BY <1>3, <1>7, <2>2
    <2>4. PICK r : r = M!RemoveAt(M!RemoveAt(v, j), i)
        OBVIOUS
    <2>5. r \in Seq(T) /\ \A m \in Flags : Balance(r, m) = Balance(v, m)
        BY <2>3, <2>4, BalanceOfPair
    <2>6. PICK n \in Nat \ {0} : n = IF i > 1 THEN i ELSE 2
        OBVIOUS
    <2>7. M!erase_pair(a) = [flags |-> r, i |-> n]
        BY <1>4, <1>7, <2>1, <2>4, <2>6
    <2>8. [flags |-> r, i |-> n] \in Vectors(T, s)
        BY <1>1, <1>2, <2>5 DEF Vectors
    <2> QED
        BY <2>7, <2>8
<1> QED
    BY <1>5, <1>6, <1>7

\* erase_pairs leaves the balance of every flag as it was, in any vector.
LEMMA PairsErased ==
    ASSUME NEW T \in SUBSET M!Entry, NEW s \in Seq(T)
    PROVE  /\ M!erase_pairs(s) \in Seq(T)
           /\ \A m \in Flags : Balance(M!erase_pairs(s), m) = Balance(s, m)
<1> DEFINE n == Len(s)
           States == Vectors(T, s)
           start == [flags |-> s, i |-> 1]
           step == [p \in States \X (1..n) |-> M!erase_pair(p[1])]
           Further(g, i) == M!erase_pair(g[i - 1])
           IsRound(g) == g = [i \in 0..n |-> IF i = 0 THEN start ELSE Further(g, i)]
           round == CHOOSE g : IsRound(g)
<1>1. n \in Nat
    OBVIOUS
<1>2. M!erase_pairs(s) = round[n].flags
    BY DEF M!erase_pairs
<1>3. start \in States
    BY DEF Vectors
<1>4. \A a \in States : M!erase_pair(a) \in States
    BY RoundBalanced
<1> HIDE DEF n
<1>0. 0 \in 0..n /\ (\A i \in 0..n : i # 0 <=> i \in 1..n) /\ n \in 0..n /\ \A i \in 1..n : i \in 0..n
    BY <1>1
<1>5. IsRound(round)
    <2>1. step \in [States \X (1..n) -> States]
        BY <1>4
    <2> HIDE DEF step, States, start
    <2>2. PICK g : Recursive(g, n, States, start, step)
        BY <1>1, <1>3, <2>1, Recursion
    <2>3. g \in [0..n -> States] /\ g[0] = start /\ \A i \in 1..n : g[i] = step[<<g[i - 1], i>>]
        BY <2>2 DEF Recursive
    <2>4. ASSUME NEW i \in 1..n
          PROVE  g[i] = Further(g, i)
        <3>1. g[i - 1] \in States
            BY <1>1, <2>3
        <3>2. <<g[i - 1], i>> \in States \X (1..n)
            BY <3>1
        <3> QED
            BY <2>3, <3>2 DEF step
    <2> HIDE DEF Further
    <2>5. \A i \in 0..n : g[i] = IF i = 0 THEN start ELSE Further(g, i)
        BY <1>0, <2>3, <2>4
    <2>6. IsRound(g)
        BY <2>3, <2>5
    <2> QED
        BY <2>6
<1> HIDE DEF round, start, States
<1>6. round[0] = start /\ \A i \in 1..n : round[i] = Further(round, i)
    <2> HIDE DEF Further
    <2>1. \A i \in 0..n : round[i] = IF i = 0 THEN start ELSE Further(round, i)
        BY <1>5, Zenon
    <2> QED
        BY <1>0, <2>1
<1> HIDE DEF IsRound
<1> DEFINE Good == {i \in 0..n : round[i] \in States}
<1>7. Good = 0..n
    <2>1. 0 \in Good
        BY <1>0, <1>3, <1>6
    <2>2. ASSUME NEW i \in 1..n, i - 1 \in Good
          PROVE  i \in Good
        BY <1>0, <1>4, <1>6, <2>2
    <2>3. Good \in SUBSET (0..n)
        OBVIOUS
    <2> HIDE DEF Good
    <2> QED
        BY <1>1, <2>1, <2>2, <2>3, Induction
<1>8. round[n] \in Vectors(T, s)
    BY <1>0, <1>7 DEF States
<1> QED
    BY <1>2, <1>8 DEF Vectors

\* A pushed entry changes the balance of no other flag.
LEMMA EntryPushed ==
    ASSUME NEW T \in SUBSET M!Entry, NEW s \in Seq(T), NEW f \in T,
           NEW r, r = M!push_back_active_modifier_flag(s, f)
    PROVE  /\ r \in Seq(T)
           /\ \A m \in Flags \ {f.flag} : Balance(r, m) = Balance(s, m)
<1>1. ASSUME NEW kept \in SUBSET DOMAIN s, \A i \in DOMAIN s : s[i].flag # f.flag => i \in kept,
             NEW v, v = M!Kept(s, kept)
      PROVE  v \in Seq(T) /\ \A m \in Flags \ {f.flag} : Balance(v, m) = Balance(s, m)
    <2>1. v \in Seq(T)
        <3>1. \A i \in kept : s[i] \in T
            OBVIOUS
        <3> QED
            BY <1>1, <3>1, EntriesKept
    <2>2. ASSUME NEW m \in Flags \ {f.flag}
          PROVE  Balance(v, m) = Balance(s, m)
        <3>1. \A i \in DOMAIN s : s[i].flag = m => i \in kept
            BY <1>1
        <3> QED
            BY <1>1, <3>1, BalanceKept
    <2> QED
        BY <2>1, <2>2
<1>2. ASSUME NEW v \in Seq(T), NEW x, x = M!erase_pairs(Append(v, f)),
             \A m \in Flags \ {f.flag} : Balance(v, m) = Balance(s, m)
      PROVE  x \in Seq(T) /\ \A m \in Flags \ {f.flag} : Balance(x, m) = Balance(s, m)
    <2>1. PICK w : w = Append(v, f)
        OBVIOUS
    <2>2. w \in Seq(T)
        BY <2>1
    <2>3. x \in Seq(T) /\ \A m \in Flags : Balance(x, m) = Balance(w, m)
        BY <1>2, <2>1, <2>2, PairsErased
    <2>4. \A m \in Flags \ {f.flag} : Balance(w, m) = Balance(v, m)
        BY <2>1, BalanceAppended
    <2> QED
        BY <1>2, <2>3, <2>4
<1>3. CASE f.kind \in {"plain", "sticky"}
    <2>1. r = M!erase_pairs(Append(s, f))
        BY <1>3 DEF M!push_back_active_modifier_flag
    <2> QED
        BY <1>2, <2>1
<1>4. CASE f.kind = "lock" \/ (f.kind = "led_lock" /\ f.count = 1)
    <2>1. PICK kept : kept = {i \in DOMAIN s : s[i] # f}
        OBVIOUS
    <2>2. PICK v : v = M!Kept(s, kept)
        OBVIOUS
    <2>3. r = M!erase_pairs(Append(v, f))
        BY <1>4, <2>1, <2>2 DEF M!push_back_active_modifier_flag
    <2>4. kept \in SUBSET DOMAIN s /\ \A i \in DOMAIN s : s[i].flag # f.flag => i \in kept
        BY <2>1
    <2>5. v \in Seq(T) /\ \A m \in Flags \ {f.flag} : Balance(v, m) = Balance(s, m)
        BY <1>1, <2>2, <2>4
    <2> QED
        BY <1>2, <2>3, <2>5
<1>5. CASE ~ (f.kind \in {"plain", "sticky"} \/ f.kind = "lock" \/ (f.kind = "led_lock" /\ f.count = 1))
    <2>1. PICK kept : kept = {i \in DOMAIN s : ~ M!is_paired(s[i], f)}
        OBVIOUS
    <2>2. r = M!Kept(s, kept)
        BY <1>5, <2>1 DEF M!push_back_active_modifier_flag
    <2>3. kept \in SUBSET DOMAIN s /\ \A i \in DOMAIN s : s[i].flag # f.flag => i \in kept
        BY <2>1 DEF M!is_paired
    <2> QED
        BY <1>1, <2>2, <2>3
<1> QED
    BY <1>3, <1>4, <1>5

\* Without the led lock, a flag is pressed when it is raised more often than it
\* is lowered.
LEMMA PressedByBalance ==
    ASSUME NEW H, NEW s, Owned(s, H), NEW m \in Flags, m # caps_lock
    PROVE  M!is_pressed(s, m) <=> Balance(s, m) > 0
<1> DEFINE other(c) == {i \in DOMAIN s : s[i].flag = m /\ s[i].kind # "led_lock" /\ s[i].count = c}
           locks(c) == {i \in DOMAIN s : s[i].flag = m /\ s[i].kind = "led_lock" /\ s[i].count = c}
<1>1. s \in Seq(StageEntries(H))
    BY DEF Owned
<1>2. \A i \in DOMAIN s : s[i] \in StageEntries(H)
    BY <1>1
<1>3. \A i \in DOMAIN s : s[i] \in M!Entry /\ (s[i].flag = m => s[i].kind # "led_lock")
    BY <1>2 DEF StageEntries
<1>4. locks(1) = {} /\ locks(-1) = {}
    BY <1>3
<1>5. other(1) = {i \in DOMAIN s : s[i] \in Raises(m)}
    BY <1>3 DEF Raises
<1>6. other(-1) = {i \in DOMAIN s : s[i] \in Lowers(m)}
    BY <1>3 DEF Lowers
<1>7. M!is_pressed(s, m) <=>
          IF other(1) = {} /\ other(-1) = {} THEN M!Cardinality(locks(1)) > M!Cardinality(locks(-1))
          ELSE M!Cardinality(other(1)) > M!Cardinality(other(-1))
    BY DEF M!is_pressed
<1>8. Cardinality(other(1)) = Number(s, Raises(m)) /\ Cardinality(other(-1)) = Number(s, Lowers(m))
    BY <1>5, <1>6 DEF Number
<1> HIDE DEF other, locks
<1>9. PICK up, down : /\ up = Number(s, Raises(m)) /\ down = Number(s, Lowers(m))
                      /\ up \in Nat /\ down \in Nat
    BY <1>1, BalanceIsInteger
<1>10. Cardinality({}) = 0
    BY FS_EmptySet
<1>11. other(1) = {} /\ other(-1) = {} => up = 0 /\ down = 0
    BY <1>8, <1>9, <1>10
<1>12. \A S : M!Cardinality(S) = Cardinality(S)
    BY SameCardinality
<1>13. M!is_pressed(s, m) <=> up > down
    BY <1>4, <1>7, <1>8, <1>9, <1>10, <1>11, <1>12
<1> QED
    BY <1>9, <1>13 DEF Balance

\* The entries of fewer and of more devices.
LEMMA StageEntriesOf ==
    ASSUME NEW H, NEW K, \A d : Holds(H, d) => Holds(K, d), NEW flags, Owned(flags, H)
    PROVE  Owned(flags, K)
<1>1. StageEntries(H) \subseteq StageEntries(K)
    BY DEF StageEntries
<1>2. flags \in [1..Len(flags) -> StageEntries(K)] /\ Len(flags) \in Nat
    BY <1>1 DEF Owned
<1> QED
    BY <1>2 DEF Owned

\* Nor does it matter when more is held.
LEMMA OwnedByMore ==
    ASSUME NEW H, NEW K, H \subseteq K, NEW flags, Owned(flags, H)
    PROVE  Owned(flags, K)
    BY StageEntriesOf DEF Holds

\* ActiveModifierFlag makes entries of the stage.
LEMMA EntryMade ==
    ASSUME NEW c \in {1, -1}, NEW m \in Flags, NEW d \in Devices, NEW H,
           NEW k, \/ k = "plain" /\ Holds(H, d)
                  \/ k = "sticky"
                  \/ k = "led_lock" /\ m = caps_lock
    PROVE  /\ M!ActiveModifierFlag(c, k, m, d) \in StageEntries(H)
           /\ M!ActiveModifierFlag(c, k, m, d).flag = m
    BY OrderAssumption DEF M!ActiveModifierFlag, StageEntries, M!Entry, M!Kinds

\* The flags remembered as pressed are pressed, caps_lock aside.
Settled(flags, pressed) == \A m \in pressed \ {caps_lock} : Balance(flags, m) > 0

\* What is true of the flags between two events while the devices hold H.
Orderly(st, H) ==
    /\ Owned(st.flags, H)
    /\ H = {} => Settled(st.flags, st.pressed_modifier_flags)

\* Taking entries out leaves the rest in order.
LEMMA EntriesErasedOrderly ==
    ASSUME NEW H, NEW flags, Owned(flags, H), NEW K, NEW kept \in SUBSET DOMAIN flags,
           \A i \in kept : flags[i].kind = "plain" => Holds(K, flags[i].device),
           NEW r, r = M!Kept(flags, kept)
    PROVE  Owned(r, K)
<1>1. flags \in Seq(StageEntries(H))
    BY DEF Owned
<1>2. \A i \in kept : flags[i] \in StageEntries(H)
    BY <1>1
<1>3. \A i \in kept : flags[i] \in StageEntries(K)
    BY <1>2 DEF StageEntries
<1>4. r \in Seq(StageEntries(K))
    BY <1>1, <1>3, EntriesKept
<1> QED
    BY <1>4 DEF Owned

\* After dispatch_modifier_key_event the flags are settled.
LEMMA ModifiersSettle ==
    ASSUME now \in Nat, NEW st, Tracked(st), NEW H, Owned(st.flags, H),
           NEW r, r = DispatchModifiers(st)
    PROVE  /\ r.flags = st.flags /\ Owned(r.flags, H)
           /\ Settled(r.flags, r.pressed_modifier_flags)
           /\ Orderly(r, H)
<1>1. PICK flags : flags = st.flags
    OBVIOUS
<1>2. r = D!dispatch_modifier_key_event(st, flags, now)
    BY <1>1 DEF DispatchModifiers
<1>3. /\ Dispatched(st, r)
      /\ \A x \in Flags : x \in r.pressed_modifier_flags <=> M!is_pressed(flags, x)
    BY ONLY <1>2, Tracked(st), ModifiersDispatched, now \in Nat
<1>4. r.flags = flags /\ r.pressed_modifier_flags \in SUBSET Flags
    BY <1>1, <1>3 DEF Dispatched, Stage
<1>5. Owned(flags, H)
    BY <1>1
<1>6. ASSUME NEW m \in r.pressed_modifier_flags \ {caps_lock}
      PROVE  Balance(flags, m) > 0
    <2>1. m \in Flags /\ m # caps_lock
        BY <1>4
    <2>2. M!is_pressed(flags, m)
        BY <1>3, <2>1
    <2> QED
        BY ONLY <1>5, <2>1, <2>2, PressedByBalance
<1>7. Settled(r.flags, r.pressed_modifier_flags)
    BY <1>4, <1>6 DEF Settled
<1> QED
    BY <1>1, <1>4, <1>5, <1>7 DEF Orderly

\* A key goes down and takes the stickies with it.
LEMMA StickiesErased ==
    ASSUME NEW H, NEW flags, Owned(flags, H)
    PROVE  Owned(M!erase_all_sticky_modifier_flags(flags), H)
<1>1. PICK kept : kept = {i \in DOMAIN flags : flags[i].kind # "sticky"}
    OBVIOUS
<1>2. PICK r : r = M!Kept(flags, kept)
    OBVIOUS
<1>3. kept \in SUBSET DOMAIN flags
    BY <1>1
<1>4. \A i \in kept : flags[i].kind = "plain" => Holds(H, flags[i].device)
    <2>1. \A i \in DOMAIN flags : flags[i] \in StageEntries(H)
        BY DEF Owned
    <2> QED
        BY <1>3, <2>1 DEF StageEntries
<1>5. Owned(r, H)
    BY <1>2, <1>3, <1>4, EntriesErasedOrderly
<1> QED
    BY <1>1, <1>2, <1>5 DEF M!erase_all_sticky_modifier_flags

\* Stickies of caps_lock make no difference to the other flags.
LEMMA CapsStickiesErased ==
    ASSUME NEW H, NEW flags, Owned(flags, H), NEW r, r = M!erase_caps_lock_sticky_modifier_flags(flags)
    PROVE  /\ Owned(r, H)
           /\ \A m \in Flags \ {caps_lock} : Balance(r, m) = Balance(flags, m)
<1>1. PICK kept : kept = {i \in DOMAIN flags : ~ (flags[i].flag = caps_lock /\ flags[i].kind = "sticky")}
    OBVIOUS
<1>2. r = M!Kept(flags, kept)
    BY <1>1 DEF M!erase_caps_lock_sticky_modifier_flags
<1>3. kept \in SUBSET DOMAIN flags
    BY <1>1
<1>4. \A i \in kept : flags[i].kind = "plain" => Holds(H, flags[i].device)
    <2>1. \A i \in DOMAIN flags : flags[i] \in StageEntries(H)
        BY DEF Owned
    <2> QED
        BY <1>3, <2>1 DEF StageEntries
<1>5. Owned(r, H)
    BY <1>2, <1>3, <1>4, EntriesErasedOrderly
<1>6. ASSUME NEW m \in Flags \ {caps_lock}
      PROVE  Balance(r, m) = Balance(flags, m)
    <2>1. flags \in Seq(M!Entry)
        <3>1. StageEntries(H) \subseteq M!Entry
            BY DEF StageEntries
        <3>2. flags \in [1..Len(flags) -> M!Entry] /\ Len(flags) \in Nat
            BY <3>1 DEF Owned
        <3> QED
            BY <3>2
    <2>2. \A i \in DOMAIN flags : flags[i].flag = m => i \in kept
        BY <1>1
    <2> QED
        BY ONLY <1>2, <1>3, <2>1, <2>2, BalanceKept
<1> QED
    BY <1>5, <1>6

\* The released event leaves no entry of the device, and settles the flags.
LEMMA AllReleasedSettles ==
    ASSUME now \in Nat, NEW st, NEW G, Sound(st, G), NEW d,
           NEW K, Owned(st.flags, K), NEW H, \A e : Holds(K, e) /\ e # d => Holds(H, e),
           NEW r, r = AllReleased(st, d)
    PROVE  Orderly(r, H)
<1>1. PICK flags : flags = M!erase_all_active_modifier_flags_except_lock_and_sticky(st.flags, d)
    OBVIOUS
<1>2. PICK erased : erased = Erased(st, flags, d)
    OBVIOUS
<1>3. PICK dispatched : dispatched = DispatchModifiers(erased)
    OBVIOUS
<1>4. PICK unstuckFlags : unstuckFlags = M!erase_caps_lock_sticky_modifier_flags(dispatched.flags)
    OBVIOUS
<1>5. PICK unstuck : unstuck = [dispatched EXCEPT !.flags = unstuckFlags]
    OBVIOUS
<1>6. PICK posted_ : posted_ = PostChangedButtons(unstuck)
    OBVIOUS
<1>7. PICK keys : keys = {k \in posted_.mouse_keys : k[1] # d}
    OBVIOUS
<1>8. r = SetMouseKeys(posted_, keys)
    BY <1>1, <1>2, <1>3, <1>4, <1>5, <1>6, <1>7 DEF AllReleased, EraseMouseKeys, Erased
<1>9. Owned(flags, H)
    <2>1. PICK old : old = st.flags
        OBVIOUS
    <2>2. PICK kept : kept = {i \in DOMAIN old : ~ (old[i].device = d /\ old[i].kind = "plain")}
        OBVIOUS
    <2>3. flags = M!Kept(old, kept)
        BY <1>1, <2>1, <2>2 DEF M!erase_all_active_modifier_flags_except_lock_and_sticky
    <2>4. Owned(old, K) /\ kept \in SUBSET DOMAIN old
        BY <2>1, <2>2
    <2>5. \A i \in DOMAIN old : old[i] \in StageEntries(K)
        BY <2>4 DEF Owned
    <2>6. \A i \in kept : old[i].kind = "plain" => Holds(H, old[i].device)
        BY <2>2, <2>5 DEF StageEntries
    <2> QED
        BY ONLY <2>3, <2>4, <2>6, EntriesErasedOrderly
<1>10. Tracked(erased) /\ erased.flags = flags
    <2>1. HasErased(st, erased, flags, d)
        BY ONLY <1>2, EntriesErased, Sound(st, G)
    <2> QED
        BY <2>1 DEF HasErased
<1>11. /\ dispatched.flags = flags /\ Owned(dispatched.flags, H)
       /\ Settled(dispatched.flags, dispatched.pressed_modifier_flags)
    <2>1. Owned(erased.flags, H)
        BY <1>9, <1>10
    <2>2. /\ dispatched.flags = erased.flags /\ Owned(dispatched.flags, H)
          /\ Settled(dispatched.flags, dispatched.pressed_modifier_flags)
        BY ONLY <1>3, <1>10, <2>1, ModifiersSettle, now \in Nat
    <2> QED
        BY <1>10, <2>2
<1>12. dispatched \in Stage(dispatched)
    <2>1. PICK old : old = erased.flags
        OBVIOUS
    <2>2. dispatched = D!dispatch_modifier_key_event(erased, old, now)
        BY <1>3, <2>1 DEF DispatchModifiers
    <2>3. Dispatched(erased, dispatched)
        BY ONLY <1>10, <2>2, ModifiersDispatched, now \in Nat
    <2> QED
        BY <2>3 DEF Dispatched, Tracked, Carries
<1>13. /\ unstuck.flags = unstuckFlags
       /\ unstuck.pressed_modifier_flags = dispatched.pressed_modifier_flags
       /\ unstuck \in Stage(unstuck)
    BY ONLY <1>5, <1>12 DEF Stage
<1>14. /\ Owned(unstuckFlags, H)
       /\ Settled(unstuckFlags, dispatched.pressed_modifier_flags)
    <2>1. /\ Owned(unstuckFlags, H)
          /\ \A m \in Flags \ {caps_lock} : Balance(unstuckFlags, m) = Balance(dispatched.flags, m)
        BY <1>4, <1>11, CapsStickiesErased
    <2>2. dispatched.pressed_modifier_flags \in SUBSET Flags
        BY <1>12 DEF Stage
    <2> QED
        BY <1>11, <2>1, <2>2 DEF Settled
<1>15. /\ posted_.flags = unstuck.flags
       /\ posted_.pressed_modifier_flags = unstuck.pressed_modifier_flags
       /\ r.flags = posted_.flags /\ r.pressed_modifier_flags = posted_.pressed_modifier_flags
    <2>1. /\ posted_.flags = unstuck.flags
          /\ posted_.pressed_modifier_flags = unstuck.pressed_modifier_flags
          /\ DOMAIN posted_ = DOMAIN unstuck
        BY ONLY <1>6, <1>13 DEF PostChangedButtons, Stage
    <2>2. /\ r.flags = posted_.flags /\ r.pressed_modifier_flags = posted_.pressed_modifier_flags
        BY ONLY <1>8, <1>13, <2>1 DEF SetMouseKeys, Stage
    <2> QED
        BY <2>1, <2>2
<1> QED
    BY <1>13, <1>14, <1>15 DEF Orderly

\* The released event after the last key_up: with x up, the device may hold
\* nothing any more.
LEMMA WithReleasedOrderly ==
    ASSUME now \in Nat, NEW st, NEW G, Sound(st, G), NEW d, NEW x, <<d, x>> \in held,
           Owned(st.flags, held), NEW H, H = held \ {<<d, x>>},
           NEW r, r = WithReleased(st, d, x)
    PROVE  Orderly(r, H)
<1>1. CASE LastUp(d, x)
    <2>1. r = AllReleased(st, d)
        BY <1>1 DEF WithReleased
    <2>2. \A e : Holds(held, e) /\ e # d => Holds(H, e)
        BY DEF Holds
    <2> QED
        BY ONLY <2>1, <2>2, AllReleasedSettles, now \in Nat, Sound(st, G), Owned(st.flags, held)
<1>2. CASE ~ LastUp(d, x)
    <2>1. r = st
        BY <1>2 DEF WithReleased
    <2>2. PICK k \in held : k[1] = d /\ k # <<d, x>>
        BY <1>2 DEF LastUp
    <2>3. k \in H
        BY <2>2
    <2>4. \A e : Holds(held, e) => Holds(H, e)
        BY <2>2, <2>3 DEF Holds
    <2>5. Owned(st.flags, H)
        BY ONLY <2>4, Owned(st.flags, held), StageEntriesOf
    <2> QED
        BY <2>1, <2>3, <2>5 DEF Orderly
<1> QED
    BY <1>1, <1>2

\* device_ungrabbed leaves no entry of the device either.
LEMMA UngrabbedSettles ==
    ASSUME now \in Nat, NEW st, NEW K, Sound(st, K), NEW d, Owned(st.flags, K),
           NEW H, H = {k \in K : k[1] # d},
           NEW r, r = Ungrabbed(st, d)
    PROVE  Orderly(r, H)
<1>1. PICK flags : flags = M!erase_all_active_modifier_flags(st.flags, d)
    OBVIOUS
<1>2. PICK erased : erased = Erased(st, flags, d)
    OBVIOUS
<1>3. PICK released : released = D!dispatch_key_up_events_by_device_id(erased, d, now)
    OBVIOUS
<1>4. PICK posted_ : posted_ = PostChangedButtons(released)
    OBVIOUS
<1>5. PICK dispatched : dispatched = DispatchModifiers(posted_)
    OBVIOUS
<1>6. PICK keys : keys = {k \in dispatched.mouse_keys : k[1] # d}
    OBVIOUS
<1>7. r = SetMouseKeys(dispatched, keys)
    BY <1>1, <1>2, <1>3, <1>4, <1>5, <1>6 DEF Ungrabbed, EraseMouseKeys, Erased
<1>8. Owned(flags, H)
    <2>1. PICK old : old = st.flags
        OBVIOUS
    <2>2. PICK kept : kept = {i \in DOMAIN old : old[i].device # d}
        OBVIOUS
    <2>3. flags = M!Kept(old, kept)
        BY <1>1, <2>1, <2>2 DEF M!erase_all_active_modifier_flags
    <2>4. Owned(old, K) /\ kept \in SUBSET DOMAIN old
        BY <2>1, <2>2
    <2>5. \A i \in DOMAIN old : old[i] \in StageEntries(K)
        BY <2>4 DEF Owned
    <2>6. \A i \in kept : old[i].kind = "plain" => Holds(H, old[i].device)
        BY <2>2, <2>5 DEF StageEntries, Holds
    <2> QED
        BY ONLY <2>3, <2>4, <2>6, EntriesErasedOrderly
<1>9. /\ Tracked(erased) /\ erased.flags = flags
      /\ erased.active_buttons \in SUBSET ButtonEntries
    <2>1. HasErased(st, erased, flags, d)
        BY ONLY <1>2, EntriesErased, Sound(st, K)
    <2> QED
        BY <2>1 DEF HasErased
<1>10. Tracked(released) /\ released.flags = flags
       /\ released.active_buttons \in SUBSET ButtonEntries
    <2>1. Dispatched(erased, released)
        BY ONLY <1>3, <1>9, DeviceKeysDispatched, now \in Nat
    <2> QED
        BY <1>9, <2>1 DEF Dispatched, Stage
<1>11. Tracked(posted_) /\ posted_.flags = flags
    <2>1. Posted(released, posted_)
        BY ONLY <1>4, <1>10, ChangedButtonsPosted, now \in Nat
    <2> QED
        BY <1>10, <2>1 DEF Posted
<1>12. /\ Owned(dispatched.flags, H)
       /\ Settled(dispatched.flags, dispatched.pressed_modifier_flags)
    <2>1. Owned(posted_.flags, H)
        BY <1>8, <1>11
    <2> QED
        BY ONLY <1>5, <1>11, <2>1, ModifiersSettle, now \in Nat
<1>13. r.flags = dispatched.flags /\ r.pressed_modifier_flags = dispatched.pressed_modifier_flags
    BY ONLY <1>7 DEF SetMouseKeys
<1> QED
    BY <1>12, <1>13 DEF Orderly

\* An entry is pushed; the balance of the other flags stays.
LEMMA PushedOwned ==
    ASSUME NEW st, Tracked(st), NEW H, Owned(st.flags, H),
           NEW c \in {1, -1}, NEW m \in Flags, NEW d \in Devices,
           NEW k, \/ k = "plain" /\ Holds(H, d)
                  \/ k = "sticky"
                  \/ k = "led_lock" /\ m = caps_lock,
           NEW s, s = PushFlag(st, c, k, m, d)
    PROVE  /\ Owned(s.flags, H)
           /\ s.pressed_modifier_flags = st.pressed_modifier_flags
           /\ \A x \in Flags \ {m} : Balance(s.flags, x) = Balance(st.flags, x)
<1>1. PICK f : f = M!ActiveModifierFlag(c, k, m, d)
    OBVIOUS
<1>2. PICK old : old = st.flags
    OBVIOUS
<1>3. PICK r : r = M!push_back_active_modifier_flag(old, f)
    OBVIOUS
<1>4. s = [st EXCEPT !.flags = r]
    BY <1>1, <1>2, <1>3 DEF PushFlag
<1>5. st \in Stage(st)
    BY DEF Tracked, Carries
<1>6. s.flags = r /\ s.pressed_modifier_flags = st.pressed_modifier_flags
    BY <1>4, <1>5 DEF Stage
<1>7. f \in StageEntries(H) /\ f.flag = m
    BY <1>1, EntryMade
<1>8. PICK T : T = StageEntries(H)
    OBVIOUS
<1>9. T \in SUBSET M!Entry /\ f \in T /\ old \in Seq(T)
    <2>1. T \in SUBSET M!Entry
        BY <1>8 DEF StageEntries
    <2> QED
        BY <1>2, <1>7, <1>8, <2>1 DEF Owned
<1>10. /\ r \in Seq(T)
       /\ \A x \in Flags \ {f.flag} : Balance(r, x) = Balance(old, x)
    BY ONLY <1>3, <1>9, EntryPushed
<1> QED
    BY <1>2, <1>6, <1>7, <1>8, <1>10 DEF Owned

-----------------------------------------------------------------------------
(* The theorems.                                                            *)

\* Lazy events are undone before their device holds nothing.
LaziesHeld(L, H) ==
    \A z \in L : z \in KeyboardDevices \X Flags \X {1, -1} /\ Holds(H, z[1])

\* The invariant: the stage and its flags are in order for what the devices
\* hold, and the event tap fallback has left nothing to release.
StageInvariant ==
    /\ Sound(Current, held)
    /\ Orderly(Current, held)
    /\ LaziesHeld(lazies, held)
    /\ now \in Nat
    /\ device_report \in [Pages -> SUBSET Usages]
    /\ ~ keyboard_ready => device_report = [p \in Pages |-> {}]
    /\ releases = <<>> /\ ~ secure_release

\* A state is the next one when its members are the variables of the stage.
LEMMA AppliedState ==
    ASSUME NEW st, st \in Stage(st), Applied(st)
    PROVE  Current' = st /\ UNCHANGED posted
<1>1. Current' = [queue |-> st.queue, pressed_keys |-> st.pressed_keys,
                  pressed_modifier_flags |-> st.pressed_modifier_flags,
                  flags |-> st.flags, active_buttons |-> st.active_buttons,
                  buttons |-> st.buttons, mouse_keys |-> st.mouse_keys,
                  mouse_timer |-> st.mouse_timer]
    BY DEF Applied, Current
<1>2. st = [queue |-> st.queue, pressed_keys |-> st.pressed_keys,
            pressed_modifier_flags |-> st.pressed_modifier_flags,
            flags |-> st.flags, active_buttons |-> st.active_buttons,
            buttons |-> st.buttons, mouse_keys |-> st.mouse_keys,
            mouse_timer |-> st.mouse_timer]
    BY DEF Stage
<1> QED
    BY <1>1, <1>2 DEF Applied

\* A sound state stays sound as the next one.
LEMMA NextIsSound ==
    ASSUME NEW st, NEW H, Sound(st, H), Current' = st, held' = H,
           device_report' = device_report, device_buttons' = device_buttons
    PROVE  Sound(Current, held)'
<1>1. Reports(Current.queue)'
    <2>1. \A p \in Pages :
              Snapshot(st.queue.events, OfPage(p), ReportOf, device_report'[p], st.queue.report[p])
        BY DEF Sound, Tracked, Carries, Reports
    <2> QED
        BY <2>1 DEF Reports
<1>2. Moves(Current.queue, Current.buttons)'
    <2>1. Snapshot(st.queue.events, Pointing, ButtonsOf, device_buttons', st.buttons)
        BY DEF Sound, Tracked, Carries, Moves
    <2> QED
        BY <2>1 DEF Moves
<1>3. /\ Current' \in Stage(Current')
      /\ \A p \in Pages : Current'.queue.report[p] = {u \in DownOf(Current') : PageOf[u] = p}
    BY DEF Sound, Tracked, Carries
<1>4. Tracked(Current)'
    BY <1>1, <1>2, <1>3 DEF Tracked, Carries
<1> QED
    BY <1>4 DEF Sound

\* Each handler leads from one such state to the next.
LEMMA ManipulatedKeepsInvariant ==
    ASSUME StageInvariant, NEW st, NEW H, Sound(st, H), Orderly(st, H), LaziesHeld(lazies', H),
           Manipulated(st), held' = H, UNCHANGED <<secure, keyboard_ready>>
    PROVE  StageInvariant'
<1>1. st \in Stage(st) /\ Applied(st) /\ UNCHANGED <<releases, secure_release, keyboard_ready>>
    BY DEF Sound, Tracked, Carries, Manipulated, secure
<1>2. /\ Current' = st
      /\ device_report' = device_report /\ device_buttons' = device_buttons /\ now' = now
    BY <1>1, AppliedState DEF posted
<1>3. Sound(Current, held)'
    BY <1>2, NextIsSound
<1>4. Orderly(Current, held)' /\ LaziesHeld(lazies, held)'
    BY <1>2
<1> QED
    BY <1>1, <1>2, <1>3, <1>4 DEF StageInvariant

\* The same flags are as much in order.
LEMMA SameFlagsOrderly ==
    ASSUME NEW st, NEW s, SameFlags(st, s), NEW H, Orderly(st, H)
    PROVE  Orderly(s, H) /\ Owned(s.flags, H)
    BY DEF SameFlags, Orderly

\* Nothing goes up.
LEMMA HoldingKeepsInvariant ==
    ASSUME StageInvariant, NEW st, NEW H, held \subseteq H, Sound(st, H), Orderly(st, H),
           Manipulated(st), held' = H, UNCHANGED <<lazies, secure, keyboard_ready>>
    PROVE  StageInvariant'
<1>1. LaziesHeld(lazies', H)
    BY DEF StageInvariant, LaziesHeld, Holds
<1> QED
    BY <1>1, ManipulatedKeepsInvariant

\* x goes down.
LEMMA DownKeepsInvariant ==
    ASSUME StageInvariant, NEW x, NEW H, H = held \cup {x},
           NEW st, Sound(st, H), Owned(st.flags, H),
           Manipulated(st), held' = H, UNCHANGED <<lazies, secure, keyboard_ready>>
    PROVE  StageInvariant'
<1>1. Orderly(st, H)
    BY DEF Orderly
<1> QED
    BY <1>1, HoldingKeepsInvariant

\* x goes up on device d.
LEMMA UpKeepsInvariant ==
    ASSUME StageInvariant, NEW d, NEW x, <<d, x>> \in held, LaziesUndone(d, x),
           NEW H, H = held \ {<<d, x>>},
           NEW up, Sound(up, H), Owned(up.flags, held),
           NEW st, st = WithReleased(up, d, x),
           Manipulated(st), held' = H, UNCHANGED <<lazies, secure, keyboard_ready>>
    PROVE  StageInvariant'
<1>1. now \in Nat /\ LaziesHeld(lazies, held)
    BY DEF StageInvariant
<1>2. Sound(st, H)
    BY <1>1, WithReleasedIsSound
<1>3. Orderly(st, H)
    BY <1>1, WithReleasedOrderly
<1>4. ASSUME NEW z \in lazies
      PROVE  Holds(H, z[1])
    <2>1. PICK k \in held : k[1] = z[1]
        BY <1>1 DEF LaziesHeld, Holds
    <2>2. CASE k # <<d, x>>
        BY <2>1, <2>2 DEF Holds
    <2>3. CASE k = <<d, x>>
        <3>1. ~ LastUp(d, x)
            BY <2>1, <2>3 DEF LaziesUndone
        <3>2. PICK y \in held : y[1] = d /\ y # <<d, x>>
            BY <3>1 DEF LastUp
        <3> QED
            BY <2>1, <2>3, <3>2 DEF Holds
    <2> QED
        BY <2>2, <2>3
<1>5. LaziesHeld(lazies', H)
    BY <1>1, <1>4 DEF LaziesHeld
<1> QED
    BY <1>2, <1>3, <1>5, ManipulatedKeepsInvariant

\* What the invariant says of the state an event is handled in.
LEMMA CurrentIsSound ==
    ASSUME StageInvariant
    PROVE  /\ Sound(Current, held) /\ now \in Nat
           /\ Current.queue \in Q!Queue /\ Current.queue = queue
           /\ Current.active_buttons = active_pointing_buttons
           /\ Current.active_buttons \in SUBSET ButtonEntries
           /\ Current.mouse_timer = mouse_timer /\ mouse_timer \in Nat \cup {None}
           /\ Orderly(Current, held) /\ Owned(Current.flags, held)
           /\ Current.flags = active_modifier_flags
           /\ Current.pressed_modifier_flags = pressed_modifier_flags
    BY DEF StageInvariant, Sound, Tracked, Carries, Stage, Current, Orderly

\* Keys.
LEMMA KeysKeepInvariant ==
    ASSUME StageInvariant, NEW d \in KeyboardDevices,
           \/ \E u \in KeyUsages, delayed \in BOOLEAN : KeyDown(d, u, delayed)
           \/ \E u \in KeyUsages : KeyUp(d, u)
    PROVE  StageInvariant'
<1>1. ASSUME NEW u \in KeyUsages, NEW delayed \in BOOLEAN, KeyDown(d, u, delayed)
      PROVE  StageInvariant'
    <2>1. PICK st : st = PressKey(Current, d, u, delayed)
        OBVIOUS
    <2>2. u \in OrdinaryUsages
        BY OrderAssumption DEF OrdinaryUsages
    <2>3. PICK H : H = held \cup {<<d, u>>}
        OBVIOUS
    <2>4. Sound(st, H) /\ st.flags = M!erase_all_sticky_modifier_flags(Current.flags)
        BY <2>1, <2>2, <2>3, CurrentIsSound, PressKeyIsSound
    <2>5. Owned(st.flags, H)
        BY <2>3, <2>4, CurrentIsSound, StickiesErased, OwnedByMore
    <2>6. /\ Manipulated(st) /\ held' = H
          /\ UNCHANGED <<lazies, secure, keyboard_ready>>
        BY <1>1, <2>1, <2>3 DEF KeyDown, system
    <2> QED
        BY <2>3, <2>4, <2>5, <2>6, DownKeepsInvariant
<1>2. ASSUME NEW u \in KeyUsages, KeyUp(d, u)
      PROVE  StageInvariant'
    <2>1. PICK up : up = D!dispatch_key_up_event(Current, u, now)
        OBVIOUS
    <2>2. PICK st : st = WithReleased(up, d, u)
        OBVIOUS
    <2>3. PICK H : H = held \ {<<d, u>>}
        OBVIOUS
    <2>4. Sound(up, H) /\ SameFlags(Current, up)
        BY <2>1, <2>3, CurrentIsSound, KeyUpIsSound, OrderAssumption
    <2>5. Owned(up.flags, held)
        BY <2>4, CurrentIsSound DEF SameFlags
    <2>6. /\ <<d, u>> \in held /\ LaziesUndone(d, u) /\ Manipulated(st) /\ held' = H
          /\ UNCHANGED <<lazies, secure, keyboard_ready>>
        BY <1>2, <2>1, <2>2, <2>3 DEF KeyUp, system
    <2> QED
        BY <2>2, <2>3, <2>4, <2>5, <2>6, UpKeepsInvariant
<1> QED
    BY <1>1, <1>2

\* A pushed entry and the modifiers that are dispatched after it.
LEMMA PushedIsSound ==
    ASSUME now \in Nat, NEW st, NEW H, Sound(st, H), NEW c, NEW k, NEW m, NEW d,
           NEW s, s = PushFlag(st, c, k, m, d)
    PROVE  Sound(s, H) /\ Sound(DispatchModifiers(s), H)
<1>1. Sound(s, H)
    <2>1. PICK flags : s = [st EXCEPT !.flags = flags]
        BY DEF PushFlag
    <2> QED
        BY <2>1, NewFlagsAreSound
<1> QED
    BY <1>1, ModifiersAreSound

\* A pushed entry is one of the stage.
LEMMA PushedIsOwned ==
    ASSUME now \in Nat, NEW st, NEW G, Sound(st, G), NEW H, Owned(st.flags, H),
           NEW c \in {1, -1}, NEW m \in Flags, NEW d \in Devices,
           NEW k, (k = "plain" /\ Holds(H, d)) \/ k = "sticky",
           NEW s, s = PushFlag(st, c, k, m, d)
    PROVE  Owned(s.flags, H) /\ Sound(s, G)
<1>1. Tracked(st)
    BY DEF Sound
<1>2. Owned(s.flags, H)
    BY <1>1, PushedOwned
<1>3. Sound(s, G)
    BY PushedIsSound
<1> QED
    BY <1>2, <1>3

\* A modifier key: its device holds H when the entry is pushed.
LEMMA ModifierPushed ==
    ASSUME StageInvariant, NEW H, Owned(Current.flags, H), NEW d \in KeyboardDevices, Holds(H, d),
           NEW c \in {1, -1}, NEW m \in Flags,
           NEW st, st = DispatchModifiers(PushFlag(Current, c, "plain", m, d))
    PROVE  Sound(st, held) /\ Owned(st.flags, H)
<1>1. PICK s : s = PushFlag(Current, c, "plain", m, d)
    OBVIOUS
<1>2. d \in Devices /\ now \in Nat /\ Sound(Current, held)
    BY CurrentIsSound, OrderAssumption
<1>3. Owned(s.flags, H) /\ Sound(s, held)
    BY <1>1, <1>2, PushedIsOwned
<1>4. st = DispatchModifiers(s)
    BY <1>1
<1>5. Sound(st, held)
    BY ONLY <1>2, <1>3, <1>4, ModifiersAreSound
<1>6. Tracked(s)
    BY <1>3 DEF Sound
<1>7. Owned(st.flags, H)
    BY ONLY <1>2, <1>3, <1>4, <1>6, ModifiersSettle
<1> QED
    BY <1>5, <1>7

\* The modifiers are dispatched without a change of the flags.
LEMMA CurrentDispatched ==
    ASSUME StageInvariant, NEW st, st = DispatchModifiers(Current)
    PROVE  Sound(st, held) /\ Orderly(st, held) /\ Owned(st.flags, held)
<1>1. Tracked(Current) /\ Sound(Current, held) /\ Owned(Current.flags, held) /\ now \in Nat
    BY CurrentIsSound DEF Sound
<1>2. Sound(st, held)
    BY <1>1, ModifiersAreSound
<1>3. Orderly(st, held) /\ Owned(st.flags, held)
    BY <1>1, ModifiersSettle
<1> QED
    BY <1>2, <1>3

\* Modifier keys.
LEMMA ModifierKeysKeepInvariant ==
    ASSUME StageInvariant, NEW d \in KeyboardDevices, NEW m,
           ModifierKeyDown(d, m) \/ ModifierKeyUp(d, m)
    PROVE  StageInvariant'
<1>1. PICK u : u = UsageOf[m]
    OBVIOUS
<1>2. CASE ModifierKeyDown(d, m)
    <2>1. PICK st : st = DispatchModifiers(PushFlag(Current, 1, "plain", m, d))
        OBVIOUS
    <2>2. PICK H : H = held \cup {<<d, u>>}
        OBVIOUS
    <2>3. /\ m \in Flags /\ Manipulated(st) /\ held' = H
          /\ UNCHANGED <<lazies, secure, keyboard_ready>>
        BY <1>1, <1>2, <2>1, <2>2 DEF ModifierKeyDown, system
    <2>4. Owned(Current.flags, H) /\ Holds(H, d)
        <3>1. PICK flags : flags = Current.flags
            OBVIOUS
        <3>2. Owned(flags, held)
            BY <3>1, CurrentIsSound
        <3>3. Owned(flags, H)
            BY <2>2, <3>2, OwnedByMore
        <3>4. <<d, u>> \in H /\ <<d, u>>[1] = d
            BY <2>2
        <3>5. Holds(H, d)
            BY <3>4 DEF Holds
        <3> QED
            BY <3>1, <3>3, <3>5
    <2>5. Sound(st, held) /\ Owned(st.flags, H)
        BY <2>1, <2>3, <2>4, ModifierPushed
    <2>6. Sound(st, H)
        BY <2>2, <2>5, HoldingMore
    <2> QED
        BY <2>2, <2>3, <2>5, <2>6, DownKeepsInvariant
<1>3. CASE ModifierKeyUp(d, m)
    <2>1. PICK up : up = DispatchModifiers(PushFlag(Current, -1, "plain", m, d))
        BY <1>3
    <2>2. PICK st : st = WithReleased(up, d, u)
        OBVIOUS
    <2>3. PICK H : H = held \ {<<d, u>>}
        OBVIOUS
    <2>4. /\ m \in Flags /\ m # caps_lock /\ <<d, u>> \in held /\ LaziesUndone(d, u)
          /\ Manipulated(st) /\ held' = H /\ UNCHANGED <<lazies, secure, keyboard_ready>>
        BY <1>1, <1>3, <2>1, <2>2, <2>3 DEF ModifierKeyUp, system
    <2>5. u \notin OrdinaryUsages /\ u \notin Buttons
        BY <1>1, <2>4, ModifierUsage, NameAssumption
    <2>6. Owned(Current.flags, held) /\ Holds(held, d)
        BY <2>4, CurrentIsSound DEF Holds
    <2>7. Sound(up, held) /\ Owned(up.flags, held)
        BY <2>1, <2>4, <2>6, ModifierPushed
    <2>8. Sound(up, H)
        BY <2>3, <2>5, <2>7, HoldingLess
    <2> QED
        BY <2>2, <2>3, <2>4, <2>7, <2>8, UpKeepsInvariant
<1> QED
    BY <1>2, <1>3

\* A flag changes while its device holds a key.
LEMMA PushedKeepsInvariant ==
    ASSUME StageInvariant, NEW st, Sound(st, held), Owned(st.flags, held),
           NEW d \in KeyboardDevices, Holds(held, d),
           NEW c \in {1, -1}, NEW m \in Flags, NEW k \in {"plain", "sticky"},
           Manipulated(PushFlag(st, c, k, m, d)),
           held' = held, LaziesHeld(lazies', held), UNCHANGED <<secure, keyboard_ready>>
    PROVE  StageInvariant'
<1>1. PICK s : s = PushFlag(st, c, k, m, d)
    OBVIOUS
<1>2. d \in Devices /\ now \in Nat
    BY CurrentIsSound, OrderAssumption
<1>3. (k = "plain" /\ Holds(held, d)) \/ k = "sticky"
    OBVIOUS
<1>4. Owned(s.flags, held) /\ Sound(s, held)
    BY <1>1, <1>2, <1>3, PushedIsOwned
<1>5. Orderly(s, held)
    BY <1>4 DEF Orderly, Holds
<1> QED
    BY <1>1, <1>4, <1>5, ManipulatedKeepsInvariant

\* Lazy events and stickies.
LEMMA FlagsKeepInvariant ==
    ASSUME StageInvariant, NEW d \in KeyboardDevices, NEW m \in Flags,
           \/ \E c \in {1, -1} : LazyModifier(d, m, c) \/ UndoLazyModifier(d, m, c)
           \/ \E type \in {"on", "off", "toggle"} : StickyModifier(d, m, type)
    PROVE  StageInvariant'
<1>0. Sound(Current, held) /\ Owned(Current.flags, held) /\ now \in Nat
    BY CurrentIsSound
<1>1. ASSUME NEW c \in {1, -1}, LazyModifier(d, m, c) \/ UndoLazyModifier(d, m, c)
      PROVE  StageInvariant'
    <2>1. LaziesHeld(lazies, held)
        BY DEF StageInvariant
    <2>2. Holds(held, d)
        BY <1>1, <2>1 DEF LazyModifier, UndoLazyModifier, LaziesHeld, Holds
    <2>3. LaziesHeld(lazies', held)
        BY <1>1, <2>1, <2>2 DEF LazyModifier, UndoLazyModifier, LaziesHeld
    <2>4. PICK n \in {1, -1} : Manipulated(PushLazy(Current, n, m, d))
        BY <1>1 DEF LazyModifier, UndoLazyModifier
    <2>5. held' = held /\ UNCHANGED <<secure, keyboard_ready>>
        BY <1>1 DEF LazyModifier, UndoLazyModifier, system
    <2>6. PICK k \in {"plain", "sticky"} : k = IF m = caps_lock THEN "sticky" ELSE "plain"
        OBVIOUS
    <2>7. Manipulated(PushFlag(Current, n, k, m, d))
        BY <2>4, <2>6 DEF PushLazy
    <2> QED
        BY <1>0, <2>2, <2>3, <2>5, <2>7, PushedKeepsInvariant
<1>2. ASSUME NEW type \in {"on", "off", "toggle"}, StickyModifier(d, m, type)
      PROVE  StageInvariant'
    <2>1. PICK before : before = DispatchModifiers(Current)
        OBVIOUS
    <2>2. PICK n \in {1, -1} : Manipulated(PushFlag(before, n, "sticky", m, d))
        BY <1>2, <2>1 DEF StickyModifier
    <2>3. held' = held /\ lazies' = lazies /\ UNCHANGED <<secure, keyboard_ready>>
        BY <1>2 DEF StickyModifier, env, system
    <2>4. Holds(held, d)
        BY <1>2 DEF StickyModifier, Holds
    <2>5. Sound(before, held) /\ Owned(before.flags, held)
        BY <2>1, CurrentDispatched
    <2>6. LaziesHeld(lazies', held)
        BY <2>3 DEF StageInvariant
    <2> QED
        BY <2>2, <2>3, <2>4, <2>5, <2>6, PushedKeepsInvariant
<1> QED
    BY <1>1, <1>2

SoundWith(st, H, flags) == Sound(st, H) /\ st.flags = flags

\* Other entries of buttons and flags, before the report is made.
LEMMA ButtonsReported ==
    ASSUME now \in Nat, NEW st, NEW H, Sound(st, H), NEW entries \in SUBSET ButtonEntries, NEW flags,
           NEW K, KeysOf(st) \subseteq K, \A b \in entries : <<b[2], b[1]>> \in K,
           NEW s, s = [st EXCEPT !.active_buttons = entries, !.flags = flags],
           NEW type \in Q!EventTypes, NEW r, r = post_pointing_input_report(s, type)
    PROVE  SoundWith(r, K, flags)
<1>1. st \in Stage(st) /\ Tracked(st) /\ st.mouse_timer \in Nat \cup {None}
    BY DEF Sound, Tracked, Carries
<1>2. /\ SameOutput(st, s) /\ s.active_buttons = entries /\ s.mouse_timer = st.mouse_timer
      /\ s.flags = flags
    BY <1>1 DEF SameOutput, Stage
<1>3. Tracked(s) /\ KeysOf(s) = KeysOf(st)
    BY <1>1, <1>2, SameOutputTracked
<1>4. r = [s EXCEPT !.queue = Q!emplace_back_pointing_input(@, report_buttons(s), type, now),
                    !.buttons = report_buttons(s)]
    BY DEF post_pointing_input_report
<1>5. Posted(s, r)
    BY <1>2, <1>3, <1>4, PointingInputPosted
<1>6. Sound(r, K)
    BY <1>1, <1>2, <1>3, <1>5, PostedIsSound
<1> QED
    BY <1>2, <1>5, <1>6 DEF Posted, SoundWith

\* A report of the same buttons.
LEMMA MotionReported ==
    ASSUME now \in Nat, NEW st, NEW H, Sound(st, H),
           NEW type \in Q!EventTypes, NEW r, r = post_pointing_input_report(st, type)
    PROVE  Sound(r, H) /\ SameFlags(st, r)
<1>1. r = [st EXCEPT !.queue = Q!emplace_back_pointing_input(@, report_buttons(st), type, now),
                     !.buttons = report_buttons(st)]
    BY DEF post_pointing_input_report
<1>2. Posted(st, r)
    BY <1>1, PointingInputPosted DEF Sound
<1>3. Sound(r, H)
    BY <1>2, PostedIsSound DEF Sound
<1> QED
    BY <1>2, <1>3 DEF Posted, SameFlags

\* Buttons.
LEMMA ButtonsKeepInvariant ==
    ASSUME StageInvariant, NEW d \in KeyboardDevices, NEW b \in Buttons,
           ButtonDown(d, b) \/ ButtonUp(d, b)
    PROVE  StageInvariant'
<1>1. CASE ButtonDown(d, b)
    <2>1. PICK before : before = DispatchModifiers(Current)
        OBVIOUS
    <2>2. PICK entries : entries = before.active_buttons \cup {<<b, d>>}
        OBVIOUS
    <2>3. PICK flags : flags = M!erase_all_sticky_modifier_flags(before.flags)
        OBVIOUS
    <2>4. PICK s : s = [before EXCEPT !.active_buttons = entries, !.flags = flags]
        OBVIOUS
    <2>5. PICK type \in Q!EventTypes : type = "key_down"
        BY DEF Q!EventTypes
    <2>6. PICK st : st = post_pointing_input_report(s, type)
        OBVIOUS
    <2>7. PICK K : K = held \cup {<<d, b>>}
        OBVIOUS
    <2>8. Sound(before, held)
        BY <2>1, CurrentIsSound, ModifiersAreSound
    <2>9. entries \in SUBSET ButtonEntries
        BY <2>2, <2>8 DEF Sound, ButtonEntries
    <2>10. KeysOf(before) \subseteq K /\ \A x \in entries : <<x[2], x[1]>> \in K
        BY <2>2, <2>7, <2>8 DEF Sound
    <2>11. SoundWith(st, K, flags)
        BY ONLY <2>4, <2>5, <2>6, <2>8, <2>9, <2>10, ButtonsReported, CurrentIsSound, StageInvariant
    <2>12. Owned(flags, K)
        <3>1. Owned(before.flags, held)
            BY <2>1, CurrentDispatched
        <3> QED
            BY <2>3, <2>7, <3>1, StickiesErased, OwnedByMore
    <2>13. Manipulated(st) /\ held' = K /\ UNCHANGED <<lazies, secure, keyboard_ready>>
        BY <1>1, <2>1, <2>2, <2>3, <2>4, <2>5, <2>6, <2>7 DEF ButtonDown, system
    <2> QED
        BY <2>7, <2>11, <2>12, <2>13, DownKeepsInvariant DEF SoundWith
<1>2. CASE ButtonUp(d, b)
    <2>1. PICK entries : entries = ErasePaired(Current.active_buttons, b, d)
        OBVIOUS
    <2>2. PICK flags : flags = Current.flags
        OBVIOUS
    <2>3. PICK s : s = [Current EXCEPT !.active_buttons = entries]
        OBVIOUS
    <2>4. PICK type \in Q!EventTypes : type = "key_up"
        BY DEF Q!EventTypes
    <2>5. PICK up : up = post_pointing_input_report(s, type)
        OBVIOUS
    <2>6. PICK st : st = WithReleased(up, d, b)
        OBVIOUS
    <2>7. PICK K : K = held \ {<<d, b>>}
        OBVIOUS
    <2>8. Sound(Current, held)
        BY CurrentIsSound
    <2>9. entries \in SUBSET ButtonEntries
        BY <2>1, <2>8 DEF Sound, ErasePaired
    <2>10. KeysOf(Current) \subseteq K
        <3>1. KeysOf(Current) \subseteq held
            BY <2>8 DEF Sound
        <3>2. \A k \in KeysOf(Current) : k # <<d, b>>
            <4>1. Current.pressed_keys \in Seq(KeyboardDevices \X OrdinaryUsages)
                BY <2>8 DEF Sound, Tracked, Carries, Stage
            <4>2. \A k \in KeysOf(Current) : k[2] \in Usages
                BY <4>1 DEF KeysOf, Elements, OrdinaryUsages
            <4> QED
                BY <4>2, NameAssumption
        <3> QED
            BY <2>7, <3>1, <3>2
    <2>11. \A x \in entries : <<x[2], x[1]>> \in K
        BY <2>1, <2>7, <2>8 DEF Sound, ErasePaired
    <2>12. s = [Current EXCEPT !.active_buttons = entries, !.flags = flags]
        BY <2>2, <2>3 DEF Current
    <2>13. SoundWith(up, K, flags)
        BY ONLY <2>4, <2>5, <2>8, <2>9, <2>10, <2>11, <2>12, ButtonsReported, CurrentIsSound,
                StageInvariant
    <2>14. Owned(up.flags, held)
        BY <2>2, <2>13, CurrentIsSound DEF SoundWith
    <2>15. /\ <<d, b>> \in held /\ LaziesUndone(d, b) /\ Manipulated(st) /\ held' = K
           /\ UNCHANGED <<lazies, secure, keyboard_ready>>
        BY <1>2, <2>1, <2>3, <2>4, <2>5, <2>6, <2>7 DEF ButtonUp, system
    <2> QED
        BY <2>6, <2>7, <2>13, <2>14, <2>15, UpKeepsInvariant DEF SoundWith
<1> QED
    BY <1>1, <1>2

\* Mouse keys, and devices that go.
LEMMA DevicesKeepInvariant ==
    ASSUME StageInvariant, NEW d \in KeyboardDevices,
           \/ \E k \in MouseKeys : MouseKeyDown(d, k) \/ MouseKeyUp(d, k)
           \/ DeviceUngrabbed(d)
    PROVE  StageInvariant'
<1>1. ASSUME NEW k \in MouseKeys, MouseKeyDown(d, k)
      PROVE  StageInvariant'
    <2>1. PICK before : before = DispatchModifiers(Current)
        OBVIOUS
    <2>2. PICK keys : keys = mouse_keys \cup {<<d, k>>}
        OBVIOUS
    <2>3. PICK st : st = SetMouseKeys(before, keys)
        OBVIOUS
    <2>4. PICK H : H = held \cup {<<d, k>>}
        OBVIOUS
    <2>5. Sound(before, held) /\ Owned(before.flags, held)
        BY <2>1, CurrentDispatched
    <2>6. Sound(st, held) /\ SameFlags(before, st)
        BY <2>3, <2>5, CurrentIsSound, MouseKeysAreSound
    <2>7. Sound(st, H)
        BY <2>4, <2>6, HoldingMore
    <2>8. Owned(st.flags, H)
        BY <2>4, <2>5, <2>6, OwnedByMore DEF SameFlags
    <2>9. Manipulated(st) /\ held' = H /\ UNCHANGED <<lazies, secure, keyboard_ready>>
        BY <1>1, <2>1, <2>2, <2>3, <2>4 DEF MouseKeyDown, system
    <2> QED
        BY <2>4, <2>7, <2>8, <2>9, DownKeepsInvariant
<1>2. ASSUME NEW k \in MouseKeys, MouseKeyUp(d, k)
      PROVE  StageInvariant'
    <2>1. PICK keys : keys = mouse_keys \ {<<d, k>>}
        OBVIOUS
    <2>2. PICK up : up = SetMouseKeys(Current, keys)
        OBVIOUS
    <2>3. PICK st : st = WithReleased(up, d, k)
        OBVIOUS
    <2>4. PICK H : H = held \ {<<d, k>>}
        OBVIOUS
    <2>5. Sound(up, held) /\ SameFlags(Current, up)
        BY <2>2, CurrentIsSound, MouseKeysAreSound
    <2>6. Owned(up.flags, held)
        BY <2>5, CurrentIsSound DEF SameFlags
    <2>7. k \notin OrdinaryUsages /\ k \notin Buttons
        BY NameAssumption DEF OrdinaryUsages
    <2>8. Sound(up, H)
        BY <2>4, <2>5, <2>7, HoldingLess
    <2>9. /\ <<d, k>> \in held /\ LaziesUndone(d, k) /\ Manipulated(st) /\ held' = H
          /\ UNCHANGED <<lazies, secure, keyboard_ready>>
        BY <1>2, <2>1, <2>2, <2>3, <2>4 DEF MouseKeyUp, system
    <2> QED
        BY <2>3, <2>4, <2>6, <2>8, <2>9, UpKeepsInvariant
<1>3. CASE DeviceUngrabbed(d)
    <2>1. PICK st : st = Ungrabbed(Current, d)
        OBVIOUS
    <2>2. PICK H : H = {k \in held : k[1] # d}
        OBVIOUS
    <2>3. Sound(st, H)
        BY <2>1, <2>2, CurrentIsSound, UngrabbedIsSound
    <2>4. Orderly(st, H)
        BY <2>1, <2>2, CurrentIsSound, UngrabbedSettles
    <2>5. /\ Manipulated(st) /\ held' = H /\ lazies' = {z \in lazies : z[1] # d}
          /\ UNCHANGED <<secure, keyboard_ready>>
        BY <1>3, <2>1, <2>2 DEF DeviceUngrabbed, system
    <2>6. LaziesHeld(lazies', H)
        BY <2>2, <2>5 DEF StageInvariant, LaziesHeld, Holds
    <2> QED
        BY <2>3, <2>4, <2>5, <2>6, ManipulatedKeepsInvariant
<1> QED
    BY <1>1, <1>2, <1>3

\* Commands, motion and repeats: what devices hold does not change.
LEMMA MotionKeepsInvariant ==
    ASSUME StageInvariant,
           StopKeyboardRepeat \/ Command \/ PointingMotion \/ EventTapPointing \/ MouseKeyTimer
    PROVE  StageInvariant'
<1>1. Sound(Current, held) /\ now \in Nat
    BY CurrentIsSound
<1>2. CASE StopKeyboardRepeat
    <2>1. PICK u : u = queue.repeating_key
        OBVIOUS
    <2>2. u \in Usages
        <3>1. queue \in Q!Queue
            BY CurrentIsSound
        <3> QED
            BY <1>2, <2>1, <3>1 DEF StopKeyboardRepeat, Q!Queue
    <2>3. PICK st : st = D!dispatch_key_up_event(Current, u, now)
        OBVIOUS
    <2>4. Sound(st, held) /\ SameFlags(Current, st)
        BY <1>1, <2>2, <2>3, KeyUpIsSound
    <2>5. Orderly(st, held)
        BY <2>4, CurrentIsSound, SameFlagsOrderly
    <2>6. Manipulated(st) /\ held' = held /\ UNCHANGED <<lazies, secure, keyboard_ready>>
        BY <1>2, <2>1, <2>3 DEF StopKeyboardRepeat, env, system
    <2> QED
        BY <2>4, <2>5, <2>6, HoldingKeepsInvariant
<1>3. CASE Command
    <2>1. PICK before : before = DispatchModifiers(Current)
        OBVIOUS
    <2>2. PICK q : q = Q!push_back_command_event(before.queue, now)
        OBVIOUS
    <2>3. PICK st : st = [before EXCEPT !.queue = q]
        OBVIOUS
    <2>4. Sound(before, held) /\ Orderly(before, held)
        BY <2>1, CurrentDispatched
    <2>5. /\ before \in Stage(before) /\ before.queue \in Q!Queue
          /\ Reports(before.queue) /\ Moves(before.queue, before.buttons)
        BY <2>4 DEF Sound, Tracked, Carries, Stage
    <2>6. /\ q \in Q!Queue /\ q.report = before.queue.report
          /\ Reports(q) /\ Moves(q, before.buttons)
        BY <1>1, <2>2, <2>5, CommandAppended
    <2>7. /\ st \in Stage(before) /\ st \in Stage(st) /\ st.queue = q /\ st.buttons = before.buttons
          /\ st.pressed_keys = before.pressed_keys
          /\ st.pressed_modifier_flags = before.pressed_modifier_flags
        BY <2>3, <2>5, <2>6 DEF Stage
    <2>8. KeysOf(st) = KeysOf(before)
        BY <2>7 DEF KeysOf
    <2>9. DownOf(st) = DownOf(before)
        BY <2>7, <2>8 DEF DownOf
    <2>10. Dispatched(before, st)
        BY <2>4, <2>6, <2>7, <2>9 DEF Dispatched, Sound, Tracked, Carries
    <2>11. Sound(st, held)
        BY <2>4, <2>8, <2>10, DispatchedIsSound DEF Sound
    <2>12. Orderly(st, held)
        <3>1. SameFlags(before, st)
            BY <2>3, <2>5 DEF SameFlags, Stage
        <3> QED
            BY <2>4, <3>1, SameFlagsOrderly
    <2>13. Manipulated(st) /\ held' = held /\ UNCHANGED <<lazies, secure, keyboard_ready>>
        BY <1>3, <2>1, <2>2, <2>3 DEF Command, env, system
    <2> QED
        BY <2>11, <2>12, <2>13, HoldingKeepsInvariant
<1>4. CASE PointingMotion
    <2>1. PICK before : before = IF MotionDispatches(Current) THEN DispatchModifiers(Current)
                                                              ELSE Current
        OBVIOUS
    <2>2. PICK type \in Q!EventTypes : type = "single"
        BY DEF Q!EventTypes
    <2>3. PICK st : st = post_pointing_input_report(before, type)
        OBVIOUS
    <2>4. Sound(before, held) /\ Orderly(before, held)
        BY <1>1, <2>1, CurrentIsSound, CurrentDispatched
    <2>5. Sound(st, held) /\ SameFlags(before, st)
        BY <1>1, <2>3, <2>4, MotionReported
    <2>6. Orderly(st, held)
        BY <2>4, <2>5, SameFlagsOrderly
    <2>7. Manipulated(st) /\ held' = held /\ UNCHANGED <<lazies, secure, keyboard_ready>>
        BY <1>4, <2>1, <2>2, <2>3 DEF PointingMotion, env, system
    <2> QED
        BY <2>5, <2>6, <2>7, HoldingKeepsInvariant
<1>5. CASE EventTapPointing
    <2>1. PICK st : st = DispatchModifiers(Current)
        OBVIOUS
    <2>2. Sound(st, held) /\ Orderly(st, held)
        BY <2>1, CurrentDispatched
    <2>3. Manipulated(st) /\ held' = held /\ UNCHANGED <<lazies, secure, keyboard_ready>>
        BY <1>5, <2>1 DEF EventTapPointing, env, system
    <2> QED
        BY <2>2, <2>3, HoldingKeepsInvariant
<1>6. CASE MouseKeyTimer
    <2>1. PICK type \in Q!EventTypes : type = "single"
        BY DEF Q!EventTypes
    <2>2. PICK t \in Nat : t = mouse_timer
        BY <1>6, CurrentIsSound DEF MouseKeyTimer
    <2>3. PICK q : q = Q!emplace_back_pointing_input(Current.queue, report_buttons(Current), type, t)
        OBVIOUS
    <2>4. PICK st : st = [Current EXCEPT !.queue = q]
        OBVIOUS
    <2>5. Current.buttons = report_buttons(Current) /\ Current \in Stage(Current)
        BY <1>1 DEF Sound, Tracked, Carries
    <2>6. st = [Current EXCEPT !.queue = q, !.buttons = report_buttons(Current)]
        BY <2>4, <2>5 DEF Stage
    <2>7. st = [Current EXCEPT
                  !.queue = Q!emplace_back_pointing_input(@, report_buttons(Current), type, t),
                  !.buttons = report_buttons(Current)]
        BY <2>3, <2>6
    <2>8. Posted(Current, st)
        BY <1>1, <2>7, PointingInputPosted DEF Sound
    <2>9. Sound(st, held)
        BY <1>1, <2>8, PostedIsSound DEF Sound
    <2>10. Orderly(st, held)
        BY <2>8, CurrentIsSound, SameFlagsOrderly DEF Posted, SameFlags
    <2>11. Manipulated(st) /\ held' = held /\ UNCHANGED <<lazies, secure, keyboard_ready>>
        BY <1>6, <2>1, <2>2, <2>3, <2>4 DEF MouseKeyTimer, env, system
    <2> QED
        BY <2>9, <2>10, <2>11, HoldingKeepsInvariant
<1> QED
    BY <1>2, <1>3, <1>4, <1>5, <1>6

\* caps_lock_state_changed.
LEMMA CapsLockKeepsInvariant ==
    ASSUME StageInvariant, CapsLockStateChanged
    PROVE  StageInvariant'
<1>1. Sound(Current, held) /\ now \in Nat
    BY CurrentIsSound
<1>2. PICK on : on = Head(led_events)
    OBVIOUS
<1>3. PICK flags : flags = IF M!sticky_size(active_modifier_flags, caps_lock) # 0
                           THEN pressed_modifier_flags
                           ELSE IF on THEN pressed_modifier_flags \cup {caps_lock}
                                      ELSE pressed_modifier_flags \ {caps_lock}
    OBVIOUS
<1>4. PICK st : st = [Current EXCEPT !.pressed_modifier_flags = flags]
    OBVIOUS
<1>5. PICK c : c = IF on THEN 1 ELSE -1
    OBVIOUS
<1>6. PICK s : s = PushFlag(st, c, "led_lock", caps_lock, device_0)
    OBVIOUS
<1>7. flags \in SUBSET Flags /\ flags \ {caps_lock} = Current.pressed_modifier_flags \ {caps_lock}
    <2>1. Current.pressed_modifier_flags = pressed_modifier_flags
          /\ pressed_modifier_flags \subseteq Flags
        BY <1>1 DEF Sound, Tracked, Carries, Stage, Current
    <2> HIDE DEF Current
    <2> QED
        BY <1>3, <2>1, OrderAssumption
<1>8. Dispatched(Current, st) /\ KeysOf(st) = KeysOf(Current)
    <2>1. Tracked(Current)
        BY <1>1 DEF Sound
    <2> QED
        BY <1>4, <1>7, <2>1, CapsLockRemembered
<1>9. Sound(st, held)
    BY <1>1, <1>8, DispatchedIsSound DEF Sound
<1>10. Sound(s, held)
    BY <1>1, <1>6, <1>9, PushedIsSound
<1>11. Orderly(s, held)
    <2>1. Tracked(st)
        BY <1>9 DEF Sound
    <2>2. st.flags = Current.flags /\ st.pressed_modifier_flags = flags
        BY <1>4 DEF Current
    <2>3. Orderly(Current, held) /\ Owned(Current.flags, held)
        BY CurrentIsSound
    <2>4. c \in {1, -1} /\ caps_lock \in Flags /\ device_0 \in Devices
        BY <1>5, OrderAssumption
    <2>5. /\ Owned(s.flags, held) /\ s.pressed_modifier_flags = flags
          /\ \A x \in Flags \ {caps_lock} : Balance(s.flags, x) = Balance(Current.flags, x)
        BY <1>6, <2>1, <2>2, <2>3, <2>4, PushedOwned
    <2> QED
        BY <1>7, <2>3, <2>5 DEF Orderly, Settled
<1>12. Manipulated(s) /\ held' = held /\ UNCHANGED <<lazies, secure, keyboard_ready>>
    BY <1>2, <1>3, <1>4, <1>5, <1>6 DEF CapsLockStateChanged, env
<1> QED
    BY <1>10, <1>11, <1>12, HoldingKeepsInvariant

\* The devices receive something, and the queue loses it.
LEMMA ReceivedIsSound ==
    ASSUME StageInvariant, NEW q \in Q!Queue, q.report = queue.report, queue' = q,
           UNCHANGED <<pressed_keys, pressed_modifier_flags, active_modifier_flags, pointing, env>>,
           \A p \in Pages :
               Snapshot(q.events, OfPage(p), ReportOf, device_report'[p], q.report[p]),
           Snapshot(q.events, Pointing, ButtonsOf, device_buttons', pressed_buttons)
    PROVE  Sound(Current, held)' /\ Orderly(Current, held)' /\ LaziesHeld(lazies, held)'
<1>1. Sound(Current, held) /\ Current.queue = queue /\ Current.buttons = pressed_buttons
    BY CurrentIsSound DEF Current
<1>2. PICK st : st = [Current EXCEPT !.queue = q]
    OBVIOUS
<1>3. Current' = st
    BY <1>2 DEF Current, pointing
<1>4. Current \in Stage(Current)
    BY <1>1 DEF Sound, Tracked, Carries
<1>5. /\ st \in Stage(st) /\ st.queue = q /\ st.pressed_keys = Current.pressed_keys
      /\ st.pressed_modifier_flags = Current.pressed_modifier_flags
      /\ st.active_buttons = Current.active_buttons /\ st.buttons = Current.buttons
      /\ st.mouse_timer = Current.mouse_timer
    BY <1>2, <1>4 DEF Stage
<1>6. KeysOf(st) = KeysOf(Current) /\ report_buttons(st) = report_buttons(Current)
    BY <1>5 DEF KeysOf, report_buttons
<1>7. DownOf(st) = DownOf(Current)
    BY <1>5, <1>6 DEF DownOf
<1>8. \A p \in Pages : st.queue.report[p] = {u \in DownOf(st) : PageOf[u] = p}
    BY <1>1, <1>5, <1>7 DEF Sound, Tracked, Carries
<1>9. Reports(Current.queue)'
    BY <1>3, <1>5 DEF Reports
<1>10. Moves(Current.queue, Current.buttons)'
    BY <1>1, <1>3, <1>5 DEF Moves
<1>11. Tracked(Current)'
    BY <1>3, <1>5, <1>8, <1>9, <1>10 DEF Tracked, Carries
<1>12. /\ st.active_buttons \in SUBSET ButtonEntries
       /\ st.buttons = report_buttons(st)
       /\ st.mouse_timer \in Nat \cup {None}
       /\ KeysOf(st) \subseteq held
       /\ \A b \in st.active_buttons : <<b[2], b[1]>> \in held
    BY <1>1, <1>5, <1>6 DEF Sound
<1>13. held' = held /\ lazies' = lazies
    BY DEF env
<1>14. Sound(Current, held)'
    BY <1>3, <1>11, <1>12, <1>13 DEF Sound
<1>15. Orderly(Current, held)'
    <2>1. SameFlags(Current, st)
        BY <1>2, <1>4 DEF SameFlags, Stage
    <2>2. Orderly(st, held)
        BY <2>1, CurrentIsSound, SameFlagsOrderly
    <2> QED
        BY <1>3, <1>13, <2>2
<1>16. LaziesHeld(lazies, held)'
    BY <1>13 DEF StageInvariant
<1> QED
    BY <1>14, <1>15, <1>16

\* What the queue and the devices are before a report is posted.
LEMMA QueueBefore ==
    ASSUME StageInvariant
    PROVE  /\ queue \in Q!Queue /\ queue.events \in Seq(Q!Event)
           /\ \A p \in Pages :
                  Snapshot(queue.events, OfPage(p), ReportOf, device_report[p], queue.report[p])
           /\ Snapshot(queue.events, Pointing, ButtonsOf, device_buttons, pressed_buttons)
<1>1. /\ Current.queue \in Q!Queue /\ Current.queue = queue /\ Current.buttons = pressed_buttons
      /\ Reports(Current.queue) /\ Moves(Current.queue, Current.buttons)
    BY CurrentIsSound DEF Sound, Tracked, Carries, Current
<1>2. queue.events \in Seq(Q!Event)
    BY <1>1 DEF Q!Queue
<1> QED
    BY <1>1, <1>2 DEF Reports, Moves

\* One report is posted.
LEMMA PostFrontKeepsInvariant ==
    ASSUME StageInvariant, PostFront
    PROVE  StageInvariant'
<1>1. /\ queue \in Q!Queue /\ queue.events \in Seq(Q!Event)
      /\ \A p \in Pages :
             Snapshot(queue.events, OfPage(p), ReportOf, device_report[p], queue.report[p])
      /\ Snapshot(queue.events, Pointing, ButtonsOf, device_buttons, pressed_buttons)
    BY QueueBefore
<1>2. PICK q : q = [queue EXCEPT !.events = Tail(@)]
    OBVIOUS
<1>3. PICK e : e = queue.events[1]
    OBVIOUS
<1>4. /\ queue.events # <<>> /\ queue' = q /\ UNCHANGED unposted /\ now' = now
      /\ device_report' = IF keyboard_ready THEN Q!report_after(e) ELSE device_report
      /\ device_buttons' = Q!buttons_after(e)
    BY <1>2, <1>3 DEF PostFront, Q!TakeFront, Q!Front
<1>5. e \in Q!Event /\ Tail(queue.events) \in Seq(Q!Event)
    BY <1>1, <1>3, <1>4
<1>6. q \in Q!Queue /\ q.report = queue.report /\ q.events = Tail(queue.events)
    BY <1>1, <1>2, <1>5 DEF Q!Queue
<1>7. /\ e.kind = "key" => e.page \in Pages /\ e.report \in SUBSET Usages
      /\ e.kind # "key" => e.page = None
    BY <1>5 DEF Q!Event
<1>8. /\ device_report \in [Pages -> SUBSET Usages]
      /\ ~ keyboard_ready => \A p \in Pages : device_report[p] = {}
    BY DEF StageInvariant
<1>9. ASSUME NEW p \in Pages
      PROVE  Snapshot(q.events, OfPage(p), ReportOf, device_report'[p], q.report[p])
    <2>1. e \in OfPage(p) <=> e.kind = "key" /\ e.page = p
        BY <1>5, <1>7, NameAssumption DEF OfPage
    <2>2. ReportOf[e] = e.report
        BY <1>5 DEF ReportOf
    <2>3. IF e \in OfPage(p) THEN device_report'[p] \subseteq ReportOf[e]
                             ELSE device_report'[p] \subseteq device_report[p]
        <3>1. CASE keyboard_ready /\ e.kind = "key"
            <4>1. device_report' = [device_report EXCEPT ![e.page] = e.report]
                BY <1>4, <3>1 DEF Q!report_after
            <4> QED
                BY <1>7, <1>8, <2>1, <2>2, <3>1, <4>1
        <3>2. CASE keyboard_ready /\ e.kind # "key"
            <4>1. device_report' = device_report
                BY <1>4, <3>2 DEF Q!report_after
            <4> QED
                BY <2>1, <3>2, <4>1
        <3>3. CASE ~ keyboard_ready
            <4>1. device_report' = device_report /\ device_report[p] = {}
                BY <1>4, <1>8, <3>3
            <4> QED
                BY <4>1
        <3> QED
            BY <3>1, <3>2, <3>3
    <2>4. Snapshot(queue.events, OfPage(p), ReportOf, device_report[p], queue.report[p])
        BY <1>1
    <2>5. PICK v : v = queue.report[p]
        OBVIOUS
    <2>6. PICK received : received = device_report'[p]
        OBVIOUS
    <2>7. PICK before : before = device_report[p]
        OBVIOUS
    <2>8. Snapshot(Tail(queue.events), OfPage(p), ReportOf, received, v)
        <3>1. IF queue.events[1] \in OfPage(p) THEN received \subseteq ReportOf[queue.events[1]]
                                               ELSE received \subseteq before
            BY <1>3, <2>3, <2>6, <2>7
        <3>2. Snapshot(queue.events, OfPage(p), ReportOf, before, v)
            BY <2>4, <2>5, <2>7
        <3> QED
            BY ONLY <1>1, <1>4, <3>1, <3>2, SnapshotPosted
    <2> QED
        BY <1>6, <2>5, <2>6, <2>8
<1>10. Snapshot(q.events, Pointing, ButtonsOf, device_buttons', pressed_buttons)
    <2>1. e \in Pointing <=> e.kind = "pointing"
        BY <1>5 DEF Pointing
    <2>2. ButtonsOf[e] = e.buttons
        BY <1>5 DEF ButtonsOf
    <2>3. PICK received : received = device_buttons'
        OBVIOUS
    <2>4. IF queue.events[1] \in Pointing THEN received \subseteq ButtonsOf[queue.events[1]]
                                          ELSE received \subseteq device_buttons
        BY <1>3, <1>4, <2>1, <2>2, <2>3 DEF Q!buttons_after
    <2>5. Snapshot(Tail(queue.events), Pointing, ButtonsOf, received, pressed_buttons)
        BY ONLY <1>1, <1>4, <2>4, SnapshotPosted
    <2> QED
        BY <1>6, <2>3, <2>5
<1>11. UNCHANGED <<pressed_keys, pressed_modifier_flags, active_modifier_flags, pointing, env,
                   keyboard_ready, releases, secure_release>>
    BY <1>4 DEF unposted, secure
<1>12. Sound(Current, held)' /\ Orderly(Current, held)' /\ LaziesHeld(lazies, held)'
    BY <1>4, <1>6, <1>9, <1>10, <1>11, ReceivedIsSound
<1>13. device_report' \in [Pages -> SUBSET Usages]
       /\ (~ keyboard_ready => device_report' = device_report)
    BY <1>4, <1>7, <1>8 DEF Q!report_after
<1> QED
    BY <1>4, <1>11, <1>12, <1>13 DEF StageInvariant

\* Nothing the stage depends on changes.
LEMMA SameStateKeepsInvariant ==
    ASSUME StageInvariant, now' \in Nat,
           UNCHANGED <<dispatcher, device_report, device_buttons, active_modifier_flags, pointing,
                       env, secure, keyboard_ready>>
    PROVE  StageInvariant'
<1>1. Sound(Current, held)' /\ Orderly(Current, held)' /\ LaziesHeld(lazies, held)'
    BY QueueBefore, ReceivedIsSound DEF dispatcher
<1> QED
    BY <1>1 DEF StageInvariant, secure

\* The virtual keyboard comes and goes, tasks start and end, and time passes.
LEMMA RestKeepsInvariant ==
    ASSUME StageInvariant,
           \/ KeyboardNotReady \/ KeyboardReady
           \/ \E w \in tasks : StartTask(w)
           \/ FinishTask \/ Tick
    PROVE  StageInvariant'
<1>0. now \in Nat
    BY DEF StageInvariant
<1>1. CASE KeyboardNotReady
    <2>1. /\ queue' = queue /\ now' = now /\ device_report' = [p \in Pages |-> {}]
          /\ device_buttons' = device_buttons /\ keyboard_ready' = FALSE
          /\ UNCHANGED <<pressed_keys, pressed_modifier_flags, active_modifier_flags, pointing, env,
                         releases, secure_release>>
        BY <1>1 DEF KeyboardNotReady, dispatcher, secure
    <2>2. ASSUME NEW p \in Pages
          PROVE  Snapshot(queue.events, OfPage(p), ReportOf, device_report'[p], queue.report[p])
        <3>1. device_report'[p] = {}
            BY <2>1
        <3>2. Snapshot(queue.events, OfPage(p), ReportOf, device_report[p], queue.report[p])
            BY QueueBefore
        <3>3. Snapshot(queue.events, OfPage(p), ReportOf, {}, queue.report[p])
            BY <3>2 DEF Snapshot
        <3> QED
            BY <3>1, <3>3
    <2>3. Sound(Current, held)' /\ Orderly(Current, held)' /\ LaziesHeld(lazies, held)'
        BY <2>1, <2>2, QueueBefore, ReceivedIsSound
    <2> QED
        BY <1>0, <2>1, <2>3 DEF StageInvariant
<1>2. CASE KeyboardReady
    <2>1. keyboard_ready' = TRUE /\ now' = now /\ device_report' = device_report
          /\ UNCHANGED <<dispatcher, device_buttons, active_modifier_flags, pointing, env, secure>>
        BY <1>2 DEF KeyboardReady, posted
    <2>2. Sound(Current, held)' /\ Orderly(Current, held)' /\ LaziesHeld(lazies, held)'
        BY <2>1, QueueBefore, ReceivedIsSound DEF dispatcher
    <2> QED
        BY <1>0, <2>1, <2>2 DEF StageInvariant, secure
<1>3. ASSUME NEW w \in tasks, StartTask(w)
      PROVE  StageInvariant'
    BY <1>0, <1>3, SameStateKeepsInvariant DEF StartTask, Q!StartTask, Q!posted, unposted,
           dispatcher
<1>4. CASE FinishTask
    BY <1>0, <1>4, SameStateKeepsInvariant DEF FinishTask, Q!FinishTask, Q!posted, unposted,
           dispatcher
<1>5. CASE Tick
    BY <1>0, <1>5, SameStateKeepsInvariant DEF Tick, Q!Tick, Q!posted, unposted, dispatcher
<1> QED
    BY <1>1, <1>2, <1>3, <1>4, <1>5

\* At the start nothing is down and nothing is queued.
LEMMA InitIsSound ==
    ASSUME Init
    PROVE  StageInvariant
<1>1. /\ queue = Q!EmptyQueue /\ device_report = [p \in Pages |-> {}] /\ device_buttons = {}
      /\ now = 0 /\ pressed_keys = <<>> /\ pressed_modifier_flags = {}
      /\ active_pointing_buttons = {} /\ pressed_buttons = {} /\ mouse_timer = None
      /\ releases = <<>> /\ ~ secure_release /\ held = {} /\ lazies = {}
      /\ active_modifier_flags = <<>>
    BY DEF Init, Q!Init, M!Init
<1>2. queue \in Q!Queue /\ queue.events = <<>> /\ queue.report = [p \in Pages |-> {}]
    BY <1>1 DEF Q!EmptyQueue, Q!Queue, Q!EventTypes
<1>3. /\ Current \in Stage(Current) /\ Current.queue = queue /\ Current.buttons = {}
      /\ Current.pressed_keys = <<>> /\ Current.pressed_modifier_flags = {}
      /\ Current.active_buttons = {} /\ Current.mouse_timer = None
    BY <1>1, <1>2 DEF Current, Stage
<1>4. KeysOf(Current) = {}
    BY <1>3 DEF KeysOf, Elements
<1>5. DownOf(Current) = {}
    BY <1>3, <1>4 DEF DownOf
<1>6. Reports(Current.queue) /\ Moves(Current.queue, Current.buttons)
    BY <1>1, <1>2, <1>3 DEF Reports, Moves, Snapshot
<1>7. Tracked(Current)
    BY <1>2, <1>3, <1>5, <1>6 DEF Tracked, Carries
<1>8. report_buttons(Current) = {}
    BY <1>3 DEF report_buttons
<1>9. Sound(Current, held)
    BY <1>3, <1>4, <1>7, <1>8 DEF Sound
<1>10. Orderly(Current, held)
    <2>1. Current.flags = <<>>
        BY <1>1 DEF Current
    <2> QED
        BY <1>3, <2>1 DEF Orderly, Owned, Settled
<1>11. LaziesHeld(lazies, held)
    BY <1>1 DEF LaziesHeld
<1> QED
    BY <1>1, <1>9, <1>10, <1>11 DEF StageInvariant

\* Without the event tap fallback, every step keeps the invariant.
LEMMA NextKeepsInvariant ==
    ASSUME ~ cgeventtap_fallback_enabled, StageInvariant, [Next]_vars
    PROVE  StageInvariant'
<1>1. CASE KeyEvent
    <2>1. PICK d \in KeyboardDevices :
              \/ \E u \in KeyUsages, delayed \in BOOLEAN : KeyDown(d, u, delayed)
              \/ \E u \in KeyUsages : KeyUp(d, u)
              \/ \E m \in Flags : ModifierKeyDown(d, m) \/ ModifierKeyUp(d, m)
              \/ \E m \in LazyFlags, count \in {1, -1} :
                     LazyModifier(d, m, count) \/ UndoLazyModifier(d, m, count)
              \/ \E m \in StickyFlags, t \in {"on", "off", "toggle"} : StickyModifier(d, m, t)
              \/ \E b \in Buttons : ButtonDown(d, b) \/ ButtonUp(d, b)
              \/ \E k \in MouseKeys : MouseKeyDown(d, k) \/ MouseKeyUp(d, k)
              \/ DeviceUngrabbed(d)
        BY <1>1 DEF KeyEvent
    <2>2. CASE \/ \E u \in KeyUsages, delayed \in BOOLEAN : KeyDown(d, u, delayed)
               \/ \E u \in KeyUsages : KeyUp(d, u)
        BY <2>2, KeysKeepInvariant
    <2>3. CASE \E m \in Flags : ModifierKeyDown(d, m) \/ ModifierKeyUp(d, m)
        BY <2>3, ModifierKeysKeepInvariant
    <2>4. CASE \E m \in LazyFlags, count \in {1, -1} :
                   LazyModifier(d, m, count) \/ UndoLazyModifier(d, m, count)
        BY <2>4, FlagsKeepInvariant, OrderAssumption
    <2>5. CASE \E m \in StickyFlags, t \in {"on", "off", "toggle"} : StickyModifier(d, m, t)
        BY <2>5, FlagsKeepInvariant, OrderAssumption
    <2>6. CASE \E b \in Buttons : ButtonDown(d, b) \/ ButtonUp(d, b)
        BY <2>6, ButtonsKeepInvariant
    <2>7. CASE \/ \E k \in MouseKeys : MouseKeyDown(d, k) \/ MouseKeyUp(d, k)
               \/ DeviceUngrabbed(d)
        BY <2>7, DevicesKeepInvariant
    <2> QED
        BY <2>1, <2>2, <2>3, <2>4, <2>5, <2>6, <2>7
<1>2. CASE StopKeyboardRepeat \/ Command \/ PointingMotion \/ EventTapPointing \/ MouseKeyTimer
    BY <1>2, MotionKeepsInvariant
<1>3. CASE CapsLockStateChanged
    BY <1>3, CapsLockKeepsInvariant
<1>4. CASE PostFront
    BY <1>4, PostFrontKeepsInvariant
<1>5. CASE \/ KeyboardNotReady \/ KeyboardReady
           \/ \E w \in tasks : StartTask(w)
           \/ FinishTask \/ Tick
    BY <1>5, RestKeepsInvariant
<1>6. CASE SecureEventInputEnabled \/ SecureReleasedEvent \/ ReleasePressedKeys
    BY <1>6 DEF SecureEventInputEnabled, SecureReleasedEvent, ReleasePressedKeys, StageInvariant
<1>7. CASE UNCHANGED vars
    BY <1>7, SameStateKeepsInvariant DEF vars, dispatcher, pointing, env, secure, StageInvariant
<1> QED
    BY <1>1, <1>2, <1>3, <1>4, <1>5, <1>6, <1>7 DEF Next, Posting

\* The report under construction holds what key_event_dispatcher believes to be
\* down, whatever keys, modifiers, devices and resets came before: none of its
\* early returns swallows a key_up that the report needs.
THEOREM ReportsAreTracked ==
    ASSUME ~ cgeventtap_fallback_enabled
    PROVE  Spec => []ReportFollowsDispatcher
<1>1. StageInvariant => ReportFollowsDispatcher
    <2> SUFFICES ASSUME StageInvariant PROVE ReportFollowsDispatcher
        OBVIOUS
    <2>1. /\ Tracked(Current) /\ Current.queue = queue /\ Current.pressed_keys = pressed_keys
          /\ Current.pressed_modifier_flags = pressed_modifier_flags
        BY CurrentIsSound DEF Sound, Current
    <2>2. \A p \in Pages : queue.report[p] = {u \in DownOf(Current) : PageOf[u] = p}
        BY <2>1 DEF Tracked, Carries
    <2>3. \A u \in DownOf(Current) : PageOf[u] \in Pages
        <3>1. /\ pressed_keys \in Seq(KeyboardDevices \X OrdinaryUsages)
              /\ pressed_modifier_flags \subseteq Flags
            BY <2>1 DEF Tracked, Carries, Stage
        <3>2. \A k \in KeysOf(Current) : k[2] \in Usages
            BY <2>1, <3>1 DEF KeysOf, Elements, OrdinaryUsages
        <3>3. \A m \in pressed_modifier_flags : UsageOf[m] \in Usages
            BY <3>1, OrderAssumption
        <3>4. DownOf(Current) \subseteq Usages
            BY <2>1, <3>2, <3>3 DEF DownOf
        <3> QED
            BY <3>4, NameAssumption
    <2>4. UNION {queue.report[p] : p \in Pages} = DownOf(Current)
        BY <2>2, <2>3
    <2>5. DownOf(Current) =
              {pressed_keys[i][2] : i \in DOMAIN pressed_keys} \cup
              {UsageOf[m] : m \in pressed_modifier_flags \ {caps_lock}}
        BY <2>1 DEF DownOf, KeysOf, Elements
    <2> QED
        BY <2>4, <2>5 DEF ReportFollowsDispatcher
<1>2. Init => StageInvariant
    BY InitIsSound
<1>3. StageInvariant /\ [Next]_vars => StageInvariant'
    BY NextKeepsInvariant
<1> QED
    BY <1>1, <1>2, <1>3, PTL DEF Spec

\* Once everything is posted, the virtual keyboard has what the stage has sent.
LEMMA QuietIsDown ==
    ASSUME StageInvariant, Quiet, NEW u \in DownOnDevice
    PROVE  u \in DownOf(Current)
<1>1. PICK p \in Pages : u \in device_report[p]
    BY DEF DownOnDevice
<1>2. Snapshot(queue.events, OfPage(p), ReportOf, device_report[p], queue.report[p])
    BY QueueBefore
<1>3. u \in queue.report[p]
    BY <1>1, <1>2 DEF Snapshot, Quiet
<1>4. Sound(Current, held) /\ Current.queue = queue
    BY CurrentIsSound
<1> QED
    BY <1>3, <1>4 DEF Sound, Tracked, Carries

\* The usage of a modifier flag is not that of a key.
LEMMA ModifierIsPressed ==
    ASSUME StageInvariant, NEW m \in Flags \ {caps_lock}, UsageOf[m] \in DownOf(Current)
    PROVE  m \in pressed_modifier_flags
<1>1. Current.pressed_modifier_flags = pressed_modifier_flags /\ Current \in Stage(Current)
    BY CurrentIsSound DEF Sound, Tracked, Carries
<1>2. pressed_modifier_flags \subseteq Flags
      /\ Current.pressed_keys \in Seq(KeyboardDevices \X OrdinaryUsages)
    BY <1>1 DEF Stage
<1>3. \A k \in KeysOf(Current) : k[2] \in OrdinaryUsages
    BY <1>2 DEF KeysOf, Elements
<1>4. UsageOf[m] \notin OrdinaryUsages
    BY ModifierUsage
<1>5. PICK n \in pressed_modifier_flags \ {caps_lock} : UsageOf[n] = UsageOf[m]
    BY <1>1, <1>3, <1>4 DEF DownOf
<1> QED
    BY <1>2, <1>5, OrderAssumption

\* When nothing is held, only stickies raise a flag other than caps_lock.
LEMMA RaisedBySticky ==
    ASSUME NEW s, Owned(s, {}), NEW m \in Flags \ {caps_lock}, Balance(s, m) > 0
    PROVE  M!sticky_size(s, m) > 0
<1>1. s \in Seq(StageEntries({}))
    BY DEF Owned
<1>2. Number(s, Raises(m)) \in Nat /\ Number(s, Lowers(m)) \in Nat
    BY <1>1, BalanceIsInteger
<1>3. Number(s, Raises(m)) # 0
    BY <1>2 DEF Balance
<1>4. PICK raised : raised = {i \in DOMAIN s : s[i] \in Raises(m)}
    OBVIOUS
<1>5. raised # {}
    BY <1>3, <1>4, FS_EmptySet DEF Number
<1>6. PICK i \in DOMAIN s : s[i] \in Raises(m)
    BY <1>4, <1>5
<1>7. s[i] \in StageEntries({}) /\ s[i].flag = m
    BY <1>1, <1>6 DEF Raises
<1>8. s[i].kind = "sticky"
    BY <1>7 DEF StageEntries, Holds
<1>9. PICK stickies : stickies = {j \in DOMAIN s : s[j].flag = m /\ s[j].kind = "sticky"}
    OBVIOUS
<1>10. stickies # {} /\ IsFiniteSet(stickies)
    <2>1. Len(s) \in Int /\ DOMAIN s = 1..Len(s)
        BY <1>1
    <2>2. IsFiniteSet(1..Len(s))
        BY <2>1, FS_Interval
    <2>3. stickies \subseteq 1..Len(s)
        BY <1>9, <2>1
    <2>4. i \in stickies
        BY <1>6, <1>7, <1>8, <1>9
    <2> QED
        BY <2>2, <2>3, <2>4, FS_Subset
<1>11. Cardinality(stickies) > 0
    BY <1>10, FS_EmptySet, FS_CardinalityType
<1> QED
    BY <1>9, <1>11, SameCardinality DEF M!sticky_size

\* Once everything is posted, a key is down on the virtual keyboard only while
\* a device holds it, for any number of devices that share keys, are lost, or
\* see their keyboard reset while keys are down.
THEOREM KeysAreReleased ==
    ASSUME ~ cgeventtap_fallback_enabled
    PROVE  Spec => []NoStuckKey
<1>1. StageInvariant => NoStuckKey
    <2> SUFFICES ASSUME StageInvariant, Quiet, NEW u \in DownOnDevice \ ModifierUsages
                 PROVE  \E d \in KeyboardDevices : <<d, u>> \in held
        BY DEF NoStuckKey
    <2>1. /\ Sound(Current, held) /\ Current.pressed_keys = pressed_keys
          /\ Current.pressed_modifier_flags = pressed_modifier_flags /\ Current.queue = queue
        BY CurrentIsSound DEF Current
    <2>4. u \in DownOf(Current)
        BY QuietIsDown
    <2>5. pressed_modifier_flags \subseteq Flags
          /\ pressed_keys \in Seq(KeyboardDevices \X OrdinaryUsages)
        BY <2>1 DEF Sound, Tracked, Carries, Stage
    <2>6. \A m \in pressed_modifier_flags \ {caps_lock} : UsageOf[m] # u
        BY <2>5, OrderAssumption
    <2>7. PICK k \in KeysOf(Current) : k[2] = u
        BY <2>1, <2>4, <2>6 DEF DownOf
    <2>8. k \in KeyboardDevices \X OrdinaryUsages
        BY <2>1, <2>5, <2>7 DEF KeysOf, Elements
    <2>9. k \in held
        BY <2>1, <2>7 DEF Sound
    <2> QED
        BY <2>7, <2>8, <2>9
<1>2. Init => StageInvariant
    BY InitIsSound
<1>3. StageInvariant /\ [Next]_vars => StageInvariant'
    BY NextKeepsInvariant
<1> QED
    BY <1>1, <1>2, <1>3, PTL DEF Spec

\* Once all keys are up and everything is posted, a modifier is down on the
\* virtual keyboard only if it is sticky: whatever modifier keys, lazy events,
\* key_ups of shared keys and losses of devices came before, the last released
\* event leaves no plain entry behind and has its flags dispatched.
THEOREM ModifiersAreReleased ==
    ASSUME ~ cgeventtap_fallback_enabled
    PROVE  Spec => []NoStuckModifier
<1>1. StageInvariant => NoStuckModifier
    <2> SUFFICES ASSUME StageInvariant, Quiet, held = {}, NEW m \in Flags \ {caps_lock},
                        UsageOf[m] \in DownOnDevice
                 PROVE  M!sticky_size(active_modifier_flags, m) > 0
        BY DEF NoStuckModifier
    <2>1. PICK u : u = UsageOf[m]
        OBVIOUS
    <2>2. u \in DownOf(Current)
        BY <2>1, QuietIsDown
    <2>3. m \in pressed_modifier_flags
        BY <2>1, <2>2, ModifierIsPressed
    <2>4. PICK s : s = active_modifier_flags
        OBVIOUS
    <2>5. Owned(s, {}) /\ Balance(s, m) > 0
        BY <2>3, <2>4, CurrentIsSound DEF Orderly, Settled
    <2> QED
        BY <2>4, <2>5, RaisedBySticky
<1>2. Init => StageInvariant
    BY InitIsSound
<1>3. StageInvariant /\ [Next]_vars => StageInvariant'
    BY NextKeepsInvariant
<1> QED
    BY <1>1, <1>2, <1>3, PTL DEF Spec

\* Once everything is posted, a button is down on the virtual pointing device
\* only while a device holds it.
THEOREM ButtonsAreReleased ==
    ASSUME ~ cgeventtap_fallback_enabled
    PROVE  Spec => []NoStuckButton
<1>1. StageInvariant => NoStuckButton
    <2> SUFFICES ASSUME StageInvariant, Quiet, NEW b \in device_buttons
                 PROVE  \E d \in KeyboardDevices : <<d, b>> \in held
        BY DEF NoStuckButton
    <2>1. Sound(Current, held) /\ Current.buttons = pressed_buttons
        BY CurrentIsSound DEF Current
    <2>2. Snapshot(queue.events, Pointing, ButtonsOf, device_buttons, pressed_buttons)
        BY QueueBefore
    <2>3. device_buttons \subseteq pressed_buttons
        BY <2>2 DEF Snapshot, Quiet
    <2>4. b \in report_buttons(Current)
        BY <2>1, <2>3 DEF Sound
    <2>5. PICK x \in Current.active_buttons : x[1] = b
        BY <2>4 DEF report_buttons
    <2>6. x \in Buttons \X KeyboardDevices /\ <<x[2], x[1]>> \in held
        BY <2>1, <2>5 DEF Sound, ButtonEntries
    <2> QED
        BY <2>5, <2>6
<1>2. Init => StageInvariant
    BY InitIsSound
<1>3. StageInvariant /\ [Next]_vars => StageInvariant'
    BY NextKeepsInvariant
<1> QED
    BY <1>1, <1>2, <1>3, PTL DEF Spec
=============================================================================
