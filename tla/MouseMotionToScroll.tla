------------------------ MODULE MouseMotionToScroll ------------------------
(***************************************************************************)
(* The manipulators of pointing motions: mouse_basic, and                  *)
(* mouse_motion_to_scroll with its counter, which collects the motions of  *)
(* a short time, locks the direction, and scrolls from a timer that goes   *)
(* on with momentum.  manipulate, the timer and the tasks that manipulate  *)
(* enqueues run on the dispatcher thread.  Time is counted in periods of   *)
(* the timer (20 ms).                                                      *)
(***************************************************************************)
EXTENDS Integers, SequencesExt

CONSTANTS
    ScrollOptions,      \* options of both manipulators
    Motions,            \* the <<x, y>> that arrive
    MotionDevices,      \* the devices they come from
    MaxMotions,         \* bound on their number
    MaxScrollTime       \* bound on the clock

VARIABLES
    options,
    clock,              \* when_now()
    motions,            \* number of motions
    tasks,              \* the dispatcher: update, reset, start, stop, call, scroll
    timer,              \* timer_: when it fires next, or Stopped
    counter,            \* the state of counter
    moved               \* the last motion mouse_basic has made

scroll_vars == <<options, clock, motions, tasks, timer, counter, moved>>

Axes == 1..2            \* x and y
Stopped == -1

EmptyCounter ==
    [entries |-> <<>>, direction |-> "none", chunks |-> <<>>, total |-> <<0, 0>>,
     momentum |-> <<0, 0>>, minus |-> 0, count |-> 0, wait |-> 0, last_scroll |-> -1]

Init ==
    /\ options \in ScrollOptions
    /\ clock = 0 /\ motions = 0 /\ tasks = <<>> /\ timer = Stopped
    /\ counter = EmptyCounter /\ moved = <<0, 0>>

-----------------------------------------------------------------------------
(* mouse_basic: swap, then flip, then discard; wheels like x and y.         *)

mouse_basic(m, rule) ==
    LET swapped == IF rule.swap THEN <<m[2], m[1]>> ELSE m
    IN  [a \in Axes |-> IF a \in rule.discard THEN 0
                        ELSE IF a \in rule.flip THEN -swapped[a] ELSE swapped[a]]

-----------------------------------------------------------------------------
(* counter                                                                  *)

Abs(n) == IF n < 0 THEN -n ELSE n
Sign(n) == IF n > 0 THEN 1 ELSE IF n < 0 THEN -1 ELSE 0
Multiply(n) == Sign(n) * ((Abs(n) * options.multiplier.num) \div options.multiplier.den)

\* The sum of the first i elements of a sequence of numbers, and of all.
Added(s) ==
    LET sum[i \in 0..Len(s)] == IF i = 0 THEN 0 ELSE sum[i - 1] + s[i]
    IN  sum[Len(s)]
SumOf(f(_), s) == Added([i \in DOMAIN s |-> f(s[i])])

\* counter_chunk_value: the larger of what moved to either side, the last
\* side if they are equal.
make_accumulated_value(es, axis) ==
    LET plus == SumOf(LAMBDA e : IF e.motion[axis] > 0 THEN e.motion[axis] ELSE 0, es)
        minus == SumOf(LAMBDA e : IF e.motion[axis] < 0 THEN e.motion[axis] ELSE 0, es)
        steps == SelectSeq(es, LAMBDA e : e.motion[axis] # 0)
    IN  CASE steps = <<>> -> 0
          [] steps # <<>> /\ plus > -minus -> plus
          [] steps # <<>> /\ plus < -minus -> minus
          [] OTHER -> IF Last(steps).motion[axis] > 0 THEN plus ELSE minus

abs_total(es, axis) == SumOf(LAMBDA e : Abs(e.motion[axis]), es)

chunks_total(chunks, axis) == SumOf(LAMBDA k : Abs(k.value[axis]), chunks)

\* The lock is given up when the other direction prevails in the recent chunks.
reset_direction(direction, chunks) ==
    CASE direction = "horizontal" /\ chunks_total(chunks, 2) > chunks_total(chunks, 1) -> "none"
      [] direction = "vertical" /\ chunks_total(chunks, 1) > chunks_total(chunks, 2) -> "none"
      [] OTHER -> direction

\* Mutant: what was scrolled in the other direction is kept.
set_direction_keeping_totals(c, chunk) ==
    IF c.direction # "none" THEN c
    ELSE [c EXCEPT !.direction = IF abs_total(chunk, 1) > abs_total(chunk, 2)
                                 THEN "horizontal" ELSE "vertical",
                   !.minus = options.threshold]

set_direction(c, chunk) ==
    IF c.direction # "none" THEN c
    ELSE [c EXCEPT !.direction = IF abs_total(chunk, 1) > abs_total(chunk, 2)
                                 THEN "horizontal" ELSE "vertical",
                   !.total = <<0, 0>>, !.momentum = <<0, 0>>, !.minus = options.threshold]

ApplyDirection(direction, value) ==
    IF direction = "horizontal" THEN <<value[1], 0>> ELSE <<0, value[2]>>

\* A change of sign ends the momentum.
turned(c, value) == {a \in Axes : value[a] # 0 /\ Sign(c.total[a]) # Sign(value[a])}

turn_round(c, axes) ==
    IF axes = {} THEN c
    ELSE [c EXCEPT !.total = [a \in Axes |-> IF a \in axes THEN 0 ELSE @[a]],
                   !.momentum = [a \in Axes |-> IF a \in axes THEN 0 ELSE @[a]],
                   !.minus = options.threshold]

\* int(threshold / (|total| / threshold)^4), at least 1 and at most what it was
momentum_minus(total, minus) ==
    LET largest == Min({10 * options.threshold, Max({Abs(total[1]), Abs(total[2])})})
        t == options.threshold
    IN  Min({minus, Max({1, (t * t * t * t * t) \div (largest * largest * largest * largest)})})

\* After a new start or a change of sign the total is at least the threshold.
add_motion(c, value, initial) ==
    LET total == [a \in Axes |-> c.total[a] + Multiply(value[a])]
        enlarged == [a \in Axes |-> IF initial THEN Sign(total[a]) *
                                            Max({Abs(total[a]), options.threshold * Abs(Sign(total[a]))})
                                    ELSE total[a]]
    IN  IF total = <<0, 0>> THEN [c EXCEPT !.total = total]
        ELSE [c EXCEPT !.total = enlarged, !.minus = momentum_minus(enlarged, @),
                       !.last_scroll = -1, !.count = 0, !.wait = 0]

NumberOfRecent(es) ==
    LET late == {i \in DOMAIN es : es[i].time - es[1].time > options.recent}
    IN  IF late = {} THEN Len(es) ELSE Min(late) - 1

\* process_entries for the chunk of the first n entries
process_chunk(c, n) ==
    LET front == c.entries[1].time
        chunk == SubSeq(c.entries, 1, n)
        value == <<make_accumulated_value(chunk, 1), make_accumulated_value(chunk, 2)>>
        recent == SelectSeq(c.chunks, LAMBDA k : front - k.time <= options.recent * options.lock)
        chunks == Append(recent, [time |-> front, value |-> value])
        started == [c EXCEPT
                        !.entries = SubSeq(@, n + 1, Len(@)), !.chunks = chunks,
                        !.direction = reset_direction(IF recent = <<>> THEN "none" ELSE @, chunks)]
        directed == set_direction(started, chunk)
        applied == ApplyDirection(directed.direction, value)
        axes == turned(directed, applied)
    IN  add_motion(turn_round(directed, axes), applied, recent = <<>> \/ axes # {})

\* process_entries: the entries wait until the first is old enough.
process_entries(c) ==
    IF c.entries = <<>> THEN [c |-> c, go_on |-> FALSE]
    ELSE IF clock - c.entries[1].time <= options.recent THEN [c |-> c, go_on |-> TRUE]
    ELSE [c |-> process_chunk(c, NumberOfRecent(c.entries)), go_on |-> TRUE]

\* ceil for positive values; ceil - 1 for negative ones, whole numbers included
round_up(n, d) ==
    IF n > 0 THEN (n + d - 1) \div d ELSE IF n < 0 THEN -((-n) \div d) - 1 ELSE 0

\* convert: the number of thresholds in the momentum; only one if momentum scrolls
convert(n) ==
    LET whole == Abs(n) \div options.threshold
    IN  Sign(n) * (IF options.momentum THEN Min({1, whole}) ELSE whole)

reduce(n, amount) == Sign(n) * (Abs(n) - Min({amount, Abs(n)}))

\* scroll: one step of the momentum.
scroll_step(c) ==
    LET count == c.count + 1
        d(a) == IF ~ options.momentum /\ count > 1 THEN 0 ELSE round_up(c.total[a], count)
        momentum == [a \in Axes |-> c.momentum[a] + d(a)]
        out == [a \in Axes |-> convert(momentum[a])]
        total == [a \in Axes |-> reduce(c.total[a], c.minus)]
        go_on == total # <<0, 0>>
    IN  [c |-> [c EXCEPT !.count = count, !.total = total,
                         !.momentum = [a \in Axes |-> momentum[a] - out[a] * options.threshold],
                         !.last_scroll = IF out = <<0, 0>> THEN @ ELSE clock,
                         !.wait = IF go_on /\ options.momentum THEN Min({count, 10}) ELSE @],
         go_on |-> go_on, out |-> out]

scroll(c) ==
    IF c.wait > 0 THEN [c |-> [c EXCEPT !.wait = @ - 1], go_on |-> TRUE, out |-> <<0, 0>>]
    ELSE IF c.last_scroll # -1 /\ clock - c.last_scroll > options.event_interval
    THEN [c |-> [c EXCEPT !.count = @ + 1], go_on |-> FALSE, out |-> <<0, 0>>]
    ELSE scroll_step(c)

-----------------------------------------------------------------------------
(* manipulate.  A motion that mouse_basic changes goes on as a motion; one  *)
(* under the modifiers of mouse_motion_to_scroll is swallowed and counted;  *)
(* any event without them resets the counter.                               *)

Enqueue(more) == tasks' = tasks \o more

MotionArrives(m, device) ==
    /\ motions < MaxMotions
    /\ motions' = motions + 1
    /\ IF device \in options.basic.devices
       THEN moved' = mouse_basic(m, options.basic) /\ UNCHANGED tasks
       ELSE /\ Enqueue(<<[task |-> "update", motion |-> m, time |-> clock]>>)
            /\ UNCHANGED moved
    /\ UNCHANGED <<options, clock, timer, counter>>

ModifiersReleased ==
    /\ motions < MaxMotions
    /\ motions' = motions + 1
    /\ Enqueue(<<[task |-> "reset"]>>)
    /\ UNCHANGED <<options, clock, timer, counter, moved>>

\* The function of the timer, which stops the timer when nothing is left to do.
AfterScroll(processed, s) ==
    /\ counter' = s.c
    /\ tasks' = Tail(tasks)
        \o (IF s.out = <<0, 0>> THEN <<>> ELSE <<[task |-> "scroll", motion |-> <<s.out[1], -s.out[2]>>]>>)
        \o (IF processed.go_on \/ s.go_on THEN <<>> ELSE <<[task |-> "stop"]>>)

\* Mutant: the timer stops when nothing scrolls.
timer_function_without_entries(processed) ==
    AfterScroll([processed EXCEPT !.go_on = FALSE], scroll(processed.c))

timer_function(processed) == AfterScroll(processed, scroll(processed.c))

\* timer::start calls its function at once and then once per period; starting
\* and stopping are tasks, too.
RunTask ==
    /\ tasks # <<>>
    /\ LET t == Head(tasks)
           More(more) == tasks' = Tail(tasks) \o more
       IN  CASE t.task = "update" ->
                    /\ counter' = [counter EXCEPT !.entries =
                                    Append(@, [motion |-> t.motion, time |-> t.time])]
                    /\ More(<<[task |-> "start"]>>)
                    /\ UNCHANGED timer
             [] t.task = "reset" ->
                    /\ counter' = [EmptyCounter EXCEPT !.minus = counter.minus]
                    /\ More(<<>>) /\ UNCHANGED timer
             [] t.task = "start" ->
                    timer' = clock + 1 /\ More(<<[task |-> "call"]>>) /\ UNCHANGED counter
             [] t.task = "stop" -> timer' = Stopped /\ More(<<>>) /\ UNCHANGED counter
             [] t.task = "scroll" -> More(<<>>) /\ UNCHANGED <<timer, counter>>
             [] t.task = "call" -> timer_function(process_entries(counter)) /\ UNCHANGED timer
    /\ UNCHANGED <<options, clock, motions, moved>>

\* A period passes, and the timer fires when it is due.
Period ==
    /\ tasks = <<>>
    /\ clock < MaxScrollTime
    /\ clock' = clock + 1
    /\ IF timer = clock' THEN timer' = clock' + 1 /\ tasks' = <<[task |-> "call"]>>
       ELSE UNCHANGED <<timer, tasks>>
    /\ UNCHANGED <<options, motions, counter, moved>>

Next ==
    \/ \E m \in Motions, device \in MotionDevices : MotionArrives(m, device)
    \/ ModifiersReleased
    \/ RunTask
    \/ Period

-----------------------------------------------------------------------------
\* The direction lock: what is scrolled, and what may still be scrolled by
\* momentum, has one direction (counter::process_entries).
ScrollsInOneDirection ==
    /\ 0 \in {counter.total[1], counter.total[2]}
    /\ \A i \in DOMAIN tasks : tasks[i].task = "scroll" => 0 \in ToSet(tasks[i].motion)

\* Motion is not forgotten while the timer rests: an entry that waits has a
\* timer that runs, or a start of it behind every stop that is already on its
\* way (counter::update, timer::stop).
EntriesHaveTimer ==
    LET Stops(i) == tasks[i].task = "stop"
    IN  counter.entries # <<>> =>
            \/ timer # Stopped /\ \A i \in DOMAIN tasks : ~ Stops(i)
            \/ \E i \in DOMAIN tasks : /\ tasks[i].task = "start"
                                       /\ \A j \in DOMAIN tasks : i < j => ~ Stops(j)
=============================================================================
