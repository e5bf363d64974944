------------------------------ MODULE DaemonProofs ------------------------------
(***************************************************************************)
(* Proofs about the parts of the daemon that turn motion into events: for  *)
(* any configuration of sticks and scrolling, any HID reports and any      *)
(* number of motions.                                                      *)
(***************************************************************************)
EXTENDS MCDaemon, SubsequenceProofs

(* Sticks.                                                                  *)

\* A stick in the middle does not count as completely tilted: the configuration
\* lets the threshold be 0, but then it always does (stick::continued_movement).
ThresholdsArePositive ==
    \A p \in StickParameters : p.xy.continued_threshold # 0 /\ p.wheels.continued_threshold # 0

\* The timer runs in a mode, and only then.
PadInvariant ==
    /\ parameters \in StickParameters
    /\ mode = "none" <=> timer = pad!Stopped
    /\ timer \in {-1, 0, 1, 2}
    /\ pad!NeutralSticksAreQuiet

-----------------------------------------------------------------------------
(* Scrolling.                                                               *)

\* The sum of integers is an integer.
LEMMA AddedIsInteger ==
    ASSUME NEW s \in Seq(Int)
    PROVE  scroll!Added(s) \in Int
<1> DEFINE n == Len(s)
           step == [p \in Int \X (1..n) |-> p[1] + s[p[2]]]
           IsSum(f) == f = [i \in 0..n |-> IF i = 0 THEN 0 ELSE f[i - 1] + s[i]]
           sum == CHOOSE f : IsSum(f)
<1>0. n \in Nat /\ \A i \in 1..n : s[i] \in Int
    OBVIOUS
<1>00. \A i \in 1..n : i \in 0..n /\ i - 1 \in 0..n /\ i # 0
    BY <1>0
<1>1. step \in [Int \X (1..n) -> Int]
    OBVIOUS
<1>2. PICK f : Recursive(f, n, Int, 0, step)
    <2> HIDE DEF step, n
    <2>1. 0 \in Int
        OBVIOUS
    <2> QED
        BY <1>0, <1>1, <2>1, Recursion
<1>3. IsSum(f)
    <2> HIDE DEF n
    <2>1. \A i \in 1..n : <<f[i - 1], i>> \in Int \X (1..n)
        BY <1>00, <1>2 DEF Recursive
    <2>2. \A i \in 1..n : f[i] = f[i - 1] + s[i]
        BY <2>1, <1>2 DEF Recursive
    <2>3. \A i \in 0..n : i # 0 => i \in 1..n
        BY <1>0
    <2> QED
        BY <1>2, <2>2, <2>3 DEF Recursive
<1>4. IsSum(sum)
    <2> HIDE DEF IsSum
    <2> QED
        BY <1>3
<1> HIDE DEF sum
<1> DEFINE Good == {i \in 0..n : sum[i] \in Int}
<1>5. 0 \in Good
    BY <1>0, <1>4
<1>6. ASSUME NEW i \in 1..n, i - 1 \in Good PROVE i \in Good
    <2> HIDE DEF n
    <2>1. i \in 0..n /\ i # 0 /\ s[i] \in Int /\ sum[i - 1] \in Int
        BY <1>0, <1>00, <1>6
    <2>2. sum[i] = sum[i - 1] + s[i]
        BY <1>4, <2>1
    <2> QED
        BY <2>1, <2>2
<1>7. Good = 0..n
    <2> HIDE DEF Good, n
    <2>1. Good \subseteq 0..n
        BY DEF Good
    <2> QED
        BY <1>0, <1>5, <1>6, <2>1, Induction
<1>8. sum[n] \in Int
    BY <1>0, <1>7
<1>9. scroll!Added(s) = sum[n]
    BY Zenon DEF scroll!Added, sum
<1> QED
    BY <1>8, <1>9

\* Motion as it arrives, as it is counted and as it is scrolled.
Motion == Int \X Int

MotionEntry == [motion : Motion, time : Nat]

ScrollTask ==
    [task : {"update"}, motion : Motion, time : Nat]
    \cup [task : {"reset", "start", "stop", "call"}]
    \cup [task : {"scroll"}, motion : Motion]

CounterWith(chunks) ==
    [entries : Seq(MotionEntry), direction : {"none", "horizontal", "vertical"}, chunks : {chunks},
     total : [1..2 -> Int], momentum : [1..2 -> Int], minus : Int, count : Nat, wait : Int,
     last_scroll : Int]

\* What moves across the direction is zero.
Directed(c) ==
    /\ c.direction # "horizontal" => c.total[1] = 0 /\ c.momentum[1] = 0
    /\ c.direction # "vertical" => c.total[2] = 0 /\ c.momentum[2] = 0

ScrollTypes ==
    /\ options \in ScrollOptions
    /\ clock \in Nat /\ scroll_timer \in Int
    /\ tasks \in Seq(ScrollTask)
    /\ counter \in CounterWith(counter.chunks)

\* What is about to be scrolled has one direction.
Straight(ts) ==
    \A i \in DOMAIN ts : ts[i].task = "scroll" => ts[i].motion[1] = 0 \/ ts[i].motion[2] = 0

\* The timer runs, or will be started after every stop.
Ready(ts, started) ==
    \/ started /\ \A i \in DOMAIN ts : ts[i].task # "stop"
    \/ \E i \in DOMAIN ts : /\ ts[i].task = "start"
                            /\ \A j \in DOMAIN ts : i < j => ts[j].task # "stop"

ScrollInvariant ==
    /\ ScrollTypes
    /\ Directed(counter)
    /\ Straight(tasks)
    /\ counter.entries # <<>> => Ready(tasks, scroll_timer # scroll!Stopped)

\* The smaller and the larger of two numbers.
LEMMA MinMax ==
    ASSUME NEW a \in Int, NEW b \in Int
    PROVE  /\ scroll!Min({a, b}) = IF a <= b THEN a ELSE b
           /\ scroll!Max({a, b}) = IF a >= b THEN a ELSE b
BY DEF scroll!Min, scroll!Max

\* Absolute values, signs and the multiplied motion are integers.
LEMMA Numbers ==
    ASSUME NEW n \in Int, options \in ScrollOptions
    PROVE  /\ scroll!Abs(n) \in Nat /\ (scroll!Abs(n) = 0 <=> n = 0)
           /\ scroll!Sign(n) \in {-1, 0, 1} /\ scroll!Sign(0) = 0
           /\ scroll!Multiply(n) \in Int /\ scroll!Multiply(0) = 0
<1>1. scroll!Abs(n) \in Nat /\ (scroll!Abs(n) = 0 <=> n = 0)
    BY DEF scroll!Abs
<1>2. scroll!Sign(n) \in {-1, 0, 1} /\ scroll!Sign(0) = 0
    BY DEF scroll!Sign
<1>3. PICK num \in Nat, den \in Nat \ {0} :
          num = options.multiplier.num /\ den = options.multiplier.den
    BY DaemonAssumption
<1>4. ASSUME NEW k \in Nat PROVE (k * num) \div den \in Int
    BY <1>3
<1>5. scroll!Multiply(n) \in Int
    <2> DEFINE quotient == (scroll!Abs(n) * num) \div den
    <2>1. quotient \in Int
        BY <1>1, <1>4
    <2>2. scroll!Multiply(n) = scroll!Sign(n) * quotient
        BY <1>3 DEF scroll!Multiply
    <2> HIDE DEF quotient
    <2> QED
        BY <1>2, <2>1, <2>2
<1>6. scroll!Multiply(0) = 0
    <2> DEFINE quotient == (scroll!Abs(0) * num) \div den
    <2>1. quotient \in Int
        BY <1>4 DEF scroll!Abs
    <2>2. scroll!Multiply(0) = scroll!Sign(0) * quotient
        BY <1>3 DEF scroll!Multiply
    <2> HIDE DEF quotient
    <2> QED
        BY <1>2, <2>1, <2>2
<1> QED
    BY <1>1, <1>2, <1>5, <1>6

\* What several motions add up to along one axis.
LEMMA AccumulatedIsInteger ==
    ASSUME NEW es \in Seq(MotionEntry), NEW axis \in 1..2
    PROVE  scroll!make_accumulated_value(es, axis) \in Int
<1>1. ASSUME NEW i \in DOMAIN es PROVE es[i].motion[axis] \in Int
    <2>1. es[i] \in MotionEntry
        OBVIOUS
    <2>2. PICK m \in Motion : m = es[i].motion
        BY <2>1 DEF MotionEntry
    <2>3. m[1] \in Int /\ m[2] \in Int
        BY DEF Motion
    <2> QED
        BY <2>2, <2>3
<1> DEFINE up == [i \in DOMAIN es |-> IF es[i].motion[axis] > 0 THEN es[i].motion[axis] ELSE 0]
           down == [i \in DOMAIN es |-> IF es[i].motion[axis] < 0 THEN es[i].motion[axis] ELSE 0]
<1>2. up \in Seq(Int) /\ down \in Seq(Int)
    BY <1>1
<1>3. scroll!Added(up) \in Int /\ scroll!Added(down) \in Int
    <2> HIDE DEF up, down
    <2> QED
        BY <1>2, AddedIsInteger
<1>4. scroll!make_accumulated_value(es, axis) \in {0, scroll!Added(up), scroll!Added(down)}
    BY DEF scroll!make_accumulated_value, scroll!SumOf
<1> QED
    BY <1>3, <1>4

\* Momentum decreases by an integer.
LEMMA MinusIsInteger ==
    ASSUME NEW total \in [1..2 -> Int], total[1] # 0 \/ total[2] # 0, NEW minus \in Int,
           options \in ScrollOptions
    PROVE  scroll!momentum_minus(total, minus) \in Int
<1> DEFINE t == options.threshold
           largest == scroll!Min({10 * t, scroll!Max({scroll!Abs(total[1]), scroll!Abs(total[2])})})
           fifth == t * t * t * t * t
           fourth == largest * largest * largest * largest
<1>1. t \in Nat \ {0}
    BY DaemonAssumption
<1>2. PICK a \in Nat, b \in Nat : /\ a = scroll!Abs(total[1]) /\ b = scroll!Abs(total[2])
                                  /\ a # 0 \/ b # 0
    BY Numbers
<1>3. largest \in Nat \ {0}
    <2>1. scroll!Max({a, b}) \in Nat \ {0}
        BY <1>2, MinMax
    <2>2. PICK c \in Nat \ {0} : c = scroll!Max({a, b})
        BY <2>1
    <2>3. 10 * t \in Nat \ {0}
        BY <1>1
    <2>4. PICK d \in Nat \ {0} : d = 10 * t
        BY <2>3
    <2>5. scroll!Min({d, c}) \in Nat \ {0}
        BY MinMax
    <2> QED
        BY <1>2, <2>2, <2>4, <2>5
<1> HIDE DEF t, largest
<1>4. \A x \in Nat \ {0}, y \in Nat \ {0} : x * y \in Nat \ {0}
    OBVIOUS
<1>5. fourth \in Nat \ {0}
    BY <1>3, <1>4
<1>6. fifth \in Nat \ {0}
    BY <1>1, <1>4
<1> HIDE DEF fourth, fifth
<1>7. fifth \div fourth \in Int
    BY <1>5, <1>6
<1>8. PICK q \in Int : q = fifth \div fourth
    BY <1>7
<1>9. PICK one \in Int : one = 1
    OBVIOUS
<1>10. PICK r \in Int : r = scroll!Max({one, q})
    BY MinMax
<1>11. scroll!Min({minus, r}) \in Int
    BY MinMax
<1>12. scroll!momentum_minus(total, minus) = scroll!Min({minus, r})
    BY <1>8, <1>9, <1>10, Zenon DEF scroll!momentum_minus, fifth, fourth, largest, t
<1> QED
    BY <1>11, <1>12

\* A counter stays one when a field gets another value.
LEMMA FieldChanges ==
    ASSUME NEW chunks, NEW c \in CounterWith(chunks)
    PROVE  /\ \A v \in Seq(MotionEntry) : [c EXCEPT !.entries = v] \in CounterWith(chunks)
           /\ \A v \in {"none", "horizontal", "vertical"} :
                  [c EXCEPT !.direction = v] \in CounterWith(chunks)
           /\ \A v : [c EXCEPT !.chunks = v] \in CounterWith(v)
           /\ \A v \in [1..2 -> Int] : [c EXCEPT !.total = v] \in CounterWith(chunks)
           /\ \A v \in [1..2 -> Int] : [c EXCEPT !.momentum = v] \in CounterWith(chunks)
           /\ \A v \in Int : [c EXCEPT !.minus = v] \in CounterWith(chunks)
           /\ \A v \in Nat : [c EXCEPT !.count = v] \in CounterWith(chunks)
           /\ \A v \in Int : [c EXCEPT !.wait = v] \in CounterWith(chunks)
           /\ \A v \in Int : [c EXCEPT !.last_scroll = v] \in CounterWith(chunks)
<1> USE DEF CounterWith
<1>1. \A v \in Seq(MotionEntry) : [c EXCEPT !.entries = v] \in CounterWith(chunks)
    OBVIOUS
<1>2. \A v \in {"none", "horizontal", "vertical"} :
          [c EXCEPT !.direction = v] \in CounterWith(chunks)
    OBVIOUS
<1>3. \A v : [c EXCEPT !.chunks = v] \in CounterWith(v)
    OBVIOUS
<1>4. \A v \in [1..2 -> Int] : [c EXCEPT !.total = v] \in CounterWith(chunks)
    OBVIOUS
<1>5. \A v \in [1..2 -> Int] : [c EXCEPT !.momentum = v] \in CounterWith(chunks)
    OBVIOUS
<1>6. \A v \in Int : [c EXCEPT !.minus = v] \in CounterWith(chunks)
    OBVIOUS
<1>7. \A v \in Nat : [c EXCEPT !.count = v] \in CounterWith(chunks)
    OBVIOUS
<1>8. \A v \in Int : [c EXCEPT !.wait = v] \in CounterWith(chunks)
    OBVIOUS
<1>9. \A v \in Int : [c EXCEPT !.last_scroll = v] \in CounterWith(chunks)
    OBVIOUS
<1> HIDE DEF CounterWith
<1> QED
    BY <1>1, <1>2, <1>3, <1>4, <1>5, <1>6, <1>7, <1>8, <1>9

\* Adding a motion along the direction keeps the counter.
LEMMA AddMotionKeeps ==
    ASSUME NEW chunks, NEW c \in CounterWith(chunks), Directed(c),
           c.direction \in {"horizontal", "vertical"},
           NEW value \in [1..2 -> Int], NEW initial \in BOOLEAN,
           c.direction = "horizontal" => value[2] = 0,
           c.direction = "vertical" => value[1] = 0,
           options \in ScrollOptions
    PROVE  LET d == scroll!add_motion(c, value, initial)
           IN  /\ d \in CounterWith(chunks) /\ Directed(d) /\ d.entries = c.entries
<1> DEFINE total == [a \in 1..2 |-> c.total[a] + scroll!Multiply(value[a])]
           enlarged == [a \in 1..2 |-> IF initial
                           THEN scroll!Sign(total[a]) *
                                   scroll!Max({scroll!Abs(total[a]),
                                               options.threshold * scroll!Abs(scroll!Sign(total[a]))})
                           ELSE total[a]]
           d == scroll!add_motion(c, value, initial)
<1>1. total \in [1..2 -> Int]
    <2>1. \A a \in 1..2 : c.total[a] \in Int /\ scroll!Multiply(value[a]) \in Int
        BY Numbers DEF CounterWith
    <2> HIDE DEF total
    <2> QED
        BY <2>1 DEF total
<1>2. \A a \in 1..2 : c.total[a] = 0 /\ value[a] = 0 => total[a] = 0
    BY Numbers
<1> HIDE DEF total
<1>3. ASSUME NEW a \in 1..2
      PROVE  /\ enlarged[a] \in Int
             /\ total[a] = 0 <=> enlarged[a] = 0
    <2>1. PICK n \in Int : n = total[a]
        BY <1>1
    <2>2. PICK abs \in Nat, s \in {-1, 0, 1}, t \in Nat \ {0} :
              abs = scroll!Abs(n) /\ s = scroll!Sign(n) /\ t = options.threshold
        BY Numbers, DaemonAssumption
    <2>3. PICK u \in {0, 1} : u = scroll!Abs(s) /\ (u = 0 <=> s = 0)
        BY DEF scroll!Abs
    <2>4. n = 0 <=> s = 0
        BY <2>2 DEF scroll!Sign
    <2>5. n = 0 <=> abs = 0
        BY <2>2, Numbers
    <2>6. t * u \in Nat
        BY <2>3
    <2>7. PICK p \in Nat : p = t * u
        BY <2>6
    <2>8. PICK m \in Nat : m = scroll!Max({abs, p}) /\ abs <= m
        BY MinMax
    <2>9. enlarged[a] = IF initial THEN s * m ELSE n
        BY <2>1, <2>2, <2>3, <2>7, <2>8
    <2>10. s * m \in Int /\ (n # 0 => s * m # 0) /\ (n = 0 => s * m = 0)
        <3>1. s = -1 => s * m = -m
            BY <2>8
        <3>2. s = 1 => s * m = m
            BY <2>8
        <3>3. s = 0 => s * m = 0
            BY <2>8
        <3> QED
            BY <3>1, <3>2, <3>3, <2>4, <2>5, <2>8
    <2> QED
        BY <2>1, <2>9, <2>10
<1>4. enlarged \in [1..2 -> Int]
    <2>1. \A a \in 1..2 : enlarged[a] \in Int
        BY <1>3
    <2>2. enlarged = [a \in 1..2 |-> enlarged[a]]
        OBVIOUS
    <2> HIDE DEF enlarged
    <2> QED
        BY <2>1, <2>2
<1> HIDE DEF enlarged
<1>5. CASE total = <<0, 0>>
    <2>1. d = [c EXCEPT !.total = total]
        BY <1>5, Zenon DEF scroll!add_motion, total, scroll!Axes
    <2> HIDE DEF d
    <2>2. d \in CounterWith(chunks)
        BY <1>1, <2>1 DEF CounterWith
    <2>3. /\ d.total = total /\ d.momentum = c.momentum
          /\ d.direction = c.direction /\ d.entries = c.entries
        BY <2>1 DEF CounterWith
    <2>4. Directed(d)
        BY <1>2, <2>3 DEF Directed
    <2> QED
        BY <2>2, <2>3, <2>4 DEF d
<1>6. CASE total # <<0, 0>>
    <2>1. total[1] # 0 \/ total[2] # 0
        BY <1>1, <1>6
    <2>2. enlarged[1] # 0 \/ enlarged[2] # 0
        BY <1>3, <2>1
    <2>3. c.minus \in Int
        BY DEF CounterWith
    <2>4. PICK minus \in Int : minus = scroll!momentum_minus(enlarged, c.minus)
        BY <1>4, <2>2, <2>3, MinusIsInteger
    <2>5. d = [c EXCEPT !.total = enlarged, !.minus = minus,
                        !.last_scroll = -1, !.count = 0, !.wait = 0]
        BY <1>6, <2>4, Zenon DEF scroll!add_motion, total, enlarged, scroll!Axes
    <2>6. \A a \in 1..2 : c.total[a] = 0 /\ value[a] = 0 => enlarged[a] = 0
        BY <1>2, <1>3
    <2> HIDE DEF d
    <2>7. d \in CounterWith(chunks)
        <3> DEFINE e == [c EXCEPT !.total = enlarged]
                   f == [e EXCEPT !.minus = minus]
                   g == [f EXCEPT !.last_scroll = -1]
                   h == [g EXCEPT !.count = 0]
        <3>0. -1 \in Int /\ 0 \in Nat /\ 0 \in Int
            OBVIOUS
        <3>1. e \in CounterWith(chunks)
            BY <1>4, FieldChanges
        <3>2. f \in CounterWith(chunks)
            BY <3>1, FieldChanges
        <3>3. g \in CounterWith(chunks)
            BY <3>0, <3>2, FieldChanges, Zenon
        <3>4. h \in CounterWith(chunks)
            BY <3>0, <3>3, FieldChanges, Zenon
        <3>5. d = [h EXCEPT !.wait = 0]
            BY <2>5, Zenon DEF e, f, g, h
        <3> HIDE DEF h
        <3> QED
            BY <3>0, <3>4, <3>5, FieldChanges, Zenon
    <2>8. /\ d.total = enlarged /\ d.momentum = c.momentum
          /\ d.direction = c.direction /\ d.entries = c.entries
        BY <2>5 DEF CounterWith
    <2>9. Directed(d)
        BY <2>6, <2>8 DEF Directed
    <2> QED
        BY <2>7, <2>8, <2>9 DEF d
<1> QED
    BY <1>5, <1>6

\* A counter without a direction takes one, and starts again.
LEMMA SetDirectionKeeps ==
    ASSUME NEW chunks, NEW c \in CounterWith(chunks), NEW chunk,
           c.direction # "none" => Directed(c),
           options \in ScrollOptions
    PROVE  LET d == scroll!set_direction(c, chunk)
           IN  /\ d \in CounterWith(chunks) /\ Directed(d)
               /\ d.direction \in {"horizontal", "vertical"}
<1> DEFINE d == scroll!set_direction(c, chunk)
<1>1. CASE c.direction # "none"
    <2>1. d = c
        BY <1>1, Zenon DEF scroll!set_direction
    <2> QED
        BY <1>1, <2>1 DEF CounterWith
<1>2. CASE c.direction = "none"
    <2>1. PICK way \in {"horizontal", "vertical"} :
              way = IF scroll!abs_total(chunk, 1) > scroll!abs_total(chunk, 2)
                    THEN "horizontal" ELSE "vertical"
        OBVIOUS
    <2>2. PICK zero : /\ zero = <<0, 0>> /\ zero \in [1..2 -> Int]
                      /\ zero[1] = 0 /\ zero[2] = 0
        <3>1. <<0, 0>> \in [1..2 -> Int]
            OBVIOUS
        <3> QED
            BY <3>1
    <2>3. options.threshold \in Int
        BY DaemonAssumption
    <2> DEFINE e == [c EXCEPT !.direction = way]
               f == [e EXCEPT !.total = zero]
               g == [f EXCEPT !.momentum = zero]
    <2>4. e \in CounterWith(chunks) /\ e.direction = way
        BY FieldChanges DEF CounterWith
    <2> HIDE DEF e
    <2>5. f \in CounterWith(chunks) /\ f.direction = way /\ f.total = zero
        <3>1. f \in CounterWith(chunks)
            BY <2>2, <2>4, FieldChanges
        <3>2. f.direction = way /\ f.total = zero
            BY <2>4 DEF CounterWith
        <3> QED
            BY <3>1, <3>2
    <2> HIDE DEF f
    <2>6. g \in CounterWith(chunks) /\ g.direction = way /\ g.total = zero /\ g.momentum = zero
        BY <2>5, FieldChanges DEF CounterWith
    <2> HIDE DEF g
    <2>7. d = [g EXCEPT !.minus = options.threshold]
        BY <1>2, <2>1, <2>2, Zenon DEF scroll!set_direction, e, f, g
    <2> HIDE DEF d
    <2>8. d \in CounterWith(chunks)
        BY <2>3, <2>6, <2>7, FieldChanges
    <2>9. d.direction = way /\ d.total = zero /\ d.momentum = zero
        BY <2>6, <2>7 DEF CounterWith
    <2> QED
        BY <2>2, <2>8, <2>9 DEF Directed, d
<1> QED
    BY <1>1, <1>2

\* A change of sign only takes momentum away.
LEMMA TurnRoundKeeps ==
    ASSUME NEW chunks, NEW c \in CounterWith(chunks), Directed(c), NEW axes,
           options \in ScrollOptions
    PROVE  LET d == scroll!turn_round(c, axes)
           IN  d \in CounterWith(chunks) /\ Directed(d) /\ d.direction = c.direction
<1> DEFINE d == scroll!turn_round(c, axes)
           total == [a \in 1..2 |-> IF a \in axes THEN 0 ELSE c.total[a]]
           momentum == [a \in 1..2 |-> IF a \in axes THEN 0 ELSE c.momentum[a]]
<1>1. total \in [1..2 -> Int] /\ momentum \in [1..2 -> Int]
    BY DEF CounterWith
<1>2. \A a \in 1..2 : /\ c.total[a] = 0 => total[a] = 0
                      /\ c.momentum[a] = 0 => momentum[a] = 0
    OBVIOUS
<1>3. options.threshold \in Int
    BY DaemonAssumption
<1>4. CASE axes = {}
    BY <1>4, Zenon DEF scroll!turn_round
<1>5. CASE axes # {}
    <2> DEFINE e == [c EXCEPT !.total = total]
               f == [e EXCEPT !.momentum = momentum]
    <2>1. d = [f EXCEPT !.minus = options.threshold]
        BY <1>5, Zenon DEF scroll!turn_round, scroll!Axes
    <2> HIDE DEF total, momentum, d
    <2>2. e \in CounterWith(chunks) /\ e.direction = c.direction /\ e.total = total
        BY <1>1, FieldChanges DEF CounterWith
    <2> HIDE DEF e
    <2>3. /\ f \in CounterWith(chunks) /\ f.direction = c.direction
          /\ f.total = total /\ f.momentum = momentum
        BY <1>1, <2>2, FieldChanges DEF CounterWith
    <2> HIDE DEF f
    <2>4. d \in CounterWith(chunks)
        BY <1>3, <2>1, <2>3, FieldChanges
    <2>5. d.direction = c.direction /\ d.total = total /\ d.momentum = momentum
        BY <2>1, <2>3 DEF CounterWith
    <2> QED
        BY <1>2, <2>4, <2>5 DEF Directed, d
<1> QED
    BY <1>4, <1>5

\* At least one entry is recent, and no more than there are.
LEMMA SomeAreRecent ==
    ASSUME NEW es \in Seq(MotionEntry), es # <<>>, options \in ScrollOptions
    PROVE  scroll!NumberOfRecent(es) \in 1..Len(es)
<1> DEFINE late == {i \in DOMAIN es : es[i].time - es[1].time > options.recent}
<1>1. Len(es) \in Nat /\ Len(es) >= 1 /\ DOMAIN es = 1..Len(es)
    OBVIOUS
<1>2. CASE late = {}
    BY <1>1, <1>2 DEF scroll!NumberOfRecent
<1>3. CASE late # {}
    <2>1. 1 \notin late
        <3>0. es[1].time \in Nat
            <4>1. es[1] \in MotionEntry
                BY <1>1
            <4> QED
                BY <4>1 DEF MotionEntry
        <3>1. PICK t \in Nat, r \in Nat : t = es[1].time /\ r = options.recent
            BY <3>0, DaemonAssumption
        <3>2. ~ (t - t > r)
            OBVIOUS
        <3> QED
            BY <3>1, <3>2
    <2>2. late \in SUBSET Nat
        BY <1>1
    <2> HIDE DEF late
    <2>3. \E i \in late : \A j \in late : i <= j
        BY <1>3, <2>2, LeastNumber
    <2>4. PICK i \in late : i = scroll!Min(late)
        BY <2>3 DEF scroll!Min
    <2>5. i \in 1..Len(es) /\ i # 1
        BY <1>1, <2>1 DEF late
    <2>6. scroll!NumberOfRecent(es) = i - 1
        BY <1>3, <2>4, Zenon DEF scroll!NumberOfRecent, late
    <2> QED
        BY <1>1, <2>5, <2>6
<1> QED
    BY <1>2, <1>3

\* What the first n entries make of a counter.
LEMMA ProcessChunkKeeps ==
    ASSUME NEW chunks, NEW c \in CounterWith(chunks), Directed(c),
           NEW n \in 1..Len(c.entries), options \in ScrollOptions
    PROVE  LET d == scroll!process_chunk(c, n)
           IN  d \in CounterWith(d.chunks) /\ Directed(d)
<1> DEFINE front == c.entries[1].time
           chunk == SubSeq(c.entries, 1, n)
           value == <<scroll!make_accumulated_value(chunk, 1),
                      scroll!make_accumulated_value(chunk, 2)>>
           recent == SelectSeq(c.chunks,
                               LAMBDA k : front - k.time <= options.recent * options.lock)
           added == Append(recent, [time |-> front, value |-> value])
           way == scroll!reset_direction(IF recent = <<>> THEN "none" ELSE c.direction, added)
           rest == SubSeq(c.entries, n + 1, Len(c.entries))
           started == [c EXCEPT !.entries = rest, !.chunks = added, !.direction = way]
           directed == scroll!set_direction(started, chunk)
           applied == scroll!ApplyDirection(directed.direction, value)
           axes == scroll!turned(directed, applied)
           round == scroll!turn_round(directed, axes)
           initial == recent = <<>> \/ axes # {}
<1>1. c.entries \in Seq(MotionEntry)
    BY DEF CounterWith
<1>2. chunk \in Seq(MotionEntry) /\ rest \in Seq(MotionEntry)
    BY <1>1
<1> HIDE DEF chunk, rest
<1>3. PICK x \in Int, y \in Int : value = <<x, y>>
    BY <1>2, AccumulatedIsInteger
<1>4. way \in {c.direction, "none"}
    <2> HIDE DEF recent, added
    <2>1. \A d : scroll!reset_direction(d, added) \in {d, "none"}
        BY Zenon DEF scroll!reset_direction
    <2> QED
        BY <2>1
<1> HIDE DEF value, recent, way
<1>5. /\ started \in CounterWith(added) /\ started.direction = way
      /\ started.total = c.total /\ started.momentum = c.momentum
    <2> HIDE DEF added
    <2> DEFINE e == [c EXCEPT !.entries = rest]
               f == [e EXCEPT !.chunks = added]
    <2>1. c.direction \in {"none", "horizontal", "vertical"}
        BY DEF CounterWith
    <2>2. e \in CounterWith(chunks) /\ e.total = c.total /\ e.momentum = c.momentum
        BY <1>2, FieldChanges DEF CounterWith
    <2> HIDE DEF e
    <2>3. f \in CounterWith(added) /\ f.total = c.total /\ f.momentum = c.momentum
        BY <2>2, FieldChanges DEF CounterWith
    <2> HIDE DEF f
    <2>4. started = [f EXCEPT !.direction = way]
        BY Zenon DEF e, f
    <2> HIDE DEF started
    <2>5. started \in CounterWith(added)
        BY <1>4, <2>1, <2>3, <2>4, FieldChanges
    <2>6. started.direction = way /\ started.total = c.total /\ started.momentum = c.momentum
        BY <2>3, <2>4 DEF CounterWith
    <2> QED
        BY <2>5, <2>6
<1> HIDE DEF started, added
<1>6. /\ directed \in CounterWith(added) /\ Directed(directed)
      /\ directed.direction \in {"horizontal", "vertical"}
    <2>1. started.direction # "none" => Directed(started)
        BY <1>4, <1>5 DEF Directed
    <2> QED
        BY <1>5, <2>1, SetDirectionKeeps
<1> HIDE DEF directed
<1>7. /\ applied \in [1..2 -> Int]
      /\ directed.direction = "horizontal" => applied[2] = 0
      /\ directed.direction = "vertical" => applied[1] = 0
    <2>1. value[1] = x /\ value[2] = y
        BY <1>3
    <2>2. applied = IF directed.direction = "horizontal" THEN <<x, 0>> ELSE <<0, y>>
        BY <2>1 DEF scroll!ApplyDirection
    <2>3. <<x, 0>> \in [1..2 -> Int] /\ <<0, y>> \in [1..2 -> Int]
        OBVIOUS
    <2> HIDE DEF applied
    <2> QED
        BY <1>6, <2>2, <2>3
<1> HIDE DEF applied, axes
<1>8. round \in CounterWith(added) /\ Directed(round) /\ round.direction = directed.direction
    BY <1>6, TurnRoundKeeps
<1> HIDE DEF round
<1>9. initial \in BOOLEAN
    OBVIOUS
<1> HIDE DEF initial
<1> DEFINE d == scroll!add_motion(round, applied, initial)
<1>10. d \in CounterWith(added) /\ Directed(d)
    BY <1>6, <1>7, <1>8, <1>9, AddMotionKeeps
<1>11. scroll!process_chunk(c, n) = d
    BY Zenon DEF scroll!process_chunk, d, initial, round, axes, applied, directed, started, added,
                 recent, way, value, chunk, rest
<1> HIDE DEF d
<1>12. d.chunks = added
    BY <1>10 DEF CounterWith
<1> QED
    BY <1>10, <1>11, <1>12

\* The timer first counts the motion that is old enough.
LEMMA ProcessKeeps ==
    ASSUME NEW chunks, NEW c \in CounterWith(chunks), Directed(c), options \in ScrollOptions
    PROVE  LET p == scroll!process_entries(c)
           IN  /\ p.c \in CounterWith(p.c.chunks) /\ Directed(p.c)
               /\ p.c.entries # <<>> => c.entries # <<>> /\ p.go_on
<1> DEFINE p == scroll!process_entries(c)
           n == scroll!NumberOfRecent(c.entries)
           d == scroll!process_chunk(c, n)
<1>1. c.entries \in Seq(MotionEntry) /\ c.chunks = chunks
    BY DEF CounterWith
<1>2. CASE c.entries = <<>>
    BY <1>1, <1>2 DEF scroll!process_entries
<1>3. CASE c.entries # <<>> /\ clock - c.entries[1].time <= options.recent
    BY <1>1, <1>3 DEF scroll!process_entries
<1>4. CASE c.entries # <<>> /\ ~ (clock - c.entries[1].time <= options.recent)
    <2>1. p.c = d /\ p.go_on
        BY <1>4 DEF scroll!process_entries
    <2>2. n \in 1..Len(c.entries)
        BY <1>1, <1>4, SomeAreRecent
    <2> HIDE DEF n
    <2>3. d \in CounterWith(d.chunks) /\ Directed(d)
        BY <2>2, ProcessChunkKeeps
    <2> HIDE DEF d, p
    <2>4. p.c \in CounterWith(p.c.chunks) /\ Directed(p.c) /\ p.go_on
        BY <2>1, <2>3
    <2> QED
        BY <1>4, <2>4 DEF p
<1> QED
    BY <1>2, <1>3, <1>4

\* Rounding, converting and reducing give integers, and nothing for nothing.
LEMMA Roundings ==
    ASSUME NEW n \in Int, NEW count \in Nat \ {0}, NEW amount \in Int, options \in ScrollOptions
    PROVE  /\ scroll!round_up(n, count) \in Int /\ (n = 0 => scroll!round_up(n, count) = 0)
           /\ scroll!convert(n) \in Int /\ (n = 0 => scroll!convert(n) = 0)
           /\ scroll!reduce(n, amount) \in Int /\ (n = 0 => scroll!reduce(n, amount) = 0)
<1>1. PICK s \in {-1, 0, 1}, abs \in Nat, t \in Nat \ {0} :
          /\ s = scroll!Sign(n) /\ abs = scroll!Abs(n) /\ t = options.threshold
          /\ n = 0 => s = 0
    BY Numbers, DaemonAssumption
<1>2. \A k \in Int : s * k \in Int /\ (n = 0 => s * k = 0)
    BY <1>1
<1>3. scroll!round_up(n, count) \in Int /\ (n = 0 => scroll!round_up(n, count) = 0)
    <2>1. \A k \in Int : k \div count \in Int
        OBVIOUS
    <2> QED
        BY <2>1 DEF scroll!round_up
<1>4. scroll!convert(n) \in Int /\ (n = 0 => scroll!convert(n) = 0)
    <2>1. PICK whole \in Int : whole = abs \div t
        OBVIOUS
    <2>2. PICK one \in Int : one = 1
        OBVIOUS
    <2>3. PICK m \in Int : m = scroll!Min({one, whole})
        BY MinMax
    <2>4. scroll!convert(n) = s * (IF options.momentum THEN m ELSE whole)
        BY <1>1, <2>1, <2>2, <2>3, Zenon DEF scroll!convert
    <2> QED
        BY <1>2, <2>4
<1>5. scroll!reduce(n, amount) \in Int /\ (n = 0 => scroll!reduce(n, amount) = 0)
    <2>1. PICK m \in Int : m = scroll!Min({amount, abs})
        BY MinMax
    <2>2. scroll!reduce(n, amount) = s * (abs - m)
        BY <1>1, <2>1, Zenon DEF scroll!reduce
    <2> QED
        BY <1>2, <2>2
<1> QED
    BY <1>3, <1>4, <1>5

\* One step of the momentum scrolls along the direction, and leaves the entries.
LEMMA ScrollStepKeeps ==
    ASSUME NEW chunks, NEW c \in CounterWith(chunks), Directed(c), options \in ScrollOptions,
           clock \in Nat
    PROVE  LET s == scroll!scroll_step(c)
           IN  /\ s.c \in CounterWith(chunks) /\ Directed(s.c) /\ s.c.entries = c.entries
               /\ s.out \in [1..2 -> Int] /\ (s.out[1] = 0 \/ s.out[2] = 0)
<1> DEFINE count == c.count + 1
           d(a) == IF ~ options.momentum /\ count > 1 THEN 0 ELSE scroll!round_up(c.total[a], count)
           momentum == [a \in 1..2 |-> c.momentum[a] + d(a)]
           out == [a \in 1..2 |-> scroll!convert(momentum[a])]
           total == [a \in 1..2 |-> scroll!reduce(c.total[a], c.minus)]
           go_on == total # <<0, 0>>
           left == [a \in 1..2 |-> momentum[a] - out[a] * options.threshold]
           last == IF out = <<0, 0>> THEN c.last_scroll ELSE clock
           wait == IF go_on /\ options.momentum THEN scroll!Min({count, 10}) ELSE c.wait
           s == scroll!scroll_step(c)
<1>1. /\ count \in Nat \ {0} /\ c.minus \in Int /\ c.last_scroll \in Int /\ c.wait \in Int
      /\ options.threshold \in Nat \ {0}
    BY DaemonAssumption DEF CounterWith
<1> HIDE DEF count
<1>2. ASSUME NEW a \in 1..2
      PROVE  /\ momentum[a] \in Int /\ out[a] \in Int /\ total[a] \in Int /\ left[a] \in Int
             /\ c.total[a] = 0 /\ c.momentum[a] = 0 => out[a] = 0 /\ total[a] = 0 /\ left[a] = 0
    <2>1. PICK n \in Int, k \in Int : n = c.total[a] /\ k = c.momentum[a]
        BY DEF CounterWith
    <2>2. PICK e \in Int : e = d(a) /\ (n = 0 => e = 0)
        <3>1. PICK r \in Int : r = scroll!round_up(n, count) /\ (n = 0 => r = 0)
            BY <1>1, Roundings
        <3>2. d(a) = IF ~ options.momentum /\ count > 1 THEN 0 ELSE r
            BY <2>1, <3>1
        <3> HIDE DEF d
        <3> QED
            BY <3>1, <3>2
    <2> HIDE DEF d
    <2>3. PICK m \in Int : m = momentum[a] /\ m = k + e
        BY <2>1, <2>2
    <2> HIDE DEF momentum
    <2>4. PICK o \in Int : o = out[a] /\ (m = 0 => o = 0)
        BY <1>1, <2>3, Roundings
    <2>5. PICK r \in Int : r = total[a] /\ (n = 0 => r = 0)
        BY <1>1, <2>1, Roundings
    <2> HIDE DEF out, total
    <2>6. PICK t \in Nat \ {0} : t = options.threshold
        BY <1>1
    <2>7. left[a] = m - o * t
        BY <2>3, <2>4, <2>6
    <2>8. m - o * t \in Int /\ (m = 0 /\ o = 0 => m - o * t = 0)
        OBVIOUS
    <2> QED
        BY <2>1, <2>2, <2>3, <2>4, <2>5, <2>7, <2>8
<1>3. out \in [1..2 -> Int] /\ total \in [1..2 -> Int] /\ left \in [1..2 -> Int]
    <2>1. /\ out = [a \in 1..2 |-> out[a]] /\ total = [a \in 1..2 |-> total[a]]
          /\ left = [a \in 1..2 |-> left[a]]
        BY Zenon
    <2> HIDE DEF out, total, left
    <2> QED
        BY <1>2, <2>1
<1>4. last \in Int /\ wait \in Int
    <2>1. PICK ten \in Int : ten = 10
        OBVIOUS
    <2>2. PICK m \in Int : m = scroll!Min({count, ten})
        BY <1>1, MinMax
    <2> HIDE DEF out, go_on
    <2> QED
        BY <1>1, <2>1, <2>2
<1>5. s.out = out /\ s.c = [c EXCEPT !.count = count, !.total = total, !.momentum = left,
                                     !.last_scroll = last, !.wait = wait]
    <2>1. s = [c |-> [c EXCEPT !.count = count, !.total = total, !.momentum = left,
                               !.last_scroll = last, !.wait = wait],
               go_on |-> go_on, out |-> out]
        BY Zenon DEF scroll!scroll_step, count, scroll!Axes
    <2> HIDE DEF s, out, total, left, last, wait, go_on
    <2> QED
        BY <2>1
<1> HIDE DEF out, total, left, last, wait, go_on, s
<1>6. /\ s.c \in CounterWith(chunks) /\ s.c.entries = c.entries /\ s.c.direction = c.direction
      /\ s.c.total = total /\ s.c.momentum = left
    <2> DEFINE e == [c EXCEPT !.count = count]
               f == [e EXCEPT !.total = total]
               g == [f EXCEPT !.momentum = left]
               h == [g EXCEPT !.last_scroll = last]
               Agrees(x) == x.entries = c.entries /\ x.direction = c.direction
    <2>1. e \in CounterWith(chunks)
        BY <1>1, FieldChanges
    <2>2. Agrees(e)
        BY DEF CounterWith
    <2> HIDE DEF e
    <2>3. f \in CounterWith(chunks)
        BY <1>3, <2>1, FieldChanges
    <2>4. Agrees(f) /\ f.total = total
        BY <2>1, <2>2 DEF CounterWith
    <2> HIDE DEF f
    <2>5. g \in CounterWith(chunks)
        BY <1>3, <2>3, FieldChanges
    <2>6. Agrees(g) /\ g.total = total /\ g.momentum = left
        BY <2>3, <2>4 DEF CounterWith
    <2> HIDE DEF g
    <2>7. h \in CounterWith(chunks)
        BY <1>4, <2>5, FieldChanges
    <2>8. Agrees(h) /\ h.total = total /\ h.momentum = left
        BY <2>5, <2>6 DEF CounterWith
    <2> HIDE DEF h
    <2>9. s.c = [h EXCEPT !.wait = wait]
        BY <1>5, Zenon DEF e, f, g, h
    <2>10. s.c \in CounterWith(chunks)
        <3>1. \A v \in Int : [h EXCEPT !.wait = v] \in CounterWith(chunks)
            BY <2>7, FieldChanges
        <3> QED
            BY <1>4, <2>9, <3>1
    <2>11. Agrees(s.c) /\ s.c.total = total /\ s.c.momentum = left
        BY <2>7, <2>8, <2>9 DEF CounterWith
    <2> QED
        BY <2>10, <2>11
<1>7. Directed(s.c)
    BY <1>2, <1>6 DEF Directed
<1>8. out[1] = 0 \/ out[2] = 0
    <2>1. c.direction # "horizontal" \/ c.direction # "vertical"
        OBVIOUS
    <2> QED
        BY <1>2, <2>1 DEF Directed
<1> QED
    BY <1>3, <1>5, <1>6, <1>7, <1>8 DEF s

\* The timer scrolls along the direction, and leaves the entries.
LEMMA ScrollKeeps ==
    ASSUME NEW chunks, NEW c \in CounterWith(chunks), Directed(c), options \in ScrollOptions,
           clock \in Nat
    PROVE  LET s == scroll!scroll(c)
           IN  /\ s.c \in CounterWith(chunks) /\ Directed(s.c) /\ s.c.entries = c.entries
               /\ s.out \in [1..2 -> Int] /\ (s.out[1] = 0 \/ s.out[2] = 0)
<1> DEFINE s == scroll!scroll(c)
<1>1. c.wait \in Int /\ c.count \in Nat
    BY DEF CounterWith
<1>2. PICK zero : /\ zero = <<0, 0>> /\ zero \in [1..2 -> Int]
                  /\ zero[1] = 0 /\ zero[2] = 0
    <2>1. <<0, 0>> \in [1..2 -> Int]
        OBVIOUS
    <2> QED
        BY <2>1
<1>3. CASE c.wait > 0
    <2>1. PICK w \in Int : w = c.wait - 1
        BY <1>1
    <2>2. s.c = [c EXCEPT !.wait = w] /\ s.out = zero
        BY <1>2, <1>3, <2>1 DEF scroll!scroll
    <2> HIDE DEF s
    <2>3. s.c \in CounterWith(chunks)
        <3>1. \A v \in Int : [c EXCEPT !.wait = v] \in CounterWith(chunks)
            BY FieldChanges
        <3> QED
            BY <2>2, <3>1
    <2>4. /\ s.c.entries = c.entries /\ s.c.direction = c.direction
          /\ s.c.total = c.total /\ s.c.momentum = c.momentum
        BY <2>2 DEF CounterWith
    <2>5. Directed(s.c)
        BY <2>4 DEF Directed
    <2> QED
        BY <1>2, <2>2, <2>3, <2>4, <2>5 DEF s
<1>4. CASE /\ ~ (c.wait > 0) /\ c.last_scroll # -1
           /\ clock - c.last_scroll > options.event_interval
    <2>1. PICK n \in Nat : n = c.count + 1
        BY <1>1
    <2>2. s.c = [c EXCEPT !.count = n] /\ s.out = zero
        BY <1>2, <1>4, <2>1 DEF scroll!scroll
    <2> HIDE DEF s
    <2>3. s.c \in CounterWith(chunks)
        <3>1. \A v \in Nat : [c EXCEPT !.count = v] \in CounterWith(chunks)
            BY FieldChanges
        <3> QED
            BY <2>2, <3>1
    <2>4. /\ s.c.entries = c.entries /\ s.c.direction = c.direction
          /\ s.c.total = c.total /\ s.c.momentum = c.momentum
        BY <2>2 DEF CounterWith
    <2>5. Directed(s.c)
        BY <2>4 DEF Directed
    <2> QED
        BY <1>2, <2>2, <2>3, <2>4, <2>5 DEF s
<1>5. CASE /\ ~ (c.wait > 0)
           /\ ~ (c.last_scroll # -1 /\ clock - c.last_scroll > options.event_interval)
    <2>1. s = scroll!scroll_step(c)
        BY <1>5, Zenon DEF scroll!scroll
    <2> HIDE DEF s
    <2> QED
        BY <2>1, ScrollStepKeeps DEF s
<1> QED
    BY <1>3, <1>4, <1>5

\* New tasks at the end.
LEMMA TasksJoined ==
    ASSUME NEW ts \in Seq(ScrollTask), NEW more \in Seq(ScrollTask), NEW started \in BOOLEAN
    PROVE  /\ ts \o more \in Seq(ScrollTask)
           /\ Straight(ts) /\ Straight(more) => Straight(ts \o more)
           /\ /\ Ready(ts, started)
              /\ \A i \in DOMAIN more : more[i].task # "stop"
              => Ready(ts \o more, started)
<1> DEFINE s == ts \o more
<1>1. /\ s \in Seq(ScrollTask) /\ DOMAIN s = 1..(Len(ts) + Len(more))
      /\ DOMAIN ts = 1..Len(ts) /\ DOMAIN more = 1..Len(more)
      /\ Len(ts) \in Nat /\ Len(more) \in Nat
    OBVIOUS
<1>2. \A i \in DOMAIN s : s[i] = IF i <= Len(ts) THEN ts[i] ELSE more[i - Len(ts)]
    OBVIOUS
<1> HIDE DEF s
<1>3. \A i \in DOMAIN s : /\ i <= Len(ts) => i \in DOMAIN ts
                          /\ ~ (i <= Len(ts)) => i - Len(ts) \in DOMAIN more
    BY <1>1
<1>4. Straight(ts) /\ Straight(more) => Straight(s)
    BY <1>2, <1>3 DEF Straight
<1>5. ASSUME Ready(ts, started), \A i \in DOMAIN more : more[i].task # "stop"
      PROVE  Ready(s, started)
    <2>1. CASE started /\ \A i \in DOMAIN ts : ts[i].task # "stop"
        BY <1>2, <1>3, <1>5, <2>1 DEF Ready
    <2>2. CASE \E i \in DOMAIN ts : /\ ts[i].task = "start"
                                    /\ \A j \in DOMAIN ts : i < j => ts[j].task # "stop"
        <3>1. PICK i \in DOMAIN ts : /\ ts[i].task = "start"
                                     /\ \A j \in DOMAIN ts : i < j => ts[j].task # "stop"
            BY <2>2
        <3>2. i \in DOMAIN s /\ s[i] = ts[i]
            BY <1>1, <1>2
        <3>3. \A j \in DOMAIN s : i < j => s[j].task # "stop"
            BY <1>2, <1>3, <1>5, <3>1
        <3> QED
            BY <3>1, <3>2, <3>3 DEF Ready
    <2> QED
        BY <1>5, <2>1, <2>2 DEF Ready
<1> QED
    BY <1>1, <1>4, <1>5 DEF s

\* A start at the end.
LEMMA StartJoined ==
    ASSUME NEW ts \in Seq(ScrollTask), NEW started
    PROVE  Ready(ts \o <<[task |-> "start"]>>, started)
<1> DEFINE s == ts \o <<[task |-> "start"]>>
           i == Len(ts) + 1
<1>1. i \in DOMAIN s /\ s[i] = [task |-> "start"] /\ DOMAIN s = 1..i
    OBVIOUS
<1>2. s[i].task = "start" /\ \A j \in DOMAIN s : ~ (i < j)
    BY <1>1
<1> QED
    BY <1>1, <1>2 DEF Ready

\* The first task runs.
LEMMA TaskTaken ==
    ASSUME NEW ts \in Seq(ScrollTask), ts # <<>>, NEW before \in BOOLEAN, NEW after \in BOOLEAN,
           ts[1].task = "start" => after,
           ts[1].task \notin {"start", "stop"} /\ before => after
    PROVE  /\ Tail(ts) \in Seq(ScrollTask)
           /\ Straight(ts) => Straight(Tail(ts))
           /\ Ready(ts, before) => Ready(Tail(ts), after)
<1> DEFINE s == Tail(ts)
<1>1. /\ s \in Seq(ScrollTask) /\ Len(ts) \in Nat /\ Len(ts) >= 1
      /\ DOMAIN s = 1..(Len(ts) - 1) /\ DOMAIN ts = 1..Len(ts)
    OBVIOUS
<1>2. \A i \in DOMAIN s : s[i] = ts[i + 1] /\ i + 1 \in DOMAIN ts
    OBVIOUS
<1> HIDE DEF s
<1>3. \A i \in DOMAIN ts : i # 1 => i - 1 \in DOMAIN s /\ s[i - 1] = ts[i]
    BY <1>1, <1>2
<1>4. Straight(ts) => Straight(s)
    BY <1>2 DEF Straight
<1>5. ASSUME Ready(ts, before) PROVE Ready(s, after)
    <2>0. 1 \in DOMAIN ts
        BY <1>1
    <2>1. CASE before /\ \A i \in DOMAIN ts : ts[i].task # "stop"
        <3>1. after
            BY <2>0, <2>1
        <3> QED
            BY <1>2, <2>1, <3>1 DEF Ready
    <2>2. CASE \E i \in DOMAIN ts : /\ ts[i].task = "start"
                                    /\ \A j \in DOMAIN ts : i < j => ts[j].task # "stop"
        <3>1. PICK i \in DOMAIN ts : /\ ts[i].task = "start"
                                     /\ \A j \in DOMAIN ts : i < j => ts[j].task # "stop"
            BY <2>2
        <3>2. \A j \in DOMAIN s : i < j + 1 => s[j].task # "stop"
            BY <1>2, <3>1
        <3>3. CASE i = 1
            <4>1. \A j \in DOMAIN s : s[j].task # "stop"
                BY <1>1, <3>2, <3>3
            <4> QED
                BY <3>1, <3>3, <4>1 DEF Ready
        <3>4. CASE i # 1
            <4>1. i - 1 \in DOMAIN s /\ s[i - 1].task = "start"
                BY <1>3, <3>1, <3>4
            <4>2. \A j \in DOMAIN s : i - 1 < j => s[j].task # "stop"
                BY <1>1, <3>2
            <4> QED
                BY <4>1, <4>2 DEF Ready
        <3> QED
            BY <3>3, <3>4
    <2> QED
        BY <1>5, <2>1, <2>2 DEF Ready
<1> QED
    BY <1>1, <1>4, <1>5 DEF s

\* The smaller of two numbers.
LEMMA Smaller ==
    ASSUME NEW a \in Int, NEW b \in Int
    PROVE  pad!Min({a, b}) = IF a <= b THEN a ELSE b
BY DEF pad!Min

\* A value of a stick starts the timer, lets it go on or stops it.
LEMMA ConvertKeeps ==
    ASSUME ThresholdsArePositive, PadInvariant, NEW usage, NEW raw, pad!Convert(usage, raw)
    PROVE  PadInvariant'
<1> DEFINE stick == IF (usage \in {"x", "y"}) # parameters.swap_sticks THEN "xy" ELSE "wheels"
<1>1. pad!update_continued_movement_timer(stick, sticks') /\ UNCHANGED parameters
    BY DEF pad!Convert
<1>2. stick \in {"xy", "wheels"}
    OBVIOUS
<1> HIDE DEF stick
<1>3. \A s \in {"xy", "wheels"} : sticks'[s].absolute = 0
          => /\ ~ pad!continued_movement(sticks'[s], parameters[s])
             /\ pad!interval(sticks'[s], parameters[s]) = 0
    <2>1. parameters.xy = parameters["xy"] /\ parameters.wheels = parameters["wheels"]
        OBVIOUS
    <2>2. \A s \in {"xy", "wheels"} : parameters[s].continued_threshold \in Nat \ {0}
        BY <2>1, DaemonAssumption, ThresholdsArePositive DEF PadInvariant, ThresholdsArePositive
    <2>3. \A s \in {"xy", "wheels"} : sticks'[s].absolute = 0
              => ~ pad!continued_movement(sticks'[s], parameters[s])
        BY <2>2 DEF pad!continued_movement
    <2> QED
        BY <2>3 DEF pad!interval
<1>4. CASE pad!interval(sticks'[stick], parameters[stick]) # 0
    <2>1. /\ mode' = IF timer = -1 THEN stick ELSE mode
          /\ timer' = IF timer = -1 THEN 0 ELSE timer
        BY <1>1, <1>4 DEF pad!update_continued_movement_timer, pad!Stopped
    <2>2. \E s \in {"xy", "wheels"} : sticks'[s].absolute # 0
        BY <1>2, <1>3, <1>4
    <2> QED
        BY <1>1, <1>2, <2>1, <2>2 DEF PadInvariant, pad!NeutralSticksAreQuiet, pad!Sticks, pad!Stopped
<1>5. CASE pad!interval(sticks'[stick], parameters[stick]) = 0 /\ mode = "none"
    <2>1. mode' = mode /\ timer' = timer
        BY <1>1, <1>5 DEF pad!update_continued_movement_timer
    <2> QED
        BY <1>1, <1>5, <2>1 DEF PadInvariant, pad!NeutralSticksAreQuiet
<1>6. CASE pad!interval(sticks'[stick], parameters[stick]) = 0 /\ mode # "none"
    <2>1. IF \A s \in pad!Sticks : ~ pad!continued_movement(sticks'[s], parameters[s])
          THEN mode' = "none" /\ timer' = -1
          ELSE mode' = mode /\ timer' = timer
        BY <1>1, <1>6 DEF pad!update_continued_movement_timer, pad!Stopped
    <2>2. CASE \A s \in pad!Sticks : sticks'[s].absolute = 0
        <3>1. mode' = "none" /\ timer' = -1
            BY <1>3, <2>1, <2>2 DEF pad!Sticks
        <3> QED
            BY <1>1, <3>1 DEF PadInvariant, pad!NeutralSticksAreQuiet, pad!Stopped
    <2>3. CASE ~ \A s \in pad!Sticks : sticks'[s].absolute = 0
        BY <1>1, <2>1, <2>3 DEF PadInvariant, pad!NeutralSticksAreQuiet, pad!Stopped
    <2> QED
        BY <2>2, <2>3
<1> QED
    BY <1>4, <1>5, <1>6

\* The timer fires, or the sticks are configured.
LEMMA SticksStayQuiet ==
    ASSUME PadInvariant, pad!Fire \/ \E p \in StickParameters : pad!set_core_configuration(p)
    PROVE  PadInvariant'
<1>1. CASE pad!Fire
    <2>1. PICK two \in Int : two = 2
        OBVIOUS
    <2>2. timer \in {0, 1, 2} /\ timer + 1 \in Int
        BY <1>1 DEF PadInvariant, pad!Fire, pad!Stopped
    <2>3. pad!Min({timer + 1, two}) \in {1, 2}
        BY <2>1, <2>2, Smaller
    <2>4. timer' \in {1, 2}
        BY <1>1, <2>1, <2>3 DEF pad!Fire
    <2>5. timer # pad!Stopped /\ UNCHANGED <<parameters, sticks, mode>>
        BY <1>1 DEF pad!Fire
    <2> QED
        BY <2>4, <2>5 DEF PadInvariant, pad!NeutralSticksAreQuiet, pad!Stopped
<1>2. CASE \E p \in StickParameters : pad!set_core_configuration(p)
    BY <1>2 DEF PadInvariant, pad!NeutralSticksAreQuiet, pad!set_core_configuration
<1> QED
    BY <1>1, <1>2

\* The timer of the sticks runs in a mode and not when both are in the middle.
LEMMA PadInvariantHolds ==
    ASSUME ThresholdsArePositive
    PROVE  Spec => []PadInvariant
<1>1. Init => PadInvariant
    BY DEF Init, pad!Init, PadInvariant, pad!NeutralSticksAreQuiet, pad!Stopped
<1>2. PadInvariant /\ [Next]_vars => PadInvariant'
    <2> SUFFICES ASSUME PadInvariant, [Next]_vars PROVE PadInvariant'
        OBVIOUS
    <2>1. CASE pad!Next
        BY <2>1, ConvertKeeps, SticksStayQuiet DEF pad!Next
    <2>2. CASE UNCHANGED pad_vars
        BY <2>2 DEF pad_vars, PadInvariant, pad!NeutralSticksAreQuiet
    <2> QED
        BY <2>1, <2>2 DEF Next, vars
<1> QED
    BY <1>1, <1>2, PTL DEF Spec

\* When both sticks are back in the middle the timer is stopped, whichever of
\* them started it and whatever was configured in between
\* (game_pad_stick_converter::update_continued_movement_timer).
THEOREM SticksAtRestAreQuiet ==
    ASSUME ThresholdsArePositive
    PROVE  Spec => []NeutralSticksAreQuiet
<1>1. PadInvariant => NeutralSticksAreQuiet
    BY DEF PadInvariant, NeutralSticksAreQuiet
<1>2. Spec => []PadInvariant
    BY PadInvariantHolds
<1> QED
    BY <1>1, <1>2, PTL
-----------------------------------------------------------------------------
(* The actions of scrolling.                                                *)

\* A motion, or an event without the modifiers, adds a task at the end.
LEMMA ArrivalKeeps ==
    ASSUME ScrollInvariant,
           \/ \E m \in Motions, d \in MotionDevices : scroll!MotionArrives(m, d)
           \/ scroll!ModifiersReleased
    PROVE  ScrollInvariant'
<1> DEFINE started == scroll_timer # scroll!Stopped
<1>1. UNCHANGED <<options, clock, scroll_timer, counter>>
    BY DEF scroll!MotionArrives, scroll!ModifiersReleased
<1>2. SUFFICES /\ tasks' \in Seq(ScrollTask) /\ Straight(tasks')
               /\ Ready(tasks, started) => Ready(tasks', started)
    BY <1>1 DEF ScrollInvariant, ScrollTypes, Directed
<1>3. tasks \in Seq(ScrollTask) /\ Straight(tasks) /\ started \in BOOLEAN
    BY DEF ScrollInvariant, ScrollTypes
<1> HIDE DEF started
<1>4. ASSUME NEW t \in ScrollTask, t.task \notin {"stop", "scroll"}, tasks' = tasks \o <<t>>
      PROVE  /\ tasks' \in Seq(ScrollTask) /\ Straight(tasks')
             /\ Ready(tasks, started) => Ready(tasks', started)
    <2> DEFINE more == <<t>>
    <2>1. more \in Seq(ScrollTask) /\ DOMAIN more = {1} /\ more[1] = t
        OBVIOUS
    <2> HIDE DEF more
    <2>2. Straight(more) /\ \A i \in DOMAIN more : more[i].task # "stop"
        BY <2>1, <1>4 DEF Straight
    <2>3. tasks' = tasks \o more
        BY <1>4 DEF more
    <2> QED
        BY <1>3, <2>1, <2>2, <2>3, TasksJoined
<1>5. ASSUME NEW m \in Motions, NEW d \in MotionDevices, scroll!MotionArrives(m, d)
      PROVE  /\ tasks' \in Seq(ScrollTask) /\ Straight(tasks')
             /\ Ready(tasks, started) => Ready(tasks', started)
    <2>1. CASE UNCHANGED tasks
        BY <1>3, <2>1
    <2>2. CASE tasks' = tasks \o <<[task |-> "update", motion |-> m, time |-> clock]>>
        <3>1. [task |-> "update", motion |-> m, time |-> clock] \in ScrollTask
            BY DaemonAssumption DEF ScrollInvariant, ScrollTypes, ScrollTask, Motion
        <3> QED
            BY <1>4, <2>2, <3>1
    <2> QED
        BY <1>5, <2>1, <2>2 DEF scroll!MotionArrives, scroll!Enqueue
<1>6. CASE scroll!ModifiersReleased
    <2>1. [task |-> "reset"] \in ScrollTask
        BY DEF ScrollTask
    <2> QED
        BY <1>4, <1>6, <2>1 DEF scroll!ModifiersReleased, scroll!Enqueue
<1> QED
    BY <1>5, <1>6

\* A period passes.
LEMMA PeriodKeeps ==
    ASSUME ScrollInvariant, scroll!Period
    PROVE  ScrollInvariant'
<1>1. /\ tasks = <<>> /\ clock' = clock + 1 /\ options' = options /\ counter' = counter
      /\ \/ scroll_timer = clock' /\ scroll_timer' = clock' + 1 /\ tasks' = <<[task |-> "call"]>>
         \/ scroll_timer' = scroll_timer /\ tasks' = tasks
    BY DEF scroll!Period
<1>2. CASE scroll_timer' = scroll_timer /\ tasks' = tasks
    BY <1>1, <1>2 DEF ScrollInvariant, ScrollTypes, Directed, Straight, Ready
<1>3. CASE /\ scroll_timer = clock' /\ scroll_timer' = clock' + 1
           /\ tasks' = <<[task |-> "call"]>>
    <2>1. [task |-> "call"] \in ScrollTask
        BY DEF ScrollTask
    <2>2. tasks' \in Seq(ScrollTask) /\ DOMAIN tasks' = {1} /\ tasks'[1].task = "call"
        BY <1>3, <2>1
    <2>3. clock' \in Nat /\ scroll_timer' \in Nat
        BY <1>1, <1>3 DEF ScrollInvariant, ScrollTypes
    <2>4. Straight(tasks') /\ Ready(tasks', scroll_timer' # scroll!Stopped)
        BY <2>2, <2>3 DEF Straight, Ready, scroll!Stopped
    <2>5. ScrollTypes'
        BY <1>1, <2>2, <2>3 DEF ScrollInvariant, ScrollTypes
    <2> QED
        BY <1>1, <2>4, <2>5 DEF ScrollInvariant, Directed
<1> QED
    BY <1>1, <1>2, <1>3
\* A counter is empty at first.
LEMMA EmptyIsCounter ==
    /\ scroll!EmptyCounter \in CounterWith(<<>>) /\ Directed(scroll!EmptyCounter)
    /\ scroll!EmptyCounter.entries = <<>> /\ scroll!EmptyCounter.chunks = <<>>
<1>1. scroll!EmptyCounter \in CounterWith(<<>>)
    <2>1. <<0, 0>> \in [1..2 -> Int] /\ <<>> \in Seq(MotionEntry)
        OBVIOUS
    <2> QED
        BY <2>1 DEF scroll!EmptyCounter, CounterWith
<1>2. Directed(scroll!EmptyCounter)
    BY DEF scroll!EmptyCounter, Directed
<1> QED
    BY <1>1, <1>2 DEF scroll!EmptyCounter

\* The timer counts the motion, scrolls and may stop itself.
LEMMA CallKeeps ==
    ASSUME ScrollInvariant, tasks # <<>>, tasks[1].task = "call",
           scroll!timer_function(scroll!process_entries(counter)),
           UNCHANGED <<options, clock, scroll_timer>>
    PROVE  ScrollInvariant'
<1> DEFINE p == scroll!process_entries(counter)
           s == scroll!scroll(p.c)
           scrolled == [task |-> "scroll", motion |-> <<s.out[1], -s.out[2]>>]
           first == IF s.out = <<0, 0>> THEN <<>> ELSE <<scrolled>>
           last == IF p.go_on \/ s.go_on THEN <<>> ELSE <<[task |-> "stop"]>>
           started == scroll_timer # scroll!Stopped
           rest == Tail(tasks)
<1>1. /\ counter \in CounterWith(counter.chunks) /\ Directed(counter)
      /\ options \in ScrollOptions /\ clock \in Nat
      /\ tasks \in Seq(ScrollTask) /\ Straight(tasks) /\ started \in BOOLEAN
      /\ counter.entries # <<>> => Ready(tasks, started)
    BY DEF ScrollInvariant, ScrollTypes
<1>2. /\ p.c \in CounterWith(p.c.chunks) /\ Directed(p.c)
      /\ p.c.entries # <<>> => counter.entries # <<>> /\ p.go_on
    BY <1>1, ProcessKeeps
<1> HIDE DEF p
<1>3. /\ s.c \in CounterWith(p.c.chunks) /\ Directed(s.c) /\ s.c.entries = p.c.entries
      /\ s.out \in [1..2 -> Int] /\ (s.out[1] = 0 \/ s.out[2] = 0)
    BY <1>1, <1>2, ScrollKeeps
<1> HIDE DEF s
<1>4. counter' = s.c /\ tasks' = rest \o first \o last
    BY DEF scroll!timer_function, scroll!AfterScroll, p, s
<1>5. s.c.chunks = p.c.chunks
    BY <1>3 DEF CounterWith
<1>6. first \in Seq(ScrollTask) /\ Straight(first) /\ \A i \in DOMAIN first : first[i].task # "stop"
    <2>0. PICK x \in Int, z \in Int : x = s.out[1] /\ z = s.out[2] /\ (x = 0 \/ z = 0)
        BY <1>3
    <2>1. PICK y \in Int : y = -s.out[2] /\ (x = 0 \/ y = 0)
        BY <2>0
    <2>2. scrolled = [task |-> "scroll", motion |-> <<x, y>>]
        BY <2>0, <2>1
    <2> HIDE DEF scrolled
    <2>3. scrolled \in ScrollTask
        BY <2>2 DEF ScrollTask, Motion
    <2>4. CASE first = <<>>
        BY <2>4 DEF Straight
    <2>5. CASE first = <<scrolled>>
        <3> HIDE DEF first
        <3>1. first \in Seq(ScrollTask) /\ DOMAIN first = {1} /\ first[1] = scrolled
            BY <2>3, <2>5
        <3>2. scrolled.task = "scroll" /\ (scrolled.motion[1] = 0 \/ scrolled.motion[2] = 0)
            BY <2>1, <2>2
        <3> QED
            BY <3>1, <3>2 DEF Straight
    <2> QED
        BY <2>4, <2>5
<1>7. last \in Seq(ScrollTask) /\ Straight(last)
    <2>1. [task |-> "stop"] \in ScrollTask
        BY DEF ScrollTask
    <2>2. CASE last = <<>>
        BY <2>2 DEF Straight
    <2>3. CASE last = <<[task |-> "stop"]>>
        <3> HIDE DEF last
        <3>1. last \in Seq(ScrollTask) /\ DOMAIN last = {1} /\ last[1].task = "stop"
            BY <2>1, <2>3
        <3> QED
            BY <3>1 DEF Straight
    <2> QED
        BY <2>2, <2>3
<1>8. (p.go_on \/ s.go_on) => last = <<>>
    OBVIOUS
<1> HIDE DEF first, last, started
<1>9. rest \in Seq(ScrollTask) /\ Straight(rest) /\ (Ready(tasks, started) => Ready(rest, started))
    BY <1>1, TaskTaken
<1> HIDE DEF rest
<1>10. /\ rest \o first \in Seq(ScrollTask) /\ Straight(rest \o first)
       /\ Ready(tasks, started) => Ready(rest \o first, started)
    BY <1>1, <1>6, <1>9, TasksJoined
<1> DEFINE most == rest \o first
<1> HIDE DEF most
<1>11. /\ most \o last \in Seq(ScrollTask) /\ Straight(most \o last)
       /\ last = <<>> /\ Ready(tasks, started) => Ready(most \o last, started)
    <2>1. last = <<>> => \A i \in DOMAIN last : last[i].task # "stop"
        OBVIOUS
    <2> QED
        BY <1>1, <1>7, <1>10, <2>1, TasksJoined DEF most
<1>12. tasks' = most \o last
    BY <1>4 DEF most
<1>13. counter'.entries # <<>> => Ready(tasks', started)
    BY <1>1, <1>2, <1>3, <1>4, <1>8, <1>11, <1>12
<1>14. ScrollTypes'
    BY <1>1, <1>3, <1>4, <1>5, <1>11, <1>12 DEF ScrollInvariant, ScrollTypes
<1> QED
    BY <1>3, <1>4, <1>11, <1>12, <1>13, <1>14 DEF ScrollInvariant, Directed, started
\* The dispatcher runs a task.
LEMMA RunTaskKeeps ==
    ASSUME ScrollInvariant, scroll!RunTask
    PROVE  ScrollInvariant'
<1> DEFINE t == tasks[1]
           rest == Tail(tasks)
           started == scroll_timer # scroll!Stopped
<1>1. /\ counter \in CounterWith(counter.chunks) /\ Directed(counter)
      /\ options \in ScrollOptions /\ clock \in Nat /\ scroll_timer \in Int
      /\ tasks \in Seq(ScrollTask) /\ Straight(tasks) /\ started \in BOOLEAN
      /\ counter.entries # <<>> => Ready(tasks, started)
    BY DEF ScrollInvariant, ScrollTypes
<1>2. tasks # <<>> /\ UNCHANGED <<options, clock>> /\ t = Head(tasks)
    BY <1>1 DEF scroll!RunTask
<1>3. t \in ScrollTask
    BY <1>1, <1>2
<1>4. /\ rest \in Seq(ScrollTask) /\ Straight(rest)
      /\ t.task \notin {"start", "stop"} /\ Ready(tasks, started) => Ready(rest, started)
      /\ t.task = "start" /\ Ready(tasks, started) => Ready(rest, TRUE)
      /\ t.task = "stop" /\ Ready(tasks, started) => Ready(rest, FALSE)
    <2>1. t.task \notin {"start", "stop"} /\ Ready(tasks, started) => Ready(rest, started)
        BY <1>1, <1>2, TaskTaken
    <2>2. t.task = "start" /\ Ready(tasks, started) => Ready(rest, TRUE)
        BY <1>1, <1>2, TaskTaken
    <2>3. t.task = "stop" /\ Ready(tasks, started) => Ready(rest, FALSE)
        BY <1>1, <1>2, TaskTaken
    <2>4. rest \in Seq(ScrollTask) /\ Straight(rest)
        BY <1>1, <1>2, TaskTaken
    <2> QED
        BY <2>1, <2>2, <2>3, <2>4
<1> HIDE DEF rest
<1>5. rest \o <<>> = rest
    BY <1>4
<1> DEFINE Good == /\ ScrollTypes' /\ Directed(counter') /\ Straight(tasks')
                   /\ counter'.entries # <<>> => Ready(tasks', scroll_timer' # scroll!Stopped)
<1>6. SUFFICES Good
    BY DEF ScrollInvariant, Directed
<1>7. CASE t.task = "update"
    <2> DEFINE entry == [motion |-> t.motion, time |-> t.time]
               longer == Append(counter.entries, entry)
               more == <<[task |-> "start"]>>
    <2>1. /\ counter' = [counter EXCEPT !.entries = longer] /\ tasks' = rest \o more
          /\ UNCHANGED scroll_timer
        BY <1>2, <1>7 DEF scroll!RunTask, rest
    <2>2. t.motion \in Motion /\ t.time \in Nat
        BY <1>3, <1>7 DEF ScrollTask
    <2>3. longer \in Seq(MotionEntry)
        BY <1>1, <2>2 DEF CounterWith, MotionEntry
    <2> HIDE DEF longer
    <2>4. counter' \in CounterWith(counter.chunks)
        <3>1. \A v \in Seq(MotionEntry) :
                  [counter EXCEPT !.entries = v] \in CounterWith(counter.chunks)
            BY <1>1, FieldChanges
        <3> QED
            BY <2>1, <2>3, <3>1
    <2>5. /\ counter'.chunks = counter.chunks /\ counter'.direction = counter.direction
          /\ counter'.total = counter.total /\ counter'.momentum = counter.momentum
        BY <1>1, <2>1 DEF CounterWith
    <2>6. more \in Seq(ScrollTask) /\ DOMAIN more = {1} /\ more[1].task = "start"
        BY DEF ScrollTask
    <2>7. Ready(tasks', scroll_timer' # scroll!Stopped)
        BY <1>4, <2>1, StartJoined
    <2> HIDE DEF more
    <2>8. Straight(more)
        BY <2>6 DEF Straight
    <2>9. tasks' \in Seq(ScrollTask) /\ Straight(tasks')
        BY <1>1, <1>4, <2>1, <2>6, <2>8, TasksJoined
    <2>10. ScrollTypes'
        BY <1>1, <1>2, <2>1, <2>4, <2>5, <2>9 DEF ScrollTypes
    <2> QED
        BY <1>1, <2>5, <2>7, <2>9, <2>10 DEF Directed
<1>8. CASE t.task = "reset"
    <2>1. /\ counter' = [scroll!EmptyCounter EXCEPT !.minus = counter.minus]
          /\ tasks' = rest /\ UNCHANGED scroll_timer
        BY <1>2, <1>5, <1>8 DEF scroll!RunTask, rest
    <2>2. counter.minus \in Int
        BY <1>1 DEF CounterWith
    <2>3. counter' \in CounterWith(<<>>)
        <3>1. \A v \in Int : [scroll!EmptyCounter EXCEPT !.minus = v] \in CounterWith(<<>>)
            BY EmptyIsCounter, FieldChanges
        <3> QED
            BY <2>1, <2>2, <3>1
    <2>4. counter'.entries = <<>> /\ counter'.chunks = <<>> /\ Directed(counter')
        BY <2>1, EmptyIsCounter DEF scroll!EmptyCounter, Directed
    <2>5. ScrollTypes'
        BY <1>1, <1>2, <1>4, <2>1, <2>3, <2>4 DEF ScrollTypes
    <2> QED
        BY <1>4, <2>1, <2>4, <2>5
<1>9. CASE t.task = "start"
    <2> DEFINE more == <<[task |-> "call"]>>
    <2>1. scroll_timer' = clock + 1 /\ tasks' = rest \o more /\ UNCHANGED counter
        BY <1>2, <1>9 DEF scroll!RunTask, rest
    <2>2. more \in Seq(ScrollTask) /\ DOMAIN more = {1} /\ more[1].task = "call"
        BY DEF ScrollTask
    <2> HIDE DEF more
    <2>3. Straight(more) /\ \A i \in DOMAIN more : more[i].task # "stop"
        BY <2>2 DEF Straight
    <2>4. scroll_timer' \in Int /\ scroll_timer' # scroll!Stopped
        BY <1>1, <2>1 DEF scroll!Stopped
    <2>5. tasks' \in Seq(ScrollTask) /\ Straight(tasks')
        BY <1>1, <1>4, <2>1, <2>2, <2>3, TasksJoined
    <2>6. Ready(rest, TRUE) => Ready(tasks', TRUE)
        BY <1>4, <2>1, <2>2, <2>3, TasksJoined
    <2>7. ScrollTypes'
        BY <1>1, <1>2, <2>1, <2>4, <2>5 DEF ScrollTypes
    <2> QED
        BY <1>1, <1>4, <1>9, <2>1, <2>4, <2>5, <2>6, <2>7 DEF Directed
<1>10. CASE t.task = "stop"
    <2>1. scroll_timer' = scroll!Stopped /\ tasks' = rest /\ UNCHANGED counter
        BY <1>2, <1>5, <1>10 DEF scroll!RunTask, rest
    <2>2. ScrollTypes'
        BY <1>1, <1>2, <1>4, <2>1 DEF ScrollTypes, scroll!Stopped
    <2>3. (scroll_timer' # scroll!Stopped) = FALSE
        BY <2>1
    <2> QED
        BY <1>1, <1>4, <1>10, <2>1, <2>2, <2>3 DEF Directed
<1>11. CASE t.task = "scroll"
    <2>1. tasks' = rest /\ UNCHANGED <<scroll_timer, counter>>
        BY <1>2, <1>5, <1>11 DEF scroll!RunTask, rest
    <2>2. ScrollTypes'
        BY <1>1, <1>2, <1>4, <2>1 DEF ScrollTypes
    <2> QED
        BY <1>1, <1>4, <1>11, <2>1, <2>2 DEF Directed
<1>12. CASE t.task = "call"
    <2>1. scroll!timer_function(scroll!process_entries(counter)) /\ UNCHANGED scroll_timer
        BY <1>2, <1>12 DEF scroll!RunTask
    <2>2. ScrollInvariant'
        BY <1>2, <1>12, <2>1, CallKeeps
    <2> QED
        BY <2>2 DEF ScrollInvariant, Directed
<1>13. t.task \in {"update", "reset", "start", "stop", "call", "scroll"}
    BY <1>3 DEF ScrollTask
<1> HIDE DEF t, Good
<1> QED
    BY <1>7, <1>8, <1>9, <1>10, <1>11, <1>12, <1>13
\* What scrolls keeps its types, its direction and its timer.
LEMMA ScrollInvariantHolds == Spec => []ScrollInvariant
<1>1. Init => ScrollInvariant
    <2> SUFFICES ASSUME Init PROVE ScrollInvariant
        OBVIOUS
    <2>1. /\ options \in ScrollOptions /\ clock = 0 /\ tasks = <<>> /\ scroll_timer = -1
          /\ counter = scroll!EmptyCounter
        BY DEF Init, scroll!Init, scroll!Stopped
    <2>2. ScrollTypes
        BY <2>1, EmptyIsCounter DEF ScrollTypes
    <2>3. Straight(tasks)
        BY <2>1 DEF Straight
    <2> QED
        BY <2>1, <2>2, <2>3, EmptyIsCounter DEF ScrollInvariant
<1>2. ScrollInvariant /\ [Next]_vars => ScrollInvariant'
    <2> SUFFICES ASSUME ScrollInvariant, [Next]_vars PROVE ScrollInvariant'
        OBVIOUS
    <2>1. CASE scroll!Next
        BY <2>1, ArrivalKeeps, RunTaskKeeps, PeriodKeeps DEF scroll!Next
    <2>2. CASE UNCHANGED scroll_vars
        BY <2>2 DEF scroll_vars, ScrollInvariant, ScrollTypes, Directed, Straight, Ready
    <2> QED
        BY <2>1, <2>2 DEF Next, vars
<1> QED
    BY <1>1, <1>2, PTL DEF Spec

\* What is scrolled, and what may still be scrolled by momentum, has one
\* direction until the lock is given up (counter::process_entries).
THEOREM DirectionIsKept == Spec => []ScrollsInOneDirection
<1>1. ScrollInvariant => ScrollsInOneDirection
    <2> SUFFICES ASSUME ScrollInvariant PROVE scroll!ScrollsInOneDirection
        BY DEF ScrollsInOneDirection
    <2>1. 0 \in {counter.total[1], counter.total[2]}
        BY DEF ScrollInvariant, Directed
    <2>2. ASSUME NEW i \in DOMAIN tasks, tasks[i].task = "scroll"
          PROVE  0 \in scroll!ToSet(tasks[i].motion)
        <3>1. tasks[i] \in ScrollTask
            BY DEF ScrollInvariant, ScrollTypes
        <3>2. PICK m \in Motion : m = tasks[i].motion
            BY <2>2, <3>1 DEF ScrollTask
        <3>3. DOMAIN m = {1, 2} /\ (m[1] = 0 \/ m[2] = 0)
            BY <2>2, <3>2 DEF ScrollInvariant, Straight, Motion
        <3> QED
            BY <3>2, <3>3 DEF scroll!ToSet
    <2> QED
        BY <2>1, <2>2 DEF scroll!ScrollsInOneDirection
<1> QED
    BY <1>1, ScrollInvariantHolds, PTL

\* Motion that waits has a timer that runs, or a start of it behind every stop
\* that is already on its way (counter::update, timer::stop).
THEOREM MotionIsNotForgotten == Spec => []EntriesHaveTimer
<1>1. ScrollInvariant => EntriesHaveTimer
    BY DEF ScrollInvariant, Ready, EntriesHaveTimer, scroll!EntriesHaveTimer
<1> QED
    BY <1>1, ScrollInvariantHolds, PTL

-----------------------------------------------------------------------------
(* HID reports.                                                             *)

DpadKeys == {"up", "down", "right", "left"}

Keys == STRING \cup DpadKeys

ReportEntry ==
    [event : {"key"}, value : Keys, type : {"key_down", "key_up"}]
    \cup [event : {"pointing_motion"}, value : [reports!MotionAxes -> Int], type : {"single"}]
    \cup [event : {"caps_lock_state_changed", "released"}, value : Int, type : {"single"}]

\* The entries made so far, and the motion values that wait to be joined.
Collected ==
    [entries : Seq(ReportEntry), axes : SUBSET reports!MotionAxes,
     motion : [reports!MotionAxes -> Int], direction : SUBSET DpadKeys]

\* The entries among the first n that move the axis.
Moves(es, n, axis) ==
    {i \in 1..n : es[i].event = "pointing_motion" /\ es[i].value[axis] # 0}

Presses(e, k) == e.event = "key" /\ e.value = k

\* If k is down when it is in before, the first n entries leave it down when
\* it is in after.
Leaves(es, n, k, before, after) ==
    \/ /\ k \in before <=> k \in after
       /\ \A i \in 1..n : ~ Presses(es[i], k)
    \/ \E i \in 1..n : /\ Presses(es[i], k)
                       /\ es[i].type = "key_down" <=> k \in after
                       /\ \A j \in 1..n : i < j => ~ Presses(es[j], k)

\* The entries say what becomes of a key.
LEMMA LeavesOnce ==
    ASSUME NEW es, NEW n \in Nat, NEW k, NEW before1, NEW after1, NEW before2, NEW after2,
           k \in before1 <=> k \in before2,
           Leaves(es, n, k, before1, after1), Leaves(es, n, k, before2, after2)
    PROVE  k \in after1 <=> k \in after2
<1>1. CASE \A i \in 1..n : ~ Presses(es[i], k)
    BY <1>1 DEF Leaves
<1>2. CASE ~ \A i \in 1..n : ~ Presses(es[i], k)
    <2>1. PICK i \in 1..n : /\ Presses(es[i], k)
                            /\ es[i].type = "key_down" <=> k \in after1
                            /\ \A j \in 1..n : i < j => ~ Presses(es[j], k)
        BY <1>2 DEF Leaves
    <2>2. PICK l \in 1..n : /\ Presses(es[l], k)
                            /\ es[l].type = "key_down" <=> k \in after2
                            /\ \A j \in 1..n : l < j => ~ Presses(es[j], k)
        BY <1>2 DEF Leaves
    <2>3. i = l
        BY <2>1, <2>2
    <2> QED
        BY <2>1, <2>2, <2>3
<1> QED
    BY <1>1, <1>2

\* What becomes of a key when more entries follow.
LEMMA LeavesJoined ==
    ASSUME NEW es \in Seq(ReportEntry), NEW more \in Seq(ReportEntry), NEW k,
           NEW before, NEW middle, NEW after,
           Leaves(es, Len(es), k, before, middle), Leaves(more, Len(more), k, middle, after)
    PROVE  Leaves(es \o more, Len(es \o more), k, before, after)
<1> DEFINE s == es \o more
           n == Len(es)
           m == Len(more)
<1>1. /\ n \in Nat /\ m \in Nat /\ Len(s) = n + m
      /\ \A i \in 1..n : s[i] = es[i] /\ i \in 1..Len(s)
      /\ \A i \in 1..m : s[i + n] = more[i] /\ i + n \in 1..Len(s)
    OBVIOUS
<1>2. \A i \in 1..Len(s) : /\ i <= n => i \in 1..n
                           /\ ~ (i <= n) => i - n \in 1..m /\ s[i] = more[i - n]
    OBVIOUS
<1> HIDE DEF s, n, m
<1>3. CASE \A i \in 1..m : ~ Presses(more[i], k)
    <2>1. k \in middle <=> k \in after
        BY <1>3 DEF Leaves, m
    <2>2. CASE \A i \in 1..n : ~ Presses(es[i], k)
        <3>1. k \in before <=> k \in middle
            BY <2>2 DEF Leaves, n
        <3>2. \A i \in 1..Len(s) : ~ Presses(s[i], k)
            BY <1>1, <1>2, <1>3, <2>2
        <3> QED
            BY <2>1, <3>1, <3>2 DEF Leaves, s
    <2>3. CASE ~ \A i \in 1..n : ~ Presses(es[i], k)
        <3>1. PICK i \in 1..n : /\ Presses(es[i], k)
                                /\ es[i].type = "key_down" <=> k \in middle
                                /\ \A j \in 1..n : i < j => ~ Presses(es[j], k)
            BY <2>3 DEF Leaves, n
        <3>2. \A j \in 1..Len(s) : i < j => ~ Presses(s[j], k)
            BY <1>1, <1>2, <1>3, <3>1
        <3>3. i \in 1..Len(s) /\ s[i] = es[i]
            BY <1>1
        <3> QED
            BY <2>1, <3>1, <3>2, <3>3 DEF Leaves, s
    <2> QED
        BY <2>2, <2>3
<1>4. CASE ~ \A i \in 1..m : ~ Presses(more[i], k)
    <2>1. PICK i \in 1..m : /\ Presses(more[i], k)
                            /\ more[i].type = "key_down" <=> k \in after
                            /\ \A j \in 1..m : i < j => ~ Presses(more[j], k)
        BY <1>4 DEF Leaves, m
    <2>2. i + n \in 1..Len(s) /\ s[i + n] = more[i]
        BY <1>1
    <2>3. \A j \in 1..Len(s) : i + n < j => ~ Presses(s[j], k)
        <3>1. SUFFICES ASSUME NEW j \in 1..Len(s), i + n < j PROVE ~ Presses(s[j], k)
            OBVIOUS
        <3>2. j - n \in 1..m /\ i < j - n /\ s[j] = more[j - n]
            BY <1>1, <1>2, <3>1
        <3> QED
            BY <2>1, <3>2
    <2> QED
        BY <2>1, <2>2, <2>3 DEF Leaves, s
<1> QED
    BY <1>3, <1>4
\* How many of the first numbers are in a set.
LEMMA OneMore ==
    ASSUME NEW S, NEW n \in Nat
    PROVE  /\ Cardinality({i \in 1..n : i \in S}) \in Nat
           /\ Cardinality({i \in 1..(n + 1) : i \in S})
                  = Cardinality({i \in 1..n : i \in S}) + (IF n + 1 \in S THEN 1 ELSE 0)
           /\ Cardinality({i \in 1..0 : i \in S}) = 0
<1> DEFINE A == {i \in 1..n : i \in S}
           B == {i \in 1..(n + 1) : i \in S}
<1>1. IsFiniteSet(A) /\ Cardinality(A) \in Nat
    <2>1. A \in SUBSET (1..n)
        OBVIOUS
    <2> HIDE DEF A
    <2>2. IsFiniteSet(A) /\ Cardinality(A) \in 0..n
        BY <2>1, KeptIsFinite
    <2> QED
        BY <2>2
<1>2. CASE n + 1 \in S
    <2>1. B = A \cup {n + 1} /\ n + 1 \notin A
        BY <1>2
    <2> HIDE DEF A, B
    <2>2. Cardinality(B) = Cardinality(A) + 1
        BY <1>1, <2>1, FS_AddElement
    <2> QED
        BY <1>1, <1>2, <2>2, FS_EmptySet DEF A, B
<1>3. CASE n + 1 \notin S
    <2>1. B = A
        BY <1>3
    <2> QED
        BY <1>1, <1>3, <2>1, FS_EmptySet
<1> QED
    BY <1>2, <1>3, FS_EmptySet

\* How many of the first n entries move the axis.
Count(es, n, axis) == Cardinality(Moves(es, n, axis))

Moving(e, axis) == e.event = "pointing_motion" /\ e.value[axis] # 0

\* One more entry is counted when it moves the axis.
LEMMA CountGrows ==
    ASSUME NEW es, NEW n \in Nat, NEW axis
    PROVE  /\ Count(es, n, axis) \in Nat
           /\ Count(es, n + 1, axis)
                  = Count(es, n, axis) + (IF Moving(es[n + 1], axis) THEN 1 ELSE 0)
           /\ Count(es, 0, axis) = 0
<1> DEFINE S == {i \in Nat : Moving(es[i], axis)}
<1>1. \A m \in Nat : Moves(es, m, axis) = {i \in 1..m : i \in S}
    BY DEF Moves, Moving
<1>2. n + 1 \in Nat /\ (n + 1 \in S <=> Moving(es[n + 1], axis)) /\ 0 \in Nat
    OBVIOUS
<1> HIDE DEF S
<1> QED
    BY <1>1, <1>2, OneMore DEF Count

\* Appending an entry.
LEMMA CountAppended ==
    ASSUME NEW es \in Seq(ReportEntry), NEW e \in ReportEntry, NEW axis
    PROVE  Count(Append(es, e), Len(Append(es, e)), axis)
               = Count(es, Len(es), axis) + (IF Moving(e, axis) THEN 1 ELSE 0)
<1> DEFINE s == Append(es, e)
           n == Len(es)
<1>1. /\ n \in Nat /\ Len(s) = n + 1 /\ s[n + 1] = e /\ \A i \in 1..n : s[i] = es[i]
    OBVIOUS
<1> HIDE DEF s, n
<1>2. Moves(s, n, axis) = Moves(es, n, axis)
    BY <1>1 DEF Moves
<1>3. Count(s, n, axis) = Count(es, n, axis)
    BY <1>2 DEF Count
<1>4. Count(s, n + 1, axis) = Count(s, n, axis) + (IF Moving(e, axis) THEN 1 ELSE 0)
    BY <1>1, CountGrows
<1>5. Len(s) = n + 1
    BY <1>1
<1> QED
    BY <1>3, <1>4, <1>5 DEF n, s

\* Entries that move nothing are not counted.
LEMMA CountJoined ==
    ASSUME NEW es \in Seq(ReportEntry), NEW more \in Seq(ReportEntry), NEW axis,
           \A i \in DOMAIN more : more[i].event # "pointing_motion"
    PROVE  Count(es \o more, Len(es \o more), axis) = Count(es, Len(es), axis)
<1> DEFINE s == es \o more
<1>1. Moves(s, Len(s), axis) = Moves(es, Len(es), axis)
    <2>1. /\ Len(s) = Len(es) + Len(more) /\ Len(es) \in Nat /\ Len(more) \in Nat
          /\ \A i \in 1..Len(s) : s[i] = IF i <= Len(es) THEN es[i] ELSE more[i - Len(es)]
          /\ DOMAIN more = 1..Len(more)
        OBVIOUS
    <2> HIDE DEF s
    <2>2. \A i \in 1..Len(s) : ~ (i <= Len(es)) => i - Len(es) \in DOMAIN more
        BY <2>1
    <2>3. \A i \in 1..Len(es) : i \in 1..Len(s) /\ s[i] = es[i]
        BY <2>1
    <2>4. \A i \in 1..Len(s) : s[i].event = "pointing_motion" => i \in 1..Len(es)
        BY <2>1, <2>2
    <2> QED
        BY <2>3, <2>4 DEF Moves
<1> QED
    BY <1>1 DEF Count

\* What is collected when fields change.
LEMMA CollectedChanges ==
    ASSUME NEW a \in Collected
    PROVE  /\ \A v \in Seq(ReportEntry) : [a EXCEPT !.entries = v] \in Collected
           /\ \A v \in SUBSET reports!MotionAxes : [a EXCEPT !.axes = v] \in Collected
           /\ \A v \in [reports!MotionAxes -> Int] : [a EXCEPT !.motion = v] \in Collected
           /\ \A v \in SUBSET DpadKeys : [a EXCEPT !.direction = v] \in Collected
<1> USE DEF Collected
<1>1. \A v \in Seq(ReportEntry) : [a EXCEPT !.entries = v] \in Collected
    OBVIOUS
<1>2. \A v \in SUBSET reports!MotionAxes : [a EXCEPT !.axes = v] \in Collected
    OBVIOUS
<1>3. \A v \in [reports!MotionAxes -> Int] : [a EXCEPT !.motion = v] \in Collected
    OBVIOUS
<1>4. \A v \in SUBSET DpadKeys : [a EXCEPT !.direction = v] \in Collected
    OBVIOUS
<1> HIDE DEF Collected
<1> QED
    BY <1>1, <1>2, <1>3, <1>4
\* An axis that waits for nothing has no motion.
Quiet(a) == \A axis \in reports!MotionAxes : axis \notin a.axes => a.motion[axis] = 0

\* The entries made so far turn the dpad keys that were down into the direction.
Gathered(a, before) ==
    /\ a \in Collected /\ Quiet(a)
    /\ \A k \in DpadKeys : Leaves(a.entries, Len(a.entries), k, before, a.direction)

\* Motion that has its entry, or waits for it.
Total(a, axis) ==
    Count(a.entries, Len(a.entries), axis) + (IF a.motion[axis] # 0 THEN 1 ELSE 0)

\* An entry that is none of a dpad key is appended.
LEMMA EntryAppended ==
    ASSUME NEW before, NEW a, Gathered(a, before), NEW e \in ReportEntry,
           e.event = "key" => e.value \notin DpadKeys
    PROVE  LET b == [a EXCEPT !.entries = Append(a.entries, e)]
           IN  /\ Gathered(b, before) /\ b.axes = a.axes /\ b.motion = a.motion
               /\ b.direction = a.direction
               /\ \A axis : Count(b.entries, Len(b.entries), axis)
                      = Count(a.entries, Len(a.entries), axis) + (IF Moving(e, axis) THEN 1 ELSE 0)
<1> DEFINE s == Append(a.entries, e)
           b == [a EXCEPT !.entries = s]
           more == <<e>>
<1>1. a \in Collected /\ a.entries \in Seq(ReportEntry)
    BY DEF Gathered, Collected
<1>2. s \in Seq(ReportEntry) /\ s = a.entries \o more /\ more \in Seq(ReportEntry)
    BY <1>1
<1>3. Len(more) = 1 /\ more[1] = e
    OBVIOUS
<1>4. \A axis : Count(s, Len(s), axis)
                    = Count(a.entries, Len(a.entries), axis) + (IF Moving(e, axis) THEN 1 ELSE 0)
    BY <1>1, CountAppended
<1> HIDE DEF s, more
<1>5. b \in Collected
    <2>1. \A v \in Seq(ReportEntry) : [a EXCEPT !.entries = v] \in Collected
        BY <1>1, CollectedChanges
    <2> QED
        BY <1>2, <2>1
<1>6. b.entries = s /\ b.axes = a.axes /\ b.motion = a.motion /\ b.direction = a.direction
    BY <1>1 DEF Collected
<1> HIDE DEF b
<1>7. ASSUME NEW k \in DpadKeys
      PROVE  Leaves(s, Len(s), k, before, a.direction)
    <2>1. Leaves(more, Len(more), k, a.direction, a.direction)
        BY <1>3 DEF Leaves, Presses
    <2>2. Leaves(a.entries, Len(a.entries), k, before, a.direction)
        BY DEF Gathered
    <2> QED
        BY <1>1, <1>2, <2>1, <2>2, LeavesJoined
<1>8. Gathered(b, before)
    BY <1>5, <1>6, <1>7 DEF Gathered, Quiet
<1> QED
    BY <1>4, <1>6, <1>8 DEF b, s

\* Motion that waits becomes an entry.
LEMMA FlushKeeps ==
    ASSUME NEW before, NEW a, Gathered(a, before)
    PROVE  LET b == reports!Flush(a)
           IN  /\ Gathered(b, before) /\ b.axes = {}
               /\ \A axis \in reports!MotionAxes : b.motion[axis] = 0 /\ Total(b, axis) = Total(a, axis)
<1>1. CASE a.axes = {}
    BY <1>1 DEF Gathered, Quiet, reports!Flush
<1>2. CASE a.axes # {}
    <2> DEFINE e == [event |-> "pointing_motion", value |-> a.motion, type |-> "single"]
               c == [a EXCEPT !.entries = Append(a.entries, e)]
               d == [c EXCEPT !.axes = {}]
               b == [d EXCEPT !.motion = reports!NoValue]
    <2>1. /\ e \in ReportEntry /\ e.event # "key"
          /\ \A axis : Moving(e, axis) <=> a.motion[axis] # 0
        BY DEF Gathered, Collected, ReportEntry, Moving
    <2> HIDE DEF e
    <2>2. /\ Gathered(c, before)
          /\ \A axis : Count(c.entries, Len(c.entries), axis)
                 = Count(a.entries, Len(a.entries), axis) + (IF Moving(e, axis) THEN 1 ELSE 0)
        BY <2>1, EntryAppended
    <2>3. reports!Flush(a) = b
        BY <1>2, Zenon DEF reports!Flush, b, c, d, e
    <2> HIDE DEF c
    <2>4. c \in Collected
        BY <2>2 DEF Gathered
    <2>5. d \in Collected
        BY <2>4, CollectedChanges
    <2>6. d.entries = c.entries /\ d.direction = c.direction /\ d.axes = {}
        BY <2>4 DEF Collected
    <2> HIDE DEF d
    <2>7. /\ reports!NoValue \in [reports!MotionAxes -> Int]
          /\ \A axis \in reports!MotionAxes : reports!NoValue[axis] = 0
        BY DEF reports!NoValue
    <2>8. b \in Collected
        <3>1. \A v \in [reports!MotionAxes -> Int] : [d EXCEPT !.motion = v] \in Collected
            BY <2>5, CollectedChanges
        <3> QED
            BY <2>7, <3>1
    <2>9. /\ b.entries = c.entries /\ b.direction = c.direction /\ b.axes = {}
          /\ b.motion = reports!NoValue
        BY <2>5, <2>6 DEF Collected
    <2> HIDE DEF b
    <2>10. \A axis \in reports!MotionAxes : b.motion[axis] = 0
        BY <2>7, <2>9
    <2>11. Gathered(b, before)
        BY <2>2, <2>8, <2>9, <2>10 DEF Gathered, Quiet
    <2>12. ASSUME NEW axis \in reports!MotionAxes PROVE Total(b, axis) = Total(a, axis)
        <3>1. Count(a.entries, Len(a.entries), axis) \in Nat
            BY CountGrows DEF Gathered, Collected
        <3> QED
            BY <2>1, <2>2, <2>9, <2>10, <3>1 DEF Total
    <2> QED
        BY <2>3, <2>9, <2>10, <2>11, <2>12
<1> QED
    BY <1>1, <1>2
\* A motion stays one, whatever the multiplier and the range.
LEMMA AdjustedMoves ==
    ASSUME NEW value \in Int, NEW factor, factor.num \in Int, factor.den \in Nat \ {0}
    PROVE  LET v == reports!adjust_pointing_motion_value(value, factor)
           IN  v \in Int /\ (v # 0 <=> value # 0)
<1>1. PICK num \in Int, den \in Nat \ {0} : num = factor.num /\ den = factor.den
    OBVIOUS
<1>2. PICK p \in Int : p = value * num /\ (value = 0 => p = 0)
    BY <1>1
<1>3. \A n \in Nat : n \div den \in Nat /\ 0 \div den = 0
    BY <1>1
<1>4. PICK v \in Int : v = reports!adjusted(value, factor) /\ (value = 0 => v = 0)
    <2>1. CASE p >= 0
        <3>1. p \div den \in Nat /\ (p = 0 => p \div den = 0)
            BY <1>3, <2>1
        <3>2. reports!adjusted(value, factor) = p \div den
            BY <1>1, <1>2, <2>1 DEF reports!adjusted
        <3> QED
            BY <1>2, <3>1, <3>2
    <2>2. CASE ~ (p >= 0)
        <3>1. -p \in Nat
            BY <2>2
        <3>2. PICK q \in Nat : q = (-p) \div den
            BY <1>3, <3>1
        <3>3. reports!adjusted(value, factor) = -q
            BY <1>1, <1>2, <2>2, <3>2 DEF reports!adjusted
        <3> QED
            BY <1>2, <2>2, <3>3
    <2> QED
        BY <2>1, <2>2
<1>5. PICK limit \in Nat \ {0} : limit = ReportMotion
    BY DaemonAssumption
<1>6. PICK low \in Int : low = reports!Min({limit, v}) /\ low = IF limit <= v THEN limit ELSE v
    BY DEF reports!Min
<1>7. PICK lower \in Int : lower = -limit
    OBVIOUS
<1>8. reports!Max({lower, low}) = IF lower >= low THEN lower ELSE low
    BY DEF reports!Max
<1>9. PICK high \in Int : high = reports!Max({lower, low}) /\ (v # 0 => high # 0)
    BY <1>6, <1>7, <1>8
<1>10. reports!adjust_pointing_motion_value(value, factor)
           = IF v = 0 THEN reports!Sign(value) ELSE high
    BY <1>4, <1>5, <1>6, <1>7, <1>9, Zenon DEF reports!adjust_pointing_motion_value
<1>11. reports!Sign(value) \in Int /\ (reports!Sign(value) # 0 <=> value # 0)
    BY DEF reports!Sign
<1> QED
    BY <1>4, <1>9, <1>10, <1>11

\* A motion value is joined with those that wait, or starts another motion.
LEMMA JoinKeeps ==
    ASSUME NEW before, NEW a, Gathered(a, before), device \in ReportDevices,
           NEW v, v.usage \in reports!MotionAxes, v.value \in Int
    PROVE  LET b == reports!join_motion_value(a, v)
           IN  /\ Gathered(b, before)
               /\ \A axis \in reports!MotionAxes : Total(b, axis)
                      = Total(a, axis) + (IF axis = v.usage /\ v.value # 0 THEN 1 ELSE 0)
<1> DEFINE c == IF v.usage \in a.axes THEN reports!Flush(a) ELSE a
           x == reports!adjust_pointing_motion_value(v.value, reports!multiplier(v.usage))
           d == [c EXCEPT !.axes = c.axes \cup {v.usage}]
           motion1 == [d.motion EXCEPT ![v.usage] = x]
           b == [d EXCEPT !.motion = motion1]
<1>1. /\ Gathered(c, before) /\ c.motion[v.usage] = 0
      /\ \A axis \in reports!MotionAxes : Total(c, axis) = Total(a, axis)
    <2>1. CASE v.usage \in a.axes
        BY <2>1, FlushKeeps
    <2>2. CASE v.usage \notin a.axes
        BY <2>2 DEF Gathered, Quiet
    <2> QED
        BY <2>1, <2>2
<1>2. reports!join_motion_value(a, v) = b
    BY Zenon DEF reports!join_motion_value, b, d, motion1, c, x
<1> HIDE DEF c
<1>3. x \in Int /\ (x # 0 <=> v.value # 0)
    <2> DEFINE factor == reports!multiplier(v.usage)
    <2>1. factor.num \in Int /\ factor.den \in Nat \ {0}
        BY DaemonAssumption DEF reports!multiplier
    <2> HIDE DEF factor
    <2>2. reports!adjust_pointing_motion_value(v.value, factor) \in Int
        BY <2>1, AdjustedMoves
    <2>3. reports!adjust_pointing_motion_value(v.value, factor) # 0 <=> v.value # 0
        BY <2>1, AdjustedMoves
    <2> QED
        BY <2>2, <2>3 DEF factor
<1> HIDE DEF x
<1>4. c \in Collected
    BY <1>1 DEF Gathered
<1>5. d \in Collected
    <2>1. c.axes \cup {v.usage} \in SUBSET reports!MotionAxes
        BY <1>4 DEF Collected
    <2>2. \A y \in SUBSET reports!MotionAxes : [c EXCEPT !.axes = y] \in Collected
        BY <1>4, CollectedChanges
    <2> QED
        BY <2>1, <2>2
<1>6. /\ d.entries = c.entries /\ d.direction = c.direction /\ d.motion = c.motion
      /\ d.axes = c.axes \cup {v.usage}
    BY <1>4 DEF Collected
<1> HIDE DEF d
<1>7. /\ motion1 \in [reports!MotionAxes -> Int] /\ motion1[v.usage] = x
      /\ \A axis \in reports!MotionAxes : axis # v.usage => motion1[axis] = c.motion[axis]
    BY <1>3, <1>5, <1>6 DEF Collected
<1> HIDE DEF motion1
<1>8. b \in Collected
    <2>1. \A y \in [reports!MotionAxes -> Int] : [d EXCEPT !.motion = y] \in Collected
        BY <1>5, CollectedChanges
    <2> QED
        BY <1>7, <2>1
<1>9. /\ b.entries = c.entries /\ b.direction = c.direction /\ b.motion = motion1
      /\ b.axes = c.axes \cup {v.usage}
    BY <1>5, <1>6 DEF Collected
<1> HIDE DEF b
<1>10. Gathered(b, before)
    BY <1>1, <1>7, <1>8, <1>9 DEF Gathered, Quiet
<1>11. ASSUME NEW axis \in reports!MotionAxes
       PROVE  Total(b, axis) = Total(a, axis) + (IF axis = v.usage /\ v.value # 0 THEN 1 ELSE 0)
    <2>1. Count(c.entries, Len(c.entries), axis) \in Nat
        BY <1>4, CountGrows DEF Collected
    <2>2. Total(b, axis) = Total(c, axis) + (IF axis = v.usage /\ v.value # 0 THEN 1 ELSE 0)
        BY <1>1, <1>3, <1>7, <1>9, <2>1 DEF Total
    <2> QED
        BY <1>1, <2>2
<1> QED
    BY <1>2, <1>10, <1>11
\* The events of the dpad turn the last direction into the current one.
LEMMA DpadEventsLeave ==
    ASSUME NEW last \in SUBSET DpadKeys, NEW current \in SUBSET DpadKeys
    PROVE  LET es == reports!to_dpad_events(last, current)
           IN  /\ es \in Seq(ReportEntry) /\ \A i \in DOMAIN es : es[i].event = "key"
               /\ \A k \in DpadKeys : Leaves(es, Len(es), k, last, current)
<1> DEFINE order == <<"up", "down", "right", "left">>
           turned == (last \cup current) \ (last \cap current)
           kept == {i \in DOMAIN order : order[i] \in turned}
           changed == Kept(order, kept)
           type(i) == IF changed[i] \in current THEN "key_down" ELSE "key_up"
           es == [i \in DOMAIN changed |-> [event |-> "key", value |-> changed[i], type |-> type(i)]]
<1>1. /\ order \in Seq(DpadKeys)
      /\ \A i, j \in DOMAIN order : order[i] = order[j] => i = j
      /\ \A k \in DpadKeys : \E i \in DOMAIN order : order[i] = k
    <2>1. DOMAIN order = 1..4
        OBVIOUS
    <2>2. order \in Seq(DpadKeys)
        BY DEF DpadKeys
    <2>3. order[1] = "up" /\ order[2] = "down" /\ order[3] = "right" /\ order[4] = "left"
        OBVIOUS
    <2>4. 1 \in DOMAIN order /\ 2 \in DOMAIN order /\ 3 \in DOMAIN order /\ 4 \in DOMAIN order
        OBVIOUS
    <2>5. \A i \in 1..4 : i \in {1, 2, 3, 4}
        OBVIOUS
    <2> HIDE DEF order
    <2> QED
        BY <2>1, <2>2, <2>3, <2>4, <2>5 DEF DpadKeys
<1>2. reports!to_dpad_events(last, current) = es
    <2>1. reports!Kept(order, kept) = changed
        BY Zenon DEF reports!Kept, Kept
    <2> QED
        BY <2>1, Zenon DEF reports!to_dpad_events, reports!KeyEntry, es, type, kept, turned, order
<1> HIDE DEF order
<1>3. PICK from : changed \in Seq(DpadKeys) /\ ComesFrom(changed, order, from, kept)
    <2>1. kept \in SUBSET DOMAIN order
        OBVIOUS
    <2> HIDE DEF kept
    <2> QED
        BY <1>1, <2>1, KeptComesFrom
<1>4. \A k \in DpadKeys : k \in turned <=> \E j \in DOMAIN changed : changed[j] = k
    <2>1. /\ \A i \in kept : i \in DOMAIN order /\ order[i] \in turned
          /\ \A i \in DOMAIN order : order[i] \in turned => i \in kept
        OBVIOUS
    <2>2. /\ \A j \in DOMAIN changed : from[j] \in kept /\ changed[j] = order[from[j]]
          /\ \A i \in kept : \E j \in DOMAIN changed : from[j] = i
        BY <1>3 DEF ComesFrom
    <2> HIDE DEF changed, kept, turned
    <2> QED
        BY <1>1, <2>1, <2>2
<1>5. \A j, l \in DOMAIN changed : j < l => changed[j] # changed[l]
    <2>1. SUFFICES ASSUME NEW j \in DOMAIN changed, NEW l \in DOMAIN changed, j < l
                   PROVE  changed[j] # changed[l]
        OBVIOUS
    <2>2. from[j] \in kept /\ from[l] \in kept /\ from[j] < from[l]
        BY <1>3, <2>1 DEF ComesFrom
    <2>3. \A i \in kept : i \in DOMAIN order /\ i \in Int
        BY <1>1
    <2>4. from[j] # from[l]
        BY <2>2, <2>3
    <2> QED
        BY <1>1, <1>3, <2>2, <2>3, <2>4 DEF ComesFrom
<1> HIDE DEF changed, kept
<1>6. changed \in Seq(DpadKeys) /\ DOMAIN changed = 1..Len(changed) /\ Len(changed) \in Nat
    BY <1>3
<1>7. \A i \in DOMAIN changed : [event |-> "key", value |-> changed[i], type |-> type(i)] \in ReportEntry
    <2>0. \A k \in Keys, t \in {"key_down", "key_up"} :
              [event |-> "key", value |-> k, type |-> t]
                  \in [event : {"key"}, value : Keys, type : {"key_down", "key_up"}]
        OBVIOUS
    <2>1. \A k \in DpadKeys, t \in {"key_down", "key_up"} :
              [event |-> "key", value |-> k, type |-> t] \in ReportEntry
        <3>1. \A k \in DpadKeys : k \in Keys
            BY DEF Keys
        <3> QED
            BY <2>0, <3>1, Zenon DEF ReportEntry
    <2>2. \A i \in DOMAIN changed : changed[i] \in DpadKeys /\ type(i) \in {"key_down", "key_up"}
        BY <1>6
    <2> QED
        BY <2>1, <2>2
<1>8. es \in Seq(ReportEntry)
    BY <1>6, <1>7
<1>9. /\ DOMAIN es = DOMAIN changed /\ Len(es) = Len(changed)
      /\ \A i \in DOMAIN changed : /\ es[i].event = "key" /\ es[i].value = changed[i]
                                   /\ es[i].type = "key_down" <=> changed[i] \in current
    BY <1>6, <1>8
<1> HIDE DEF es
<1>10. ASSUME NEW k \in DpadKeys PROVE Leaves(es, Len(es), k, last, current)
    <2>1. CASE k \notin turned
        <3>1. k \in last <=> k \in current
            BY <2>1
        <3>2. \A i \in 1..Len(es) : ~ Presses(es[i], k)
            BY <1>4, <1>6, <1>9, <2>1 DEF Presses
        <3> QED
            BY <3>1, <3>2 DEF Leaves
    <2>2. CASE k \in turned
        <3>1. PICK j \in DOMAIN changed : changed[j] = k
            BY <1>4, <2>2
        <3>2. \A l \in 1..Len(es) : j < l => ~ Presses(es[l], k)
            BY <1>5, <1>6, <1>9, <3>1 DEF Presses
        <3>3. j \in 1..Len(es) /\ Presses(es[j], k) /\ (es[j].type = "key_down" <=> k \in current)
            BY <1>6, <1>9, <3>1 DEF Presses
        <3> QED
            BY <3>2, <3>3 DEF Leaves
    <2> QED
        BY <2>1, <2>2
<1> QED
    BY <1>2, <1>8, <1>9, <1>10

\* The values of a report: a usage belongs to one page.
HidValue == [page : STRING, usage : STRING, value : Int]

Sensible(v) ==
    v.page \in {"keyboard", "button"} =>
        v.usage \notin reports!MotionAxes \cup DpadKeys \cup {"caps_lock_led", "hat_switch"}

\* A value of a report makes entries, waits, or does nothing.
LEMMA MakeEntryKeeps ==
    ASSUME NEW before, NEW a, Gathered(a, before), device \in ReportDevices,
           NEW v \in HidValue, Sensible(v)
    PROVE  LET b == reports!make_entry(a, v)
           IN  /\ Gathered(b, before)
               /\ \A axis \in reports!MotionAxes : Total(b, axis) = Total(a, axis)
                      + (IF v.usage = axis /\ reports!is_motion(v) /\ v.value # 0 THEN 1 ELSE 0)
<1> DEFINE b == reports!make_entry(a, v)
           Good == /\ Gathered(b, before)
                   /\ \A axis \in reports!MotionAxes : Total(b, axis) = Total(a, axis)
                          + (IF v.usage = axis /\ reports!is_motion(v) /\ v.value # 0 THEN 1 ELSE 0)
<1>1. /\ a \in Collected /\ a.entries \in Seq(ReportEntry) /\ v.usage \in STRING /\ v.value \in Int
      /\ \A axis : Count(a.entries, Len(a.entries), axis) \in Nat
      /\ \A axis : Total(a, axis) \in Nat
    <2>1. a \in Collected /\ a.entries \in Seq(ReportEntry) /\ v.usage \in STRING /\ v.value \in Int
        BY DEF Gathered, Collected, HidValue
    <2>2. \A axis : Count(a.entries, Len(a.entries), axis) \in Nat
        BY <2>1, CountGrows
    <2> QED
        BY <2>1, <2>2 DEF Total
<1>2. reports!is_motion(v) => v.usage \in reports!MotionAxes
    BY DEF reports!is_motion
<1>0. SUFFICES Good
    OBVIOUS
<1>3. ASSUME NEW e \in ReportEntry, e.event # "pointing_motion",
             e.event = "key" => e.value \notin DpadKeys, ~ reports!is_motion(v),
             b = [a EXCEPT !.entries = Append(a.entries, e)]
      PROVE  Good
    <2> HIDE DEF b
    <2>1. Gathered(b, before) /\ b.motion = a.motion
        BY <1>3, EntryAppended
    <2>2. ASSUME NEW axis PROVE Total(b, axis) = Total(a, axis)
        <3>1. Count(b.entries, Len(b.entries), axis) = Count(a.entries, Len(a.entries), axis) + 0
            BY <1>3, EntryAppended DEF Moving
        <3> QED
            BY <1>1, <2>1, <3>1 DEF Total
    <2>3. \A axis : (IF v.usage = axis /\ reports!is_motion(v) /\ v.value # 0 THEN 1 ELSE 0) = 0
        BY <1>3
    <2>4. \A axis : Total(b, axis) = Total(a, axis) + 0
        BY <1>1, <2>2
    <2> QED
        BY <2>1, <2>3, <2>4
<1>4. CASE v.page \in {"keyboard", "button"}
    <2> DEFINE type == IF v.value # 0 THEN "key_down" ELSE "key_up"
               e == [event |-> "key", value |-> v.usage, type |-> type]
    <2>1. e \in ReportEntry /\ e.event = "key" /\ e.value = v.usage
        BY <1>1 DEF ReportEntry, Keys
    <2>2. v.usage \notin DpadKeys /\ ~ reports!is_motion(v)
        BY <1>2, <1>4 DEF Sensible
    <2>3. b = [a EXCEPT !.entries = Append(a.entries, e)]
        <3>1. /\ ~ reports!is_motion(v) /\ v.usage # "caps_lock_led" /\ v.usage # "hat_switch"
            BY <1>4, <2>2 DEF Sensible
        <3> QED
            BY <1>4, <3>1 DEF reports!make_entry, reports!KeyEntry
    <2> HIDE DEF e, b
    <2> QED
        BY <1>3, <2>1, <2>2, <2>3
<1>5. CASE reports!is_motion(v)
    <2>1. v.usage # "caps_lock_led" /\ v.usage # "hat_switch" /\ v.page \notin {"keyboard", "button"}
        BY <1>2, <1>5 DEF Sensible, reports!MotionAxes
    <2>2. b = reports!join_motion_value(a, v)
        BY <1>5, <2>1 DEF reports!make_entry
    <2> HIDE DEF b
    <2> QED
        BY <1>1, <1>2, <1>5, <2>2, JoinKeeps
<1>6. CASE v.page \notin {"keyboard", "button"} /\ ~ reports!is_motion(v) /\ v.usage = "caps_lock_led"
    <2> DEFINE e == [event |-> "caps_lock_state_changed", value |-> v.value, type |-> "single"]
    <2>1. e \in ReportEntry /\ e.event \notin {"key", "pointing_motion"}
        BY <1>1 DEF ReportEntry
    <2>2. b = [a EXCEPT !.entries = Append(a.entries, e)]
        BY <1>6 DEF reports!make_entry
    <2> HIDE DEF e, b
    <2> QED
        BY <1>3, <1>6, <2>1, <2>2
<1>7. CASE /\ v.page \notin {"keyboard", "button"} /\ ~ reports!is_motion(v)
           /\ v.usage = "hat_switch" /\ device.game_pad
    <2> DEFINE current == reports!hat_direction(v.value)
               more == reports!to_dpad_events(a.direction, current)
               c == [a EXCEPT !.entries = a.entries \o more]
    <2>1. b = [c EXCEPT !.direction = current]
        BY <1>7 DEF reports!make_entry
    <2>2. current \in SUBSET DpadKeys
        <3>1. \A n \in 0..7 : n + 1 \in {1, 2, 3, 4, 5, 6, 7, 8}
            OBVIOUS
        <3> QED
            BY <1>1, <3>1 DEF reports!hat_direction, DpadKeys
    <2>3. a.direction \in SUBSET DpadKeys
        BY <1>1 DEF Collected
    <2> HIDE DEF current
    <2>4. /\ more \in Seq(ReportEntry) /\ \A i \in DOMAIN more : more[i].event = "key"
          /\ \A k \in DpadKeys : Leaves(more, Len(more), k, a.direction, current)
        BY <2>2, <2>3, DpadEventsLeave
    <2> HIDE DEF more
    <2>5. a.entries \o more \in Seq(ReportEntry)
        BY <1>1, <2>4
    <2>6. c \in Collected
        <3>1. \A y \in Seq(ReportEntry) : [a EXCEPT !.entries = y] \in Collected
            BY <1>1, CollectedChanges
        <3> QED
            BY <2>5, <3>1
    <2>7. c.entries = a.entries \o more /\ c.axes = a.axes /\ c.motion = a.motion
        BY <1>1 DEF Collected
    <2> HIDE DEF c, b
    <2>8. b \in Collected
        <3>1. \A y \in SUBSET DpadKeys : [c EXCEPT !.direction = y] \in Collected
            BY <2>6, CollectedChanges
        <3> QED
            BY <2>1, <2>2, <3>1
    <2>9. /\ b.entries = a.entries \o more /\ b.axes = a.axes /\ b.motion = a.motion
          /\ b.direction = current
        BY <2>1, <2>6, <2>7 DEF Collected
    <2>10. ASSUME NEW k \in DpadKeys PROVE Leaves(b.entries, Len(b.entries), k, before, current)
        <3>1. Leaves(a.entries, Len(a.entries), k, before, a.direction)
            BY DEF Gathered
        <3> QED
            BY <1>1, <2>4, <2>9, <3>1, LeavesJoined
    <2>11. Gathered(b, before)
        BY <2>8, <2>9, <2>10 DEF Gathered, Quiet
    <2>12. ASSUME NEW axis PROVE Total(b, axis) = Total(a, axis)
        <3>1. \A i \in DOMAIN more : more[i].event # "pointing_motion"
            BY <2>4
        <3>2. Count(b.entries, Len(b.entries), axis) = Count(a.entries, Len(a.entries), axis)
            BY <1>1, <2>4, <2>9, <3>1, CountJoined
        <3> QED
            BY <2>9, <3>2 DEF Total
    <2> QED
        BY <1>1, <1>7, <2>11, <2>12
<1>8. CASE /\ v.page \notin {"keyboard", "button"} /\ ~ reports!is_motion(v)
           /\ v.usage # "caps_lock_led" /\ ~ (v.usage = "hat_switch" /\ device.game_pad)
    <2>1. b = a
        BY <1>8 DEF reports!make_entry
    <2> HIDE DEF b
    <2> QED
        BY <1>1, <1>8, <2>1
<1> HIDE DEF Good
<1> QED
    BY <1>4, <1>5, <1>6, <1>7, <1>8
Moved(v, axis) == v.usage = axis /\ reports!is_motion(v) /\ v.value # 0

\* A report's values make entries for every motion and for every turn of the dpad.
LEMMA MakeEntriesKeeps ==
    ASSUME direction \in SUBSET DpadKeys, device \in ReportDevices,
           NEW values \in Seq(HidValue), \A i \in DOMAIN values : Sensible(values[i])
    PROVE  LET made == reports!make_entries(values)
           IN  /\ made \in Collected
               /\ \A k \in DpadKeys :
                      Leaves(made.entries, Len(made.entries), k, direction, made.direction)
               /\ \A axis \in reports!MotionAxes :
                      Count(made.entries, Len(made.entries), axis)
                          = Cardinality({i \in 1..Len(values) : Moved(values[i], axis)})
<1> DEFINE n == Len(values)
           S == {a \in Collected : Gathered(a, direction)}
           none == [entries |-> <<>>, axes |-> {}, motion |-> reports!NoValue, direction |-> direction]
           step == [p \in S \X (1..n) |-> reports!make_entry(p[1], values[p[2]])]
           IsFold(f) ==
               f = [i \in 0..n |-> IF i = 0 THEN none ELSE reports!make_entry(f[i - 1], values[i])]
           after == CHOOSE f : IsFold(f)
           amount(i, axis) == Cardinality({j \in 1..i : Moved(values[j], axis)})
<1>1. n \in Nat /\ \A i \in 1..n : values[i] \in HidValue /\ Sensible(values[i])
    OBVIOUS
<1>2. \A i \in 1..n : i \in 0..n /\ i - 1 \in 0..n /\ i # 0
    BY <1>1
<1> HIDE DEF n
<1>3. /\ none \in S
      /\ \A axis \in reports!MotionAxes : Total(none, axis) = 0
    <2>1. /\ reports!NoValue \in [reports!MotionAxes -> Int]
          /\ \A axis \in reports!MotionAxes : reports!NoValue[axis] = 0
        BY DEF reports!NoValue
    <2>2. <<>> \in Seq(ReportEntry) /\ Len(<<>>) = 0
        OBVIOUS
    <2>3. none \in Collected
        BY <2>1, <2>2 DEF Collected
    <2>4. Quiet(none)
        BY <2>1 DEF Quiet
    <2>5. \A k \in DpadKeys : Leaves(<<>>, 0, k, direction, direction)
        BY DEF Leaves
    <2>6. \A axis : Count(<<>>, 0, axis) = 0
        BY CountGrows
    <2>7. \A axis \in reports!MotionAxes : Total(none, axis) = 0
        BY <2>1, <2>2, <2>6 DEF Total
    <2> QED
        BY <2>2, <2>3, <2>4, <2>5, <2>7 DEF Gathered
<1> HIDE DEF none
<1>4. ASSUME NEW a \in S, NEW i \in 1..n
      PROVE  /\ reports!make_entry(a, values[i]) \in S
             /\ \A axis \in reports!MotionAxes :
                    Total(reports!make_entry(a, values[i]), axis)
                        = Total(a, axis) + (IF Moved(values[i], axis) THEN 1 ELSE 0)
    <2>1. PICK v \in HidValue : v = values[i] /\ Sensible(v)
        BY <1>1
    <2>2. Gathered(a, direction)
        OBVIOUS
    <2>3. /\ Gathered(reports!make_entry(a, v), direction)
          /\ \A axis \in reports!MotionAxes : Total(reports!make_entry(a, v), axis) = Total(a, axis)
                 + (IF v.usage = axis /\ reports!is_motion(v) /\ v.value # 0 THEN 1 ELSE 0)
        BY <2>1, <2>2, MakeEntryKeeps
    <2>4. reports!make_entry(a, v) \in S
        BY <2>3 DEF Gathered
    <2> QED
        BY <2>1, <2>3, <2>4 DEF Moved
<1> HIDE DEF S
<1>5. step \in [S \X (1..n) -> S]
    BY <1>4
<1>6. PICK f : Recursive(f, n, S, none, step)
    <2> HIDE DEF step
    <2> QED
        BY <1>1, <1>3, <1>5, Recursion
<1>7. IsFold(f)
    <2>1. \A i \in 1..n : <<f[i - 1], i>> \in S \X (1..n)
        BY <1>2, <1>6 DEF Recursive
    <2>2. \A i \in 1..n : f[i] = reports!make_entry(f[i - 1], values[i])
        BY <2>1, <1>6 DEF Recursive
    <2>3. \A i \in 0..n : i # 0 => i \in 1..n
        BY <1>1
    <2> QED
        BY <1>6, <2>2, <2>3 DEF Recursive
<1>8. IsFold(after)
    <2> HIDE DEF IsFold
    <2> QED
        BY <1>7
<1> HIDE DEF after
<1> DEFINE Good == {i \in 0..n : after[i] \in S /\ \A axis \in reports!MotionAxes :
                                                       Total(after[i], axis) = amount(i, axis)}
<1>9. ASSUME NEW axis, NEW i \in Nat
      PROVE  /\ amount(i + 1, axis) = amount(i, axis) + (IF Moved(values[i + 1], axis) THEN 1 ELSE 0)
             /\ amount(0, axis) = 0
    <2> DEFINE T == {j \in Nat : Moved(values[j], axis)}
    <2>1. \A m \in Nat : {j \in 1..m : Moved(values[j], axis)} = {j \in 1..m : j \in T}
        OBVIOUS
    <2>2. i + 1 \in Nat /\ (i + 1 \in T <=> Moved(values[i + 1], axis)) /\ 0 \in Nat
        OBVIOUS
    <2> HIDE DEF T
    <2> QED
        BY <2>1, <2>2, OneMore
<1> HIDE DEF amount
<1>10. 0 \in Good
    <2>1. after[0] = none
        BY <1>1, <1>8
    <2>2. \A axis : amount(0, axis) = 0
        BY <1>9
    <2> QED
        BY <1>1, <1>3, <2>1, <2>2
<1>11. ASSUME NEW i \in 1..n, i - 1 \in Good PROVE i \in Good
    <2>1. i \in 0..n /\ i - 1 \in 0..n /\ i # 0 /\ i - 1 \in Nat /\ (i - 1) + 1 = i
        BY <1>1, <1>2
    <2>2. after[i] = reports!make_entry(after[i - 1], values[i])
        BY <1>8, <2>1
    <2>3. /\ after[i - 1] \in S
          /\ \A axis \in reports!MotionAxes : Total(after[i - 1], axis) = amount(i - 1, axis)
        BY <1>11
    <2>4. /\ after[i] \in S
          /\ \A axis \in reports!MotionAxes :
                 Total(after[i], axis)
                     = Total(after[i - 1], axis) + (IF Moved(values[i], axis) THEN 1 ELSE 0)
        BY <1>4, <2>2, <2>3
    <2>5. \A axis \in reports!MotionAxes :
              amount(i, axis) = amount(i - 1, axis) + (IF Moved(values[i], axis) THEN 1 ELSE 0)
        BY <1>9, <2>1
    <2>6. \A axis \in reports!MotionAxes : Total(after[i], axis) = amount(i, axis)
        BY <2>3, <2>4, <2>5
    <2> QED
        BY <2>1, <2>4, <2>6
<1>12. Good = 0..n
    <2>1. Good \subseteq 0..n
        OBVIOUS
    <2> HIDE DEF Good
    <2> QED
        BY <1>1, <1>10, <1>11, <2>1, Induction
<1>13. /\ after[n] \in S
       /\ \A axis \in reports!MotionAxes : Total(after[n], axis) = amount(n, axis)
    <2>1. n \in 0..n
        BY <1>1
    <2> QED
        BY <1>12, <2>1
<1> DEFINE made == reports!Flush(after[n])
<1>14. reports!make_entries(values) = made
    BY Zenon DEF reports!make_entries, made, after, none, n
<1>15. /\ Gathered(made, direction)
       /\ \A axis \in reports!MotionAxes :
              made.motion[axis] = 0 /\ Total(made, axis) = Total(after[n], axis)
    <2>1. Gathered(after[n], direction)
        BY <1>13 DEF S
    <2> QED
        BY <2>1, FlushKeeps
<1> HIDE DEF made
<1>16. ASSUME NEW axis \in reports!MotionAxes
       PROVE  Count(made.entries, Len(made.entries), axis) = amount(n, axis)
    <2>1. Count(made.entries, Len(made.entries), axis) \in Nat
        BY <1>15, CountGrows DEF Gathered, Collected
    <2> QED
        BY <1>13, <1>15, <2>1 DEF Total
<1> QED
    BY <1>14, <1>15, <1>16 DEF Gathered, amount, n
\* What becomes of a key with one more entry.
LEMMA LeavesGrows ==
    ASSUME NEW es, NEW n \in Nat, NEW k, NEW before, NEW after1, NEW after2,
           Leaves(es, n, k, before, after1),
           Presses(es[n + 1], k) => (es[n + 1].type = "key_down" <=> k \in after2),
           ~ Presses(es[n + 1], k) => (k \in after1 <=> k \in after2)
    PROVE  Leaves(es, n + 1, k, before, after2)
<1>0. \A i \in 1..(n + 1) : i # n + 1 => i \in 1..n
    OBVIOUS
<1>1. CASE Presses(es[n + 1], k)
    <2>1. n + 1 \in 1..(n + 1) /\ \A j \in 1..(n + 1) : ~ (n + 1 < j)
        OBVIOUS
    <2> QED
        BY <1>1, <2>1 DEF Leaves
<1>2. CASE ~ Presses(es[n + 1], k)
    <2>1. CASE \A i \in 1..n : ~ Presses(es[i], k)
        <3>1. k \in before <=> k \in after2
            BY <1>2, <2>1 DEF Leaves
        <3>2. \A i \in 1..(n + 1) : ~ Presses(es[i], k)
            BY <1>0, <1>2, <2>1
        <3> QED
            BY <3>1, <3>2 DEF Leaves
    <2>2. CASE ~ \A i \in 1..n : ~ Presses(es[i], k)
        <3>1. PICK i \in 1..n : /\ Presses(es[i], k)
                                /\ es[i].type = "key_down" <=> k \in after1
                                /\ \A j \in 1..n : i < j => ~ Presses(es[j], k)
            BY <2>2 DEF Leaves
        <3>2. i \in 1..(n + 1) /\ (es[i].type = "key_down" <=> k \in after2)
            BY <1>2, <3>1
        <3>3. \A j \in 1..(n + 1) : i < j => ~ Presses(es[j], k)
            BY <1>0, <1>2, <3>1
        <3> QED
            BY <3>1, <3>2, <3>3 DEF Leaves
    <2> QED
        BY <2>1, <2>2
<1> QED
    BY <1>1, <1>2

Inserted == [pressed : SUBSET Keys, entries : Seq(ReportEntry)]

\* An entry is inserted, with the released event behind the last key_up.
LEMMA InsertKeeps ==
    ASSUME NEW a \in Inserted, NEW e \in ReportEntry
    PROVE  LET b == reports!insert(a, e)
           IN  /\ b \in Inserted
               /\ \A axis : Count(b.entries, Len(b.entries), axis)
                      = Count(a.entries, Len(a.entries), axis) + (IF Moving(e, axis) THEN 1 ELSE 0)
               /\ \A k : /\ Presses(e, k) => (e.type = "key_down" <=> k \in b.pressed)
                         /\ ~ Presses(e, k) => (k \in a.pressed <=> k \in b.pressed)
<1> DEFINE keys == IF e.event = "key" /\ e.type = "key_down" THEN a.pressed \cup {e.value}
                   ELSE IF e.event = "key" THEN a.pressed \ {e.value} ELSE a.pressed
           event == [event |-> "released", value |-> 1, type |-> "single"]
           released == IF e.type = "key_up" /\ a.pressed # {} /\ keys = {} THEN <<event>> ELSE <<>>
           s == Append(a.entries, e)
           b == reports!insert(a, e)
<1>1. b = [pressed |-> keys, entries |-> s \o released]
    BY Zenon DEF reports!insert, keys, released, s, event
<1>2. a.entries \in Seq(ReportEntry) /\ a.pressed \in SUBSET Keys
    BY DEF Inserted
<1>3. keys \in SUBSET Keys
    <2>1. e.event = "key" => e.value \in Keys
        BY DEF ReportEntry
    <2> QED
        BY <1>2, <2>1
<1>4. \A k : /\ Presses(e, k) => (e.type = "key_down" <=> k \in keys)
             /\ ~ Presses(e, k) => (k \in a.pressed <=> k \in keys)
    BY DEF Presses
<1> HIDE DEF keys
<1>5. released \in Seq(ReportEntry) /\ \A i \in DOMAIN released : released[i].event # "pointing_motion"
    <2>1. event \in ReportEntry /\ event.event = "released"
        BY DEF ReportEntry
    <2> HIDE DEF event
    <2> QED
        BY <2>1
<1> HIDE DEF released
<1>6. s \in Seq(ReportEntry) /\ s \o released \in Seq(ReportEntry)
    BY <1>2, <1>5
<1>7. ASSUME NEW axis
      PROVE  Count(s \o released, Len(s \o released), axis)
                 = Count(a.entries, Len(a.entries), axis) + (IF Moving(e, axis) THEN 1 ELSE 0)
    <2>1. Count(s, Len(s), axis)
              = Count(a.entries, Len(a.entries), axis) + (IF Moving(e, axis) THEN 1 ELSE 0)
        BY <1>2, CountAppended
    <2> HIDE DEF s
    <2>2. Count(s \o released, Len(s \o released), axis) = Count(s, Len(s), axis)
        BY <1>5, <1>6, CountJoined
    <2> QED
        BY <2>1, <2>2
<1> HIDE DEF s, b
<1>8. b.pressed = keys /\ b.entries = s \o released
    BY <1>1
<1>9. b \in Inserted
    BY <1>1, <1>3, <1>6 DEF Inserted
<1> QED
    BY <1>4, <1>7, <1>8, <1>9 DEF b

\* Inserting released events moves nothing and presses nothing.
LEMMA ReleasedEventKeeps ==
    ASSUME pressed \in SUBSET Keys, NEW es \in Seq(ReportEntry)
    PROVE  LET r == reports!insert_released_event(es)
           IN  /\ r \in Inserted
               /\ \A axis : Count(r.entries, Len(r.entries), axis) = Count(es, Len(es), axis)
               /\ \A k : Leaves(es, Len(es), k, pressed, r.pressed)
<1> DEFINE n == Len(es)
           none == [pressed |-> pressed, entries |-> <<>>]
           step == [p \in Inserted \X (1..n) |-> reports!insert(p[1], es[p[2]])]
           IsFold(f) == f = [i \in 0..n |-> IF i = 0 THEN none ELSE reports!insert(f[i - 1], es[i])]
           after == CHOOSE f : IsFold(f)
<1>1. n \in Nat /\ \A i \in 1..n : es[i] \in ReportEntry
    OBVIOUS
<1>2. \A i \in 1..n : i \in 0..n /\ i - 1 \in 0..n /\ i # 0 /\ i - 1 \in Nat /\ (i - 1) + 1 = i
    BY <1>1
<1>3. none \in Inserted /\ none.pressed = pressed /\ none.entries = <<>> /\ Len(<<>>) = 0
    BY DEF Inserted
<1> HIDE DEF n, none
<1>4. step \in [Inserted \X (1..n) -> Inserted]
    <2>1. \A a \in Inserted, i \in 1..n : reports!insert(a, es[i]) \in Inserted
        BY <1>1, InsertKeeps
    <2> QED
        BY <2>1
<1>5. PICK f : Recursive(f, n, Inserted, none, step)
    <2> HIDE DEF step
    <2> QED
        BY <1>1, <1>3, <1>4, Recursion
<1>6. IsFold(f)
    <2>1. \A i \in 1..n : <<f[i - 1], i>> \in Inserted \X (1..n)
        BY <1>2, <1>5 DEF Recursive
    <2>2. \A i \in 1..n : f[i] = reports!insert(f[i - 1], es[i])
        BY <2>1, <1>5 DEF Recursive
    <2>3. \A i \in 0..n : i # 0 => i \in 1..n
        BY <1>1
    <2> QED
        BY <1>5, <2>2, <2>3 DEF Recursive
<1>7. IsFold(after)
    <2> HIDE DEF IsFold
    <2> QED
        BY <1>6
<1> HIDE DEF after
<1> DEFINE Counted(i) == \A axis : Count(after[i].entries, Len(after[i].entries), axis) = Count(es, i, axis)
           Left(i) == \A k : Leaves(es, i, k, pressed, after[i].pressed)
           Good == {i \in 0..n : after[i] \in Inserted /\ Counted(i) /\ Left(i)}
<1>8. 0 \in Good
    <2>1. 0 \in 0..n /\ after[0] = none
        BY <1>1, <1>7
    <2>2. Counted(0)
        BY <1>3, <2>1, CountGrows
    <2>3. Left(0)
        BY <1>3, <2>1 DEF Leaves
    <2> QED
        BY <1>3, <2>1, <2>2, <2>3
<1>9. ASSUME NEW i \in 1..n, i - 1 \in Good PROVE i \in Good
    <2>1. after[i - 1] \in Inserted /\ Counted(i - 1) /\ Left(i - 1)
        BY <1>9
    <2>2. after[i] = reports!insert(after[i - 1], es[i]) /\ es[i] \in ReportEntry
        BY <1>1, <1>2, <1>7
    <2>3. /\ after[i] \in Inserted
          /\ \A axis : Count(after[i].entries, Len(after[i].entries), axis)
                 = Count(after[i - 1].entries, Len(after[i - 1].entries), axis)
                       + (IF Moving(es[i], axis) THEN 1 ELSE 0)
          /\ \A k : /\ Presses(es[i], k) => (es[i].type = "key_down" <=> k \in after[i].pressed)
                    /\ ~ Presses(es[i], k) => (k \in after[i - 1].pressed <=> k \in after[i].pressed)
        BY <2>1, <2>2, InsertKeeps
    <2>4. PICK m \in Nat : m = i - 1 /\ m + 1 = i
        BY <1>2
    <2>5. Counted(i)
        <3>1. \A axis : Count(es, m + 1, axis)
                            = Count(es, m, axis) + (IF Moving(es[m + 1], axis) THEN 1 ELSE 0)
            BY CountGrows
        <3> QED
            BY <2>1, <2>3, <2>4, <3>1
    <2>6. Left(i)
        <3>1. SUFFICES ASSUME NEW k PROVE Leaves(es, m + 1, k, pressed, after[i].pressed)
            BY <2>4
        <3>2. Leaves(es, m, k, pressed, after[i - 1].pressed)
            BY <2>1, <2>4
        <3> QED
            BY <2>3, <2>4, <3>2, LeavesGrows
    <2> QED
        BY <1>2, <2>3, <2>5, <2>6
<1>10. Good = 0..n
    <2>1. Good \subseteq 0..n
        OBVIOUS
    <2> HIDE DEF Good
    <2> QED
        BY <1>1, <1>8, <1>9, <2>1, Induction
<1>11. after[n] \in Inserted /\ Counted(n) /\ Left(n)
    <2>1. n \in 0..n
        BY <1>1
    <2> QED
        BY <1>10, <2>1
<1>12. reports!insert_released_event(es) = after[n]
    BY Zenon DEF reports!insert_released_event, after, none, n
<1> QED
    BY <1>11, <1>12 DEF n
MotionsHaveEntries ==
    \A axis \in reports!MotionAxes :
        Count(entries, Len(entries), axis)
            = Cardinality({i \in 1..Len(report) : Moved(report[i], axis)})

\* The dpad keys that are down are those of the direction, and all motion of
\* the last report has entries.
ReportInvariant ==
    /\ device \in ReportDevices
    /\ direction \in SUBSET DpadKeys /\ pressed \in SUBSET Keys
    /\ report \in Seq(HidValue) /\ entries \in Seq(ReportEntry)
    /\ \A k \in DpadKeys : k \in pressed <=> k \in direction
    /\ MotionsHaveEntries

\* A report arrives.
LEMMA ReportKeeps ==
    ASSUME ReportInvariant, NEW values \in HidReports, reports!ValuesArrived(values)
    PROVE  ReportInvariant'
<1> DEFINE left == {i \in DOMAIN values : ~ reports!dropped(values[i])}
           kept == Kept(values, left)
           made == reports!make_entries(kept)
           inserted == reports!insert_released_event(made.entries)
<1>1. /\ report' = kept /\ direction' = made.direction /\ entries' = inserted.entries
      /\ pressed' = inserted.pressed /\ device' = device
    <2>1. reports!Kept(values, left) = kept
        BY Zenon DEF reports!Kept, Kept
    <2> HIDE DEF kept, made, inserted
    <2>2. reports!insert_released_event(reports!make_entries(reports!Kept(values, left)).entries) = inserted
        BY <2>1, Zenon DEF inserted, made
    <2>3. reports!make_entries(reports!Kept(values, left)) = made
        BY <2>1, Zenon DEF made
    <2> QED
        BY <2>1, <2>2, <2>3 DEF reports!ValuesArrived, left
<1>2. values \in Seq(HidValue) /\ \A i \in DOMAIN values : Sensible(values[i])
    <2>1. values \in Seq(HidValue)
        BY DaemonAssumption DEF HidValue
    <2>2. \A i \in DOMAIN values : values[i].page \in {"keyboard", "button"} =>
              values[i].usage \notin {"x", "y", "wheel", "ac_pan", "caps_lock_led", "hat_switch",
                                      "up", "down", "left", "right"}
        BY DaemonAssumption
    <2> QED
        BY <2>1, <2>2 DEF Sensible, reports!MotionAxes, DpadKeys
<1>3. kept \in Seq(HidValue) /\ \A i \in DOMAIN kept : Sensible(kept[i])
    <2>1. left \in SUBSET DOMAIN values
        OBVIOUS
    <2> HIDE DEF left
    <2>2. PICK from : kept \in Seq(HidValue) /\ ComesFrom(kept, values, from, left)
        BY <1>2, <2>1, KeptComesFrom
    <2>3. \A i \in DOMAIN kept : from[i] \in DOMAIN values /\ kept[i] = values[from[i]]
        BY <2>1, <2>2 DEF ComesFrom
    <2> QED
        BY <1>2, <2>2, <2>3
<1> HIDE DEF kept
<1>4. device \in ReportDevices /\ direction \in SUBSET DpadKeys /\ pressed \in SUBSET Keys
    BY DEF ReportInvariant
<1>5. /\ made \in Collected
      /\ \A k \in DpadKeys : Leaves(made.entries, Len(made.entries), k, direction, made.direction)
      /\ \A axis \in reports!MotionAxes : Count(made.entries, Len(made.entries), axis)
             = Cardinality({i \in 1..Len(kept) : Moved(kept[i], axis)})
    BY <1>3, <1>4, MakeEntriesKeeps
<1> HIDE DEF made
<1>6. made.entries \in Seq(ReportEntry) /\ Len(made.entries) \in Nat /\ made.direction \in SUBSET DpadKeys
    BY <1>5 DEF Collected
<1>7. /\ inserted \in Inserted
      /\ \A axis : Count(inserted.entries, Len(inserted.entries), axis)
             = Count(made.entries, Len(made.entries), axis)
      /\ \A k : Leaves(made.entries, Len(made.entries), k, pressed, inserted.pressed)
    BY <1>4, <1>6, ReleasedEventKeeps
<1> HIDE DEF inserted
<1>8. inserted.entries \in Seq(ReportEntry) /\ inserted.pressed \in SUBSET Keys
    BY <1>7 DEF Inserted
<1>9. ASSUME NEW k \in DpadKeys PROVE k \in pressed' <=> k \in direction'
    <2>1. k \in pressed <=> k \in direction
        BY DEF ReportInvariant
    <2>2. Leaves(made.entries, Len(made.entries), k, direction, made.direction)
        BY <1>5
    <2>3. Leaves(made.entries, Len(made.entries), k, pressed, inserted.pressed)
        BY <1>7
    <2>4. k \in inserted.pressed <=> k \in made.direction
        BY <1>6, <2>1, <2>2, <2>3, LeavesOnce
    <2> QED
        BY <1>1, <2>4
<1>10. MotionsHaveEntries'
    <2>1. \A axis \in reports!MotionAxes :
              Count(inserted.entries, Len(inserted.entries), axis)
                  = Cardinality({i \in 1..Len(kept) : Moved(kept[i], axis)})
        BY <1>5, <1>7
    <2> QED
        BY <1>1, <2>1 DEF MotionsHaveEntries, Moved, reports!is_motion
<1> QED
    BY <1>1, <1>3, <1>4, <1>6, <1>8, <1>9, <1>10 DEF ReportInvariant

\* The dpad keys and the motions of a device follow its reports.
LEMMA ReportInvariantHolds == Spec => []ReportInvariant
<1>0. /\ <<>> \in Seq(HidValue) /\ <<>> \in Seq(ReportEntry) /\ Len(<<>>) = 0
      /\ \A axis : Count(<<>>, 0, axis) = 0
      /\ \A axis : {i \in 1..0 : Moved(<<>>[i], axis)} = {}
      /\ Cardinality({}) = 0
    BY CountGrows, FS_EmptySet
<1>00. (report = <<>> /\ entries = <<>>) => MotionsHaveEntries
    BY <1>0 DEF MotionsHaveEntries
<1>1. Init => ReportInvariant
    BY <1>0, <1>00 DEF Init, reports!Init, ReportInvariant
<1>2. ReportInvariant /\ [Next]_vars => ReportInvariant'
    <2> SUFFICES ASSUME ReportInvariant, [Next]_vars PROVE ReportInvariant'
        OBVIOUS
    <2>1. CASE \E values \in HidReports : reports!ValuesArrived(values)
        BY <2>1, ReportKeeps
    <2>2. CASE reports!erase_device
        <3>1. /\ direction' = {} /\ pressed' = {} /\ report' = <<>> /\ entries' = <<>>
              /\ device' = device
            BY <2>2 DEF reports!erase_device
        <3>2. MotionsHaveEntries'
            BY <1>0, <3>1 DEF MotionsHaveEntries, Moved, reports!is_motion
        <3> QED
            BY <1>0, <3>1, <3>2 DEF ReportInvariant
    <2>3. CASE UNCHANGED report_vars
        <3>1. MotionsHaveEntries'
            BY <2>3 DEF report_vars, ReportInvariant, MotionsHaveEntries, Moved, reports!is_motion
        <3> QED
            BY <2>3, <3>1 DEF report_vars, ReportInvariant
    <2> QED
        BY <2>1, <2>2, <2>3 DEF Next, vars, reports!Next
<1> QED
    BY <1>1, <1>2, PTL DEF Spec

\* No motion value of a report is lost when they are joined, and none vanishes
\* by a small multiplier (make_entries, adjust_pointing_motion_value).
THEOREM MotionsAreJoined == Spec => []EveryMotionValueCounts
<1>1. ReportInvariant => EveryMotionValueCounts
    <2> SUFFICES ASSUME ReportInvariant PROVE reports!EveryMotionValueCounts
        BY DEF EveryMotionValueCounts
    <2>1. \A S : reports!Cardinality(S) = Cardinality(S)
        BY Zenon DEF reports!Cardinality, Cardinality, reports!IsFiniteSet, IsFiniteSet
    <2>2. DOMAIN report = 1..Len(report) /\ DOMAIN entries = 1..Len(entries)
        BY DEF ReportInvariant
    <2>3. ASSUME NEW axis \in reports!MotionAxes
          PROVE  Cardinality({i \in DOMAIN report : report[i].usage = axis
                                  /\ reports!is_motion(report[i]) /\ report[i].value # 0})
                 = Cardinality({i \in DOMAIN entries : entries[i].event = "pointing_motion"
                                                       /\ entries[i].value[axis] # 0})
        BY <2>2 DEF ReportInvariant, MotionsHaveEntries, Count, Moves, Moved
    <2> QED
        BY <2>1, <2>3 DEF reports!EveryMotionValueCounts
<1> QED
    BY <1>1, ReportInvariantHolds, PTL

\* The dpad keys that are down are the directions of the hat switch, however
\* it jumps (hat_switch_converter::to_dpad_events).
THEOREM DpadIsHatSwitch == Spec => []DpadFollowsHatSwitch
<1>1. ReportInvariant => DpadFollowsHatSwitch
    <2>1. DpadKeys = {"up", "down", "left", "right"}
        BY DEF DpadKeys
    <2> QED
        BY <2>1 DEF ReportInvariant, DpadFollowsHatSwitch, reports!DpadFollowsHatSwitch
<1> QED
    BY <1>1, ReportInvariantHolds, PTL

=============================================================================
