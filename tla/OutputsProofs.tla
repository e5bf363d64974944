----------------------------- MODULE OutputsProofs -----------------------------
(***************************************************************************)
(* Proofs about the two stores behind the last stage.                      *)
(*                                                                         *)
(* modifier_flag_manager: for any flags, devices and length of the vector  *)
(* it implements the counters of ModifierFlagCounter, and a scope does     *)
(* what it says and can be undone.                                         *)
(*                                                                         *)
(* VirtualDeviceQueue: for any number of keys, pages and events and any    *)
(* waiting time its type invariant, the gaps that adjust_time_stamp keeps  *)
(* between events, and that the report under construction is the last one  *)
(* on its way to the device.                                               *)
(***************************************************************************)
EXTENDS MCOutputs, SubsequenceProofs

\* What the entries of s add to the counters in X.
Raising(X) == {f \in flags!Entry : flags!CounterOf(f) \in X /\ f.count = 1}
Lowering(X) == {f \in flags!Entry : flags!CounterOf(f) \in X /\ f.count = -1}
Weight(s, X) == Number(s, Raising(X)) - Number(s, Lowering(X))

-----------------------------------------------------------------------------
(* Counting the elements of a sequence.                                     *)

\* Cardinality of the flags' module is the one the lemmas are about.
LEMMA SameCardinality ==
    ASSUME NEW S
    PROVE  flags!Cardinality(S) = Cardinality(S)
BY Zenon DEF flags!Cardinality, Cardinality, flags!IsFiniteSet, IsFiniteSet

\* The element at p is removed.
LEMMA NumberRemoved ==
    ASSUME NEW T, NEW s \in Seq(T), NEW p \in DOMAIN s
    PROVE  /\ flags!RemoveAt(s, p) \in Seq(T)
           /\ Len(flags!RemoveAt(s, p)) = Len(s) - 1
           /\ \A j \in DOMAIN flags!RemoveAt(s, p) :
                  flags!RemoveAt(s, p)[j] = IF j < p THEN s[j] ELSE s[j + 1]
           /\ \A P : Number(flags!RemoveAt(s, p), P) = Number(s, P) - (IF s[p] \in P THEN 1 ELSE 0)
<1>1. flags!RemoveAt(s, p) = Without(s, p)
    BY DEF flags!RemoveAt, Without
<1> QED
    BY <1>1, NumberWithout

\* A part of the sequence is kept: each element of the result comes from an
\* index of its own.
LEMMA TakenKept ==
    ASSUME NEW T, NEW s \in Seq(T), NEW kept \in SUBSET DOMAIN s
    PROVE  /\ flags!Kept(s, kept) \in Seq(T)
           /\ Len(flags!Kept(s, kept)) <= Len(s)
           /\ \E from : TakenFrom(flags!Kept(s, kept), s, from, kept)
<1>1. flags!Kept(s, kept) = Kept(s, kept)
    BY DEF flags!Kept, Kept
<1> QED
    BY <1>1, KeptTaken

\* It holds as many elements in P as were kept.
LEMMA NumberKept ==
    ASSUME NEW T, NEW s \in Seq(T), NEW kept \in SUBSET DOMAIN s, NEW P
    PROVE  Number(flags!Kept(s, kept), P) = Cardinality({i \in kept : s[i] \in P})
<1>1. flags!Kept(s, kept) = Kept(s, kept)
    BY DEF flags!Kept, Kept
<1> QED
    BY <1>1, NumberOfKept

-----------------------------------------------------------------------------
(* The vector between two calls.                                            *)

\* The entries the event queue and the scopes push.
Pushable == {f \in flags!Entry :
                \/ f.kind \in {"plain", "sticky"}
                \/ f.kind = "led_lock" /\ f.flag = caps_lock /\ f.device = device_0}

NoPairs(s) == \A i, j \in DOMAIN s : ~ flags!is_paired(s[i], s[j])

\* No entry of the vector is paired with another one, and the led lock is there
\* once at most, and raised.
Clean(s) ==
    /\ s \in Seq(Pushable)
    /\ NoPairs(s)
    /\ \A i \in DOMAIN s : s[i].kind = "led_lock" => s[i].count = 1
    /\ \A i, j \in DOMAIN s : s[i].kind = "led_lock" /\ s[j].kind = "led_lock" => i = j

LedOn(s) == \E i \in DOMAIN s : s[i].kind = "led_lock"

\* What a pushable entry is made of.
LEMMA PushableEntry ==
    ASSUME NEW f \in Pushable
    PROVE  /\ f \in flags!Entry
           /\ f.kind \in {"plain", "sticky", "led_lock"} /\ f.count \in {1, -1}
           /\ f.flag \in Flags /\ f.device \in Devices
           /\ flags!CounterOf(f) = <<f.kind, f.flag, f.device>>
           /\ flags!CounterOf(f) \in flags!Counters
           /\ f.kind = "led_lock" => f.flag = caps_lock /\ f.device = device_0
           /\ f = [count |-> f.count, kind |-> f.kind, flag |-> f.flag, device |-> f.device]
BY DEF Pushable, flags!Counters, flags!CounterOf, flags!Entry, flags!Kinds

\* Only an entry of the same counter and of the other sign is paired with f.
LEMMA PairedEntry ==
    ASSUME NEW f \in Pushable, NEW g \in Pushable
    PROVE  flags!is_paired(g, f) <=>
               flags!CounterOf(g) = flags!CounterOf(f) /\ g.count # f.count
<1>1. f.count \in {1, -1} /\ g.count \in {1, -1}
    BY PushableEntry
<1>2. g.count = -f.count <=> g.count # f.count
    BY <1>1
<1> QED
    BY <1>2 DEF flags!is_paired, flags!CounterOf

\* Taking entries out leaves the vector clean.
LEMMA KeptClean ==
    ASSUME NEW s, Clean(s), NEW kept \in SUBSET DOMAIN s
    PROVE  /\ Clean(flags!Kept(s, kept))
           /\ LedOn(flags!Kept(s, kept)) <=> \E i \in kept : s[i].kind = "led_lock"
           /\ Len(flags!Kept(s, kept)) <= Len(s)
<1> DEFINE r == flags!Kept(s, kept)
<1>0. s \in Seq(Pushable)
    BY DEF Clean
<1>1. r \in Seq(Pushable) /\ Len(r) <= Len(s)
    BY <1>0, TakenKept
<1>2. PICK from : TakenFrom(r, s, from, kept)
    BY <1>0, TakenKept
<1> HIDE DEF r
<1>3. \A j \in DOMAIN r : from[j] \in DOMAIN s
    BY <1>2 DEF TakenFrom
<1>4. NoPairs(r)
    BY <1>2, <1>3 DEF Clean, NoPairs, TakenFrom
<1>5. \A j \in DOMAIN r : r[j].kind = "led_lock" => r[j].count = 1
    BY <1>2, <1>3 DEF Clean, TakenFrom
<1>6. \A j, l \in DOMAIN r : r[j].kind = "led_lock" /\ r[l].kind = "led_lock" => j = l
    BY <1>2, <1>3 DEF Clean, TakenFrom
<1>7. LedOn(r) <=> \E i \in kept : s[i].kind = "led_lock"
    BY <1>2 DEF LedOn, TakenFrom
<1> QED
    BY <1>1, <1>4, <1>5, <1>6, <1>7 DEF r, Clean

-----------------------------------------------------------------------------
(* Pushing an entry: erase_pairs.                                           *)

\* erase_pair at an entry without a partner further on.
LEMMA QuietRound ==
    ASSUME NEW u \in Seq(Pushable), NEW k \in Nat \ {0},
           \A j \in DOMAIN u : k < j => ~ flags!is_paired(u[k], u[j])
    PROVE  flags!erase_pair([flags |-> u, i |-> k])
               = [flags |-> u, i |-> IF k > Len(u) THEN k ELSE k + 1]
<1> DEFINE partners == {j \in (k + 1)..Len(u) : flags!is_paired(u[k], u[j])}
           a == [flags |-> u, i |-> k]
<1>1. \A j \in (k + 1)..Len(u) : j \in DOMAIN u /\ k < j
    OBVIOUS
<1>2. partners = {}
    BY <1>1
<1>3. a.flags = u /\ a.i = k /\ [a EXCEPT !.i = @ + 1] = [flags |-> u, i |-> k + 1]
    OBVIOUS
<1> HIDE DEF a
<1>4. flags!erase_pair(a) = IF k > Len(u) THEN a ELSE [a EXCEPT !.i = @ + 1]
    BY <1>2, <1>3 DEF flags!erase_pair
<1> QED
    BY <1>3, <1>4 DEF a

\* erase_pair at the partner of the entry just pushed.
LEMMA ErasingRound ==
    ASSUME NEW s \in Seq(Pushable), NoPairs(s), NEW f \in Pushable,
           NEW k \in DOMAIN s, flags!is_paired(s[k], f)
    PROVE  flags!erase_pair([flags |-> Append(s, f), i |-> k])
               = [flags |-> flags!RemoveAt(s, k), i |-> IF k > 1 THEN k ELSE 2]
<1> DEFINE t == Append(s, f)
           l == Len(s) + 1
           a == [flags |-> t, i |-> k]
           partners == {j \in (k + 1)..Len(t) : flags!is_paired(t[k], t[j])}
           b == flags!RemoveAt(t, l)
<1>1. t \in Seq(Pushable) /\ Len(t) = l /\ t[l] = f /\ t[k] = s[k] /\ k < l /\ l \in Nat
      /\ k \in Nat /\ l \in DOMAIN t /\ \A j \in DOMAIN s : t[j] = s[j]
    OBVIOUS
<1>2. partners = {l}
    <2>1. \A j \in (k + 1)..l : j = l \/ j \in DOMAIN s
        OBVIOUS
    <2>2. l \in (k + 1)..l
        BY <1>1
    <2> HIDE DEF t, l
    <2> QED
        BY <1>1, <2>1, <2>2 DEF NoPairs
<1>3. flags!Min({l}) = l
    <2>1. \A x \in {l} : x = l /\ l <= l
        BY <1>1
    <2> HIDE DEF l
    <2> QED
        BY <2>1 DEF flags!Min
<1>4. b = s
    <2> HIDE DEF t, b
    <2>1. b \in Seq(Pushable) /\ Len(b) = Len(s) /\ \A j \in DOMAIN b : b[j] = IF j < l THEN t[j] ELSE t[j + 1]
        <3>1. b \in Seq(Pushable) /\ Len(b) = Len(t) - 1
              /\ \A j \in DOMAIN b : b[j] = IF j < l THEN t[j] ELSE t[j + 1]
            <4> HIDE DEF l
            <4> QED
                BY <1>1, NumberRemoved DEF b
        <3> QED
            BY <1>1, <3>1
    <2>2. \A j \in 1..Len(s) : b[j] = s[j]
        BY <1>1, <2>1
    <2> QED
        BY <2>1, <2>2
<1>5. a.flags = t /\ a.i = k
    OBVIOUS
<1> HIDE DEF a, t, b, l
<1>6. flags!erase_pair(a) = [flags |-> flags!RemoveAt(b, k), i |-> IF k > 1 THEN k ELSE 2]
    <2> HIDE DEF partners
    <2>1. ~ (k > Len(t)) /\ ~ (partners = {}) /\ flags!Min(partners) = l
        <3>1. ~ (k > Len(t))
            BY <1>1
        <3>2. partners # {}
            BY <1>2
        <3> QED
            BY <1>2, <1>3, <3>1, <3>2
    <2> QED
        BY <1>5, <2>1 DEF flags!erase_pair, b, partners
<1> QED
    BY <1>4, <1>6 DEF a, t

\* Removing an entry leaves no pairs.
LEMMA RemovedNoPairs ==
    ASSUME NEW s \in Seq(Pushable), NoPairs(s), NEW p \in DOMAIN s
    PROVE  NoPairs(flags!RemoveAt(s, p))
<1> DEFINE r == flags!RemoveAt(s, p)
<1>1. r \in Seq(Pushable) /\ Len(r) = Len(s) - 1
      /\ \A j \in DOMAIN r : r[j] = IF j < p THEN s[j] ELSE s[j + 1]
    BY NumberRemoved
<1> HIDE DEF r
<1>2. \A j \in DOMAIN r : \E i \in DOMAIN s : r[j] = s[i]
    <2> SUFFICES ASSUME NEW j \in DOMAIN r PROVE \E i \in DOMAIN s : r[j] = s[i]
        OBVIOUS
    <2>1. j \in DOMAIN s /\ j + 1 \in DOMAIN s
        BY <1>1
    <2> QED
        BY <1>1, <2>1
<1> QED
    BY <1>2 DEF NoPairs, r

\* The two kinds of states erase_pairs goes through: every entry of s up to the
\* index is without a partner, or the partner of f is gone.
Waiting(s, f, k) == [flags |-> Append(s, f), i |-> k]

Erased(s, f) == {[flags |-> flags!RemoveAt(s, p), i |-> k] :
                    p \in {q \in DOMAIN s : flags!is_paired(s[q], f)}, k \in Nat \ {0}}

\* What a round does to either.
LEMMA RoundCases ==
    ASSUME NEW s \in Seq(Pushable), NoPairs(s), NEW f \in Pushable
    PROVE  /\ \A a \in Erased(s, f) : flags!erase_pair(a) \in Erased(s, f)
           /\ \A k \in DOMAIN s :
                  IF flags!is_paired(s[k], f) THEN flags!erase_pair(Waiting(s, f, k)) \in Erased(s, f)
                  ELSE flags!erase_pair(Waiting(s, f, k)) = Waiting(s, f, k + 1)
           /\ flags!erase_pair(Waiting(s, f, Len(s) + 1)) = Waiting(s, f, Len(s) + 2)
           /\ flags!erase_pair(Waiting(s, f, Len(s) + 2)) = Waiting(s, f, Len(s) + 2)
<1> DEFINE t == Append(s, f)
           l == Len(s) + 1
<1>1. t \in Seq(Pushable) /\ Len(t) = l /\ t[l] = f /\ l \in Nat
      /\ \A j \in DOMAIN s : t[j] = s[j] /\ j \in Nat \ {0} /\ j < l
    OBVIOUS
<1>2. \A j \in DOMAIN t : j = l \/ j \in DOMAIN s
    OBVIOUS
<1>3. ASSUME NEW a \in Erased(s, f)
      PROVE  flags!erase_pair(a) \in Erased(s, f)
    <2>1. PICK p \in DOMAIN s, k \in Nat \ {0} :
              flags!is_paired(s[p], f) /\ a = [flags |-> flags!RemoveAt(s, p), i |-> k]
        BY <1>3 DEF Erased
    <2> DEFINE u == flags!RemoveAt(s, p)
    <2>2. u \in Seq(Pushable)
        BY NumberRemoved
    <2>3. NoPairs(u)
        BY RemovedNoPairs
    <2> HIDE DEF u
    <2>4. \A j \in DOMAIN u : k < j => ~ flags!is_paired(u[k], u[j])
        <3> SUFFICES ASSUME NEW j \in DOMAIN u, k < j PROVE ~ flags!is_paired(u[k], u[j])
            OBVIOUS
        <3>1. k \in DOMAIN u
            BY <2>2
        <3> QED
            BY <2>3, <3>1 DEF NoPairs
    <2>5. flags!erase_pair([flags |-> u, i |-> k]) = [flags |-> u, i |-> IF k > Len(u) THEN k ELSE k + 1]
        BY <2>2, <2>4, QuietRound
    <2>6. (IF k > Len(u) THEN k ELSE k + 1) \in Nat \ {0}
        OBVIOUS
    <2> QED
        BY <2>1, <2>5, <2>6 DEF u, Erased
<1>4. ASSUME NEW k \in DOMAIN s, flags!is_paired(s[k], f)
      PROVE  flags!erase_pair(Waiting(s, f, k)) \in Erased(s, f)
    <2>1. flags!erase_pair([flags |-> Append(s, f), i |-> k])
              = [flags |-> flags!RemoveAt(s, k), i |-> IF k > 1 THEN k ELSE 2]
        BY <1>4, ErasingRound
    <2>2. (IF k > 1 THEN k ELSE 2) \in Nat \ {0}
        OBVIOUS
    <2> QED
        BY <1>4, <2>1, <2>2 DEF Waiting, Erased
<1>5. ASSUME NEW k \in DOMAIN s, ~ flags!is_paired(s[k], f)
      PROVE  flags!erase_pair(Waiting(s, f, k)) = Waiting(s, f, k + 1)
    <2> HIDE DEF t, l
    <2>1. \A j \in DOMAIN t : k < j => ~ flags!is_paired(t[k], t[j])
        BY <1>1, <1>2, <1>5 DEF NoPairs
    <2>2. k \in Nat \ {0} /\ ~ (k > Len(t))
        BY <1>1
    <2>3. flags!erase_pair([flags |-> t, i |-> k]) = [flags |-> t, i |-> IF k > Len(t) THEN k ELSE k + 1]
        BY <1>1, <2>1, <2>2, QuietRound
    <2> QED
        BY <2>2, <2>3 DEF Waiting, t
<1>6. ASSUME NEW k \in {l, l + 1}
      PROVE  flags!erase_pair(Waiting(s, f, k)) = Waiting(s, f, l + 1)
    <2>0. k = l \/ k = l + 1
        BY <1>6
    <2>1. \A j \in DOMAIN t : ~ (k < j)
        <3> SUFFICES ASSUME NEW j \in DOMAIN t PROVE ~ (k < j)
            OBVIOUS
        <3>1. j \in 1..l
            BY <1>1
        <3> QED
            BY <1>1, <2>0, <3>1
    <2>2. k \in Nat \ {0} /\ (k > Len(t) <=> k = l + 1)
        BY <1>1, <2>0
    <2> HIDE DEF t, l
    <2>3. flags!erase_pair([flags |-> t, i |-> k]) = [flags |-> t, i |-> IF k > Len(t) THEN k ELSE k + 1]
        BY <1>1, <2>1, <2>2, QuietRound
    <2>4. (IF k > Len(t) THEN k ELSE k + 1) = l + 1
        BY <1>1, <2>0, <2>2
    <2> QED
        BY <2>3, <2>4 DEF Waiting, t
<1>7. l + 1 = Len(s) + 2
    OBVIOUS
<1> QED
    BY <1>3, <1>4, <1>5, <1>6, <1>7

\* An entry pushed stays at the end, or takes one partner away with it.
LEMMA ErasedPairs ==
    ASSUME NEW s \in Seq(Pushable), NoPairs(s), NEW f \in Pushable
    PROVE  \/ /\ flags!erase_pairs(Append(s, f)) = Append(s, f)
              /\ \A k \in DOMAIN s : ~ flags!is_paired(s[k], f)
           \/ \E p \in DOMAIN s : /\ flags!is_paired(s[p], f)
                                  /\ flags!erase_pairs(Append(s, f)) = flags!RemoveAt(s, p)
<1> DEFINE t == Append(s, f)
           l == Len(s)
           n == Len(t)
           States == Erased(s, f) \cup {Waiting(s, f, k) : k \in 1..(l + 2)}
           start == [flags |-> t, i |-> 1]
           step == [p \in States \X (1..n) |-> flags!erase_pair(p[1])]
           Further(g, i) == flags!erase_pair(g[i - 1])
           IsRound(g) == g = [i \in 0..n |-> IF i = 0 THEN start ELSE Further(g, i)]
           round == CHOOSE g : IsRound(g)
<1>1. l \in Nat /\ n = l + 1 /\ n \in Nat /\ DOMAIN s = 1..l
    OBVIOUS
<1>2. flags!erase_pairs(t) = round[n].flags
    BY DEF flags!erase_pairs
<1>0. 0 \in 0..n /\ (\A i \in 0..n : i # 0 <=> i \in 1..n) /\ n \in 0..n /\ \A i \in 1..n : i \in 0..n
    BY <1>1
<1>3. start = Waiting(s, f, 1) /\ start \in States
    <2>1. 1 \in 1..(l + 2)
        BY <1>1
    <2> QED
        BY <2>1 DEF Waiting
<1>4. \A a \in States : flags!erase_pair(a) \in States
    <2> SUFFICES ASSUME NEW k \in 1..(l + 2) PROVE flags!erase_pair(Waiting(s, f, k)) \in States
        BY RoundCases
    <2>1. k \in DOMAIN s \/ k = l + 1 \/ k = l + 2
        BY <1>1
    <2>2. k \in DOMAIN s => k + 1 \in 1..(l + 2)
        BY <1>1
    <2>3. l + 2 \in 1..(l + 2)
        BY <1>1
    <2> QED
        BY <2>1, <2>2, <2>3, RoundCases
<1> HIDE DEF n, t
<1>5. IsRound(round)
    <2>1. step \in [States \X (1..n) -> States]
        BY <1>4
    <2> HIDE DEF step, States, start
    <2>2. PICK g : Recursive(g, n, States, start, step)
        BY <1>1, <1>3, <2>1, Recursion
    <2>3. g \in [0..n -> States] /\ g[0] = start /\ \A i \in 1..n : g[i] = step[<<g[i - 1], i>>]
        BY <2>2 DEF Recursive
    <2>4. ASSUME NEW i \in 1..n
          PROVE  g[i] = Further(g, i)
        <3>1. g[i - 1] \in States
            BY <1>1, <2>3
        <3>2. <<g[i - 1], i>> \in States \X (1..n)
            BY <3>1
        <3> QED
            BY <2>3, <3>2 DEF step
    <2> HIDE DEF Further
    <2>5. \A i \in 0..n : g[i] = IF i = 0 THEN start ELSE Further(g, i)
        BY <1>0, <2>3, <2>4
    <2>6. IsRound(g)
        BY <2>3, <2>5
    <2> QED
        BY <2>6
<1> HIDE DEF round, start, States
<1>6. round[0] = start /\ \A i \in 1..n : round[i] = Further(round, i)
    <2> HIDE DEF Further
    <2>1. \A i \in 0..n : round[i] = IF i = 0 THEN start ELSE Further(round, i)
        BY <1>5, Zenon
    <2> QED
        BY <1>0, <2>1
<1> HIDE DEF IsRound
<1> DEFINE Good == {i \in 0..n :
               \/ round[i] \in Erased(s, f)
               \/ /\ round[i] = Waiting(s, f, i + 1)
                  /\ \A k \in DOMAIN s : k <= i => ~ flags!is_paired(s[k], f)}
<1>7. Good = 0..n
    <2>1. 0 \in Good
        <3>1. \A k \in DOMAIN s : ~ (k <= 0)
            BY <1>1
        <3>2. round[0] = Waiting(s, f, 0 + 1)
            BY <1>3, <1>6
        <3> QED
            BY <1>0, <3>1, <3>2
    <2>2. ASSUME NEW i \in 1..n, i - 1 \in Good
          PROVE  i \in Good
        <3>1. round[i] = flags!erase_pair(round[i - 1]) /\ i \in 0..n
            BY <1>0, <1>6
        <3>2. CASE round[i - 1] \in Erased(s, f)
            BY <3>1, <3>2, RoundCases
        <3>3. CASE /\ round[i - 1] = Waiting(s, f, (i - 1) + 1)
                   /\ \A k \in DOMAIN s : k <= i - 1 => ~ flags!is_paired(s[k], f)
            <4>1. (i - 1) + 1 = i /\ (i \in DOMAIN s \/ (i = l + 1 /\ i + 1 = l + 2))
                BY <1>1
            <4>2. round[i] = flags!erase_pair(Waiting(s, f, i))
                BY <3>1, <3>3, <4>1
            <4>3. \A k \in DOMAIN s : k <= i => k <= i - 1 \/ k = i
                BY <1>1
            <4>4. CASE i \in DOMAIN s /\ flags!is_paired(s[i], f)
                BY <3>1, <4>2, <4>4, RoundCases
            <4>5. CASE i \in DOMAIN s /\ ~ flags!is_paired(s[i], f)
                <5>1. round[i] = Waiting(s, f, i + 1)
                    BY <4>2, <4>5, RoundCases
                <5> QED
                    BY <3>1, <3>3, <4>3, <4>5, <5>1
            <4>6. CASE i = l + 1 /\ i + 1 = l + 2
                <5>1. round[i] = Waiting(s, f, i + 1)
                    BY <4>2, <4>6, RoundCases
                <5>2. i \notin DOMAIN s
                    BY <1>1, <4>6
                <5> QED
                    BY <3>1, <3>3, <4>3, <5>1, <5>2
            <4> QED
                BY <4>1, <4>4, <4>5, <4>6
        <3> QED
            BY <2>2, <3>2, <3>3
    <2>3. Good \in SUBSET (0..n)
        OBVIOUS
    <2> HIDE DEF Good
    <2> QED
        BY <1>1, <2>1, <2>2, <2>3, Induction
<1>8. n \in Good /\ \A k \in DOMAIN s : k <= n
    BY <1>0, <1>1, <1>7
<1>9. CASE round[n] \in Erased(s, f)
    <2>1. PICK p \in DOMAIN s, k \in Nat \ {0} :
              flags!is_paired(s[p], f) /\ round[n] = [flags |-> flags!RemoveAt(s, p), i |-> k]
        BY <1>9 DEF Erased
    <2>2. round[n].flags = flags!RemoveAt(s, p)
        BY <2>1
    <2> QED
        BY <1>2, <2>1, <2>2 DEF t
<1>10. CASE /\ round[n] = Waiting(s, f, n + 1)
            /\ \A k \in DOMAIN s : k <= n => ~ flags!is_paired(s[k], f)
    <2>1. round[n].flags = t
        BY <1>10 DEF Waiting, t
    <2> QED
        BY <1>2, <1>8, <1>10, <2>1 DEF t
<1> QED
    BY <1>8, <1>9, <1>10

-----------------------------------------------------------------------------
(* Pushing an entry: what it does to the counters.                          *)

\* A pushable entry raises or lowers the counters that its own is among.
LEMMA PushableCounts ==
    ASSUME NEW f \in Pushable, NEW X
    PROVE  /\ f \in Raising(X) <=> flags!CounterOf(f) \in X /\ f.count = 1
           /\ f \in Lowering(X) <=> flags!CounterOf(f) \in X /\ f.count = -1
           /\ f.count \in {1, -1}
BY PushableEntry DEF Raising, Lowering

\* The weight is an integer no further from zero than the vector is long.
LEMMA WeightIsInteger ==
    ASSUME NEW s \in Seq(Pushable), NEW X
    PROVE  /\ Weight(s, X) \in Int /\ Number(s, Raising(X)) \in Nat /\ Number(s, Lowering(X)) \in Nat
           /\ Weight(s, X) >= -Len(s)
<1>0. Number(s, Raising(X)) \in 0..Len(s)
    BY NumberIsNatural
<1>00. Number(s, Lowering(X)) \in 0..Len(s)
    BY NumberIsNatural
<1>1. Len(s) \in Nat
    OBVIOUS
<1> DEFINE a == Number(s, Raising(X))
           b == Number(s, Lowering(X))
<1> HIDE DEF a, b
<1>2. a \in 0..Len(s) /\ b \in 0..Len(s)
    BY <1>0, <1>00 DEF a, b
<1>3. a \in Nat /\ b \in Nat /\ a - b \in Int /\ a - b >= -Len(s)
    BY <1>1, <1>2
<1> QED
    BY <1>3 DEF Weight, a, b

\* An entry appended counts.
LEMMA WeightAppended ==
    ASSUME NEW s \in Seq(Pushable), NEW f \in Pushable, NEW X
    PROVE  Weight(Append(s, f), X)
               = Weight(s, X) + (IF flags!CounterOf(f) \in X THEN f.count ELSE 0)
<1>1. Number(Append(s, f), Raising(X)) = Number(s, Raising(X)) + (IF f \in Raising(X) THEN 1 ELSE 0)
    BY NumberAppended
<1>2. Number(Append(s, f), Lowering(X)) = Number(s, Lowering(X)) + (IF f \in Lowering(X) THEN 1 ELSE 0)
    BY NumberAppended
<1>3. Number(s, Raising(X)) \in Nat /\ Number(s, Lowering(X)) \in Nat
    BY WeightIsInteger
<1>4. /\ f \in Raising(X) <=> flags!CounterOf(f) \in X /\ f.count = 1
      /\ f \in Lowering(X) <=> flags!CounterOf(f) \in X /\ f.count = -1
      /\ f.count \in {1, -1}
    BY PushableCounts
<1> QED
    BY <1>1, <1>2, <1>3, <1>4 DEF Weight

\* An entry removed no longer counts.
LEMMA WeightRemoved ==
    ASSUME NEW s \in Seq(Pushable), NEW p \in DOMAIN s, NEW X
    PROVE  Weight(flags!RemoveAt(s, p), X)
               = Weight(s, X) - (IF flags!CounterOf(s[p]) \in X THEN s[p].count ELSE 0)
<1> DEFINE r == flags!RemoveAt(s, p)
           f == s[p]
<1>0. f \in Pushable
    OBVIOUS
<1>1. \A P : Number(r, P) = Number(s, P) - (IF f \in P THEN 1 ELSE 0)
    BY NumberRemoved
<1> HIDE DEF r, f
<1>2. Number(s, Raising(X)) \in Nat /\ Number(s, Lowering(X)) \in Nat
    BY WeightIsInteger
<1>3. /\ f \in Raising(X) <=> flags!CounterOf(f) \in X /\ f.count = 1
      /\ f \in Lowering(X) <=> flags!CounterOf(f) \in X /\ f.count = -1
      /\ f.count \in {1, -1}
    BY <1>0, PushableCounts
<1>4. Weight(r, X) = Weight(s, X) - (IF flags!CounterOf(f) \in X THEN f.count ELSE 0)
    BY <1>1, <1>2, <1>3 DEF Weight
<1> QED
    BY <1>4 DEF r, f

\* Entries kept count as before, the others no longer.
LEMMA WeightKept ==
    ASSUME NEW s \in Seq(Pushable), NEW kept \in SUBSET DOMAIN s, NEW X
    PROVE  /\ (\A i \in DOMAIN s : flags!CounterOf(s[i]) \in X => i \in kept)
                  => Weight(flags!Kept(s, kept), X) = Weight(s, X)
           /\ (\A i \in kept : flags!CounterOf(s[i]) \notin X)
                  => Weight(flags!Kept(s, kept), X) = 0
<1> DEFINE r == flags!Kept(s, kept)
           among(P) == {i \in kept : s[i] \in P}
<1>1. \A P : Number(r, P) = Cardinality(among(P))
    BY NumberKept
<1>2. \A P : Number(s, P) = Cardinality({i \in DOMAIN s : s[i] \in P})
    BY DEF Number
<1>3. ASSUME \A i \in DOMAIN s : flags!CounterOf(s[i]) \in X => i \in kept
      PROVE  Weight(r, X) = Weight(s, X)
    <2>1. among(Raising(X)) = {i \in DOMAIN s : s[i] \in Raising(X)}
        BY <1>3 DEF Raising
    <2>2. among(Lowering(X)) = {i \in DOMAIN s : s[i] \in Lowering(X)}
        BY <1>3 DEF Lowering
    <2> HIDE DEF r, among
    <2> QED
        BY <1>1, <1>2, <2>1, <2>2 DEF Weight
<1>4. ASSUME \A i \in kept : flags!CounterOf(s[i]) \notin X
      PROVE  Weight(r, X) = 0
    <2>1. among(Raising(X)) = {} /\ among(Lowering(X)) = {}
        BY <1>4 DEF Raising, Lowering
    <2> HIDE DEF r, among
    <2>2. Number(r, Raising(X)) = 0 /\ Number(r, Lowering(X)) = 0
        BY <1>1, <2>1, FS_EmptySet
    <2> QED
        BY <2>2 DEF Weight
<1> QED
    BY <1>3, <1>4 DEF r

\* push_back_active_modifier_flag of a plain or sticky entry.
LEMMA PushedCounts ==
    ASSUME NEW s, Clean(s), NEW f \in Pushable, f.kind # "led_lock"
    PROVE  /\ Clean(flags!push_back_active_modifier_flag(s, f))
           /\ Len(flags!push_back_active_modifier_flag(s, f)) <= Len(s) + 1
           /\ LedOn(flags!push_back_active_modifier_flag(s, f)) <=> LedOn(s)
           /\ \A X : Weight(flags!push_back_active_modifier_flag(s, f), X)
                         = Weight(s, X) + (IF flags!CounterOf(f) \in X THEN f.count ELSE 0)
<1> DEFINE r == flags!push_back_active_modifier_flag(s, f)
<1>1. s \in Seq(Pushable) /\ NoPairs(s) /\ Len(s) \in Nat
    BY DEF Clean
<1>2. f.kind \in {"plain", "sticky"} /\ f.count \in {1, -1}
    BY PushableEntry
<1>3. r = flags!erase_pairs(Append(s, f))
    BY <1>2 DEF flags!push_back_active_modifier_flag
<1> HIDE DEF r
<1>4. CASE r = Append(s, f) /\ \A k \in DOMAIN s : ~ flags!is_paired(s[k], f)
    <2> DEFINE l == Len(s) + 1
    <2>1. r \in Seq(Pushable) /\ DOMAIN r = DOMAIN s \cup {l} /\ r[l] = f /\ l \notin DOMAIN s
          /\ Len(r) = l /\ \A i \in DOMAIN s : r[i] = s[i]
        BY <1>1, <1>4
    <2> HIDE DEF l
    <2>2. NoPairs(r)
        <3>1. ~ flags!is_paired(f, f)
            BY <1>2 DEF flags!is_paired
        <3>2. \A k \in DOMAIN s : ~ flags!is_paired(f, s[k])
            BY <1>1, <1>4, PairedEntry
        <3> QED
            BY <1>1, <1>4, <2>1, <3>1, <3>2 DEF NoPairs
    <2>3. \A i \in DOMAIN r : r[i].kind = "led_lock" => i \in DOMAIN s
        BY <2>1
    <2>4. Clean(r)
        BY <2>1, <2>2, <2>3 DEF Clean
    <2>5. LedOn(r) <=> LedOn(s)
        BY <2>1, <2>3 DEF LedOn
    <2>6. \A X : Weight(r, X) = Weight(s, X) + (IF flags!CounterOf(f) \in X THEN f.count ELSE 0)
        BY <1>1, <1>4, WeightAppended
    <2> QED
        BY <1>1, <2>1, <2>4, <2>5, <2>6 DEF l, r
<1>5. CASE \E p \in DOMAIN s : flags!is_paired(s[p], f) /\ r = flags!RemoveAt(s, p)
    <2>1. PICK p \in DOMAIN s : flags!is_paired(s[p], f) /\ r = flags!RemoveAt(s, p)
        BY <1>5
    <2>2. s[p] \in Pushable
        BY <1>1
    <2>3. flags!CounterOf(s[p]) = flags!CounterOf(f) /\ s[p].count # f.count
        BY <2>1, <2>2, PairedEntry
    <2>4. s[p].kind = f.kind /\ s[p].count = - f.count
        BY <1>2, <2>1 DEF flags!is_paired
    <2>5. r \in Seq(Pushable) /\ Len(r) = Len(s) - 1
          /\ \A j \in DOMAIN r : r[j] = IF j < p THEN s[j] ELSE s[j + 1]
        BY <1>1, <2>1, NumberRemoved
    <2>6. NoPairs(r)
        BY <1>1, <2>1, RemovedNoPairs
    <2> DEFINE from == [j \in DOMAIN r |-> IF j < p THEN j ELSE j + 1]
    <2>7. \A j \in DOMAIN r : from[j] \in DOMAIN s /\ r[j] = s[from[j]]
        BY <1>1, <2>5
    <2>8. \A j, l \in DOMAIN r : from[j] = from[l] => j = l
        BY <1>1, <2>5
    <2>9. ASSUME NEW i \in DOMAIN s, i # p PROVE \E j \in DOMAIN r : from[j] = i
        <3>1. CASE i < p
            <4>1. i \in DOMAIN r
                BY <1>1, <2>5, <3>1
            <4> QED
                BY <3>1, <4>1
        <3>2. CASE ~ (i < p)
            <4> DEFINE j == i - 1
            <4>1. j \in DOMAIN r /\ ~ (j < p) /\ j + 1 = i
                BY <1>1, <2>5, <2>9, <3>2
            <4>2. from[j] = j + 1
                BY <4>1
            <4> QED
                BY <4>1, <4>2
        <3> QED
            BY <3>1, <3>2
    <2> HIDE DEF from
    <2>10. Clean(r)
        BY <2>5, <2>6, <2>7, <2>8 DEF Clean
    <2>11. LedOn(r) <=> LedOn(s)
        BY <2>4, <2>7, <2>9 DEF LedOn
    <2>12. ASSUME NEW X
           PROVE  Weight(r, X) = Weight(s, X) + (IF flags!CounterOf(f) \in X THEN f.count ELSE 0)
        <3>1. Weight(r, X) = Weight(s, X) - (IF flags!CounterOf(s[p]) \in X THEN s[p].count ELSE 0)
            BY <1>1, <2>1, WeightRemoved
        <3>2. Weight(s, X) \in Int
            BY <1>1, WeightIsInteger
        <3> QED
            BY <1>2, <2>3, <2>4, <3>1, <3>2
    <2> QED
        BY <1>1, <2>5, <2>10, <2>11, <2>12 DEF r
<1> QED
    BY <1>1, <1>3, <1>4, <1>5, ErasedPairs

\* push_back_active_modifier_flag of the led lock: it is there once, or not.
LEMMA PushedLed ==
    ASSUME NEW s, Clean(s), NEW f \in Pushable, f.kind = "led_lock"
    PROVE  /\ Clean(flags!push_back_active_modifier_flag(s, f))
           /\ Len(flags!push_back_active_modifier_flag(s, f)) <= Len(s) + 1
           /\ LedOn(flags!push_back_active_modifier_flag(s, f)) <=> f.count = 1
           /\ \A X : flags!CounterOf(f) \notin X =>
                         Weight(flags!push_back_active_modifier_flag(s, f), X) = Weight(s, X)
<1> DEFINE r == flags!push_back_active_modifier_flag(s, f)
<1>1. s \in Seq(Pushable) /\ NoPairs(s) /\ Len(s) \in Nat
    BY DEF Clean
<1>2. f.count \in {1, -1} /\ f.flag = caps_lock /\ f.device = device_0
      /\ f = [count |-> f.count, kind |-> f.kind, flag |-> f.flag, device |-> f.device]
    BY PushableEntry
<1>3. ASSUME NEW i \in DOMAIN s, s[i].kind = "led_lock"
      PROVE  /\ s[i].count = 1 /\ flags!CounterOf(s[i]) = flags!CounterOf(f)
             /\ s[i] = [count |-> 1, kind |-> f.kind, flag |-> f.flag, device |-> f.device]
    <2>1. s[i].count = 1 /\ s[i] \in Pushable
        BY <1>1, <1>3 DEF Clean
    <2> QED
        BY <1>2, <1>3, <2>1, PushableEntry
<1> HIDE DEF r
<1>4. CASE f.count = 1
    <2> DEFINE kept == {i \in DOMAIN s : s[i] # f}
               u == flags!Kept(s, kept)
               l == Len(u) + 1
    <2>1. r = flags!erase_pairs(Append(u, f))
        BY <1>4 DEF flags!push_back_active_modifier_flag, r
    <2>2. \A i \in kept : s[i].kind # "led_lock"
        BY <1>2, <1>3, <1>4
    <2>3. Clean(u) /\ ~ LedOn(u) /\ Len(u) <= Len(s)
        BY <2>2, KeptClean
    <2>4. \A X : flags!CounterOf(f) \notin X => Weight(u, X) = Weight(s, X)
        <3> SUFFICES ASSUME NEW X, flags!CounterOf(f) \notin X PROVE Weight(u, X) = Weight(s, X)
            OBVIOUS
        <3>1. \A i \in DOMAIN s : flags!CounterOf(s[i]) \in X => i \in kept
            OBVIOUS
        <3> HIDE DEF kept
        <3> QED
            BY <1>1, <3>1, WeightKept DEF kept
    <2> HIDE DEF u, kept
    <2>5. u \in Seq(Pushable) /\ NoPairs(u) /\ Len(u) \in Nat
        BY <2>3 DEF Clean
    <2>6. \A p \in DOMAIN u : ~ flags!is_paired(u[p], f)
        BY <2>3 DEF LedOn, flags!is_paired
    <2>7. r = Append(u, f)
        BY <2>1, <2>5, <2>6, ErasedPairs
    <2>8. r \in Seq(Pushable) /\ DOMAIN r = DOMAIN u \cup {l} /\ r[l] = f /\ l \notin DOMAIN u
          /\ Len(r) = l /\ \A i \in DOMAIN u : r[i] = u[i]
        BY <2>5, <2>7
    <2>9. l <= Len(s) + 1
        BY <1>1, <2>3, <2>5
    <2> HIDE DEF l
    <2>10. \A i \in DOMAIN r : r[i].kind = "led_lock" <=> i = l
        BY <2>3, <2>8 DEF LedOn
    <2>11. NoPairs(r)
        <3>1. ~ flags!is_paired(f, f)
            BY <1>2 DEF flags!is_paired
        <3>2. \A k \in DOMAIN u : ~ flags!is_paired(f, u[k])
            BY <2>3 DEF LedOn, flags!is_paired
        <3> QED
            BY <2>5, <2>6, <2>8, <3>1, <3>2 DEF NoPairs
    <2>12. Clean(r) /\ LedOn(r)
        BY <1>4, <2>8, <2>10, <2>11 DEF Clean, LedOn
    <2>13. \A X : flags!CounterOf(f) \notin X => Weight(r, X) = Weight(s, X)
        <3> SUFFICES ASSUME NEW X, flags!CounterOf(f) \notin X PROVE Weight(r, X) = Weight(s, X)
            OBVIOUS
        <3>1. Weight(r, X) = Weight(u, X) + 0
            BY <2>5, <2>7, WeightAppended
        <3>2. Weight(u, X) \in Int
            BY <2>5, WeightIsInteger
        <3> QED
            BY <2>4, <3>1, <3>2
    <2> QED
        BY <1>4, <2>8, <2>9, <2>12, <2>13 DEF r
<1>5. CASE f.count # 1
    <2> DEFINE kept == {i \in DOMAIN s : ~ flags!is_paired(s[i], f)}
               u == flags!Kept(s, kept)
    <2>1. r = u
        BY <1>5 DEF flags!push_back_active_modifier_flag, r
    <2>2. f.count = -1 /\ 1 = -f.count
        BY <1>2, <1>5
    <2>3. \A i \in DOMAIN s : s[i].kind = "led_lock" => flags!is_paired(s[i], f)
        BY <1>3, <2>2 DEF flags!is_paired
    <2>4. Clean(u) /\ ~ LedOn(u) /\ Len(u) <= Len(s)
        BY <2>3, KeptClean
    <2>5. \A i \in DOMAIN s : flags!is_paired(s[i], f) => flags!CounterOf(s[i]) = flags!CounterOf(f)
        BY <1>1, PairedEntry
    <2>6. \A X : flags!CounterOf(f) \notin X => Weight(u, X) = Weight(s, X)
        <3> SUFFICES ASSUME NEW X, flags!CounterOf(f) \notin X PROVE Weight(u, X) = Weight(s, X)
            OBVIOUS
        <3>1. \A i \in DOMAIN s : flags!CounterOf(s[i]) \in X => i \in kept
            BY <2>5
        <3> HIDE DEF kept
        <3> QED
            BY <1>1, <3>1, WeightKept DEF kept
    <2> HIDE DEF u
    <2>7. Len(u) \in Nat
        BY <2>4 DEF Clean
    <2>8. Len(u) <= Len(s) + 1
        BY <1>1, <2>4, <2>7
    <2> QED
        BY <1>5, <2>1, <2>4, <2>6, <2>8 DEF r
<1> QED
    BY <1>4, <1>5

-----------------------------------------------------------------------------
(* The counters of a clean vector, and what is_pressed makes of them.       *)

Others(m) == flags!Counter!Counted(m)

\* The entries at the indices of s that move x by c.
Movers(s, X, c) == {i \in DOMAIN s : flags!CounterOf(s[i]) \in X /\ s[i].count = c}

\* The movers are those the weight is made of.
LEMMA MoversCount ==
    ASSUME NEW s \in Seq(Pushable), NEW X
    PROVE  /\ Number(s, Raising(X)) = Cardinality(Movers(s, X, 1))
           /\ Number(s, Lowering(X)) = Cardinality(Movers(s, X, -1))
           /\ \A c : IsFiniteSet(Movers(s, X, c)) /\ Movers(s, X, c) \in SUBSET (1..Len(s))
           /\ \A c : Cardinality(Movers(s, X, c)) \in Nat
           /\ \A c : Cardinality(Movers(s, X, c)) = 0 <=> Movers(s, X, c) = {}
<1>1. \A i \in DOMAIN s : s[i] \in flags!Entry
    BY DEF Pushable
<1>2. {i \in DOMAIN s : s[i] \in Raising(X)} = Movers(s, X, 1)
    BY <1>1 DEF Raising, Movers
<1>3. {i \in DOMAIN s : s[i] \in Lowering(X)} = Movers(s, X, -1)
    BY <1>1 DEF Lowering, Movers
<1>4. ASSUME NEW c
      PROVE  /\ IsFiniteSet(Movers(s, X, c)) /\ Movers(s, X, c) \in SUBSET (1..Len(s))
             /\ Cardinality(Movers(s, X, c)) \in Nat
             /\ Cardinality(Movers(s, X, c)) = 0 <=> Movers(s, X, c) = {}
    <2>1. Len(s) \in Nat /\ Movers(s, X, c) \in SUBSET (1..Len(s))
        BY DEF Movers
    <2>2. IsFiniteSet(Movers(s, X, c)) /\ Cardinality(Movers(s, X, c)) \in 0..Len(s)
        BY <2>1, KeptIsFinite
    <2> QED
        BY <2>1, <2>2, FS_EmptySet
<1> QED
    BY <1>2, <1>3, <1>4 DEF Number

\* In a clean vector all entries of a counter have the same sign.
LEMMA OneSign ==
    ASSUME NEW s, Clean(s), NEW x, NEW c \in {1, -1}
    PROVE  1..(c * Weight(s, {x})) = 1..Cardinality(Movers(s, {x}, c))
<1>0. s \in Seq(Pushable) /\ NoPairs(s)
    BY DEF Clean
<1> DEFINE a == Cardinality(Movers(s, {x}, 1))
           b == Cardinality(Movers(s, {x}, -1))
<1>1. Weight(s, {x}) = a - b /\ a \in Nat /\ b \in Nat
    BY <1>0, MoversCount DEF Weight
<1>2. a = 0 \/ b = 0
    <2> SUFFICES ASSUME a # 0, b # 0 PROVE FALSE
        OBVIOUS
    <2>1. PICK i \in DOMAIN s, j \in DOMAIN s : i \in Movers(s, {x}, 1) /\ j \in Movers(s, {x}, -1)
        <3>1. Movers(s, {x}, 1) # {} /\ Movers(s, {x}, -1) # {}
            BY <1>0, MoversCount
        <3> QED
            BY <3>1 DEF Movers
    <2>2. flags!CounterOf(s[i]) = flags!CounterOf(s[j]) /\ s[i].count = 1 /\ s[j].count = -1
        BY <2>1 DEF Movers
    <2>3. s[i] \in Pushable /\ s[j] \in Pushable /\ s[i].count # s[j].count
        BY <1>0, <2>2
    <2>4. flags!is_paired(s[i], s[j])
        BY <2>2, <2>3, PairedEntry
    <2> QED
        BY <1>0, <2>4 DEF NoPairs
<1>3. Cardinality(Movers(s, {x}, c)) = IF c = 1 THEN a ELSE b
    OBVIOUS
<1> HIDE DEF a, b
<1>4. CASE c = 1
    <2>1. c * Weight(s, {x}) = a - b
        BY <1>1, <1>4
    <2>2. 1..(a - b) = 1..a
        BY <1>1, <1>2
    <2> QED
        BY <1>3, <1>4, <2>1, <2>2
<1>5. CASE c = -1
    <2>1. c * Weight(s, {x}) = b - a
        BY <1>1, <1>5
    <2>2. 1..(b - a) = 1..b
        BY <1>1, <1>2
    <2> QED
        BY <1>3, <1>5, <2>1, <2>2
<1> QED
    BY <1>4, <1>5

\* Counting the entries of each counter of X one by one counts them all.
LEMMA UnitsOfAll ==
    ASSUME NEW s \in Seq(Pushable), NEW X, NEW c
    PROVE  LET units == UNION {{<<x, n>> : n \in 1..Cardinality(Movers(s, {x}, c))} : x \in X}
           IN  IsFiniteSet(units) /\ Cardinality(units) = Cardinality(Movers(s, X, c))
<1> DEFINE of(x) == Movers(s, {x}, c)
           all == Movers(s, X, c)
           units == UNION {{<<x, n>> : n \in 1..Cardinality(of(x))} : x \in X}
           at(i) == flags!CounterOf(s[i])
           f == [i \in all |-> <<at(i), Rank(of(at(i)), i)>>]
<1>1. \A x : of(x) \in SUBSET (1..Len(s))
    BY MoversCount
<1>2. Len(s) \in Nat /\ IsFiniteSet(all) /\ all \in SUBSET (1..Len(s))
    <2>1. Len(s) \in Nat
        OBVIOUS
    <2>2. IsFiniteSet(all) /\ all \in SUBSET (1..Len(s))
        BY MoversCount
    <2> QED
        BY <2>1, <2>2
<1>3. \A i \in all : at(i) \in X /\ i \in of(at(i))
    BY DEF Movers
<1>4. \A x \in X : \A i \in of(x) : i \in all /\ at(i) = x
    BY DEF Movers
<1> HIDE DEF of, all, at
<1>5. ASSUME NEW x \in X, NEW n \in 1..Cardinality(of(x))
      PROVE  <<x, n>> \in units
    <2>1. <<x, n>> \in {<<x, k>> : k \in 1..Cardinality(of(x))}
        OBVIOUS
    <2> QED
        BY <2>1, Zenon
<1>6. \A z \in units : \E x \in X : \E n \in 1..Cardinality(of(x)) : z = <<x, n>>
    OBVIOUS
<1> HIDE DEF units
<1>7. f \in [all -> units]
    <2> SUFFICES ASSUME NEW i \in all PROVE <<at(i), Rank(of(at(i)), i)>> \in units
        OBVIOUS
    <2> DEFINE y == at(i)
    <2>1. y \in X /\ i \in of(y) /\ of(y) \in SUBSET (1..Len(s))
        BY <1>1, <1>3
    <2> HIDE DEF y
    <2>2. Rank(of(y), i) \in 1..Cardinality(of(y))
        <3> DEFINE h == i - 1
        <3>1. i \in Nat /\ i # 0 /\ h \in Nat
            BY <1>2, <2>1
        <3>2. Rank(of(y), i) \in Nat /\ Rank(of(y), i) <= Cardinality(of(y))
              /\ Rank(of(y), i) = Rank(of(y), h) + 1
            BY <1>2, <2>1, <3>1, RankGrows
        <3> HIDE DEF h
        <3>3. Rank(of(y), h) \in Nat
            BY <1>2, <2>1, <3>1, RankGrows
        <3>4. Cardinality(of(y)) \in Nat
            BY <1>2, <2>1, KeptIsFinite
        <3> QED
            BY <3>2, <3>3, <3>4
    <2> QED
        BY <1>5, <2>1, <2>2 DEF y
<1>8. ASSUME NEW i \in all, NEW j \in all, f[i] = f[j]
      PROVE  i = j
    <2>1. at(i) = at(j) /\ Rank(of(at(i)), i) = Rank(of(at(i)), j)
        BY <1>8
    <2> DEFINE y == at(i)
    <2>2. i \in of(y) /\ j \in of(y) /\ of(y) \in SUBSET (1..Len(s)) /\ Rank(of(y), i) = Rank(of(y), j)
        BY <1>1, <1>3, <2>1
    <2> HIDE DEF y
    <2>3. i \in Nat /\ j \in Nat /\ Rank(of(y), i) \in Nat
        <3>1. i \in Nat /\ j \in Nat
            BY <1>2
        <3> QED
            BY <1>2, <2>2, <3>1, RankGrows
    <2>4. ~ (i < j) /\ ~ (j < i)
        <3>1. ASSUME i < j PROVE FALSE
            <4>1. Rank(of(y), i) < Rank(of(y), j)
                BY <1>2, <2>2, <3>1, RankIsStrict
            <4> QED
                BY <2>2, <2>3, <4>1
        <3>2. ASSUME j < i PROVE FALSE
            <4>1. Rank(of(y), j) < Rank(of(y), i)
                BY <1>2, <2>2, <3>2, RankIsStrict
            <4> QED
                BY <2>2, <2>3, <4>1
        <3> QED
            BY <3>1, <3>2
    <2> QED
        BY <2>3, <2>4
<1>9. ASSUME NEW z \in units
      PROVE  \E i \in all : f[i] = z
    <2>1. PICK x \in X : \E n \in 1..Cardinality(of(x)) : z = <<x, n>>
        BY <1>6
    <2>11. PICK n \in 1..Cardinality(of(x)) : z = <<x, n>>
        BY <2>1
    <2>2. PICK i \in of(x) : Rank(of(x), i) = n
        BY <1>1, <1>2, RankIsReached
    <2>3. i \in all /\ at(i) = x
        BY <1>4
    <2> QED
        BY <2>11, <2>2, <2>3
<1> HIDE DEF f
<1>10. IsFiniteSet(units) /\ Cardinality(units) = Cardinality(all)
    BY <1>2, <1>7, <1>8, <1>9, SameNumber
<1> QED
    BY <1>10 DEF units, all, of

\* NetCount is the weight of each counter.
LEMMA NetCountIsWeight ==
    ASSUME NEW s \in Seq(Pushable)
    PROVE  flags!NetCount(s) = [x \in flags!Counters |-> Weight(s, {x})]
<1>1. ASSUME NEW x \in flags!Counters, NEW c
      PROVE  flags!Cardinality({i \in DOMAIN s : flags!CounterOf(s[i]) = x /\ s[i].count = c})
                 = Cardinality(Movers(s, {x}, c))
    <2>1. {i \in DOMAIN s : flags!CounterOf(s[i]) = x /\ s[i].count = c} = Movers(s, {x}, c)
        BY DEF Movers
    <2> QED
        BY <2>1, SameCardinality
<1>2. ASSUME NEW x \in flags!Counters
      PROVE  flags!Cardinality({i \in DOMAIN s : flags!CounterOf(s[i]) = x /\ s[i].count = 1})
             - flags!Cardinality({i \in DOMAIN s : flags!CounterOf(s[i]) = x /\ s[i].count = -1})
                 = Weight(s, {x})
    <2>1. Weight(s, {x}) = Cardinality(Movers(s, {x}, 1)) - Cardinality(Movers(s, {x}, -1))
        BY MoversCount DEF Weight
    <2> QED
        BY <1>1, <2>1
<1> QED
    BY <1>2 DEF flags!NetCount

\* The counter of the led lock is a switch, and no other led counter moves.
LEMMA LedWeight ==
    ASSUME NEW s, Clean(s), NEW m, NEW d
    PROVE  Weight(s, {<<"led_lock", m, d>>})
               = IF m = caps_lock /\ d = device_0 /\ LedOn(s) THEN 1 ELSE 0
<1> DEFINE X == {<<"led_lock", m, d>>}
<1>0. s \in Seq(Pushable)
    BY DEF Clean
<1>1. Weight(s, X) = Cardinality(Movers(s, X, 1)) - Cardinality(Movers(s, X, -1))
    BY <1>0, MoversCount DEF Weight
<1>2. ASSUME NEW i \in DOMAIN s
      PROVE  /\ flags!CounterOf(s[i]) \in X <=> s[i].kind = "led_lock" /\ m = caps_lock /\ d = device_0
             /\ s[i].kind = "led_lock" => s[i].count = 1
    <2>1. s[i] \in Pushable
        BY <1>0
    <2>2. s[i].kind = "led_lock" => s[i].flag = caps_lock /\ s[i].device = device_0
        BY <2>1, PushableEntry
    <2>3. s[i].kind = "led_lock" => s[i].count = 1
        BY DEF Clean
    <2> QED
        BY <2>2, <2>3 DEF flags!CounterOf
<1>3. Movers(s, X, -1) = {}
    BY <1>2 DEF Movers
<1>4. CASE m = caps_lock /\ d = device_0 /\ LedOn(s)
    <2>1. PICK i \in DOMAIN s : s[i].kind = "led_lock"
        BY <1>4 DEF LedOn
    <2>2. \A j \in DOMAIN s : s[j].kind = "led_lock" => j = i
        BY <2>1 DEF Clean
    <2>3. Movers(s, X, 1) = {i}
        BY <1>2, <1>4, <2>1, <2>2 DEF Movers
    <2> HIDE DEF X
    <2>4. Cardinality(Movers(s, X, 1)) = 1 /\ Cardinality(Movers(s, X, -1)) = 0
        BY <1>3, <2>3, FS_Singleton, FS_EmptySet
    <2> QED
        BY <1>1, <1>4, <2>4 DEF X
<1>5. CASE ~ (m = caps_lock /\ d = device_0 /\ LedOn(s))
    <2>1. Movers(s, X, 1) = {}
        BY <1>2, <1>5 DEF Movers, LedOn
    <2> HIDE DEF X
    <2>2. Cardinality(Movers(s, X, 1)) = 0 /\ Cardinality(Movers(s, X, -1)) = 0
        BY <1>3, <2>1, FS_EmptySet
    <2>3. Weight(s, X) = 0
        BY <1>1, <2>2
    <2> QED
        BY <1>5, <2>3 DEF X
<1> QED
    BY <1>4, <1>5

\* The counters in X are all zero exactly when no entry moves them.
LEMMA NothingMoves ==
    ASSUME NEW s, Clean(s), NEW X
    PROVE  (\A x \in X : Weight(s, {x}) = 0) <=> Movers(s, X, 1) = {} /\ Movers(s, X, -1) = {}
<1>0. s \in Seq(Pushable)
    BY DEF Clean
<1>1. ASSUME NEW x \in X, Weight(s, {x}) # 0
      PROVE  Movers(s, X, 1) # {} \/ Movers(s, X, -1) # {}
    <2>1. Weight(s, {x}) = Cardinality(Movers(s, {x}, 1)) - Cardinality(Movers(s, {x}, -1))
        BY <1>0, MoversCount DEF Weight
    <2>2. \A c : Movers(s, {x}, c) \in SUBSET Movers(s, X, c)
        BY DEF Movers
    <2>3. Cardinality(Movers(s, {x}, 1)) # 0 \/ Cardinality(Movers(s, {x}, -1)) # 0
        BY <1>1, <2>1
    <2>4. Movers(s, {x}, 1) # {} \/ Movers(s, {x}, -1) # {}
        BY <1>0, <2>3, MoversCount
    <2> QED
        BY <2>2, <2>4
<1>2. ASSUME NEW c \in {1, -1}, NEW i \in Movers(s, X, c)
      PROVE  \E x \in X : Weight(s, {x}) # 0
    <2> DEFINE x == flags!CounterOf(s[i])
    <2>1. x \in X /\ i \in Movers(s, {x}, c)
        BY DEF Movers
    <2> HIDE DEF x
    <2>2. Movers(s, {x}, c) # {}
        BY <2>1
    <2>3. Cardinality(Movers(s, {x}, c)) \in Nat /\ Cardinality(Movers(s, {x}, c)) # 0
        BY <1>0, <2>2, MoversCount
    <2>4. 1..(c * Weight(s, {x})) = 1..Cardinality(Movers(s, {x}, c))
        BY OneSign
    <2>5. 1 \in 1..Cardinality(Movers(s, {x}, c))
        BY <2>3
    <2>6. 1 \in 1..(c * Weight(s, {x}))
        BY <2>4, <2>5, Zenon
    <2>7. Weight(s, {x}) # 0
        <3> SUFFICES ASSUME Weight(s, {x}) = 0 PROVE FALSE
            OBVIOUS
        <3>1. c * 0 = 0
            OBVIOUS
        <3>2. 1 \in 1..0
            BY <2>6, <3>1
        <3> QED
            BY <3>2
    <2> QED
        BY <2>1, <2>7
<1> QED
    BY <1>1, <1>2

\* is_pressed, by the counters of the flag.
LEMMA PressedByWeight ==
    ASSUME NEW s, Clean(s), NEW m \in Flags
    PROVE  flags!is_pressed(s, m) <=>
               IF \A x \in Others(m) : Weight(s, {x}) = 0 THEN m = caps_lock /\ LedOn(s)
               ELSE Cardinality(Movers(s, Others(m), 1)) > Cardinality(Movers(s, Others(m), -1))
<1> DEFINE other(c) == {i \in DOMAIN s : s[i].flag = m /\ s[i].kind # "led_lock" /\ s[i].count = c}
           led(c) == {i \in DOMAIN s : s[i].flag = m /\ s[i].kind = "led_lock" /\ s[i].count = c}
<1>0. s \in Seq(Pushable)
    BY DEF Clean
<1>1. ASSUME NEW i \in DOMAIN s
      PROVE  flags!CounterOf(s[i]) \in Others(m) <=> s[i].flag = m /\ s[i].kind # "led_lock"
    <2>1. s[i] \in Pushable
        BY <1>0
    <2>2. s[i].device \in Devices /\ s[i].kind \in {"plain", "sticky", "led_lock"}
        BY <2>1, PushableEntry
    <2>3. flags!CounterOf(s[i]) = <<s[i].kind, s[i].flag, s[i].device>>
        BY DEF flags!CounterOf
    <2> QED
        BY <2>2, <2>3 DEF Others, flags!Counter!Counted, flags!Counter!Kinds
<1>2. \A c : other(c) = Movers(s, Others(m), c)
    BY <1>1 DEF Movers
<1>3. (other(1) = {} /\ other(-1) = {}) <=> \A x \in Others(m) : Weight(s, {x}) = 0
    <2> HIDE DEF other
    <2> QED
        BY <1>2, NothingMoves
<1>4. flags!Cardinality(led(1)) > flags!Cardinality(led(-1)) <=> m = caps_lock /\ LedOn(s)
    <2>0. ASSUME NEW i \in DOMAIN s, s[i].kind = "led_lock"
          PROVE  s[i].flag = caps_lock /\ s[i].count = 1
        <3>1. s[i] \in Pushable /\ s[i].count = 1
            BY <1>0, <2>0 DEF Clean
        <3> QED
            BY <2>0, <3>1, PushableEntry
    <2>1. led(-1) = {}
        BY <2>0
    <2>2. led(1) = {} <=> ~ (m = caps_lock /\ LedOn(s))
        BY <2>0 DEF LedOn
    <2>3. IsFiniteSet(led(1)) /\ Cardinality(led(1)) \in Nat
        <3>1. Len(s) \in Nat /\ led(1) \in SUBSET (1..Len(s))
            BY <1>0
        <3> HIDE DEF led
        <3> QED
            BY <3>1, KeptIsFinite
    <2> HIDE DEF led
    <2>4. Cardinality(led(1)) = 0 <=> led(1) = {}
        BY <2>3, FS_EmptySet
    <2>5. Cardinality(led(-1)) = 0
        BY <2>1, FS_EmptySet
    <2>6. flags!Cardinality(led(1)) = Cardinality(led(1)) /\ flags!Cardinality(led(-1)) = Cardinality(led(-1))
        BY SameCardinality
    <2> QED
        BY <2>2, <2>3, <2>4, <2>5, <2>6
<1>5. flags!is_pressed(s, m) <=>
          IF other(1) = {} /\ other(-1) = {} THEN flags!Cardinality(led(1)) > flags!Cardinality(led(-1))
          ELSE flags!Cardinality(other(1)) > flags!Cardinality(other(-1))
    BY DEF flags!is_pressed
<1> HIDE DEF other, led
<1>6. \A c : flags!Cardinality(other(c)) = Cardinality(Movers(s, Others(m), c))
    BY <1>2, SameCardinality
<1> QED
    BY <1>3, <1>4, <1>5, <1>6

\* Cardinality in the module of the counters is the same operator too.
LEMMA SameCounterCardinality ==
    ASSUME NEW S
    PROVE  flags!Counter!Cardinality(S) = Cardinality(S)
BY Zenon DEF flags!Counter!Cardinality, Cardinality, flags!Counter!IsFiniteSet, IsFiniteSet

\* is_pressed is the verdict of the counters.
LEMMA PressedIsCounted ==
    ASSUME Clean(active_modifier_flags)
    PROVE  flags!PressedByCounter
<1> DEFINE s == active_modifier_flags
           net == flags!NetCount(s)
<1>1. s \in Seq(Pushable)
    BY DEF Clean
<1>2. net = [x \in flags!Counters |-> Weight(s, {x})]
    BY <1>1, NetCountIsWeight
<1>3. SUFFICES ASSUME NEW m \in Flags
               PROVE  flags!is_pressed(s, m) <=> flags!Counter!Pressed(m)
    BY DEF flags!PressedByCounter
<1>4. \A x \in Others(m) : x \in flags!Counters
    BY DEF Others, flags!Counter!Counted, flags!Counters, flags!Counter!Kinds, flags!Kinds
<1>5. flags!Counter!Led(m) = <<"led_lock", m, device_0>> /\ flags!Counter!Led(m) \in flags!Counters
    BY FlagsAssumption DEF flags!Counter!Led, flags!Counters, flags!Kinds, flags!FlagAssumption
<1> HIDE DEF net
<1>6. \A x \in Others(m) : net[x] = Weight(s, {x})
    BY <1>2, <1>4
<1>7. net[flags!Counter!Led(m)] = 1 <=> m = caps_lock /\ LedOn(s)
    <2>1. net[flags!Counter!Led(m)] = Weight(s, {<<"led_lock", m, device_0>>})
        BY <1>2, <1>5
    <2> QED
        BY <2>1, LedWeight
<1>8. ASSUME NEW c \in {1, -1}
      PROVE  flags!Counter!Cardinality(flags!Counter!Units(m, c)) = Cardinality(Movers(s, Others(m), c))
    <2> DEFINE units == UNION {{<<x, n>> : n \in 1..Cardinality(Movers(s, {x}, c))} : x \in Others(m)}
               one(x) == {<<x, n>> : n \in 1..(c * net[x])}
               each(x) == {<<x, n>> : n \in 1..Cardinality(Movers(s, {x}, c))}
    <2>1. \A x \in Others(m) : 1..(c * net[x]) = 1..Cardinality(Movers(s, {x}, c))
        BY <1>6, OneSign
    <2>2. \A x \in Others(m) : one(x) = each(x)
        BY <2>1
    <2>3. flags!Counter!Units(m, c) = UNION {one(x) : x \in Others(m)}
        BY DEF flags!Counter!Units, Others, net
    <2>4. units = UNION {each(x) : x \in Others(m)}
        OBVIOUS
    <2>5. Cardinality(units) = Cardinality(Movers(s, Others(m), c))
        BY <1>1, UnitsOfAll
    <2> HIDE DEF units, one, each
    <2>6. {one(x) : x \in Others(m)} = {each(x) : x \in Others(m)}
        BY <2>2
    <2> QED
        BY <2>3, <2>4, <2>5, <2>6, SameCounterCardinality
<1>9. flags!Counter!Pressed(m) <=>
          IF \A x \in Others(m) : net[x] = 0 THEN net[flags!Counter!Led(m)] = 1
          ELSE flags!Counter!Cardinality(flags!Counter!Units(m, 1))
                   > flags!Counter!Cardinality(flags!Counter!Units(m, -1))
    BY DEF flags!Counter!Pressed, Others, net
<1>10. flags!is_pressed(s, m) <=>
          IF \A x \in Others(m) : Weight(s, {x}) = 0 THEN m = caps_lock /\ LedOn(s)
          ELSE Cardinality(Movers(s, Others(m), 1)) > Cardinality(Movers(s, Others(m), -1))
    BY PressedByWeight
<1> QED
    BY <1>6, <1>7, <1>8, <1>9, <1>10

-----------------------------------------------------------------------------
(* Each call moves the counters as ModifierFlagCounter says.                *)

\* A plain or sticky entry moves its counter.
LEMMA PushMoves ==
    ASSUME NEW s, Clean(s), NEW f \in Pushable, f.kind # "led_lock"
    PROVE  flags!NetCount(flags!push_back_active_modifier_flag(s, f))
               = [flags!NetCount(s) EXCEPT ![flags!CounterOf(f)] = @ + f.count]
<1> DEFINE r == flags!push_back_active_modifier_flag(s, f)
           x == flags!CounterOf(f)
<1>1. s \in Seq(Pushable) /\ r \in Seq(Pushable)
    BY PushedCounts DEF Clean
<1>2. \A X : Weight(r, X) = Weight(s, X) + (IF x \in X THEN f.count ELSE 0)
    BY PushedCounts
<1>3. x \in flags!Counters /\ f.count \in {1, -1}
    BY PushableEntry
<1> HIDE DEF r, x
<1>4. \A y \in flags!Counters : Weight(r, {y}) = IF y = x THEN Weight(s, {y}) + f.count ELSE Weight(s, {y})
    <2> SUFFICES ASSUME NEW y \in flags!Counters
                 PROVE  Weight(r, {y}) = IF y = x THEN Weight(s, {y}) + f.count ELSE Weight(s, {y})
        OBVIOUS
    <2>1. Weight(r, {y}) = Weight(s, {y}) + (IF x = y THEN f.count ELSE 0)
        BY <1>2
    <2>2. Weight(s, {y}) \in Int
        BY <1>1, WeightIsInteger
    <2> QED
        BY <2>1, <2>2
<1>5. flags!NetCount(s) = [y \in flags!Counters |-> Weight(s, {y})]
    BY <1>1, NetCountIsWeight
<1>6. flags!NetCount(r) = [y \in flags!Counters |-> Weight(r, {y})]
    BY <1>1, NetCountIsWeight
<1>7. flags!NetCount(r) = [flags!NetCount(s) EXCEPT ![x] = @ + f.count]
    BY <1>3, <1>4, <1>5, <1>6
<1> QED
    BY <1>7 DEF r, x

\* The led lock switches its counter.
LEMMA PushSwitches ==
    ASSUME NEW s, Clean(s), NEW f \in Pushable, f.kind = "led_lock"
    PROVE  flags!NetCount(flags!push_back_active_modifier_flag(s, f))
               = [flags!NetCount(s) EXCEPT ![flags!Counter!Led(caps_lock)] = IF f.count = 1 THEN 1 ELSE 0]
<1> DEFINE r == flags!push_back_active_modifier_flag(s, f)
           x == flags!Counter!Led(caps_lock)
<1>1. s \in Seq(Pushable) /\ Clean(r) /\ r \in Seq(Pushable)
    BY PushedLed DEF Clean
<1>2. flags!CounterOf(f) = <<"led_lock", caps_lock, device_0>> /\ flags!CounterOf(f) \in flags!Counters
    BY PushableEntry
<1>3. x = flags!CounterOf(f)
    BY <1>2 DEF flags!Counter!Led
<1>4. Weight(r, {x}) = IF f.count = 1 THEN 1 ELSE 0
    <2> HIDE DEF r
    <2>1. Weight(r, {x}) = IF LedOn(r) THEN 1 ELSE 0
        BY <1>1, <1>2, <1>3, LedWeight
    <2>2. LedOn(r) <=> f.count = 1
        BY PushedLed DEF r
    <2> QED
        BY <2>1, <2>2
<1>5. \A y \in flags!Counters : y # x => Weight(r, {y}) = Weight(s, {y})
    <2> SUFFICES ASSUME NEW y \in flags!Counters, y # x PROVE Weight(r, {y}) = Weight(s, {y})
        OBVIOUS
    <2>1. flags!CounterOf(f) \notin {y}
        BY <1>3
    <2> QED
        BY <2>1, PushedLed
<1> HIDE DEF r, x
<1>6. flags!NetCount(s) = [y \in flags!Counters |-> Weight(s, {y})]
    BY <1>1, NetCountIsWeight
<1>7. flags!NetCount(r) = [y \in flags!Counters |-> Weight(r, {y})]
    BY <1>1, NetCountIsWeight
<1>8. flags!NetCount(r) = [flags!NetCount(s) EXCEPT ![x] = IF f.count = 1 THEN 1 ELSE 0]
    <2>1. x \in flags!Counters
        BY <1>2, <1>3
    <2> QED
        BY <1>4, <1>5, <1>6, <1>7, <2>1
<1> QED
    BY <1>8 DEF r, x

\* Dropping all entries of some counters sets them to zero.
LEMMA KeptForgets ==
    ASSUME NEW s, Clean(s), NEW kept \in SUBSET DOMAIN s, NEW forgotten,
           \A i \in DOMAIN s : i \in kept <=> flags!CounterOf(s[i]) \notin forgotten
    PROVE  flags!NetCount(flags!Kept(s, kept))
               = [x \in flags!Counters |-> IF x \in forgotten THEN 0 ELSE flags!NetCount(s)[x]]
<1> DEFINE r == flags!Kept(s, kept)
<1>1. s \in Seq(Pushable)
    BY DEF Clean
<1>2. r \in Seq(Pushable)
    BY <1>1, TakenKept
<1>3. ASSUME NEW x
      PROVE  Weight(r, {x}) = IF x \in forgotten THEN 0 ELSE Weight(s, {x})
    <2>1. CASE x \in forgotten
        <3>1. \A i \in kept : flags!CounterOf(s[i]) \notin {x}
            BY <2>1
        <3> QED
            BY <1>1, <2>1, <3>1, WeightKept
    <2>2. CASE x \notin forgotten
        <3>1. \A i \in DOMAIN s : flags!CounterOf(s[i]) \in {x} => i \in kept
            BY <2>2
        <3> QED
            BY <1>1, <2>2, <3>1, WeightKept
    <2> QED
        BY <2>1, <2>2
<1> HIDE DEF r
<1>4. flags!NetCount(s) = [y \in flags!Counters |-> Weight(s, {y})]
    BY <1>1, NetCountIsWeight
<1>5. flags!NetCount(r) = [y \in flags!Counters |-> Weight(r, {y})]
    BY <1>2, NetCountIsWeight
<1>6. flags!NetCount(r) = [x \in flags!Counters |-> IF x \in forgotten THEN 0 ELSE flags!NetCount(s)[x]]
    BY <1>3, <1>4, <1>5
<1> QED
    BY <1>6 DEF r

\* What the actions push is pushable.
LEMMA ActionEntry ==
    ASSUME NEW c \in {1, -1}, NEW k \in {"plain", "sticky", "led_lock"}, NEW m \in Flags,
           NEW d \in Devices, k = "led_lock" => m = caps_lock
    PROVE  /\ flags!ActiveModifierFlag(c, k, m, d) \in Pushable
           /\ flags!ActiveModifierFlag(c, k, m, d).count = c
           /\ flags!ActiveModifierFlag(c, k, m, d).kind = k
           /\ flags!ActiveModifierFlag(c, k, m, d).flag = m
           /\ k # "led_lock" => flags!CounterOf(flags!ActiveModifierFlag(c, k, m, d)) = <<k, m, d>>
<1> DEFINE e == IF k = "led_lock" THEN device_0 ELSE d
<1>1. e \in Devices /\ (k = "led_lock" => e = device_0) /\ (k # "led_lock" => e = d)
    BY FlagsAssumption DEF flags!FlagAssumption
<1>2. flags!ActiveModifierFlag(c, k, m, d) = [count |-> c, kind |-> k, flag |-> m, device |-> e]
    BY DEF flags!ActiveModifierFlag
<1> HIDE DEF e
<1> QED
    BY <1>1, <1>2 DEF Pushable, flags!Entry, flags!Kinds, flags!CounterOf

\* The invariant: the vector is clean, and no longer than its bound.
FlagsInv == Clean(active_modifier_flags) /\ Len(active_modifier_flags) <= MaxEntries

\* A plain or sticky entry pushed by an action.
LEMMA PushActionIsCounted ==
    ASSUME FlagsInv, flags!MayGrow, NEW c \in {1, -1}, NEW k \in {"plain", "sticky"},
           NEW m \in Flags, NEW d \in Devices, flags!Push(c, k, m, d)
    PROVE  FlagsInv' /\ flags!Counter!Next
<1> DEFINE f == flags!ActiveModifierFlag(c, k, m, d)
           s == active_modifier_flags
           t == flags!push_back_active_modifier_flag(s, f)
<1>1. f \in Pushable /\ f.kind # "led_lock" /\ f.count = c /\ flags!CounterOf(f) = <<k, m, d>>
    BY ActionEntry
<1>2. Clean(s) /\ active_modifier_flags' = t /\ Len(s) \in Nat /\ Len(s) < MaxEntries /\ MaxEntries \in Nat
    BY FlagsAssumption DEF FlagsInv, flags!Push, Clean, flags!MayGrow, flags!FlagAssumption
<1> HIDE DEF f
<1>3. Clean(t) /\ Len(t) <= Len(s) + 1
    BY <1>1, <1>2, PushedCounts
<1>4. flags!NetCount(t) = [flags!NetCount(s) EXCEPT ![<<k, m, d>>] = @ + c]
    BY <1>1, <1>2, PushMoves
<1> HIDE DEF t, s
<1>5. Len(t) <= MaxEntries
    <2>1. Len(t) \in Nat
        BY <1>3 DEF Clean
    <2> QED
        BY <1>2, <1>3, <2>1
<1>6. FlagsInv'
    BY <1>2, <1>3, <1>5 DEF FlagsInv
<1>7. flags!Counter!Move(<<k, m, d>>, c)
    BY <1>2, <1>4 DEF flags!Counter!Move, s
<1> QED
    BY <1>6, <1>7 DEF flags!Counter!Next

\* The led lock pushed by caps_lock_state_changed.
LEMMA LedActionIsCounted ==
    ASSUME FlagsInv, flags!MayGrow, NEW on \in BOOLEAN, flags!CapsLockStateChanged(on)
    PROVE  FlagsInv' /\ flags!Counter!Next
<1> DEFINE c == IF on THEN 1 ELSE -1
           f == flags!ActiveModifierFlag(c, "led_lock", caps_lock, device_0)
           s == active_modifier_flags
           t == flags!push_back_active_modifier_flag(s, f)
<1>0. c \in {1, -1} /\ (c = 1 <=> on) /\ caps_lock \in Flags /\ device_0 \in Devices /\ MaxEntries \in Nat
    BY FlagsAssumption DEF flags!FlagAssumption
<1>1. f \in Pushable /\ f.kind = "led_lock" /\ f.count = c
    <2> HIDE DEF c
    <2> QED
        BY <1>0, ActionEntry
<1>2. Clean(s) /\ active_modifier_flags' = t /\ Len(s) \in Nat /\ Len(s) < MaxEntries
    BY DEF FlagsInv, flags!CapsLockStateChanged, flags!Push, Clean, flags!MayGrow
<1> HIDE DEF f, c
<1>3. Clean(t) /\ Len(t) <= Len(s) + 1
    BY <1>1, <1>2, PushedLed
<1>4. flags!NetCount(t) = [flags!NetCount(s) EXCEPT ![flags!Counter!Led(caps_lock)] = IF on THEN 1 ELSE 0]
    <2>1. flags!NetCount(t) = [flags!NetCount(s) EXCEPT ![flags!Counter!Led(caps_lock)] = IF f.count = 1 THEN 1 ELSE 0]
        BY <1>1, <1>2, PushSwitches
    <2> QED
        BY <1>0, <1>1, <2>1
<1> HIDE DEF t, s
<1>5. Len(t) <= MaxEntries
    <2>1. Len(t) \in Nat
        BY <1>3 DEF Clean
    <2> QED
        BY <1>0, <1>2, <1>3, <2>1
<1>6. FlagsInv'
    BY <1>2, <1>3, <1>5 DEF FlagsInv
<1>7. flags!Counter!SwitchLed(on)
    BY <1>2, <1>4 DEF flags!Counter!SwitchLed, s
<1> QED
    BY <1>6, <1>7 DEF flags!Counter!Next

\* Entries kept by an action.
LEMMA KeepActionIsCounted ==
    ASSUME FlagsInv, NEW kept \in SUBSET DOMAIN active_modifier_flags, NEW forgotten,
           \A i \in DOMAIN active_modifier_flags :
               i \in kept <=> flags!CounterOf(active_modifier_flags[i]) \notin forgotten,
           active_modifier_flags' = flags!Kept(active_modifier_flags, kept)
    PROVE  FlagsInv' /\ flags!Counter!Forget(forgotten)
<1> DEFINE s == active_modifier_flags
           t == flags!Kept(s, kept)
<1>1. Clean(s) /\ Len(s) <= MaxEntries /\ Len(s) \in Nat /\ MaxEntries \in Nat
    BY FlagsAssumption DEF FlagsInv, Clean, flags!FlagAssumption
<1>2. Clean(t) /\ Len(t) <= Len(s)
    BY <1>1, KeptClean
<1>3. flags!NetCount(t) = [x \in flags!Counters |-> IF x \in forgotten THEN 0 ELSE flags!NetCount(s)[x]]
    BY <1>1, KeptForgets
<1>4. active_modifier_flags' = t
    OBVIOUS
<1> HIDE DEF t, s
<1>5. Len(t) <= MaxEntries
    <2>1. Len(t) \in Nat
        BY <1>2 DEF Clean
    <2> QED
        BY <1>1, <1>2, <2>1
<1>6. FlagsInv'
    BY <1>2, <1>4, <1>5 DEF FlagsInv
<1>7. flags!Counters = flags!Counter!Counters
    BY DEF flags!Counters, flags!Counter!Counters, flags!Kinds, flags!Counter!Kinds
<1>8. flags!Counter!Forget(forgotten)
    BY <1>3, <1>4, <1>7 DEF flags!Counter!Forget, s
<1> QED
    BY <1>6, <1>8

\* Every call keeps the vector clean and is a step of the counters.
LEMMA ActionsAreCounted ==
    ASSUME FlagsInv, flags!Next
    PROVE  FlagsInv' /\ [flags!Counter!Next]_(flags!NetCount(active_modifier_flags))
<1> DEFINE s == active_modifier_flags
<1>0. s \in Seq(Pushable) /\ Clean(s)
    BY DEF FlagsInv, Clean
<1>01. ASSUME NEW i \in DOMAIN s
       PROVE  /\ flags!CounterOf(s[i]) = <<s[i].kind, s[i].flag, s[i].device>>
              /\ s[i].kind \in flags!Counter!Kinds /\ s[i].flag \in Flags /\ s[i].device \in Devices
    <2>1. s[i] \in Pushable
        BY <1>0
    <2> QED
        BY <2>1, PushableEntry DEF flags!Counter!Kinds
<1>1. CASE flags!MayGrow /\ \E c \in {1, -1}, m \in Flags, d \in Devices : flags!ModifierKeyEvent(c, m, d)
    <2>1. PICK c \in {1, -1}, m \in Flags, d \in Devices : flags!Push(c, "plain", m, d)
        BY <1>1 DEF flags!ModifierKeyEvent
    <2>2. "plain" \in {"plain", "sticky"}
        OBVIOUS
    <2> QED
        BY <1>1, <2>1, <2>2, PushActionIsCounted
<1>2. CASE flags!MayGrow /\ \E t \in {"on", "off", "toggle"}, m \in Flags, d \in Devices :
                                flags!StickyModifier(t, m, d)
    <2>1. PICK c \in {1, -1}, m \in Flags, d \in Devices : flags!Push(c, "sticky", m, d)
        <3>1. PICK t \in {"on", "off", "toggle"}, m \in Flags, d \in Devices : flags!StickyModifier(t, m, d)
            BY <1>2
        <3>2. PICK lower : lower = (t = "off" \/ (t = "toggle" /\ flags!sticky_size(s, m) > 0))
            OBVIOUS
        <3>3. flags!Push(IF lower THEN -1 ELSE 1, "sticky", m, d)
            BY <3>1, <3>2 DEF flags!StickyModifier
        <3> QED
            BY <3>3
    <2>2. "sticky" \in {"plain", "sticky"}
        OBVIOUS
    <2> QED
        BY <1>2, <2>1, <2>2, PushActionIsCounted
<1>3. CASE flags!MayGrow /\ \E on \in BOOLEAN : flags!CapsLockStateChanged(on)
    BY <1>3, LedActionIsCounted
<1>4. CASE flags!OtherKeyDown
    <2> DEFINE kept == {i \in DOMAIN s : s[i].kind # "sticky"}
               forgotten == {"sticky"} \X Flags \X Devices
    <2>1. \A i \in DOMAIN s : i \in kept <=> flags!CounterOf(s[i]) \notin forgotten
        BY <1>01
    <2>2. active_modifier_flags' = flags!Kept(s, kept)
        BY <1>4 DEF flags!OtherKeyDown, flags!erase_all_sticky_modifier_flags
    <2>3. kept \in SUBSET DOMAIN s
        OBVIOUS
    <2> HIDE DEF kept, forgotten
    <2>4. FlagsInv' /\ flags!Counter!Forget(forgotten)
        BY <2>1, <2>2, <2>3, KeepActionIsCounted
    <2> QED
        BY <2>4 DEF flags!Counter!Next, forgotten
<1>5. ASSUME NEW d \in Devices, flags!DeviceUngrabbed(d)
      PROVE  FlagsInv' /\ flags!Counter!Next
    <2> DEFINE kept == {i \in DOMAIN s : s[i].device # d}
               forgotten == flags!Counter!OfDevice(flags!Counter!Kinds, d)
    <2>1. \A i \in DOMAIN s : i \in kept <=> flags!CounterOf(s[i]) \notin forgotten
        BY <1>01 DEF flags!Counter!OfDevice
    <2>2. active_modifier_flags' = flags!Kept(s, kept)
        BY <1>5 DEF flags!DeviceUngrabbed, flags!erase_all_active_modifier_flags
    <2>3. kept \in SUBSET DOMAIN s
        OBVIOUS
    <2> HIDE DEF kept, forgotten
    <2>4. FlagsInv' /\ flags!Counter!Forget(forgotten)
        BY <2>1, <2>2, <2>3, KeepActionIsCounted
    <2> QED
        BY <2>4 DEF flags!Counter!Next, forgotten
<1>6. ASSUME NEW d \in Devices, flags!DeviceKeysReleased(d)
      PROVE  FlagsInv' /\ flags!Counter!Next
    <2> DEFINE kept == {i \in DOMAIN s : ~ (s[i].device = d /\ s[i].kind = "plain")}
               u == flags!Kept(s, kept)
               rest == {i \in DOMAIN u : ~ (u[i].flag = caps_lock /\ u[i].kind = "sticky")}
               r == flags!Kept(u, rest)
               plain == flags!Counter!OfDevice({"plain"}, d)
               sticky == flags!Counter!CapsLockStickies
    <2>1. \A i \in DOMAIN s : i \in kept <=> flags!CounterOf(s[i]) \notin plain
        BY <1>01 DEF flags!Counter!OfDevice
    <2>2. active_modifier_flags' = r
        BY <1>6 DEF flags!DeviceKeysReleased, flags!erase_caps_lock_sticky_modifier_flags,
                    flags!erase_all_active_modifier_flags_except_lock_and_sticky
    <2>3. kept \in SUBSET DOMAIN s
        OBVIOUS
    <2> HIDE DEF kept, plain
    <2>4. Clean(u) /\ Len(u) <= Len(s)
        BY <1>0, <2>3, KeptClean
    <2>5. flags!NetCount(u) = [x \in flags!Counters |-> IF x \in plain THEN 0 ELSE flags!NetCount(s)[x]]
        BY <1>0, <2>1, <2>3, KeptForgets
    <2> HIDE DEF u
    <2>6. \A i \in DOMAIN u : i \in rest <=> flags!CounterOf(u[i]) \notin sticky
        <3> SUFFICES ASSUME NEW i \in DOMAIN u PROVE i \in rest <=> flags!CounterOf(u[i]) \notin sticky
            OBVIOUS
        <3>1. u[i] \in Pushable
            BY <2>4 DEF Clean
        <3>2. flags!CounterOf(u[i]) = <<u[i].kind, u[i].flag, u[i].device>> /\ u[i].device \in Devices
            BY <3>1, PushableEntry
        <3> QED
            BY <3>2 DEF flags!Counter!CapsLockStickies
    <2>7. rest \in SUBSET DOMAIN u
        OBVIOUS
    <2> HIDE DEF rest, sticky
    <2>8. Clean(r) /\ Len(r) <= Len(u)
        BY <2>4, <2>7, KeptClean
    <2>9. flags!NetCount(r) = [x \in flags!Counters |-> IF x \in sticky THEN 0 ELSE flags!NetCount(u)[x]]
        BY <2>4, <2>6, <2>7, KeptForgets
    <2> HIDE DEF r, s
    <2>10. flags!NetCount(r) = [x \in flags!Counters |-> IF x \in plain \cup sticky THEN 0 ELSE flags!NetCount(s)[x]]
        BY <2>5, <2>9
    <2>11. Len(r) <= MaxEntries
        <3>1. Len(r) \in Nat /\ Len(u) \in Nat /\ Len(s) \in Nat /\ MaxEntries \in Nat
            BY <1>0, <2>4, <2>8, FlagsAssumption DEF Clean, flags!FlagAssumption
        <3>2. Len(s) <= MaxEntries
            BY DEF FlagsInv, s
        <3> QED
            BY <2>4, <2>8, <3>1, <3>2
    <2>12. FlagsInv'
        BY <2>2, <2>8, <2>11 DEF FlagsInv
    <2>13. flags!Counters = flags!Counter!Counters
        BY DEF flags!Counters, flags!Counter!Counters, flags!Kinds, flags!Counter!Kinds
    <2>14. flags!Counter!Forget(plain \cup sticky)
        BY <2>2, <2>10, <2>13 DEF flags!Counter!Forget, s
    <2> QED
        BY <2>12, <2>14 DEF flags!Counter!Next, plain, sticky
<1> QED
    BY <1>1, <1>2, <1>3, <1>4, <1>5, <1>6 DEF flags!Next

\* The empty vector moves nothing.
LEMMA WeightOfNothing ==
    ASSUME NEW X
    PROVE  <<>> \in Seq(Pushable) /\ Weight(<<>>, X) = 0
<1>1. Movers(<<>>, X, 1) = {} /\ Movers(<<>>, X, -1) = {}
    BY DEF Movers
<1>2. <<>> \in Seq(Pushable)
    OBVIOUS
<1>3. Weight(<<>>, X) = Cardinality(Movers(<<>>, X, 1)) - Cardinality(Movers(<<>>, X, -1))
    BY <1>2, MoversCount DEF Weight
<1>4. Cardinality(Movers(<<>>, X, 1)) = 0 /\ Cardinality(Movers(<<>>, X, -1)) = 0
    BY <1>1, FS_EmptySet, Zenon
<1> QED
    BY <1>2, <1>3, <1>4

\* At the start every counter is zero.
LEMMA CountersStart ==
    ASSUME flags!Init
    PROVE  FlagsInv /\ flags!Counter!Init
<1>1. active_modifier_flags = <<>>
    BY DEF flags!Init
<1>2. Clean(<<>>)
    BY DEF Clean, NoPairs
<1>3. FlagsInv
    BY <1>1, <1>2, FlagsAssumption DEF FlagsInv, flags!FlagAssumption
<1>4. flags!NetCount(<<>>) = [x \in flags!Counters |-> Weight(<<>>, {x})]
    BY <1>2, NetCountIsWeight DEF Clean
<1>5. \A x : Weight(<<>>, {x}) = 0
    BY WeightOfNothing
<1>6. flags!Counters = flags!Counter!Counters
    BY DEF flags!Counters, flags!Counter!Counters, flags!Kinds, flags!Counter!Kinds
<1>7. flags!NetCount(active_modifier_flags) = [x \in flags!Counter!Counters |-> 0]
    BY <1>1, <1>4, <1>5, <1>6
<1> QED
    BY <1>3, <1>7 DEF flags!Counter!Init

\* Between two calls the vector of modifier flags holds no pair of entries that
\* cancel each other and at most one led lock, within its bound
\* (modifier_flag_manager).
THEOREM FlagsAreClean == OutputsSpec => []FlagsInv
<1>1. OutputsInit => FlagsInv
    BY CountersStart DEF OutputsInit
<1>2. FlagsInv /\ [OutputsNext]_<<component, active_modifier_flags, vars>> => FlagsInv'
    <2> SUFFICES ASSUME FlagsInv, [OutputsNext]_<<component, active_modifier_flags, vars>> PROVE FlagsInv'
        OBVIOUS
    <2>1. CASE flags!Next
        BY <2>1, ActionsAreCounted
    <2>2. CASE UNCHANGED active_modifier_flags
        BY <2>2 DEF FlagsInv
    <2> QED
        BY <2>1, <2>2 DEF OutputsNext
<1> QED
    BY <1>1, <1>2, PTL DEF OutputsSpec

\* The vector implements one signed counter for each kind, flag and device, and
\* is_pressed is the verdict of the counters (modifier_flag_manager).
THEOREM FlagsAreCounted == OutputsSpec => ImplementsCounter
<1>1. OutputsInit => flags!Counter!Init
    BY CountersStart DEF OutputsInit
<1>2. FlagsInv /\ [OutputsNext]_<<component, active_modifier_flags, vars>>
          => [component = "flags" => [flags!Counter!Next]_(flags!NetCount(active_modifier_flags))]_active_modifier_flags
    <2> SUFFICES ASSUME FlagsInv, [OutputsNext]_<<component, active_modifier_flags, vars>>,
                        ~ UNCHANGED active_modifier_flags
                 PROVE  [flags!Counter!Next]_(flags!NetCount(active_modifier_flags))
        OBVIOUS
    <2>1. flags!Next
        BY DEF OutputsNext
    <2> QED
        BY <2>1, ActionsAreCounted
<1>3. FlagsInv => (component = "flags" => flags!PressedByCounter)
    BY PressedIsCounted DEF FlagsInv
<1> QED
    BY <1>1, <1>2, <1>3, FlagsAreClean, PTL DEF OutputsSpec, ImplementsCounter

-----------------------------------------------------------------------------
(* Scopes: pushing one entry after the other.                               *)

\* X is about other counters than the led lock.
NoLed(X) == <<"led_lock", caps_lock, device_0>> \notin X

\* is_pressed again: with a positive sum the flag is pressed.
LEMMA PressedBySum ==
    ASSUME NEW s, Clean(s), NEW m \in Flags
    PROVE  /\ flags!is_pressed(s, m) <=>
                  IF \A x \in Others(m) : Weight(s, {x}) = 0 THEN m = caps_lock /\ LedOn(s)
                  ELSE Weight(s, Others(m)) > 0
           /\ Weight(s, Others(m)) > 0 => flags!is_pressed(s, m)
<1> DEFINE X == Others(m)
           a == Cardinality(Movers(s, X, 1))
           b == Cardinality(Movers(s, X, -1))
<1>0. s \in Seq(Pushable)
    BY DEF Clean
<1>1. Weight(s, X) = a - b /\ a \in Nat /\ b \in Nat
    BY <1>0, MoversCount DEF Weight
<1>2. flags!is_pressed(s, m) <=>
          IF \A x \in X : Weight(s, {x}) = 0 THEN m = caps_lock /\ LedOn(s) ELSE a > b
    BY PressedByWeight
<1>3. (\A x \in X : Weight(s, {x}) = 0) => a = 0
    <2>1. (\A x \in X : Weight(s, {x}) = 0) => Movers(s, X, 1) = {}
        BY NothingMoves
    <2> HIDE DEF X
    <2> QED
        BY <2>1, FS_EmptySet
<1> HIDE DEF a, b
<1>4. a > b <=> Weight(s, X) > 0
    BY <1>1
<1>5. Weight(s, X) > 0 => a # 0
    BY <1>1
<1> QED
    BY <1>2, <1>3, <1>4, <1>5

\* A prefix and its next element.
LEMMA PrefixGrows ==
    ASSUME NEW q \in Seq(Pushable)
    PROVE  /\ SubSeq(q, 1, 0) = <<>> /\ SubSeq(q, 1, Len(q)) = q
           /\ \A i \in 1..Len(q) : /\ SubSeq(q, 1, i - 1) \in Seq(Pushable)
                                   /\ SubSeq(q, 1, i) = Append(SubSeq(q, 1, i - 1), q[i])
<1>1. SubSeq(q, 1, 0) = <<>> /\ SubSeq(q, 1, Len(q)) = q
    OBVIOUS
<1>2. ASSUME NEW i \in 1..Len(q)
      PROVE  SubSeq(q, 1, i - 1) \in Seq(Pushable) /\ SubSeq(q, 1, i) = Append(SubSeq(q, 1, i - 1), q[i])
    <2> DEFINE a == SubSeq(q, 1, i - 1)
               b == SubSeq(q, 1, i)
    <2>1. a \in Seq(Pushable) /\ Len(a) = i - 1 /\ \A j \in 1..(i - 1) : a[j] = q[j]
        OBVIOUS
    <2>2. b \in Seq(Pushable) /\ Len(b) = i /\ \A j \in 1..i : b[j] = q[j]
        OBVIOUS
    <2> DEFINE d == Append(a, q[i])
    <2> HIDE DEF a, b
    <2>3. d \in Seq(Pushable) /\ Len(d) = i /\ \A j \in 1..i : d[j] = q[j]
        BY <2>1
    <2> HIDE DEF d
    <2>4. b = d
        BY <2>2, <2>3
    <2> QED
        BY <2>1, <2>4 DEF a, b, d
<1> QED
    BY <1>1, <1>2

\* One push: what holds of any pushable entry.
LEMMA PushedAny ==
    ASSUME NEW s, Clean(s), NEW f \in Pushable
    PROVE  /\ Clean(flags!push_back_active_modifier_flag(s, f))
           /\ LedOn(flags!push_back_active_modifier_flag(s, f)) <=>
                  IF f.kind = "led_lock" THEN f.count = 1 ELSE LedOn(s)
           /\ \A X : NoLed(X) =>
                  Weight(flags!push_back_active_modifier_flag(s, f), X)
                      = Weight(s, X) + (IF flags!CounterOf(f) \in X THEN f.count ELSE 0)
<1>1. CASE f.kind # "led_lock"
    BY <1>1, PushedCounts
<1>2. CASE f.kind = "led_lock"
    <2>1. flags!CounterOf(f) = <<"led_lock", caps_lock, device_0>>
        BY <1>2, PushableEntry
    <2>2. ASSUME NEW X, NoLed(X)
          PROVE  Weight(flags!push_back_active_modifier_flag(s, f), X)
                      = Weight(s, X) + (IF flags!CounterOf(f) \in X THEN f.count ELSE 0)
        <3>1. flags!CounterOf(f) \notin X
            BY <2>1, <2>2 DEF NoLed
        <3>2. Weight(flags!push_back_active_modifier_flag(s, f), X) = Weight(s, X)
            BY <1>2, <3>1, PushedLed
        <3>3. Weight(s, X) \in Int
            BY WeightIsInteger DEF Clean
        <3> QED
            BY <3>1, <3>2, <3>3
    <2> QED
        BY <1>2, <2>2, PushedLed
<1> QED
    BY <1>1, <1>2

\* A list of pushes adds its weight; its led entries, all of one sign, decide
\* about the led lock.
LEMMA PushedAll ==
    ASSUME NEW s, Clean(s), NEW q \in Seq(Pushable), NEW c,
           \A j \in DOMAIN q : q[j].kind = "led_lock" => q[j].count = c
    PROVE  /\ Clean(flags!push_all(s, q))
           /\ LedOn(flags!push_all(s, q)) <=>
                  IF \E j \in DOMAIN q : q[j].kind = "led_lock" THEN c = 1 ELSE LedOn(s)
           /\ \A X : NoLed(X) => Weight(flags!push_all(s, q), X) = Weight(s, X) + Weight(q, X)
<1> DEFINE n == Len(q)
           States == {r \in Seq(Pushable) : Clean(r)}
           step == [p \in States \X (1..n) |-> flags!push_back_active_modifier_flag(p[1], q[p[2]])]
           Further(g, i) == flags!push_back_active_modifier_flag(g[i - 1], q[i])
           IsAfter(g) == g = [i \in 0..n |-> IF i = 0 THEN s ELSE Further(g, i)]
           after == CHOOSE g : IsAfter(g)
           prefix(i) == SubSeq(q, 1, i)
<1>1. n \in Nat /\ DOMAIN q = 1..n /\ \A i \in 1..n : q[i] \in Pushable
    OBVIOUS
<1>2. flags!push_all(s, q) = after[n]
    BY DEF flags!push_all
<1>3. s \in States
    BY DEF Clean
<1>4. prefix(0) = <<>> /\ prefix(n) = q
      /\ \A i \in 1..n : prefix(i - 1) \in Seq(Pushable) /\ prefix(i) = Append(prefix(i - 1), q[i])
    BY PrefixGrows
<1> HIDE DEF n, prefix
<1>0. 0 \in 0..n /\ (\A i \in 0..n : i # 0 <=> i \in 1..n) /\ n \in 0..n /\ \A i \in 1..n : i \in 0..n
    BY <1>1
<1>5. IsAfter(after)
    <2>1. step \in [States \X (1..n) -> States]
        <3>1. ASSUME NEW p \in States \X (1..n)
              PROVE  flags!push_back_active_modifier_flag(p[1], q[p[2]]) \in States
            <4>1. Clean(p[1]) /\ q[p[2]] \in Pushable
                BY <1>1
            <4>2. Clean(flags!push_back_active_modifier_flag(p[1], q[p[2]]))
                BY <4>1, PushedAny
            <4> QED
                BY <4>2 DEF Clean
        <3> HIDE DEF States
        <3> QED
            BY <3>1
    <2> HIDE DEF step, States
    <2>2. PICK g : Recursive(g, n, States, s, step)
        BY <1>1, <1>3, <2>1, Recursion
    <2>3. g \in [0..n -> States] /\ g[0] = s /\ \A i \in 1..n : g[i] = step[<<g[i - 1], i>>]
        BY <2>2 DEF Recursive
    <2>4. ASSUME NEW i \in 1..n
          PROVE  g[i] = Further(g, i)
        <3>1. g[i - 1] \in States
            BY <1>1, <2>3
        <3>2. <<g[i - 1], i>> \in States \X (1..n)
            BY <3>1
        <3> QED
            BY <2>3, <3>2 DEF step
    <2> HIDE DEF Further
    <2>5. \A i \in 0..n : g[i] = IF i = 0 THEN s ELSE Further(g, i)
        BY <1>0, <2>3, <2>4
    <2>6. IsAfter(g)
        BY <2>3, <2>5
    <2> QED
        BY <2>6
<1> HIDE DEF after, States
<1>6. after[0] = s /\ \A i \in 1..n : after[i] = Further(after, i)
    <2> HIDE DEF Further
    <2>1. \A i \in 0..n : after[i] = IF i = 0 THEN s ELSE Further(after, i)
        BY <1>5, Zenon
    <2> QED
        BY <1>0, <2>1
<1> HIDE DEF IsAfter
<1> DEFINE Good == {i \in 0..n :
               /\ Clean(after[i])
               /\ LedOn(after[i]) <=> IF \E j \in 1..n : j <= i /\ q[j].kind = "led_lock" THEN c = 1
                                      ELSE LedOn(s)
               /\ \A X : NoLed(X) => Weight(after[i], X) = Weight(s, X) + Weight(prefix(i), X)}
<1>7. Good = 0..n
    <2>1. 0 \in Good
        <3>1. \A j \in 1..n : ~ (j <= 0)
            BY <1>1
        <3>2. \A X : Weight(s, X) \in Int /\ Weight(prefix(0), X) = 0
            BY <1>4, WeightIsInteger, WeightOfNothing DEF Clean
        <3>3. \A X : Weight(s, X) = Weight(s, X) + Weight(prefix(0), X)
            BY <3>2
        <3> QED
            BY <1>0, <1>6, <3>1, <3>3
    <2>2. ASSUME NEW i \in 1..n, i - 1 \in Good
          PROVE  i \in Good
        <3> DEFINE a == after[i - 1]
                   f == q[i]
                   h == i - 1
        <3>1. /\ Clean(a)
              /\ LedOn(a) <=> IF \E j \in 1..n : j <= h /\ q[j].kind = "led_lock" THEN c = 1 ELSE LedOn(s)
              /\ \A X : NoLed(X) => Weight(a, X) = Weight(s, X) + Weight(prefix(h), X)
            BY <2>2
        <3>2. f \in Pushable /\ i \in 0..n /\ (f.kind = "led_lock" => f.count = c)
            BY <1>0, <1>1
        <3>3. after[i] = flags!push_back_active_modifier_flag(a, f)
            BY <1>6
        <3>4. \A j \in 1..n : j <= i <=> j <= h \/ j = i
            BY <1>1
        <3>5. prefix(h) \in Seq(Pushable) /\ prefix(i) = Append(prefix(h), f)
            BY <1>4
        <3> HIDE DEF a, h, f
        <3>6. /\ Clean(after[i])
              /\ LedOn(after[i]) <=> IF f.kind = "led_lock" THEN f.count = 1 ELSE LedOn(a)
              /\ \A X : NoLed(X) => Weight(after[i], X)
                            = Weight(a, X) + (IF flags!CounterOf(f) \in X THEN f.count ELSE 0)
            BY <3>1, <3>2, <3>3, PushedAny
        <3>7. ASSUME NEW X, NoLed(X)
              PROVE  Weight(after[i], X) = Weight(s, X) + Weight(prefix(i), X)
            <4> DEFINE w == IF flags!CounterOf(f) \in X THEN f.count ELSE 0
            <4>1. Weight(prefix(i), X) = Weight(prefix(h), X) + w
                BY <3>2, <3>5, WeightAppended
            <4>2. Weight(prefix(h), X) \in Int /\ Weight(s, X) \in Int
                BY <3>5, WeightIsInteger DEF Clean
            <4>3. w \in Int
                <5>1. f.count \in {1, -1}
                    BY <3>2, PushableEntry
                <5> QED
                    BY <5>1
            <4>4. Weight(after[i], X) = Weight(a, X) + w /\ Weight(a, X) = Weight(s, X) + Weight(prefix(h), X)
                BY <3>1, <3>6, <3>7
            <4> HIDE DEF w
            <4> QED
                BY <4>1, <4>2, <4>3, <4>4
        <3>8. LedOn(after[i]) <=> IF \E j \in 1..n : j <= i /\ q[j].kind = "led_lock" THEN c = 1 ELSE LedOn(s)
            <4>1. (\E j \in 1..n : j <= i /\ q[j].kind = "led_lock")
                      <=> (\E j \in 1..n : j <= h /\ q[j].kind = "led_lock") \/ f.kind = "led_lock"
                BY <3>4 DEF f
            <4> QED
                BY <3>1, <3>2, <3>6, <4>1
        <3> QED
            BY <3>2, <3>6, <3>7, <3>8
    <2>3. Good \in SUBSET (0..n)
        OBVIOUS
    <2> HIDE DEF Good
    <2> QED
        BY <1>1, <2>1, <2>2, <2>3, Induction
<1>8. n \in Good /\ \A j \in 1..n : j <= n
    BY <1>0, <1>1, <1>7
<1> QED
    BY <1>1, <1>2, <1>4, <1>8

-----------------------------------------------------------------------------
(* Scopes: what one flag contributes.                                       *)

\* The counters of a flag are not the led lock's, nor any other flag's.
LEMMA OthersOfFlag ==
    ASSUME NEW m
    PROVE  /\ NoLed(Others(m)) /\ \A x \in Others(m) : NoLed({x})
           /\ \A f \in Pushable : flags!CounterOf(f) \in Others(m) <=> f.flag = m /\ f.kind # "led_lock"
<1>1. NoLed(Others(m)) /\ \A x \in Others(m) : NoLed({x})
    BY DEF NoLed, Others, flags!Counter!Counted
<1>2. ASSUME NEW f \in Pushable
      PROVE  flags!CounterOf(f) \in Others(m) <=> f.flag = m /\ f.kind # "led_lock"
    <2>1. f.device \in Devices /\ f.kind \in {"plain", "sticky", "led_lock"}
          /\ flags!CounterOf(f) = <<f.kind, f.flag, f.device>>
        BY PushableEntry
    <2> QED
        BY <2>1 DEF Others, flags!Counter!Counted, flags!Counter!Kinds
<1> QED
    BY <1>1, <1>2

\* Min of a set of numbers is one of them.
LEMMA MinIsMember ==
    ASSUME NEW S \in SUBSET Nat, S # {}
    PROVE  flags!Min(S) \in S
<1>1. \E n \in S : \A m \in S : n <= m
    BY LeastNumber
<1> QED
    BY <1>1 DEF flags!Min

\* increases raises the flag until it is pressed.
LEMMA IncreasesPress ==
    ASSUME NEW s, Clean(s), NEW m \in Flags
    PROVE  /\ flags!increases(s, m) \in Seq(Pushable)
           /\ \A j \in DOMAIN flags!increases(s, m) :
                  flags!increases(s, m)[j].flag = m /\ flags!increases(s, m)[j].kind = "plain"
           /\ flags!is_pressed(flags!push_all(s, flags!increases(s, m)), m)
<1> DEFINE f == flags!ActiveModifierFlag(1, "plain", m, device_0)
           raise(n) == [i \in 1..n |-> f]
           l == Len(s) + 1
           S == {n \in 0..l : flags!is_pressed(flags!push_all(s, raise(n)), m)}
<1>1. f \in Pushable /\ f.count = 1 /\ f.kind = "plain" /\ f.flag = m
    BY ActionEntry, FlagsAssumption DEF flags!FlagAssumption
<1>2. s \in Seq(Pushable) /\ Len(s) \in Nat /\ l \in Nat
    BY DEF Clean
<1>3. flags!increases(s, m) = raise(flags!Min(S))
    BY DEF flags!increases
<1> HIDE DEF f
<1>4. \A n \in Nat : raise(n) \in Seq(Pushable) /\ DOMAIN raise(n) = 1..n /\ \A i \in 1..n : raise(n)[i] = f
    BY <1>1
<1> HIDE DEF raise
<1>5. l \in S
    <2> DEFINE q == raise(l)
               X == Others(m)
               r == flags!push_all(s, q)
    <2>1. q \in Seq(Pushable) /\ DOMAIN q = 1..l /\ \A i \in 1..l : q[i] = f
        BY <1>2, <1>4
    <2> HIDE DEF q
    <2>2. \A j \in DOMAIN q : q[j].kind # "led_lock"
        BY <1>1, <2>1
    <2>3. Clean(r) /\ Weight(r, X) = Weight(s, X) + Weight(q, X)
        BY <2>1, <2>2, PushedAll, OthersOfFlag
    <2>4. Weight(q, X) = l
        <3>1. flags!CounterOf(f) \in X
            BY <1>1, OthersOfFlag
        <3>2. Movers(q, X, 1) = 1..l /\ Movers(q, X, -1) = {}
            BY <1>1, <2>1, <3>1 DEF Movers
        <3>3. Cardinality(1..l) = l
            BY <1>2, FS_Interval
        <3>4. Cardinality(Movers(q, X, 1)) = l /\ Cardinality(Movers(q, X, -1)) = 0
            BY <3>2, <3>3, FS_EmptySet
        <3>5. Weight(q, X) = Cardinality(Movers(q, X, 1)) - Cardinality(Movers(q, X, -1))
            BY <2>1, MoversCount DEF Weight
        <3> HIDE DEF l
        <3> QED
            BY <1>2, <3>4, <3>5
    <2>5. Weight(s, X) \in Int /\ Weight(s, X) >= -Len(s)
        BY <1>2, WeightIsInteger
    <2> HIDE DEF X
    <2>6. Weight(r, X) > 0
        BY <1>2, <2>3, <2>4, <2>5
    <2> HIDE DEF r
    <2>7. flags!is_pressed(r, m)
        BY <2>3, <2>6, PressedBySum DEF X
    <2> QED
        BY <1>2, <2>7 DEF r, q
<1>6. S \in SUBSET Nat /\ S # {}
    BY <1>2, <1>5
<1> HIDE DEF l, S
<1>7. flags!Min(S) \in S
    BY <1>6, MinIsMember
<1>8. PICK n \in Nat : n = flags!Min(S) /\ flags!is_pressed(flags!push_all(s, raise(n)), m)
    BY <1>6, <1>7 DEF S
<1>9. flags!increases(s, m) = raise(n)
    BY <1>3, <1>8
<1> QED
    BY <1>1, <1>4, <1>8, <1>9

\* The inverse of an entry.
LEMMA InverseOf ==
    ASSUME NEW f \in Pushable, NEW d \in Devices
    PROVE  /\ flags!InverseEntry(f, d) \in Pushable
           /\ flags!InverseEntry(f, d).count = -f.count
           /\ flags!InverseEntry(f, d).kind = f.kind
           /\ flags!InverseEntry(f, d).flag = f.flag
           /\ d = f.device => flags!CounterOf(flags!InverseEntry(f, d)) = flags!CounterOf(f)
<1>1. /\ f.kind \in {"plain", "sticky", "led_lock"} /\ f.count \in {1, -1}
      /\ f.flag \in Flags /\ f.device \in Devices
      /\ flags!CounterOf(f) = <<f.kind, f.flag, f.device>>
      /\ f.kind = "led_lock" => f.flag = caps_lock /\ f.device = device_0
    BY PushableEntry
<1>2. PICK c \in {1, -1} : c = -f.count
    BY <1>1
<1>3. flags!InverseEntry(f, d) = flags!ActiveModifierFlag(c, f.kind, f.flag, d)
    BY <1>2 DEF flags!InverseEntry
<1> DEFINE g == flags!ActiveModifierFlag(c, f.kind, f.flag, d)
<1>4. g \in Pushable /\ g.count = c /\ g.kind = f.kind /\ g.flag = f.flag
    BY <1>1, ActionEntry
<1>5. flags!CounterOf(g) = <<f.kind, f.flag, IF f.kind = "led_lock" THEN device_0 ELSE d>>
    BY DEF flags!ActiveModifierFlag, flags!CounterOf
<1> HIDE DEF g
<1> QED
    BY <1>1, <1>2, <1>3, <1>4, <1>5 DEF g

\* Pushing the inverses makes a pressed flag no longer pressed.
LEMMA InversesRelease ==
    ASSUME NEW s, Clean(s), NEW m \in Flags, flags!is_pressed(s, m)
    PROVE  /\ flags!inverses(s, m) \in Seq(Pushable)
           /\ \A j \in DOMAIN flags!inverses(s, m) : flags!inverses(s, m)[j].flag = m
           /\ \A j \in DOMAIN flags!inverses(s, m) : flags!inverses(s, m)[j].kind = "led_lock"
                  => flags!inverses(s, m)[j].count = -1 /\ LedOn(s)
           /\ ~ flags!is_pressed(flags!push_all(s, flags!inverses(s, m)), m)
<1> DEFINE kept == {i \in DOMAIN s : s[i].flag = m}
           u == flags!Kept(s, kept)
           q == [i \in DOMAIN u |-> flags!InverseEntry(u[i], device_0)]
           X == Others(m)
           r == flags!push_all(s, q)
<1>0. s \in Seq(Pushable) /\ kept \in SUBSET DOMAIN s /\ device_0 \in Devices
    BY FlagsAssumption DEF Clean, flags!FlagAssumption
<1>1. flags!inverses(s, m) = q
    BY DEF flags!inverses
<1>2. u \in Seq(Pushable) /\ Clean(u)
    BY <1>0, KeptClean DEF Clean
<1>3. PICK from : TakenFrom(u, s, from, kept)
    BY <1>0, TakenKept
<1>4. \A j \in DOMAIN u : from[j] \in DOMAIN s /\ u[j] = s[from[j]] /\ u[j].flag = m
    BY <1>3 DEF TakenFrom
<1>5. LedOn(u) <=> LedOn(s) /\ m = caps_lock
    <2>1. LedOn(u) <=> \E i \in kept : s[i].kind = "led_lock"
        BY <1>0, KeptClean
    <2>2. \A i \in DOMAIN s : s[i].kind = "led_lock" => s[i].flag = caps_lock
        <3> SUFFICES ASSUME NEW i \in DOMAIN s PROVE s[i].kind = "led_lock" => s[i].flag = caps_lock
            OBVIOUS
        <3>1. s[i] \in Pushable
            BY <1>0
        <3> QED
            BY <3>1, PushableEntry
    <2> QED
        BY <2>1, <2>2 DEF LedOn
<1> HIDE DEF u
<1>6. ASSUME NEW j \in DOMAIN u
      PROVE  /\ flags!InverseEntry(u[j], device_0) \in Pushable
             /\ flags!InverseEntry(u[j], device_0).count = -u[j].count
             /\ flags!InverseEntry(u[j], device_0).kind = u[j].kind
             /\ flags!InverseEntry(u[j], device_0).flag = m
             /\ u[j].count \in {1, -1}
    <2>1. u[j] \in Pushable
        BY <1>2
    <2> QED
        BY <1>0, <1>4, <2>1, InverseOf, PushableEntry
<1>7. q \in Seq(Pushable) /\ DOMAIN q = DOMAIN u
    <2>1. DOMAIN u = 1..Len(u) /\ Len(u) \in Nat
        BY <1>2
    <2> QED
        BY <1>6, <2>1
<1>8. \A j \in DOMAIN u : /\ q[j] \in Pushable /\ q[j].count = -u[j].count /\ q[j].kind = u[j].kind
                          /\ q[j].flag = m /\ u[j].count \in {1, -1}
    BY <1>6
<1> HIDE DEF q
<1>9. \A j \in DOMAIN q : q[j].kind = "led_lock" => q[j].count = -1 /\ LedOn(s)
    <2> SUFFICES ASSUME NEW j \in DOMAIN q, q[j].kind = "led_lock" PROVE q[j].count = -1 /\ LedOn(s)
        OBVIOUS
    <2>1. j \in DOMAIN u /\ u[j].kind = "led_lock"
        BY <1>7, <1>8
    <2>2. u[j].count = 1
        BY <1>2, <2>1 DEF Clean
    <2>3. LedOn(s)
        BY <1>5, <2>1 DEF LedOn
    <2> QED
        BY <1>8, <2>1, <2>2, <2>3
<1>10. /\ Clean(r) /\ Weight(r, X) = Weight(s, X) + Weight(q, X)
       /\ LedOn(r) <=> LedOn(s) /\ ~ \E j \in DOMAIN q : q[j].kind = "led_lock"
    <2>1. PICK c : c = -1
        OBVIOUS
    <2>2. \A j \in DOMAIN q : q[j].kind = "led_lock" => q[j].count = c
        BY <1>9, <2>1
    <2>3. c # 1
        BY <2>1
    <2>4. NoLed(X)
        BY OthersOfFlag
    <2> HIDE DEF X
    <2>5. /\ Clean(r) /\ Weight(r, X) = Weight(s, X) + Weight(q, X)
          /\ LedOn(r) <=> IF \E j \in DOMAIN q : q[j].kind = "led_lock" THEN c = 1 ELSE LedOn(s)
        BY <1>7, <2>2, <2>4, PushedAll
    <2> QED
        BY <2>3, <2>5
<1>11. Weight(q, X) = -Weight(s, X)
    <2>1. Weight(u, X) = Weight(s, X)
        <3>1. \A i \in DOMAIN s : flags!CounterOf(s[i]) \in X => i \in kept
            <4> SUFFICES ASSUME NEW i \in DOMAIN s, flags!CounterOf(s[i]) \in X PROVE s[i].flag = m
                OBVIOUS
            <4>1. s[i] \in Pushable
                BY <1>0
            <4> QED
                BY <4>1, OthersOfFlag
        <3> HIDE DEF kept, X
        <3> QED
            BY <1>0, <3>1, WeightKept DEF u
    <2>2. \A j \in DOMAIN u : flags!CounterOf(q[j]) \in X <=> flags!CounterOf(u[j]) \in X
        <3> SUFFICES ASSUME NEW j \in DOMAIN u
                     PROVE  flags!CounterOf(q[j]) \in X <=> flags!CounterOf(u[j]) \in X
            OBVIOUS
        <3>1. u[j] \in Pushable /\ q[j] \in Pushable
            BY <1>2, <1>8
        <3>2. flags!CounterOf(q[j]) \in X <=> q[j].flag = m /\ q[j].kind # "led_lock"
            BY <3>1, OthersOfFlag
        <3>3. flags!CounterOf(u[j]) \in X <=> u[j].flag = m /\ u[j].kind # "led_lock"
            BY <3>1, OthersOfFlag
        <3> QED
            BY <1>4, <1>8, <3>2, <3>3
    <2> HIDE DEF X
    <2>3. \A j \in DOMAIN u : (q[j].count = 1 <=> u[j].count = -1) /\ (q[j].count = -1 <=> u[j].count = 1)
        <3> SUFFICES ASSUME NEW j \in DOMAIN u
                     PROVE  (q[j].count = 1 <=> u[j].count = -1) /\ (q[j].count = -1 <=> u[j].count = 1)
            OBVIOUS
        <3>1. q[j].count = -u[j].count /\ u[j].count \in {1, -1}
            BY <1>8
        <3> QED
            BY <3>1
    <2>4. Movers(q, X, 1) = Movers(u, X, -1) /\ Movers(q, X, -1) = Movers(u, X, 1)
        BY <1>7, <2>2, <2>3 DEF Movers
    <2>5. Weight(q, X) = Cardinality(Movers(q, X, 1)) - Cardinality(Movers(q, X, -1))
        BY <1>7, MoversCount DEF Weight
    <2>6. Weight(u, X) = Cardinality(Movers(u, X, 1)) - Cardinality(Movers(u, X, -1))
        BY <1>2, MoversCount DEF Weight
    <2>7. Cardinality(Movers(u, X, 1)) \in Nat /\ Cardinality(Movers(u, X, -1)) \in Nat
        BY <1>2, MoversCount
    <2> QED
        BY <2>1, <2>4, <2>5, <2>6, <2>7
<1>12. ~ flags!is_pressed(r, m)
    <2>1. Weight(s, X) \in Int
        BY <1>0, WeightIsInteger
    <2>2. Weight(r, X) = 0
        <3> HIDE DEF X, r
        <3> QED
            BY <1>10, <1>11, <2>1
    <2>3. ~ (Weight(r, X) > 0)
        <3> HIDE DEF X, r
        <3> QED
            BY <2>2
    <2>4. ~ (m = caps_lock /\ LedOn(r))
        <3> SUFFICES ASSUME m = caps_lock, LedOn(r) PROVE FALSE
            OBVIOUS
        <3>1. LedOn(s) /\ ~ \E j \in DOMAIN q : q[j].kind = "led_lock"
            BY <1>10
        <3>2. PICK j \in DOMAIN u : u[j].kind = "led_lock"
            BY <1>5, <3>1 DEF LedOn
        <3> QED
            BY <1>7, <1>8, <3>1, <3>2
    <2> HIDE DEF r
    <2> QED
        BY <1>10, <2>3, <2>4, PressedBySum
<1>13. \A j \in DOMAIN q : q[j].flag = m
    BY <1>7, <1>8
<1> QED
    BY <1>1, <1>7, <1>9, <1>12, <1>13

\* Two vectors that agree on the counters of a flag agree on whether it is pressed.
LEMMA SamePressed ==
    ASSUME NEW s, Clean(s), NEW r, Clean(r), NEW m \in Flags,
           Weight(r, Others(m)) = Weight(s, Others(m)),
           \A x \in Others(m) : Weight(r, {x}) = Weight(s, {x}),
           m = caps_lock => (LedOn(r) <=> LedOn(s))
    PROVE  flags!is_pressed(r, m) <=> flags!is_pressed(s, m)
<1>1. flags!is_pressed(r, m) <=>
          IF \A x \in Others(m) : Weight(r, {x}) = 0 THEN m = caps_lock /\ LedOn(r)
          ELSE Weight(r, Others(m)) > 0
    BY PressedBySum
<1>2. flags!is_pressed(s, m) <=>
          IF \A x \in Others(m) : Weight(s, {x}) = 0 THEN m = caps_lock /\ LedOn(s)
          ELSE Weight(s, Others(m)) > 0
    BY PressedBySum
<1> QED
    BY <1>1, <1>2

\* What a scope pushes for one flag.
Contribution(s, m, wanted) == IF m \in wanted THEN flags!increases(s, m) ELSE flags!inverses(s, m)

\* The list pushed is about flag m, and lowers the led lock only if it is on.
About(q, s, m) ==
    /\ q \in Seq(Pushable)
    /\ \A j \in DOMAIN q : q[j].flag = m
    /\ \A j \in DOMAIN q : q[j].kind = "led_lock" => q[j].count = -1 /\ LedOn(s)

HasLed(q) == \E j \in DOMAIN q : q[j].kind = "led_lock"

\* What pushing such a list does.
LEMMA AboutFlag ==
    ASSUME NEW s, Clean(s), NEW m \in Flags, NEW q, About(q, s, m)
    PROVE  /\ Clean(flags!push_all(s, q))
           /\ LedOn(flags!push_all(s, q)) <=> LedOn(s) /\ ~ HasLed(q)
           /\ \A X : NoLed(X) => Weight(flags!push_all(s, q), X) = Weight(s, X) + Weight(q, X)
           /\ \A o \in Flags : o # m =>
                  (flags!is_pressed(flags!push_all(s, q), o) <=> flags!is_pressed(s, o))
<1> DEFINE r == flags!push_all(s, q)
<1>0. q \in Seq(Pushable) /\ \A j \in DOMAIN q : q[j].flag = m
    BY DEF About
<1>1. PICK c : c = -1
    OBVIOUS
<1>2. (\A j \in DOMAIN q : q[j].kind = "led_lock" => q[j].count = c) /\ c # 1
    BY <1>1 DEF About
<1>3. /\ Clean(r)
      /\ LedOn(r) <=> IF \E j \in DOMAIN q : q[j].kind = "led_lock" THEN c = 1 ELSE LedOn(s)
      /\ \A X : NoLed(X) => Weight(r, X) = Weight(s, X) + Weight(q, X)
    BY <1>0, <1>2, PushedAll
<1>4. LedOn(r) <=> LedOn(s) /\ ~ HasLed(q)
    BY <1>2, <1>3 DEF HasLed
<1> HIDE DEF r
<1>5. ASSUME NEW o \in Flags, o # m
      PROVE  flags!is_pressed(r, o) <=> flags!is_pressed(s, o)
    <2>1. ASSUME NEW X \in SUBSET Others(o)
          PROVE  Weight(q, X) = 0
        <3>1. \A j \in DOMAIN q : flags!CounterOf(q[j]) \notin X
            <4> SUFFICES ASSUME NEW j \in DOMAIN q PROVE flags!CounterOf(q[j]) \notin Others(o)
                OBVIOUS
            <4>1. q[j] \in Pushable /\ q[j].flag # o
                BY <1>0, <1>5
            <4> QED
                BY <4>1, OthersOfFlag
        <3>2. Movers(q, X, 1) = {} /\ Movers(q, X, -1) = {}
            BY <3>1 DEF Movers
        <3>3. Cardinality(Movers(q, X, 1)) = 0 /\ Cardinality(Movers(q, X, -1)) = 0
            BY <3>2, FS_EmptySet, Zenon
        <3>4. Weight(q, X) = Cardinality(Movers(q, X, 1)) - Cardinality(Movers(q, X, -1))
            BY <1>0, MoversCount DEF Weight
        <3> QED
            BY <3>3, <3>4
    <2>2. ASSUME NEW X \in SUBSET Others(o), NoLed(X)
          PROVE  Weight(r, X) = Weight(s, X)
        <3>1. Weight(r, X) = Weight(s, X) + Weight(q, X) /\ Weight(q, X) = 0
            BY <1>3, <2>1, <2>2
        <3>2. Weight(s, X) \in Int
            BY WeightIsInteger DEF Clean
        <3> QED
            BY <3>1, <3>2
    <2>3. NoLed(Others(o)) /\ \A x \in Others(o) : NoLed({x}) /\ {x} \in SUBSET Others(o)
        BY OthersOfFlag
    <2>4. Weight(r, Others(o)) = Weight(s, Others(o)) /\ \A x \in Others(o) : Weight(r, {x}) = Weight(s, {x})
        BY <2>2, <2>3
    <2>5. o = caps_lock => ~ HasLed(q)
        <3> SUFFICES ASSUME o = caps_lock, HasLed(q) PROVE FALSE
            OBVIOUS
        <3>1. PICK j \in DOMAIN q : q[j].kind = "led_lock"
            BY DEF HasLed
        <3>2. q[j] \in Pushable /\ q[j].flag = m
            BY <1>0
        <3> QED
            BY <1>5, <3>1, <3>2, PushableEntry
    <2> QED
        BY <1>3, <1>4, <2>4, <2>5, SamePressed
<1> QED
    BY <1>3, <1>4, <1>5 DEF r

\* The contribution of a flag makes it pressed or not, as wanted.
LEMMA ContributionWorks ==
    ASSUME NEW s, Clean(s), NEW m \in Flags, NEW wanted
    PROVE  /\ About(Contribution(s, m, wanted), s, m)
           /\ flags!is_pressed(flags!push_all(s, Contribution(s, m, wanted)), m) <=> m \in wanted
<1>1. CASE m \in wanted
    <2>1. Contribution(s, m, wanted) = flags!increases(s, m)
        BY <1>1 DEF Contribution
    <2> DEFINE q == flags!increases(s, m)
    <2>2. /\ q \in Seq(Pushable)
          /\ \A j \in DOMAIN q : q[j].flag = m /\ q[j].kind = "plain"
          /\ flags!is_pressed(flags!push_all(s, q), m)
        BY IncreasesPress
    <2> HIDE DEF q
    <2>3. About(q, s, m)
        BY <2>2 DEF About
    <2> QED
        BY <1>1, <2>1, <2>2, <2>3 DEF q
<1>2. CASE m \notin wanted /\ flags!is_pressed(s, m)
    <2>1. Contribution(s, m, wanted) = flags!inverses(s, m)
        BY <1>2 DEF Contribution
    <2> DEFINE q == flags!inverses(s, m)
    <2>2. /\ q \in Seq(Pushable)
          /\ \A j \in DOMAIN q : q[j].flag = m
          /\ \A j \in DOMAIN q : q[j].kind = "led_lock" => q[j].count = -1 /\ LedOn(s)
          /\ ~ flags!is_pressed(flags!push_all(s, q), m)
        BY <1>2, InversesRelease
    <2> HIDE DEF q
    <2>3. About(q, s, m)
        BY <2>2 DEF About
    <2> QED
        BY <1>2, <2>1, <2>2, <2>3 DEF q
<1>3. CASE m \notin wanted /\ ~ flags!is_pressed(s, m)
    <2>1. PICK q : q = <<>>
        OBVIOUS
    <2>2. Contribution(s, m, wanted) = q
        BY <1>3, <2>1 DEF Contribution, flags!inverses
    <2>3. About(q, s, m) /\ ~ HasLed(q)
        BY <2>1 DEF About, HasLed
    <2> DEFINE r == flags!push_all(s, q)
    <2>4. /\ Clean(r) /\ (LedOn(r) <=> LedOn(s))
          /\ \A X : NoLed(X) => Weight(r, X) = Weight(s, X) + Weight(q, X)
        BY <2>3, AboutFlag
    <2> HIDE DEF r
    <2>5. \A X : NoLed(X) => Weight(r, X) = Weight(s, X)
        <3> SUFFICES ASSUME NEW X, NoLed(X) PROVE Weight(r, X) = Weight(s, X)
            OBVIOUS
        <3>1. Weight(q, X) = 0 /\ Weight(r, X) = Weight(s, X) + Weight(q, X)
            BY <2>1, <2>4, WeightOfNothing
        <3>2. Weight(s, X) \in Int
            BY WeightIsInteger DEF Clean
        <3> QED
            BY <3>1, <3>2
    <2>6. Weight(r, Others(m)) = Weight(s, Others(m)) /\ \A x \in Others(m) : Weight(r, {x}) = Weight(s, {x})
        BY <2>5, OthersOfFlag
    <2>7. flags!is_pressed(r, m) <=> flags!is_pressed(s, m)
        BY <2>4, <2>6, SamePressed
    <2> QED
        BY <1>3, <2>2, <2>3, <2>7 DEF r
<1> QED
    BY <1>1, <1>2, <1>3

\* Two lists pushed one after the other.
LEMMA WeightConcatenated ==
    ASSUME NEW p \in Seq(Pushable), NEW q \in Seq(Pushable), NEW X
    PROVE  p \o q \in Seq(Pushable) /\ Weight(p \o q, X) = Weight(p, X) + Weight(q, X)
<1> DEFINE r == p \o q
           l == Len(p)
           n == Len(q)
<1>1. /\ r \in Seq(Pushable) /\ l \in Nat /\ n \in Nat /\ DOMAIN r = 1..(l + n)
      /\ DOMAIN p = 1..l /\ DOMAIN q = 1..n
      /\ \A i \in 1..l : r[i] = p[i]
      /\ \A i \in 1..n : r[l + i] = q[i]
    OBVIOUS
<1> HIDE DEF r, l, n
<1>2. ASSUME NEW c
      PROVE  Cardinality(Movers(r, X, c)) = Cardinality(Movers(p, X, c)) + Cardinality(Movers(q, X, c))
    <2> DEFINE a == Movers(p, X, c)
               b == Movers(q, X, c)
               d == Movers(r, X, c) \ a
               f == [i \in b |-> l + i]
    <2>1. a \in SUBSET (1..l) /\ b \in SUBSET (1..n)
        BY <1>1 DEF Movers
    <2>2. IsFiniteSet(a) /\ IsFiniteSet(b) /\ IsFiniteSet(Movers(r, X, c))
          /\ Cardinality(a) \in Nat /\ Cardinality(b) \in Nat
        BY <1>1, MoversCount
    <2>3. a \in SUBSET Movers(r, X, c)
        <3> SUFFICES ASSUME NEW i \in a PROVE i \in Movers(r, X, c)
            OBVIOUS
        <3>1. i \in 1..l /\ i \in 1..(l + n)
            BY <1>1, <2>1
        <3> QED
            BY <1>1, <3>1 DEF Movers
    <2>4. \A i \in b : l + i \in d
        <3> SUFFICES ASSUME NEW i \in b PROVE l + i \in d
            OBVIOUS
        <3>1. i \in 1..n /\ l + i \in 1..(l + n) /\ l + i \notin 1..l
            BY <1>1, <2>1
        <3> QED
            BY <1>1, <2>1, <3>1 DEF Movers
    <2>5. ASSUME NEW k \in d PROVE \E i \in b : l + i = k
        <3>1. k \in 1..(l + n) /\ k \in Movers(r, X, c) /\ k \notin a
            BY <1>1 DEF Movers
        <3>2. k \notin 1..l
            BY <1>1, <3>1 DEF Movers
        <3>3. PICK i : i = k - l
            OBVIOUS
        <3>4. i \in 1..n /\ l + i = k
            BY <1>1, <3>1, <3>2, <3>3
        <3>5. i \in b
            BY <1>1, <3>1, <3>4 DEF Movers
        <3> QED
            BY <3>4, <3>5
    <2> HIDE DEF a, b, d
    <2>6. f \in [b -> d] /\ (\A i, j \in b : f[i] = f[j] => i = j) /\ \A k \in d : \E i \in b : f[i] = k
        <3>1. f \in [b -> d]
            BY <2>4
        <3>2. \A i, j \in b : f[i] = f[j] => i = j
            BY <1>1, <2>1
        <3>3. \A k \in d : \E i \in b : f[i] = k
            BY <2>5
        <3> QED
            BY <3>1, <3>2, <3>3
    <2> HIDE DEF f
    <2>7. IsFiniteSet(d) /\ Cardinality(d) = Cardinality(b)
        BY <2>2, <2>6, SameNumber
    <2>8. Movers(r, X, c) = a \cup d /\ a \cap d = {}
        BY <2>3 DEF d
    <2>9. Cardinality(a \cup d) = Cardinality(a) + Cardinality(d) - Cardinality(a \cap d)
        BY <2>2, <2>7, FS_Union
    <2>10. Cardinality(a \cap d) = 0
        BY <2>8, FS_EmptySet
    <2> QED
        BY <2>2, <2>7, <2>8, <2>9, <2>10 DEF a, b
<1>3. /\ Weight(r, X) = Cardinality(Movers(r, X, 1)) - Cardinality(Movers(r, X, -1))
      /\ Weight(p, X) = Cardinality(Movers(p, X, 1)) - Cardinality(Movers(p, X, -1))
      /\ Weight(q, X) = Cardinality(Movers(q, X, 1)) - Cardinality(Movers(q, X, -1))
    BY <1>1, MoversCount DEF Weight
<1>4. /\ Cardinality(Movers(p, X, 1)) \in Nat /\ Cardinality(Movers(p, X, -1)) \in Nat
      /\ Cardinality(Movers(q, X, 1)) \in Nat /\ Cardinality(Movers(q, X, -1)) \in Nat
    BY MoversCount
<1>5. Weight(r, X) = Weight(p, X) + Weight(q, X)
    BY <1>2, <1>3, <1>4
<1> QED
    BY <1>1, <1>5 DEF r

-----------------------------------------------------------------------------
(* Scopes: all flags, and the way back.                                     *)

\* SetToSeq lists every flag once.
LEMMA FlagsInOrder ==
    /\ Len(flags!SetToSeq(Flags)) \in Nat
    /\ flags!SetToSeq(Flags) \in [1..Len(flags!SetToSeq(Flags)) -> Flags]
    /\ \A i, j \in 1..Len(flags!SetToSeq(Flags)) :
           flags!SetToSeq(Flags)[i] = flags!SetToSeq(Flags)[j] => i = j
    /\ \A m \in Flags : \E i \in 1..Len(flags!SetToSeq(Flags)) : flags!SetToSeq(Flags)[i] = m
<1> DEFINE order == flags!SetToSeq(Flags)
           n == Cardinality(Flags)
           Lists(f) == f \in [1..n -> Flags] /\ \A i, j \in 1..n : f[i] = f[j] => i = j
<1>1. IsFiniteSet(Flags)
    BY FlagsAssumption DEF flags!FlagAssumption, flags!IsFiniteSet, IsFiniteSet
<1>2. n \in Nat /\ ExistsBijection(1..n, Flags)
    BY <1>1, FS_CardinalityType
<1>3. \E f : Lists(f)
    BY <1>2 DEF ExistsBijection, Bijection, Injection, IsInjective
<1>4. Lists(order)
    <2>1. flags!Cardinality(Flags) = n
        BY SameCardinality
    <2> HIDE DEF n
    <2>2. order = CHOOSE f \in [1..n -> Flags] : flags!IsInjective(f)
        BY <2>1 DEF flags!SetToSeq
    <2> HIDE DEF order
    <2>3. \E f \in [1..n -> Flags] : flags!IsInjective(f)
        BY <1>3 DEF flags!IsInjective
    <2>4. order \in [1..n -> Flags] /\ flags!IsInjective(order)
        BY <2>2, <2>3
    <2> QED
        BY <2>4 DEF flags!IsInjective
<1> HIDE DEF order, n
<1>5. order \in Injection(1..n, Flags)
    BY <1>4 DEF Injection, IsInjective
<1>6. order \in Surjection(1..n, Flags)
    <2>1. Cardinality(1..n) = n /\ IsFiniteSet(1..n)
        BY <1>2, FS_Interval
    <2>2. Cardinality(1..n) = Cardinality(Flags)
        BY <2>1 DEF n
    <2> QED
        BY <1>1, <1>5, <2>2, FS_Injection
<1>7. \A m \in Flags : \E i \in 1..n : order[i] = m
    BY <1>6 DEF Surjection
<1>8. Len(order) = n
    <2>1. order \in Seq(Flags) /\ DOMAIN order = 1..n
        BY <1>2, <1>4
    <2> QED
        BY <1>2, <2>1
<1> QED
    BY <1>2, <1>4, <1>7, <1>8 DEF order

\* What the constructor of a scope has done to s so far.
ScopeOf(scope, s) ==
    /\ Clean(scope.flags) /\ scope.pushed \in Seq(Pushable)
    /\ \A j \in DOMAIN scope.pushed :
           scope.pushed[j].kind = "led_lock" => scope.pushed[j].count = -1 /\ LedOn(s)
    /\ LedOn(scope.flags) <=> LedOn(s) /\ ~ HasLed(scope.pushed)
    /\ \A X : NoLed(X) => Weight(scope.flags, X) = Weight(s, X) + Weight(scope.pushed, X)

Scopes == [flags : {r \in Seq(Pushable) : Clean(r)}, pushed : Seq(Pushable)]

\* One more flag.
LEMMA ScopeStep ==
    ASSUME NEW scope \in Scopes, NEW m \in Flags, NEW wanted
    PROVE  /\ flags!scope_flag(scope, m, wanted) \in Scopes
           /\ flags!is_pressed(flags!scope_flag(scope, m, wanted).flags, m) <=> m \in wanted
           /\ \A o \in Flags : o # m =>
                  (flags!is_pressed(flags!scope_flag(scope, m, wanted).flags, o)
                       <=> flags!is_pressed(scope.flags, o))
           /\ \A s : Clean(s) /\ ScopeOf(scope, s) => ScopeOf(flags!scope_flag(scope, m, wanted), s)
<1> DEFINE u == scope.flags
           p == scope.pushed
           q == Contribution(u, m, wanted)
           r == flags!push_all(u, q)
           next == flags!scope_flag(scope, m, wanted)
<1>1. Clean(u) /\ p \in Seq(Pushable)
    BY DEF Scopes
<1>2. next = [flags |-> r, pushed |-> p \o q]
    BY DEF flags!scope_flag, Contribution
<1> HIDE DEF u, p, q, r, next
<1>3. next.flags = r /\ next.pushed = p \o q
    BY <1>2
<1> USE DEF q, r
<1>4. About(q, u, m) /\ (flags!is_pressed(r, m) <=> m \in wanted)
    BY <1>1, ContributionWorks
<1> HIDE DEF q
<1>5. /\ Clean(r)
      /\ LedOn(r) <=> LedOn(u) /\ ~ HasLed(q)
      /\ \A X : NoLed(X) => Weight(r, X) = Weight(u, X) + Weight(q, X)
      /\ \A o \in Flags : o # m => (flags!is_pressed(r, o) <=> flags!is_pressed(u, o))
    BY <1>1, <1>4, AboutFlag
<1>6. q \in Seq(Pushable)
    BY <1>4 DEF About
<1> HIDE DEF r
<1>7. p \o q \in Seq(Pushable) /\ \A X : Weight(p \o q, X) = Weight(p, X) + Weight(q, X)
    BY <1>1, <1>6, WeightConcatenated
<1>8. next \in Scopes
    <2>1. r \in Seq(Pushable)
        BY <1>5 DEF Clean
    <2> QED
        BY <1>2, <1>5, <1>7, <2>1 DEF Scopes
<1>9. ASSUME NEW s, Clean(s), ScopeOf(scope, s)
      PROVE  ScopeOf(next, s)
    <2>1. /\ \A j \in DOMAIN p : p[j].kind = "led_lock" => p[j].count = -1 /\ LedOn(s)
          /\ LedOn(u) <=> LedOn(s) /\ ~ HasLed(p)
          /\ \A X : NoLed(X) => Weight(u, X) = Weight(s, X) + Weight(p, X)
        BY <1>9 DEF ScopeOf, u, p
    <2>2. \A j \in DOMAIN q : q[j].kind = "led_lock" => q[j].count = -1 /\ LedOn(s)
        BY <1>4, <2>1 DEF About
    <2> DEFINE a == p \o q
    <2>3. /\ \A j \in DOMAIN a : (\E i \in DOMAIN p : a[j] = p[i]) \/ (\E i \in DOMAIN q : a[j] = q[i])
          /\ \A i \in DOMAIN p : \E j \in DOMAIN a : a[j] = p[i]
          /\ \A i \in DOMAIN q : \E j \in DOMAIN a : a[j] = q[i]
        <3> DEFINE l == Len(p)
                   n == Len(q)
        <3>1. /\ l \in Nat /\ n \in Nat /\ DOMAIN a = 1..(l + n)
              /\ DOMAIN p = 1..l /\ DOMAIN q = 1..n
              /\ \A i \in 1..l : a[i] = p[i]
              /\ \A i \in 1..n : a[l + i] = q[i]
            BY <1>1, <1>6
        <3> HIDE DEF a, l, n
        <3>2. ASSUME NEW j \in DOMAIN a
              PROVE  (\E i \in DOMAIN p : a[j] = p[i]) \/ (\E i \in DOMAIN q : a[j] = q[i])
            <4>1. PICK i : i = j - l
                OBVIOUS
            <4>2. j \in 1..l \/ (i \in 1..n /\ l + i = j)
                BY <3>1, <4>1
            <4> QED
                BY <3>1, <4>2
        <3>3. \A i \in 1..l : i \in 1..(l + n)
            BY <3>1
        <3>4. \A i \in 1..n : l + i \in 1..(l + n)
            BY <3>1
        <3> QED
            BY <3>1, <3>2, <3>3, <3>4
    <2> HIDE DEF a
    <2>4. \A j \in DOMAIN a : a[j].kind = "led_lock" => a[j].count = -1 /\ LedOn(s)
        BY <2>1, <2>2, <2>3
    <2>5. HasLed(a) <=> HasLed(p) \/ HasLed(q)
        BY <2>3 DEF HasLed
    <2>6. LedOn(r) <=> LedOn(s) /\ ~ HasLed(a)
        BY <1>5, <2>1, <2>5
    <2>7. ASSUME NEW X, NoLed(X)
          PROVE  Weight(r, X) = Weight(s, X) + Weight(a, X)
        <3>1. /\ Weight(r, X) = Weight(u, X) + Weight(q, X)
              /\ Weight(u, X) = Weight(s, X) + Weight(p, X)
              /\ Weight(a, X) = Weight(p, X) + Weight(q, X)
            BY <1>5, <1>7, <2>1, <2>7 DEF a
        <3>2. Weight(s, X) \in Int /\ Weight(p, X) \in Int /\ Weight(q, X) \in Int
            BY <1>1, <1>6, <1>9, WeightIsInteger DEF Clean
        <3> QED
            BY <3>1, <3>2
    <2> QED
        BY <1>3, <1>5, <1>7, <2>4, <2>6, <2>7 DEF ScopeOf, a
<1> QED
    BY <1>3, <1>4, <1>5, <1>8, <1>9 DEF next, u

\* The constructor of a scope: exactly the wanted flags are pressed.
LEMMA ScopeOfAll ==
    ASSUME NEW s, Clean(s), NEW wanted
    PROVE  /\ ScopeOf(flags!scoped_modifier_flags(s, wanted), s)
           /\ \A m \in Flags :
                  flags!is_pressed(flags!scoped_modifier_flags(s, wanted).flags, m) <=> m \in wanted
<1> DEFINE order == flags!SetToSeq(Flags)
           n == Len(order)
           start == [flags |-> s, pushed |-> <<>>]
           step == [p \in Scopes \X (1..n) |-> flags!scope_flag(p[1], order[p[2]], wanted)]
           Further(g, i) == flags!scope_flag(g[i - 1], order[i], wanted)
           IsScope(g) == g = [i \in 0..n |-> IF i = 0 THEN start ELSE Further(g, i)]
           scope == CHOOSE g : IsScope(g)
<1>1. /\ n \in Nat /\ \A i \in 1..n : order[i] \in Flags
      /\ \A i, j \in 1..n : order[i] = order[j] => i = j
      /\ \A m \in Flags : \E i \in 1..n : order[i] = m
    BY FlagsInOrder
<1>2. flags!scoped_modifier_flags(s, wanted) = scope[n]
    BY DEF flags!scoped_modifier_flags
<1>3. start \in Scopes /\ start.flags = s /\ start.pushed = <<>>
    <2>1. s \in Seq(Pushable) /\ <<>> \in Seq(Pushable)
        BY DEF Clean
    <2> QED
        BY <2>1 DEF Scopes
<1>4. ScopeOf(start, s)
    <2>1. ~ HasLed(start.pushed) /\ DOMAIN start.pushed = {} /\ start.pushed \in Seq(Pushable)
        BY <1>3 DEF HasLed
    <2>2. \A X : Weight(start.flags, X) = Weight(s, X) + Weight(start.pushed, X)
        <3> SUFFICES ASSUME NEW X PROVE Weight(start.flags, X) = Weight(s, X) + Weight(start.pushed, X)
            OBVIOUS
        <3>1. Weight(start.pushed, X) = 0
            BY <1>3, WeightOfNothing
        <3>2. Weight(s, X) \in Int
            BY WeightIsInteger DEF Clean
        <3> HIDE DEF start
        <3> QED
            BY <1>3, <3>1, <3>2
    <2> HIDE DEF start
    <2> QED
        BY <1>3, <2>1, <2>2 DEF ScopeOf
<1> HIDE DEF n, order, start
<1>0. 0 \in 0..n /\ (\A i \in 0..n : i # 0 <=> i \in 1..n) /\ n \in 0..n /\ \A i \in 1..n : i \in 0..n
    BY <1>1
<1>5. IsScope(scope)
    <2>1. step \in [Scopes \X (1..n) -> Scopes]
        <3>1. ASSUME NEW p \in Scopes \X (1..n)
              PROVE  flags!scope_flag(p[1], order[p[2]], wanted) \in Scopes
            <4>1. p[1] \in Scopes /\ order[p[2]] \in Flags
                BY <1>1
            <4> QED
                BY <4>1, ScopeStep
        <3> QED
            BY <3>1
    <2> HIDE DEF step
    <2>2. PICK g : Recursive(g, n, Scopes, start, step)
        BY <1>1, <1>3, <2>1, Recursion
    <2>3. g \in [0..n -> Scopes] /\ g[0] = start /\ \A i \in 1..n : g[i] = step[<<g[i - 1], i>>]
        BY <2>2 DEF Recursive
    <2>4. ASSUME NEW i \in 1..n
          PROVE  g[i] = Further(g, i)
        <3>1. g[i - 1] \in Scopes
            BY <1>1, <2>3
        <3>2. <<g[i - 1], i>> \in Scopes \X (1..n)
            BY <3>1
        <3> QED
            BY <2>3, <3>2 DEF step
    <2> HIDE DEF Further
    <2>5. \A i \in 0..n : g[i] = IF i = 0 THEN start ELSE Further(g, i)
        BY <1>0, <2>3, <2>4
    <2>6. IsScope(g)
        BY <2>3, <2>5
    <2> QED
        BY <2>6
<1> HIDE DEF scope
<1>6. scope[0] = start /\ \A i \in 1..n : scope[i] = Further(scope, i)
    <2> HIDE DEF Further
    <2>1. \A i \in 0..n : scope[i] = IF i = 0 THEN start ELSE Further(scope, i)
        BY <1>5, Zenon
    <2> QED
        BY <1>0, <2>1
<1> HIDE DEF IsScope
<1> DEFINE Good == {i \in 0..n :
               /\ scope[i] \in Scopes /\ ScopeOf(scope[i], s)
               /\ \A j \in 1..n : j <= i =>
                      (flags!is_pressed(scope[i].flags, order[j]) <=> order[j] \in wanted)}
<1>7. Good = 0..n
    <2>1. 0 \in Good
        <3>1. \A j \in 1..n : ~ (j <= 0)
            BY <1>1
        <3> QED
            BY <1>0, <1>3, <1>4, <1>6, <3>1
    <2>2. ASSUME NEW i \in 1..n, i - 1 \in Good
          PROVE  i \in Good
        <3> DEFINE a == scope[i - 1]
                   h == i - 1
                   m == order[i]
        <3>1. /\ a \in Scopes /\ ScopeOf(a, s)
              /\ \A j \in 1..n : j <= h => (flags!is_pressed(a.flags, order[j]) <=> order[j] \in wanted)
            BY <2>2
        <3>2. m \in Flags /\ i \in 0..n
            BY <1>0, <1>1
        <3>3. scope[i] = flags!scope_flag(a, m, wanted)
            BY <1>6
        <3>4. \A j \in 1..n : j <= i => j = i \/ (j <= h /\ j # i)
            BY <1>1
        <3> HIDE DEF a, h
        <3>5. \A j \in 1..n : j # i => order[j] \in Flags /\ order[j] # m
            BY <1>1
        <3> HIDE DEF m
        <3>6. /\ scope[i] \in Scopes
              /\ flags!is_pressed(scope[i].flags, m) <=> m \in wanted
              /\ \A o \in Flags : o # m =>
                     (flags!is_pressed(scope[i].flags, o) <=> flags!is_pressed(a.flags, o))
            BY <3>1, <3>2, <3>3, ScopeStep
        <3>7. ScopeOf(scope[i], s)
            BY <3>1, <3>2, <3>3, ScopeStep
        <3> QED
            BY <3>1, <3>2, <3>4, <3>5, <3>6, <3>7 DEF m
    <2>3. Good \in SUBSET (0..n)
        OBVIOUS
    <2> HIDE DEF Good
    <2> QED
        BY <1>1, <2>1, <2>2, <2>3, Induction
<1>8. n \in Good /\ \A j \in 1..n : j <= n
    BY <1>0, <1>1, <1>7
<1>9. ASSUME NEW m \in Flags
      PROVE  flags!is_pressed(scope[n].flags, m) <=> m \in wanted
    <2>1. PICK i \in 1..n : order[i] = m
        BY <1>1
    <2> QED
        BY <1>8, <2>1
<1> QED
    BY <1>2, <1>8, <1>9

-----------------------------------------------------------------------------
(* Scopes: what the destructor gives back.                                  *)

\* Pushing the inverse of what the constructor pushed undoes it.
LEMMA ScopeUndone ==
    ASSUME NEW s, Clean(s), NEW scope, ScopeOf(scope, s)
    PROVE  /\ Clean(flags!restore_modifier_flags(scope))
           /\ LedOn(flags!restore_modifier_flags(scope)) <=> LedOn(s)
           /\ \A X : NoLed(X) => Weight(flags!restore_modifier_flags(scope), X) = Weight(s, X)
<1> DEFINE u == scope.flags
           p == scope.pushed
           q == [i \in DOMAIN p |-> flags!InverseEntry(p[i], p[i].device)]
           r == flags!restore_modifier_flags(scope)
<1>1. /\ Clean(u) /\ p \in Seq(Pushable)
      /\ \A j \in DOMAIN p : p[j].kind = "led_lock" => p[j].count = -1 /\ LedOn(s)
      /\ LedOn(u) <=> LedOn(s) /\ ~ HasLed(p)
      /\ \A X : NoLed(X) => Weight(u, X) = Weight(s, X) + Weight(p, X)
    BY DEF ScopeOf
<1>2. r = flags!push_all(u, q)
    BY DEF flags!restore_modifier_flags
<1> HIDE DEF u, p, r
<1>3. ASSUME NEW j \in DOMAIN p
      PROVE  /\ flags!InverseEntry(p[j], p[j].device) \in Pushable
             /\ flags!InverseEntry(p[j], p[j].device).count = -p[j].count
             /\ flags!InverseEntry(p[j], p[j].device).kind = p[j].kind
             /\ flags!CounterOf(flags!InverseEntry(p[j], p[j].device)) = flags!CounterOf(p[j])
             /\ p[j].count \in {1, -1}
    <2>1. p[j] \in Pushable
        BY <1>1
    <2>2. p[j].device \in Devices /\ p[j].count \in {1, -1}
        BY <2>1, PushableEntry
    <2> QED
        BY <2>1, <2>2, InverseOf
<1>4. q \in Seq(Pushable) /\ DOMAIN q = DOMAIN p
    <2>1. DOMAIN p = 1..Len(p) /\ Len(p) \in Nat
        BY <1>1
    <2> QED
        BY <1>3, <2>1
<1>5. \A j \in DOMAIN p : /\ q[j].count = -p[j].count /\ q[j].kind = p[j].kind
                          /\ flags!CounterOf(q[j]) = flags!CounterOf(p[j]) /\ p[j].count \in {1, -1}
    BY <1>3
<1> HIDE DEF q
<1>6. PICK c : c = 1
    OBVIOUS
<1>7. \A j \in DOMAIN q : q[j].kind = "led_lock" => q[j].count = c
    <2> SUFFICES ASSUME NEW j \in DOMAIN q, q[j].kind = "led_lock" PROVE q[j].count = 1
        BY <1>6
    <2>1. j \in DOMAIN p /\ p[j].kind = "led_lock" /\ q[j].count = -p[j].count
        BY <1>4, <1>5
    <2>2. p[j].count = -1
        BY <1>1, <2>1
    <2>3. q[j].count = -p[j].count /\ p[j].count \in {1, -1}
        BY <1>5, <2>1
    <2>4. q[j].count = 1 <=> p[j].count = -1
        BY <2>3
    <2> QED
        BY <2>2, <2>4
<1>8. HasLed(q) <=> HasLed(p)
    BY <1>4, <1>5 DEF HasLed
<1>9. /\ Clean(r)
      /\ LedOn(r) <=> IF \E j \in DOMAIN q : q[j].kind = "led_lock" THEN c = 1 ELSE LedOn(u)
      /\ \A X : NoLed(X) => Weight(r, X) = Weight(u, X) + Weight(q, X)
    BY <1>1, <1>2, <1>4, <1>7, PushedAll
<1>10. LedOn(r) <=> LedOn(s)
    <2>1. HasLed(p) => LedOn(s)
        BY <1>1 DEF HasLed
    <2>2. LedOn(r) <=> HasLed(p) \/ LedOn(u)
        BY <1>6, <1>8, <1>9 DEF HasLed
    <2> QED
        BY <1>1, <2>1, <2>2
<1>11. ASSUME NEW X
       PROVE  Weight(q, X) = -Weight(p, X)
    <2>1. \A j \in DOMAIN p : (q[j].count = 1 <=> p[j].count = -1) /\ (q[j].count = -1 <=> p[j].count = 1)
        <3> SUFFICES ASSUME NEW j \in DOMAIN p
                     PROVE  (q[j].count = 1 <=> p[j].count = -1) /\ (q[j].count = -1 <=> p[j].count = 1)
            OBVIOUS
        <3>1. q[j].count = -p[j].count /\ p[j].count \in {1, -1}
            BY <1>5
        <3> QED
            BY <3>1
    <2>2. Movers(q, X, 1) = Movers(p, X, -1) /\ Movers(q, X, -1) = Movers(p, X, 1)
        BY <1>4, <1>5, <2>1 DEF Movers
    <2>3. Weight(q, X) = Cardinality(Movers(q, X, 1)) - Cardinality(Movers(q, X, -1))
        BY <1>4, MoversCount DEF Weight
    <2>4. Weight(p, X) = Cardinality(Movers(p, X, 1)) - Cardinality(Movers(p, X, -1))
        BY <1>1, MoversCount DEF Weight
    <2>5. Cardinality(Movers(p, X, 1)) \in Nat /\ Cardinality(Movers(p, X, -1)) \in Nat
        BY <1>1, MoversCount
    <2> QED
        BY <2>2, <2>3, <2>4, <2>5
<1>12. ASSUME NEW X, NoLed(X)
       PROVE  Weight(r, X) = Weight(s, X)
    <2>1. /\ Weight(r, X) = Weight(u, X) + Weight(q, X)
          /\ Weight(u, X) = Weight(s, X) + Weight(p, X)
          /\ Weight(q, X) = -Weight(p, X)
        BY <1>1, <1>9, <1>11, <1>12
    <2>2. Weight(s, X) \in Int /\ Weight(p, X) \in Int
        BY <1>1, WeightIsInteger DEF Clean
    <2> QED
        BY <2>1, <2>2
<1> QED
    BY <1>9, <1>10, <1>12 DEF r

\* The entries equal to e are those that move its counter its way.
LEMMA OccurrencesMove ==
    ASSUME NEW s \in Seq(Pushable), NEW e \in Pushable
    PROVE  {i \in DOMAIN s : s[i] = e} = Movers(s, {flags!CounterOf(e)}, e.count)
<1>1. ASSUME NEW i \in DOMAIN s
      PROVE  s[i] = e <=> flags!CounterOf(s[i]) \in {flags!CounterOf(e)} /\ s[i].count = e.count
    <2>1. s[i] \in Pushable
        OBVIOUS
    <2> DEFINE f == s[i]
    <2> HIDE DEF f
    <2>2. /\ flags!CounterOf(f) = <<f.kind, f.flag, f.device>>
          /\ f = [count |-> f.count, kind |-> f.kind, flag |-> f.flag, device |-> f.device]
        BY <2>1, PushableEntry DEF f
    <2>3. /\ flags!CounterOf(e) = <<e.kind, e.flag, e.device>>
          /\ e = [count |-> e.count, kind |-> e.kind, flag |-> e.flag, device |-> e.device]
        BY PushableEntry
    <2>4. ASSUME flags!CounterOf(f) = flags!CounterOf(e), f.count = e.count
          PROVE  f = e
        <3>1. f.kind = e.kind /\ f.flag = e.flag /\ f.device = e.device
            BY <2>2, <2>3, <2>4
        <3> QED
            BY <2>2, <2>3, <2>4, <3>1
    <2> QED
        BY <2>4 DEF f
<1> QED
    BY <1>1 DEF Movers

\* Clean vectors with the same counters have the same entries, each as often.
LEMMA SameBag ==
    ASSUME NEW r, Clean(r), NEW s, Clean(s), LedOn(r) <=> LedOn(s),
           \A X : NoLed(X) => Weight(r, X) = Weight(s, X)
    PROVE  flags!ToBag(r) = flags!ToBag(s)
<1>0. r \in Seq(Pushable) /\ s \in Seq(Pushable)
    BY DEF Clean
<1>1. ASSUME NEW x
      PROVE  Weight(r, {x}) = Weight(s, {x})
    <2>1. CASE NoLed({x})
        BY <2>1
    <2>2. CASE ~ NoLed({x})
        <3>1. x = <<"led_lock", caps_lock, device_0>>
            BY <2>2 DEF NoLed
        <3> QED
            BY <3>1, LedWeight
    <2> QED
        BY <2>1, <2>2
<1> DEFINE Times(t, e) == {i \in DOMAIN t : t[i] = e}
<1>2. ASSUME NEW e \in Pushable
      PROVE  Cardinality(Times(r, e)) = Cardinality(Times(s, e))
    <2> DEFINE x == flags!CounterOf(e)
               c == e.count
               a == Cardinality(Movers(r, {x}, c))
               b == Cardinality(Movers(s, {x}, c))
    <2>1. Times(r, e) = Movers(r, {x}, c) /\ Times(s, e) = Movers(s, {x}, c)
        BY <1>0, OccurrencesMove
    <2>2. c \in {1, -1}
        BY PushableEntry
    <2> HIDE DEF x, c
    <2>3. 1..(c * Weight(r, {x})) = 1..a
        BY <2>2, OneSign
    <2>4. 1..(c * Weight(s, {x})) = 1..b
        BY <2>2, OneSign
    <2>5. 1..a = 1..b
        BY <1>1, <2>3, <2>4
    <2>6. a \in Nat /\ b \in Nat
        BY <1>0, MoversCount
    <2> HIDE DEF a, b
    <2>7. a = b
        BY <2>5, <2>6
    <2> QED
        BY <2>1, <2>7 DEF a, b
<1>3. ASSUME NEW t \in Seq(Pushable), NEW e
      PROVE  /\ e \in flags!Range(t) => e \in Pushable
             /\ e \in Pushable => (e \in flags!Range(t) <=> Cardinality(Times(t, e)) # 0)
    <2>1. e \in flags!Range(t) <=> \E i \in DOMAIN t : t[i] = e
        BY DEF flags!Range
    <2>2. e \in flags!Range(t) <=> Times(t, e) # {}
        BY <2>1
    <2>3. \A i \in DOMAIN t : t[i] \in Pushable
        OBVIOUS
    <2>4. e \in Pushable => (Cardinality(Times(t, e)) = 0 <=> Times(t, e) = {})
        <3> SUFFICES ASSUME e \in Pushable PROVE Cardinality(Times(t, e)) = 0 <=> Times(t, e) = {}
            OBVIOUS
        <3>1. Times(t, e) = Movers(t, {flags!CounterOf(e)}, e.count)
            BY OccurrencesMove
        <3> HIDE DEF Times
        <3> QED
            BY <3>1, MoversCount
    <2> HIDE DEF Times
    <2> QED
        BY <2>1, <2>2, <2>3, <2>4
<1>4. flags!Range(r) = flags!Range(s)
    <2> HIDE DEF Times
    <2>1. \A e : e \in flags!Range(r) => e \in flags!Range(s)
        BY <1>0, <1>2, <1>3
    <2>2. \A e : e \in flags!Range(s) => e \in flags!Range(r)
        BY <1>0, <1>2, <1>3
    <2> QED
        BY <2>1, <2>2
<1>5. \A e \in flags!Range(s) : flags!Cardinality(Times(r, e)) = flags!Cardinality(Times(s, e))
    <2> HIDE DEF Times
    <2> QED
        BY <1>0, <1>2, <1>3, SameCardinality
<1>6. flags!ToBag(r) = [e \in flags!Range(r) |-> flags!Cardinality(Times(r, e))]
    BY DEF flags!ToBag
<1>7. flags!ToBag(s) = [e \in flags!Range(s) |-> flags!Cardinality(Times(s, e))]
    BY DEF flags!ToBag
<1> HIDE DEF Times
<1> QED
    BY <1>4, <1>5, <1>6, <1>7

\* A scope of a clean vector is exact.
LEMMA CleanScopesAreExact ==
    ASSUME FlagsInv
    PROVE  ScopeIsExact
<1> DEFINE s == active_modifier_flags
<1>1. Clean(s)
    BY DEF FlagsInv
<1> HIDE DEF s
<1>2. ASSUME NEW wanted \in SUBSET Flags, NEW scope, scope = flags!scoped_modifier_flags(s, wanted)
      PROVE  /\ flags!make_modifier_flags(scope.flags) = wanted
             /\ flags!ToBag(flags!restore_modifier_flags(scope)) = flags!ToBag(s)
    <2>1. ScopeOf(scope, s) /\ \A m \in Flags : flags!is_pressed(scope.flags, m) <=> m \in wanted
        BY <1>1, <1>2, ScopeOfAll
    <2>2. flags!make_modifier_flags(scope.flags) = wanted
        BY <2>1 DEF flags!make_modifier_flags
    <2> DEFINE r == flags!restore_modifier_flags(scope)
    <2>3. /\ Clean(r)
          /\ LedOn(r) <=> LedOn(s)
          /\ \A X : NoLed(X) => Weight(r, X) = Weight(s, X)
        BY <1>1, <2>1, ScopeUndone
    <2> HIDE DEF r
    <2>4. flags!ToBag(r) = flags!ToBag(s)
        BY <1>1, <2>3, SameBag
    <2> QED
        BY <2>2, <2>4 DEF r
<1> QED
    BY <1>2 DEF ScopeIsExact, flags!ScopeIsExact, s

\* Whatever the event queues did before, a scope makes exactly the wanted flags
\* pressed, and leaving it gives back the same entries (scoped_modifier_flags.hpp).
THEOREM ScopesAreExact == OutputsSpec => []ScopeIsExact
<1>1. FlagsInv => ScopeIsExact
    BY CleanScopesAreExact
<1> QED
    BY <1>1, FlagsAreClean, PTL

-----------------------------------------------------------------------------
(* The queue of the virtual devices.                                        *)

USE DEF EventTypes

-----------------------------------------------------------------------------
(* Types.                                                                   *)

\* adjust_time_stamp returns a time stamp no earlier than the one it is given
\* and, unless the event goes without a wait, no earlier than Wait after the
\* last one.
LEMMA AdjustedTimeStamp ==
    ASSUME NEW q \in Queue, NEW s \in Nat, NEW t \in EventTypes, NEW m \in BOOLEAN
    PROVE  /\ adjusted_time_stamp(q, s, t, m) \in Nat
           /\ adjusted_time_stamp(q, s, t, m) >= s
           /\ ~ skips_wait(q, t, m)
                  => adjusted_time_stamp(q, s, t, m) >= q.last_event_time_stamp + Wait
    BY TimeAssumption DEF adjusted_time_stamp, Queue

\* Enqueue keeps the type of the queue.
LEMMA EnqueueType ==
    ASSUME NEW q \in Queue, NEW e \in Event, NEW m \in BOOLEAN
    PROVE  Enqueue(q, e, m) \in Queue
<1> DEFINE t == adjusted_time_stamp(q, e.time_stamp, e.type, m)
<1>1. e.time_stamp \in Nat /\ e.type \in EventTypes
    BY DEF Event
<1>2. t \in Nat
    BY <1>1, AdjustedTimeStamp
<1>3. [e EXCEPT !.time_stamp = t] \in Event
    BY <1>2 DEF Event
<1> HIDE DEF t
<1>4. Append(q.events, [e EXCEPT !.time_stamp = t]) \in Seq(Event)
    BY <1>3 DEF Queue
<1> QED
    BY <1>1, <1>2, <1>4 DEF Enqueue, Queue, t

\* emplace_back_key_event keeps the type of the queue.
LEMMA KeyEventType ==
    ASSUME NEW q \in Queue, NEW u \in Usages, NEW t \in EventTypes, NEW s \in Nat
    PROVE  emplace_back_key_event(q, u, t, s) \in Queue
<1> DEFINE e == [kind |-> "key", type |-> t, usage |-> u, page |-> PageOf[u],
                 report |-> next_report(q, u, t), buttons |-> {}, time_stamp |-> s]
           m == u \in ModifierUsages
<1>1. PageOf[u] \in Pages
    BY PageAssumption
<1>2. next_report(q, u, t) \in SUBSET Usages
    BY <1>1 DEF next_report, Queue
<1>3. e \in Event
    BY <1>1, <1>2 DEF Event
<1>0. m \in BOOLEAN
    OBVIOUS
<1> HIDE DEF e, m
<1>4. Enqueue(q, e, m) \in Queue
    BY <1>3, <1>0, EnqueueType
<1>5. next_repeating_key(Enqueue(q, e, m).repeating_key, u, t) \in Usages \cup {None}
    BY <1>4 DEF next_repeating_key, Queue
<1> QED
    BY <1>1, <1>2, <1>4, <1>5 DEF emplace_back_key_event, Queue, e, m

\* emplace_back_pointing_input keeps the type of the queue.
LEMMA PointingInputType ==
    ASSUME NEW q \in Queue, NEW b \in SUBSET Buttons, NEW t \in EventTypes, NEW s \in Nat
    PROVE  emplace_back_pointing_input(q, b, t, s) \in Queue
<1> DEFINE e == [kind |-> "pointing", type |-> t, usage |-> None, page |-> None,
                 report |-> {}, buttons |-> b, time_stamp |-> s]
<1>1. e \in Event
    BY DEF Event
<1> QED
    BY <1>1, EnqueueType DEF emplace_back_pointing_input

\* push_back_shell_command_event and its siblings keep the type of the queue.
LEMMA CommandEventType ==
    ASSUME NEW q \in Queue, NEW s \in Nat
    PROVE  push_back_command_event(q, s) \in Queue
<1> DEFINE e == [kind |-> "command", type |-> "single", usage |-> None, page |-> None,
                 report |-> {}, buttons |-> {}, time_stamp |-> s]
<1>1. e \in Event
    BY DEF Event
<1>2. Append(q.events, e) \in Seq(Event)
    BY <1>1 DEF Queue
<1> QED
    BY <1>2 DEF push_back_command_event, Queue

\* TypeOK holds initially and every step keeps it.
THEOREM TypeCorrect == Spec => []TypeOK
<1>1. Init => TypeOK
    <2> SUFFICES ASSUME Init PROVE TypeOK
        OBVIOUS
    <2>1. EmptyQueue \in Queue
        BY DEF EmptyQueue, Queue
    <2> QED
        BY <2>1 DEF Init, TypeOK
<1>2. TypeOK /\ [Next]_vars => TypeOK'
    <2> SUFFICES ASSUME TypeOK, [Next]_vars PROVE TypeOK'
        OBVIOUS
    <2>1. ASSUME NEW u \in Usages, NEW t \in {"key_down", "key_up"}, NEW s \in 0..MaxTime,
                 EmplaceBackKeyEvent(u, t, s)
          PROVE  TypeOK'
        <3>1. s \in Nat /\ t \in EventTypes
            BY TimeAssumption
        <3>2. queue' \in Queue
            BY <2>1, <3>1, KeyEventType DEF TypeOK, EmplaceBackKeyEvent, Arrives
        <3> QED
            BY <2>1, <3>2 DEF TypeOK, EmplaceBackKeyEvent, Arrives, posted
    <2>2. ASSUME NEW b \in SUBSET Buttons, NEW t \in EventTypes, NEW s \in 0..MaxTime,
                 EmplaceBackPointingInput(b, t, s)
          PROVE  TypeOK'
        <3>1. s \in Nat
            BY TimeAssumption
        <3>2. queue' \in Queue
            BY <2>2, <3>1, PointingInputType DEF TypeOK, EmplaceBackPointingInput, Arrives
        <3> QED
            BY <2>2, <3>2 DEF TypeOK, EmplaceBackPointingInput, Arrives, posted
    <2>3. ASSUME NEW s \in 0..MaxTime, PushBackCommandEvent(s)
          PROVE  TypeOK'
        <3>1. s \in Nat
            BY TimeAssumption
        <3>2. queue' \in Queue
            BY <2>3, <3>1, CommandEventType DEF TypeOK, PushBackCommandEvent, Arrives
        <3> QED
            BY <2>3, <3>2 DEF TypeOK, PushBackCommandEvent, Arrives, posted
    <2>4. CASE AsyncPostEvents
        BY <2>4 DEF TypeOK, AsyncPostEvents, posted
    <2>5. ASSUME NEW w \in tasks, StartTask(w)
          PROVE  TypeOK'
        BY <2>5 DEF TypeOK, StartTask, posted
    <2>6. CASE PostFront
        <3>1. Front \in Event /\ Tail(queue.events) \in Seq(Event)
            BY <2>6 DEF PostFront, TakeFront, TypeOK, Queue, Front
        <3>2. queue' \in Queue
            BY <2>6, <3>1 DEF PostFront, TakeFront, TypeOK, Queue
        <3>3. pressed_keys_manager' \subseteq Usages
            BY <2>6, <3>1 DEF PostFront, TakeFront, pressed_after, TypeOK, Event
        <3>4. device_report' \in [Pages -> SUBSET Usages]
            BY <2>6, <3>1 DEF PostFront, report_after, TypeOK, Event
        <3>5. device_buttons' \subseteq Buttons
            BY <2>6, <3>1 DEF PostFront, buttons_after, TypeOK, Event
        <3> QED
            BY <2>6, <3>2, <3>3, <3>4, <3>5 DEF PostFront, TakeFront, TypeOK
    <2>7. CASE FinishTask
        <3>1. ASSUME queue.events # <<>>
              PROVE  Front \in Event
            BY <3>1 DEF TypeOK, Queue, Front
        <3>2. CASE queue.events = <<>>
            BY <2>7, <3>2 DEF FinishTask, TypeOK, posted
        <3>3. CASE queue.events # <<>>
            <4>1. Front.time_stamp \in Nat /\ running \in Nat /\ Front.time_stamp > running
                BY <2>7, <3>1, <3>3 DEF FinishTask, TypeOK, Event
            <4> DEFINE d == Front.time_stamp - running
            <4>2. d \in Nat
                BY <4>1
            <4>3. tasks' = tasks \cup {now + (IF d < MaxDelay THEN d ELSE MaxDelay)}
                BY <2>7, <3>3 DEF FinishTask
            <4> HIDE DEF d
            <4>4. tasks' \subseteq Nat
                BY <4>2, <4>3, TimeAssumption DEF TypeOK
            <4> QED
                BY <2>7, <4>4 DEF FinishTask, TypeOK, posted
        <3> QED
            BY <3>2, <3>3
    <2>8. CASE Tick
        BY <2>8 DEF TypeOK, Tick, posted
    <2>9. CASE UNCHANGED vars
        BY <2>9 DEF TypeOK, vars
    <2> QED
        BY <2>1, <2>2, <2>3, <2>4, <2>5, <2>6, <2>7, <2>8, <2>9 DEF Next
<1> QED
    BY <1>1, <1>2, PTL DEF Spec

-----------------------------------------------------------------------------
(* The gaps between events.                                                 *)

\* The invariants of the time stamps, as predicates of a queue.
Remembered(q) ==
    /\ \A i \in DOMAIN q.events :
           IF Adjusted(q.events[i]) THEN q.events[i].time_stamp <= q.last_event_time_stamp
                                    ELSE q.events[i].type = "single"
    /\ \A i \in DOMAIN q.events :
           FollowsKeyDown(q.events, i, Len(q.events) + 1) => q.last_event_type = "key_down"

GapsBefore(q) ==
    \A j \in DOMAIN q.events : \A i \in 1..(j - 1) :
        NeedsWait(q.events[j]) /\ Adjusted(q.events[i])
            => q.events[j].time_stamp >= q.events[i].time_stamp + Wait

GapsAfter(q) ==
    \A j \in DOMAIN q.events : \A i \in 1..(j - 1) :
        FollowsKeyDown(q.events, i, j) /\ q.events[j].type = "key_up"
            => q.events[j].time_stamp >= q.events[i].time_stamp + Wait

Gaps(q) == Remembered(q) /\ GapsBefore(q) /\ GapsAfter(q)

\* What Enqueue does to the fields the gaps depend on.
LEMMA EnqueueFields ==
    ASSUME NEW q \in Queue, NEW e \in Event, NEW m \in BOOLEAN,
           NEW r, r = Enqueue(q, e, m),
           NEW t, t = adjusted_time_stamp(q, e.time_stamp, e.type, m)
    PROVE  /\ t \in Nat
           /\ ~ skips_wait(q, e.type, m) => t >= q.last_event_time_stamp + Wait
           /\ Len(r.events) = Len(q.events) + 1
           /\ DOMAIN r.events = 1..(Len(q.events) + 1)
           /\ \A i \in 1..Len(q.events) : r.events[i] = q.events[i]
           /\ r.events[Len(q.events) + 1] = [e EXCEPT !.time_stamp = t]
           /\ r.last_event_type = IF skips_wait(q, e.type, m) THEN q.last_event_type ELSE e.type
           /\ r.last_event_time_stamp \in Nat
           /\ r.last_event_time_stamp >= t
           /\ r.last_event_time_stamp >= q.last_event_time_stamp
<1>1. e.time_stamp \in Nat /\ e.type \in EventTypes
    BY DEF Event
<1>2. t \in Nat /\ (~ skips_wait(q, e.type, m) => t >= q.last_event_time_stamp + Wait)
    BY <1>1, AdjustedTimeStamp
<1>3. q.events \in Seq(Event) /\ q.last_event_time_stamp \in Nat
    BY DEF Queue
<1>4. /\ r.events = Append(q.events, [e EXCEPT !.time_stamp = t])
      /\ r.last_event_type = IF skips_wait(q, e.type, m) THEN q.last_event_type ELSE e.type
      /\ r.last_event_time_stamp =
             IF q.last_event_time_stamp < t THEN t ELSE q.last_event_time_stamp
    BY DEF Enqueue, Queue
<1> QED
    BY <1>2, <1>3, <1>4

\* Enqueue keeps the gaps, for any event that adjust_time_stamp sees.
LEMMA EnqueueKeepsGaps ==
    ASSUME NEW q \in Queue, NEW e \in Event, Adjusted(e), Gaps(q)
    PROVE  Gaps(Enqueue(q, e, e.usage \in ModifierUsages))
<1> DEFINE m == e.usage \in ModifierUsages
           r == Enqueue(q, e, m)
           t == adjusted_time_stamp(q, e.time_stamp, e.type, m)
           n == Len(q.events)
           new == [e EXCEPT !.time_stamp = t]
<1>1. /\ t \in Nat
      /\ ~ skips_wait(q, e.type, m) => t >= q.last_event_time_stamp + Wait
      /\ Len(r.events) = n + 1
      /\ DOMAIN r.events = 1..(n + 1)
      /\ \A i \in 1..n : r.events[i] = q.events[i]
      /\ r.events[n + 1] = new
      /\ r.last_event_type = IF skips_wait(q, e.type, m) THEN q.last_event_type ELSE e.type
      /\ r.last_event_time_stamp \in Nat
      /\ r.last_event_time_stamp >= t
      /\ r.last_event_time_stamp >= q.last_event_time_stamp
    <2>1. m \in BOOLEAN
        OBVIOUS
    <2> HIDE DEF m
    <2> QED
        BY <2>1, EnqueueFields
<1>2. n \in Nat /\ DOMAIN q.events = 1..n /\ \A i \in 1..n : q.events[i] \in Event
    BY DEF Queue
<1>3. /\ new.time_stamp = t /\ new.type = e.type /\ new.usage = e.usage
      /\ new.kind = e.kind
    BY DEF Event
<1>4. /\ \A i \in 1..n : q.events[i].time_stamp \in Nat
      /\ e.type \in EventTypes
      /\ q.last_event_time_stamp \in Nat
    BY <1>2 DEF Event, Queue
<1>5. (e.type = "key_down" \/ (e.type = "key_up" /\ m)) => ~ skips_wait(q, e.type, m)
    BY DEF skips_wait
<1>6. (e.type = "key_up" /\ q.last_event_type = "key_down") => ~ skips_wait(q, e.type, m)
    BY DEF skips_wait
<1>7. e.type = "single" => skips_wait(q, e.type, m)
    BY DEF skips_wait
<1> HIDE DEF m, r, t, n, new
<1>8. Remembered(r)
    <2>1. \A i \in DOMAIN r.events :
              IF Adjusted(r.events[i]) THEN r.events[i].time_stamp <= r.last_event_time_stamp
                                       ELSE r.events[i].type = "single"
        <3> SUFFICES ASSUME NEW i \in 1..(n + 1)
                     PROVE  IF Adjusted(r.events[i])
                            THEN r.events[i].time_stamp <= r.last_event_time_stamp
                            ELSE r.events[i].type = "single"
            BY <1>1
        <3>1. CASE i = n + 1
            BY <1>1, <1>3, <3>1 DEF Adjusted
        <3>2. CASE i \in 1..n
            <4>1. r.events[i] = q.events[i] /\ q.events[i].time_stamp \in Nat
                BY <1>1, <1>4, <3>2
            <4>2. IF Adjusted(q.events[i])
                  THEN q.events[i].time_stamp <= q.last_event_time_stamp
                  ELSE q.events[i].type = "single"
                BY <1>2, <3>2 DEF Gaps, Remembered
            <4> QED
                BY <1>1, <1>4, <4>1, <4>2
        <3> QED
            BY <1>2, <3>1, <3>2
    <2>2. ASSUME NEW i \in DOMAIN r.events, FollowsKeyDown(r.events, i, Len(r.events) + 1)
          PROVE  r.last_event_type = "key_down"
        <3>1. CASE i = n + 1
            BY <1>1, <1>3, <1>5, <2>2, <3>1 DEF FollowsKeyDown
        <3>2. CASE i \in 1..n
            <4>1. \A k \in (i + 1)..(n + 1) : r.events[k].type = "single"
                BY <1>1, <1>2, <2>2 DEF FollowsKeyDown
            <4>2. e.type = "single"
                BY <1>1, <1>2, <1>3, <3>2, <4>1
            <4>3. FollowsKeyDown(q.events, i, n + 1)
                BY <1>1, <1>2, <2>2, <3>2, <4>1 DEF FollowsKeyDown
            <4> QED
                BY <1>1, <1>2, <1>7, <3>2, <4>2, <4>3 DEF Gaps, Remembered, n
        <3> QED
            BY <1>1, <1>2, <2>2, <3>1, <3>2
    <2> QED
        BY <2>1, <2>2 DEF Remembered
<1>9. GapsBefore(r)
    <2> SUFFICES ASSUME NEW j \in DOMAIN r.events, NEW i \in 1..(j - 1),
                        NeedsWait(r.events[j]), Adjusted(r.events[i])
                 PROVE  r.events[j].time_stamp >= r.events[i].time_stamp + Wait
        BY DEF GapsBefore
    <2>1. i \in 1..n
        BY <1>1, <1>2
    <2>2. CASE j \in 1..n
        BY <1>1, <1>2, <2>1, <2>2 DEF Gaps, GapsBefore
    <2>3. CASE j = n + 1
        <3>1. q.events[i].time_stamp <= q.last_event_time_stamp
            BY <1>1, <1>2, <2>1 DEF Gaps, Remembered
        <3>2. t >= q.last_event_time_stamp + Wait
            BY <1>1, <1>3, <1>5, <2>3 DEF NeedsWait, m
        <3>3. r.events[j].time_stamp = t /\ r.events[i].time_stamp = q.events[i].time_stamp
            BY <1>1, <1>3, <2>1, <2>3
        <3> QED
            BY <1>1, <1>4, <2>1, <3>1, <3>2, <3>3, TimeAssumption
    <2> QED
        BY <1>1, <1>2, <2>2, <2>3
<1>10. GapsAfter(r)
    <2> SUFFICES ASSUME NEW j \in DOMAIN r.events, NEW i \in 1..(j - 1),
                        FollowsKeyDown(r.events, i, j), r.events[j].type = "key_up"
                 PROVE  r.events[j].time_stamp >= r.events[i].time_stamp + Wait
        BY DEF GapsAfter
    <2>1. i \in 1..n
        BY <1>1, <1>2
    <2>0. r.events[i] = q.events[i] /\ \A k \in (i + 1)..(j - 1) : r.events[k] = q.events[k]
        BY <1>1, <1>2, <2>1
    <2>2. CASE j \in 1..n
        <3>1. FollowsKeyDown(q.events, i, j)
            BY <2>0 DEF FollowsKeyDown
        <3> QED
            BY <1>1, <1>2, <2>1, <2>2, <3>1 DEF Gaps, GapsAfter
    <2>3. CASE j = n + 1
        <3>1. FollowsKeyDown(q.events, i, n + 1)
            BY <2>0, <2>3 DEF FollowsKeyDown
        <3>2. q.last_event_type = "key_down"
            BY <1>2, <2>1, <3>1 DEF Gaps, Remembered, n
        <3>3. t >= q.last_event_time_stamp + Wait
            BY <1>1, <1>3, <1>6, <2>3, <3>2
        <3>4. Adjusted(q.events[i])
            BY <1>2, <2>1, <3>1 DEF Gaps, Remembered, FollowsKeyDown
        <3>5. q.events[i].time_stamp <= q.last_event_time_stamp
            BY <1>2, <2>1, <3>4 DEF Gaps, Remembered
        <3>6. r.events[j].time_stamp = t /\ r.events[i].time_stamp = q.events[i].time_stamp
            BY <1>1, <1>3, <2>1, <2>3
        <3> QED
            BY <1>1, <1>4, <2>1, <3>3, <3>5, <3>6, TimeAssumption
    <2> QED
        BY <1>1, <1>2, <2>2, <2>3
<1> QED
    BY <1>8, <1>9, <1>10 DEF Gaps, r, m

\* A command is appended with the time stamp it has, and keeps the gaps.
LEMMA CommandKeepsGaps ==
    ASSUME NEW q \in Queue, NEW s \in Nat, Gaps(q)
    PROVE  Gaps(push_back_command_event(q, s))
<1> DEFINE r == push_back_command_event(q, s)
           n == Len(q.events)
<1>1. /\ Len(r.events) = n + 1
      /\ DOMAIN r.events = 1..(n + 1)
      /\ \A i \in 1..n : r.events[i] = q.events[i]
      /\ r.events[n + 1].kind = "command" /\ r.events[n + 1].type = "single"
      /\ r.last_event_type = q.last_event_type
      /\ r.last_event_time_stamp = q.last_event_time_stamp
    BY DEF push_back_command_event, Queue
<1>2. n \in Nat /\ DOMAIN q.events = 1..n
    BY DEF Queue
<1> HIDE DEF r, n
<1>3. Remembered(r)
    <2>1. \A i \in DOMAIN r.events :
              IF Adjusted(r.events[i]) THEN r.events[i].time_stamp <= r.last_event_time_stamp
                                       ELSE r.events[i].type = "single"
        BY <1>1, <1>2 DEF Gaps, Remembered, Adjusted
    <2>2. ASSUME NEW i \in DOMAIN r.events, FollowsKeyDown(r.events, i, Len(r.events) + 1)
          PROVE  r.last_event_type = "key_down"
        <3>1. i \in 1..n
            BY <1>1, <1>2, <2>2 DEF FollowsKeyDown
        <3>2. \A k \in (i + 1)..n : q.events[k] = r.events[k] /\ k \in (i + 1)..(n + 1)
            BY <1>1, <1>2, <3>1
        <3>3. FollowsKeyDown(q.events, i, n + 1)
            <4>1. FollowsKeyDown(r.events, i, n + 2)
                BY <1>1, <1>2, <2>2
            <4>2. r.events[i].type = "key_down" /\ q.events[i] = r.events[i]
                BY <1>1, <3>1, <4>1 DEF FollowsKeyDown
            <4>3. \A k \in (i + 1)..(n + 1) : r.events[k].type = "single"
                BY <1>2, <4>1 DEF FollowsKeyDown
            <4>4. \A k \in (i + 1)..n : q.events[k].type = "single"
                BY <3>2, <4>3
            <4> QED
                BY <1>2, <4>2, <4>4 DEF FollowsKeyDown
        <3> QED
            BY <1>1, <1>2, <3>1, <3>3 DEF Gaps, Remembered, n
    <2> QED
        BY <2>1, <2>2 DEF Remembered
<1>4. ASSUME NEW j \in DOMAIN r.events, NEW i \in 1..(j - 1), r.events[j].type # "single"
      PROVE  /\ j \in 1..n /\ i \in 1..n
             /\ r.events[j] = q.events[j] /\ r.events[i] = q.events[i]
             /\ FollowsKeyDown(r.events, i, j) => FollowsKeyDown(q.events, i, j)
    <2>1. j \in 1..n /\ i \in 1..n
        BY <1>1, <1>2, <1>4
    <2>2. \A k \in (i + 1)..(j - 1) : r.events[k] = q.events[k]
        BY <1>1, <1>2, <2>1
    <2> QED
        BY <1>1, <2>1, <2>2 DEF FollowsKeyDown
<1>5. GapsBefore(r)
    BY <1>2, <1>4 DEF Gaps, GapsBefore, NeedsWait
<1>6. GapsAfter(r)
    BY <1>2, <1>4 DEF Gaps, GapsAfter
<1> QED
    BY <1>3, <1>5, <1>6 DEF Gaps, r

\* Posting the front event keeps the gaps between the others.
LEMMA PostingKeepsGaps ==
    ASSUME NEW q \in Queue, q.events # <<>>, Gaps(q)
    PROVE  Gaps([q EXCEPT !.events = Tail(@)])
<1> DEFINE r == [q EXCEPT !.events = Tail(@)]
           n == Len(q.events)
<1>1. /\ n \in Nat /\ n > 0 /\ DOMAIN q.events = 1..n
      /\ Len(r.events) = n - 1
      /\ DOMAIN r.events = 1..(n - 1)
      /\ \A i \in 1..(n - 1) : r.events[i] = q.events[i + 1]
      /\ r.last_event_type = q.last_event_type
      /\ r.last_event_time_stamp = q.last_event_time_stamp
    BY DEF Queue
<1> HIDE DEF r, n
<1>2. ASSUME NEW i \in 1..(n - 1), NEW j \in 1..n, i < j, FollowsKeyDown(r.events, i, j)
      PROVE  FollowsKeyDown(q.events, i + 1, j + 1)
    <2>1. ASSUME NEW k \in (i + 2)..j
          PROVE  q.events[k].type = "single"
        <3>1. k - 1 \in (i + 1)..(j - 1) /\ k - 1 \in 1..(n - 1)
            BY <1>1, <1>2
        <3>2. r.events[k - 1].type = "single"
            BY <1>2, <3>1 DEF FollowsKeyDown
        <3>3. r.events[k - 1] = q.events[(k - 1) + 1]
            BY <1>1, <3>1
        <3> QED
            BY <3>2, <3>3
    <2> QED
        BY <1>1, <1>2, <2>1 DEF FollowsKeyDown
<1>3. Remembered(r)
    <2>1. \A i \in DOMAIN r.events :
              IF Adjusted(r.events[i]) THEN r.events[i].time_stamp <= r.last_event_time_stamp
                                       ELSE r.events[i].type = "single"
        <3>1. \A i \in DOMAIN r.events : i + 1 \in DOMAIN q.events /\ r.events[i] = q.events[i + 1]
            BY <1>1
        <3> QED
            BY <1>1, <3>1 DEF Gaps, Remembered
    <2>2. ASSUME NEW i \in DOMAIN r.events, FollowsKeyDown(r.events, i, Len(r.events) + 1)
          PROVE  r.last_event_type = "key_down"
        <3>1. i \in 1..(n - 1) /\ n \in 1..n /\ i < n /\ FollowsKeyDown(r.events, i, n)
            BY <1>1, <2>2
        <3>2. FollowsKeyDown(q.events, i + 1, n + 1)
            BY <1>2, <3>1
        <3> QED
            BY <1>1, <3>1, <3>2 DEF Gaps, Remembered, n
    <2> QED
        BY <2>1, <2>2 DEF Remembered
<1>4. GapsBefore(r)
    <2> SUFFICES ASSUME NEW j \in 1..(n - 1), NEW i \in 1..(j - 1),
                        NeedsWait(r.events[j]), Adjusted(r.events[i])
                 PROVE  r.events[j].time_stamp >= r.events[i].time_stamp + Wait
        BY <1>1 DEF GapsBefore
    <2>1. /\ j + 1 \in DOMAIN q.events /\ i + 1 \in 1..((j + 1) - 1)
          /\ r.events[j] = q.events[j + 1] /\ r.events[i] = q.events[i + 1]
        BY <1>1
    <2> QED
        BY <2>1 DEF Gaps, GapsBefore
<1>5. GapsAfter(r)
    <2> SUFFICES ASSUME NEW j \in 1..(n - 1), NEW i \in 1..(j - 1),
                        FollowsKeyDown(r.events, i, j), r.events[j].type = "key_up"
                 PROVE  r.events[j].time_stamp >= r.events[i].time_stamp + Wait
        BY <1>1 DEF GapsAfter
    <2>1. /\ j + 1 \in DOMAIN q.events /\ i + 1 \in 1..((j + 1) - 1)
          /\ r.events[j] = q.events[j + 1] /\ r.events[i] = q.events[i + 1]
        BY <1>1
    <2>2. FollowsKeyDown(q.events, i + 1, j + 1)
        BY <1>1, <1>2
    <2> QED
        BY <2>1, <2>2 DEF Gaps, GapsAfter
<1> QED
    BY <1>3, <1>4, <1>5 DEF Gaps, r

\* Gaps depends on three fields of the queue.
LEMMA GapsOfFields ==
    ASSUME NEW q, NEW r, Gaps(q), r.events = q.events,
           r.last_event_type = q.last_event_type,
           r.last_event_time_stamp = q.last_event_time_stamp
    PROVE  Gaps(r)
    BY DEF Gaps, Remembered, GapsBefore, GapsAfter

\* emplace_back_key_event keeps the gaps.
LEMMA KeyEventKeepsGaps ==
    ASSUME NEW q \in Queue, NEW u \in Usages, NEW t \in EventTypes, NEW s \in Nat, Gaps(q)
    PROVE  Gaps(emplace_back_key_event(q, u, t, s))
<1> DEFINE e == [kind |-> "key", type |-> t, usage |-> u, page |-> PageOf[u],
                 report |-> next_report(q, u, t), buttons |-> {}, time_stamp |-> s]
           r == Enqueue(q, e, u \in ModifierUsages)
<1>1. PageOf[u] \in Pages
    BY PageAssumption
<1>2. next_report(q, u, t) \in SUBSET Usages
    BY <1>1 DEF next_report, Queue
<1>3. e \in Event /\ Adjusted(e) /\ e.usage = u
    BY <1>1, <1>2 DEF Event, Adjusted
<1>4. r \in Queue /\ Gaps(r)
    <2>1. (u \in ModifierUsages) \in BOOLEAN
        OBVIOUS
    <2> HIDE DEF e
    <2>2. r \in Queue
        BY <1>3, <2>1, EnqueueType
    <2> QED
        BY <1>3, <2>2, EnqueueKeepsGaps
<1>5. emplace_back_key_event(q, u, t, s) =
          [r EXCEPT !.report[PageOf[u]] = next_report(q, u, t),
                    !.repeating_key = next_repeating_key(@, u, t)]
    BY DEF emplace_back_key_event
<1> HIDE DEF r
<1> QED
    BY <1>4, <1>5, GapsOfFields DEF Queue

\* emplace_back_pointing_input keeps the gaps.
LEMMA PointingInputKeepsGaps ==
    ASSUME NEW q \in Queue, NEW b \in SUBSET Buttons, NEW t \in EventTypes, NEW s \in Nat,
           Gaps(q)
    PROVE  Gaps(emplace_back_pointing_input(q, b, t, s))
<1> DEFINE e == [kind |-> "pointing", type |-> t, usage |-> None, page |-> None,
                 report |-> {}, buttons |-> b, time_stamp |-> s]
<1>1. e \in Event /\ Adjusted(e) /\ (e.usage \in ModifierUsages) = FALSE
    BY NoneAssumption, ModifierAssumption DEF Event, Adjusted
<1>2. emplace_back_pointing_input(q, b, t, s) = Enqueue(q, e, FALSE)
    BY DEF emplace_back_pointing_input
<1> HIDE DEF e
<1> QED
    BY <1>1, <1>2, EnqueueKeepsGaps

\* Every queued key_down, and every queued key_up of a modifier, is at least
\* Wait later than all events queued before it; a key_up that directly follows
\* a key_down is at least Wait later.  adjust_time_stamp compares with one
\* remembered type and time stamp only: the invariant says these are enough.
THEOREM GapsAreKept ==
    Spec => [](LastEventIsRemembered /\ WaitBeforeKeyDown /\ WaitAfterKeyDown)
<1>1. Gaps(queue) <=> LastEventIsRemembered /\ WaitBeforeKeyDown /\ WaitAfterKeyDown
    BY DEF Gaps, Remembered, GapsBefore, GapsAfter, LastEventIsRemembered, WaitBeforeKeyDown,
           WaitAfterKeyDown
<1>2. Init => Gaps(queue)
    BY DEF Init, EmptyQueue, Gaps, Remembered, GapsBefore, GapsAfter
<1>3. TypeOK /\ Gaps(queue) /\ [Next]_vars => Gaps(queue)'
    <2> SUFFICES ASSUME TypeOK, Gaps(queue), [Next]_vars PROVE Gaps(queue')
        OBVIOUS
    <2>0. queue \in Queue
        BY DEF TypeOK
    <2>1. ASSUME NEW u \in Usages, NEW t \in {"key_down", "key_up"}, NEW s \in 0..MaxTime,
                 EmplaceBackKeyEvent(u, t, s)
          PROVE  Gaps(queue')
        <3>1. s \in Nat /\ t \in EventTypes
            BY TimeAssumption
        <3> QED
            BY <2>0, <2>1, <3>1, KeyEventKeepsGaps DEF EmplaceBackKeyEvent, Arrives
    <2>2. ASSUME NEW b \in SUBSET Buttons, NEW t \in EventTypes, NEW s \in 0..MaxTime,
                 EmplaceBackPointingInput(b, t, s)
          PROVE  Gaps(queue')
        <3>1. s \in Nat
            BY TimeAssumption
        <3> QED
            BY <2>0, <2>2, <3>1, PointingInputKeepsGaps DEF EmplaceBackPointingInput, Arrives
    <2>3. ASSUME NEW s \in 0..MaxTime, PushBackCommandEvent(s)
          PROVE  Gaps(queue')
        <3>1. s \in Nat
            BY TimeAssumption
        <3> QED
            BY <2>0, <2>3, <3>1, CommandKeepsGaps DEF PushBackCommandEvent, Arrives
    <2>4. CASE PostFront
        BY <2>0, <2>4, PostingKeepsGaps DEF PostFront, TakeFront
    <2>5. CASE UNCHANGED queue
        BY <2>5
    <2> QED
        BY <2>1, <2>2, <2>3, <2>4, <2>5
        DEF Next, AsyncPostEvents, StartTask, FinishTask, Tick, vars
<1> QED
    BY <1>1, <1>2, <1>3, TypeCorrect, PTL DEF Spec

-----------------------------------------------------------------------------
(* The report under construction.                                           *)

\* The report of page p that q builds is the last one queued, or d when none is.
LastSnapshot(q, d, p) ==
    LET ofPage == {i \in DOMAIN q.events : q.events[i].page = p}
    IN  \/ ofPage = {} /\ d = q.report[p]
        \/ \E i \in ofPage : (\A k \in ofPage : k <= i) /\ q.events[i].report = q.report[p]

\* Appending an event keeps the last snapshot, if its report is the one under
\* construction for its own page and the others do not change.
LEMMA AppendKeepsLastSnapshot ==
    ASSUME NEW q \in Queue, NEW r \in Queue, NEW e \in Event, NEW p \in Pages, NEW d,
           LastSnapshot(q, d, p), r.events = Append(q.events, e),
           r.report[p] = IF e.page = p THEN e.report ELSE q.report[p]
    PROVE  LastSnapshot(r, d, p)
<1> DEFINE n == Len(q.events)
<1>1. /\ n \in Nat /\ DOMAIN q.events = 1..n /\ DOMAIN r.events = 1..(n + 1)
      /\ \A i \in 1..n : r.events[i] = q.events[i]
      /\ r.events[n + 1] = e
    BY DEF Queue
<1> HIDE DEF n
<1>2. CASE e.page = p
    <2>1. r.events[n + 1].page = p /\ r.events[n + 1].report = r.report[p]
        BY <1>1, <1>2
    <2>2. n + 1 \in DOMAIN r.events /\ \A k \in DOMAIN r.events : k <= n + 1
        BY <1>1
    <2> QED
        BY <2>1, <2>2 DEF LastSnapshot
<1>3. CASE e.page # p
    <2>1. {i \in DOMAIN r.events : r.events[i].page = p} =
              {i \in DOMAIN q.events : q.events[i].page = p}
        BY <1>1, <1>3
    <2>2. \A i \in DOMAIN q.events : r.events[i] = q.events[i]
        BY <1>1
    <2> QED
        BY <1>3, <2>1, <2>2 DEF LastSnapshot
<1> QED
    BY <1>2, <1>3

\* Posting the front event hands its report over to the device.
LEMMA PostingKeepsLastSnapshot ==
    ASSUME NEW q \in Queue, q.events # <<>>, NEW r \in Queue, NEW p \in Pages, NEW d, NEW f,
           LastSnapshot(q, d, p), r.events = Tail(q.events), r.report = q.report,
           f = IF q.events[1].page = p THEN q.events[1].report ELSE d
    PROVE  LastSnapshot(r, f, p)
<1> DEFINE n == Len(q.events)
<1>1. /\ n \in Nat /\ n > 0 /\ DOMAIN q.events = 1..n /\ DOMAIN r.events = 1..(n - 1)
      /\ \A i \in 1..(n - 1) : r.events[i] = q.events[i + 1]
    BY DEF Queue
<1> HIDE DEF n
<1>2. CASE {i \in 2..n : q.events[i].page = p} = {}
    <2>1. {i \in DOMAIN r.events : r.events[i].page = p} = {}
        <3> SUFFICES ASSUME NEW i \in 1..(n - 1), r.events[i].page = p PROVE FALSE
            BY <1>1
        <3>1. i + 1 \in 2..n /\ q.events[i + 1].page = p
            BY <1>1
        <3> QED
            BY <1>2, <3>1
    <2>2. f = q.report[p]
        <3>1. CASE q.events[1].page = p
            <4>1. 1 \in {i \in DOMAIN q.events : q.events[i].page = p}
                BY <1>1, <3>1
            <4>2. \A i \in {k \in DOMAIN q.events : q.events[k].page = p} : i = 1
                BY <1>1, <1>2
            <4> QED
                BY <3>1, <4>1, <4>2 DEF LastSnapshot
        <3>2. CASE q.events[1].page # p
            <4>1. {i \in DOMAIN q.events : q.events[i].page = p} = {}
                BY <1>1, <1>2, <3>2
            <4> QED
                BY <3>2, <4>1 DEF LastSnapshot
        <3> QED
            BY <3>1, <3>2
    <2> QED
        BY <2>1, <2>2 DEF LastSnapshot
<1>3. CASE {i \in 2..n : q.events[i].page = p} # {}
    <2>1. PICK i \in DOMAIN q.events :
              /\ q.events[i].page = p
              /\ \A k \in DOMAIN q.events : q.events[k].page = p => k <= i
              /\ q.events[i].report = q.report[p]
        BY <1>1, <1>3 DEF LastSnapshot
    <2>2. i \in 2..n
        BY <1>1, <1>3, <2>1
    <2>3. i - 1 \in 1..(n - 1) /\ r.events[i - 1] = q.events[i]
        <3>1. i - 1 \in 1..(n - 1)
            BY <1>1, <2>2
        <3>2. r.events[i - 1] = q.events[(i - 1) + 1]
            BY <1>1, <3>1
        <3>3. (i - 1) + 1 = i
            BY <1>1, <2>2
        <3> QED
            BY <3>1, <3>2, <3>3
    <2>4. ASSUME NEW k \in 1..(n - 1), r.events[k].page = p
          PROVE  k <= i - 1
        <3>1. k + 1 \in DOMAIN q.events /\ q.events[k + 1].page = p
            BY <1>1, <2>4
        <3> QED
            BY <2>1, <2>2, <3>1
    <2> QED
        BY <1>1, <2>1, <2>3, <2>4 DEF LastSnapshot
<1> QED
    BY <1>2, <1>3

\* Enqueue appends an event that differs in its time stamp only.
LEMMA EnqueueAppends ==
    ASSUME NEW q \in Queue, NEW e \in Event, NEW m \in BOOLEAN
    PROVE  \E x \in Event :
               /\ x.kind = e.kind /\ x.type = e.type /\ x.usage = e.usage
               /\ x.page = e.page /\ x.report = e.report
               /\ Enqueue(q, e, m).events = Append(q.events, x)
               /\ Enqueue(q, e, m).report = q.report
<1> DEFINE t == adjusted_time_stamp(q, e.time_stamp, e.type, m)
           x == [e EXCEPT !.time_stamp = t]
<1>1. t \in Nat
    BY AdjustedTimeStamp DEF Event
<1> HIDE DEF t
<1>2. /\ x \in Event /\ x.kind = e.kind /\ x.type = e.type /\ x.usage = e.usage
      /\ x.page = e.page /\ x.report = e.report
    BY <1>1 DEF Event
<1>3. Enqueue(q, e, m).events = Append(q.events, x) /\ Enqueue(q, e, m).report = q.report
    BY DEF Enqueue, Queue, t
<1> QED
    BY <1>2, <1>3

\* A key event leaves its report under construction as the last snapshot.
LEMMA KeyEventKeepsLastSnapshot ==
    ASSUME NEW q \in Queue, NEW u \in Usages, NEW t \in EventTypes, NEW s \in Nat,
           NEW p \in Pages, NEW d, LastSnapshot(q, d, p)
    PROVE  LastSnapshot(emplace_back_key_event(q, u, t, s), d, p)
<1> DEFINE e == [kind |-> "key", type |-> t, usage |-> u, page |-> PageOf[u],
                 report |-> next_report(q, u, t), buttons |-> {}, time_stamp |-> s]
           m == u \in ModifierUsages
           r == Enqueue(q, e, m)
           f == emplace_back_key_event(q, u, t, s)
<1>1. PageOf[u] \in Pages
    BY PageAssumption
<1>2. next_report(q, u, t) \in SUBSET Usages
    BY <1>1 DEF next_report, Queue
<1>3. e \in Event /\ e.page = PageOf[u] /\ e.report = next_report(q, u, t)
    BY <1>1, <1>2 DEF Event
<1>4. m \in BOOLEAN
    OBVIOUS
<1>5. f = [r EXCEPT !.report[PageOf[u]] = next_report(q, u, t),
                    !.repeating_key = next_repeating_key(@, u, t)]
    BY DEF emplace_back_key_event
<1>6. f \in Queue
    BY KeyEventType
<1> HIDE DEF e, m, f
<1>7. PICK x \in Event : /\ x.page = PageOf[u] /\ x.report = next_report(q, u, t)
                        /\ r.events = Append(q.events, x) /\ r.report = q.report
    BY <1>3, <1>4, EnqueueAppends
<1>8. r \in Queue
    BY <1>3, <1>4, EnqueueType
<1> HIDE DEF r
<1>9. f.events = Append(q.events, x) /\
      f.report[p] = IF x.page = p THEN x.report ELSE q.report[p]
    BY <1>1, <1>5, <1>7, <1>8 DEF Queue
<1> QED
    BY <1>6, <1>9, AppendKeepsLastSnapshot DEF f

\* The report under construction is the last queued snapshot of its page or,
\* when none is queued, what the device has: the queue neither loses nor
\* reorders the reports it makes, so the device ends up with the last one.
THEOREM SnapshotsReachTheDevice == Spec => []ReportIsLastSnapshot
<1>1. ReportIsLastSnapshot <=> \A p \in Pages : LastSnapshot(queue, device_report[p], p)
    BY DEF ReportIsLastSnapshot, LastSnapshot
<1>2. Init => ReportIsLastSnapshot
    BY DEF Init, EmptyQueue, ReportIsLastSnapshot
<1>3. TypeOK /\ TypeOK' /\ ReportIsLastSnapshot /\ [Next]_vars => ReportIsLastSnapshot'
    <2> SUFFICES ASSUME TypeOK, TypeOK', ReportIsLastSnapshot, [Next]_vars, NEW p \in Pages
                 PROVE  LastSnapshot(queue', device_report'[p], p)
        BY DEF ReportIsLastSnapshot, LastSnapshot
    <2>0. queue \in Queue /\ queue' \in Queue /\ LastSnapshot(queue, device_report[p], p)
        BY <1>1 DEF TypeOK
    <2>1. ASSUME NEW u \in Usages, NEW t \in {"key_down", "key_up"}, NEW s \in 0..MaxTime,
                 EmplaceBackKeyEvent(u, t, s)
          PROVE  LastSnapshot(queue', device_report'[p], p)
        <3>1. s \in Nat /\ t \in EventTypes
            BY TimeAssumption
        <3>2. queue' = emplace_back_key_event(queue, u, t, s) /\ device_report' = device_report
            BY <2>1 DEF EmplaceBackKeyEvent, Arrives, posted
        <3> QED
            BY <2>0, <3>1, <3>2, KeyEventKeepsLastSnapshot
    <2>2. ASSUME NEW b \in SUBSET Buttons, NEW t \in EventTypes, NEW s \in 0..MaxTime,
                 EmplaceBackPointingInput(b, t, s)
          PROVE  LastSnapshot(queue', device_report'[p], p)
        <3> DEFINE e == [kind |-> "pointing", type |-> t, usage |-> None, page |-> None,
                         report |-> {}, buttons |-> b, time_stamp |-> s]
        <3>1. e \in Event /\ e.page # p
            BY NoneAssumption, TimeAssumption DEF Event
        <3>2. queue' = Enqueue(queue, e, FALSE) /\ device_report' = device_report
            BY <2>2 DEF EmplaceBackPointingInput, Arrives, posted, emplace_back_pointing_input
        <3> HIDE DEF e
        <3>0. FALSE \in BOOLEAN
            OBVIOUS
        <3>4. \E x \in Event : /\ x.page = e.page /\ x.report = e.report
                               /\ Enqueue(queue, e, FALSE).events = Append(queue.events, x)
                               /\ Enqueue(queue, e, FALSE).report = queue.report
            BY <2>0, <3>0, <3>1, EnqueueAppends
        <3>3. PICK x \in Event : /\ x.page # p /\ queue'.events = Append(queue.events, x)
                                /\ queue'.report = queue.report
            BY <3>1, <3>2, <3>4
        <3> QED
            BY <2>0, <3>2, <3>3, AppendKeepsLastSnapshot
    <2>3. ASSUME NEW s \in 0..MaxTime, PushBackCommandEvent(s)
          PROVE  LastSnapshot(queue', device_report'[p], p)
        <3> DEFINE e == [kind |-> "command", type |-> "single", usage |-> None,
                         page |-> None, report |-> {}, buttons |-> {}, time_stamp |-> s]
        <3>1. e \in Event /\ e.page # p
            BY NoneAssumption, TimeAssumption DEF Event
        <3>2. /\ queue'.events = Append(queue.events, e) /\ queue'.report = queue.report
              /\ device_report' = device_report
            BY <2>0, <2>3 DEF PushBackCommandEvent, Arrives, posted, push_back_command_event, Queue
        <3> HIDE DEF e
        <3> QED
            BY <2>0, <3>1, <3>2, AppendKeepsLastSnapshot
    <2>4. CASE PostFront
        <3>1. /\ queue.events # <<>> /\ queue'.events = Tail(queue.events)
              /\ queue'.report = queue.report /\ device_report' = report_after(queue.events[1])
            BY <2>0, <2>4 DEF PostFront, TakeFront, Front, Queue
        <3>2. queue.events[1] \in Event
            BY <2>0, <3>1 DEF Queue
        <3>3. device_report'[p] = IF queue.events[1].page = p THEN queue.events[1].report
                                  ELSE device_report[p]
            BY <3>1, <3>2, NoneAssumption DEF report_after, TypeOK, Event
        <3> QED
            BY <2>0, <3>1, <3>3, PostingKeepsLastSnapshot
    <2>5. CASE UNCHANGED <<queue, device_report>>
        BY <2>0, <2>5
    <2> QED
        BY <2>1, <2>2, <2>3, <2>4, <2>5
        DEF Next, AsyncPostEvents, StartTask, FinishTask, Tick, vars, posted
<1> QED
    BY <1>2, <1>3, TypeCorrect, PTL DEF Spec

-----------------------------------------------------------------------------
(* The keys that are held, according to the reports.                        *)

\* A key event and a report of its page: the report after the event.
Applied(report, e) ==
    IF e.type = "key_down" THEN report \cup {e.usage} ELSE report \ {e.usage}

\* The reports of consecutive key events of a page differ by the key of the
\* later one, the first of them from what the device has, d.
ConsecutiveReports(events, d) ==
    \A j \in DOMAIN events : events[j].kind = "key" =>
        /\ events[j].type # "single"
        /\ events[j].page = PageOf[events[j].usage]
        /\ \A i \in 1..(j - 1) :
               /\ events[i].page = events[j].page
               /\ \A k \in (i + 1)..(j - 1) : events[k].page # events[j].page
               => events[j].report = Applied(events[i].report, events[j])
        /\ (\A k \in 1..(j - 1) : events[k].page # events[j].page)
               => events[j].report = Applied(d[events[j].page], events[j])

\* A report of page p has keys of that page only.
OnPage(report, p) == \A u \in report : PageOf[u] = p

OnPages(q, d) ==
    /\ \A p \in Pages : OnPage(q.report[p], p) /\ OnPage(d[p], p)
    /\ \A i \in DOMAIN q.events : q.events[i].kind = "key" =>
           OnPage(q.events[i].report, q.events[i].page)

\* Appending an event that is no key event, or a key event whose report
\* differs from the last snapshot by its key, keeps the reports consecutive.
LEMMA AppendKeepsConsecutiveReports ==
    ASSUME NEW q \in Queue, NEW e \in Event, NEW d, ConsecutiveReports(q.events, d),
           e.kind = "key" =>
               /\ e.type # "single"
               /\ e.page = PageOf[e.usage]
               /\ e.report = Applied(q.report[e.page], e)
               /\ LastSnapshot(q, d[e.page], e.page)
    PROVE  ConsecutiveReports(Append(q.events, e), d)
<1> DEFINE n == Len(q.events)
           s == Append(q.events, e)
<1>1. /\ n \in Nat /\ DOMAIN q.events = 1..n /\ DOMAIN s = 1..(n + 1)
      /\ \A i \in 1..n : s[i] = q.events[i]
      /\ s[n + 1] = e
    BY DEF Queue
<1> HIDE DEF n, s
<1> SUFFICES ASSUME NEW j \in 1..(n + 1), s[j].kind = "key"
             PROVE  /\ s[j].type # "single"
                    /\ s[j].page = PageOf[s[j].usage]
                    /\ \A i \in 1..(j - 1) :
                           /\ s[i].page = s[j].page
                           /\ \A k \in (i + 1)..(j - 1) : s[k].page # s[j].page
                           => s[j].report = Applied(s[i].report, s[j])
                    /\ (\A k \in 1..(j - 1) : s[k].page # s[j].page)
                           => s[j].report = Applied(d[s[j].page], s[j])
    BY <1>1 DEF ConsecutiveReports, s
<1>2. CASE j \in 1..n
    <2>1. \A k \in 1..j : s[k] = q.events[k]
        BY <1>1, <1>2
    <2>2. \A i \in 1..(j - 1) : i \in 1..j /\ \A k \in (i + 1)..(j - 1) : k \in 1..j
        BY <1>1, <1>2
    <2>3. j \in 1..j /\ j \in DOMAIN q.events
        BY <1>1, <1>2
    <2> QED
        BY <2>1, <2>2, <2>3 DEF ConsecutiveReports
<1>3. CASE j = n + 1
    <2>1. s[j] = e /\ e.kind = "key" /\ j - 1 = n
        BY <1>1, <1>3
    <2>2. ASSUME NEW i \in 1..n, s[i].page = e.page, \A k \in (i + 1)..n : s[k].page # e.page
          PROVE  e.report = Applied(s[i].report, e)
        <3>1. q.events[i].page = e.page /\ \A k \in (i + 1)..n : q.events[k].page # e.page
            BY <1>1, <2>2
        <3>2. PICK l \in DOMAIN q.events :
                  /\ q.events[l].page = e.page
                  /\ \A k \in DOMAIN q.events : q.events[k].page = e.page => k <= l
                  /\ q.events[l].report = q.report[e.page]
            BY <1>1, <2>1, <3>1 DEF LastSnapshot
        <3>3. l = i
            BY <1>1, <3>1, <3>2
        <3> QED
            BY <1>1, <2>1, <3>2, <3>3
    <2>3. ASSUME \A k \in 1..n : s[k].page # e.page
          PROVE  e.report = Applied(d[e.page], e)
        <3>1. \A k \in DOMAIN q.events : q.events[k].page # e.page
            BY <1>1, <2>3
        <3> QED
            BY <2>1, <3>1 DEF LastSnapshot
    <2> QED
        BY <2>1, <2>2, <2>3
<1> QED
    BY <1>1, <1>2, <1>3

\* Posting the front event keeps the reports consecutive: what the device had
\* before the second event of a page is the report of the first.
LEMMA PostingKeepsConsecutiveReports ==
    ASSUME NEW events \in Seq(Event), events # <<>>, NEW d, NEW f,
           ConsecutiveReports(events, d),
           \A p \in Pages : f[p] = IF events[1].page = p THEN events[1].report ELSE d[p]
    PROVE  ConsecutiveReports(Tail(events), f)
<1> DEFINE n == Len(events)
           s == Tail(events)
<1>1. /\ n \in Nat /\ n > 0 /\ DOMAIN events = 1..n /\ DOMAIN s = 1..(n - 1)
      /\ \A i \in 1..(n - 1) : s[i] = events[i + 1]
    OBVIOUS
<1> HIDE DEF n, s
<1> SUFFICES ASSUME NEW j \in 1..(n - 1), s[j].kind = "key"
             PROVE  /\ s[j].type # "single"
                    /\ s[j].page = PageOf[s[j].usage]
                    /\ \A i \in 1..(j - 1) :
                           /\ s[i].page = s[j].page
                           /\ \A k \in (i + 1)..(j - 1) : s[k].page # s[j].page
                           => s[j].report = Applied(s[i].report, s[j])
                    /\ (\A k \in 1..(j - 1) : s[k].page # s[j].page)
                           => s[j].report = Applied(f[s[j].page], s[j])
    BY <1>1 DEF ConsecutiveReports, s
<1>2. j + 1 \in DOMAIN events /\ s[j] = events[j + 1] /\ events[j + 1].kind = "key"
    BY <1>1
<1> DEFINE e == events[j + 1]
<1>3. /\ e.type # "single"
      /\ e.page = PageOf[e.usage]
      /\ \A i \in 1..j :
             /\ events[i].page = e.page
             /\ \A k \in (i + 1)..j : events[k].page # e.page
             => e.report = Applied(events[i].report, e)
      /\ (\A k \in 1..j : events[k].page # e.page) => e.report = Applied(d[e.page], e)
    <2>1. (j + 1) - 1 = j
        BY <1>1
    <2> QED
        BY <1>2, <2>1 DEF ConsecutiveReports
<1>4. e.page \in Pages
    BY <1>2 DEF Event
<1>5. s[j] = e
    BY <1>2
<1> HIDE DEF e
<1>6. ASSUME NEW i \in 1..(j - 1), s[i].page = e.page,
             \A k \in (i + 1)..(j - 1) : s[k].page # e.page
      PROVE  e.report = Applied(s[i].report, e)
    <2>1. i + 1 \in 1..j /\ s[i] = events[i + 1]
        BY <1>1
    <2>2. ASSUME NEW k \in ((i + 1) + 1)..j
          PROVE  events[k].page # e.page
        <3>1. k - 1 \in (i + 1)..(j - 1) /\ k - 1 \in 1..(n - 1) /\ (k - 1) + 1 = k
            BY <1>1
        <3>2. s[k - 1] = events[(k - 1) + 1]
            BY <1>1, <3>1
        <3> QED
            BY <1>6, <3>1, <3>2
    <2> QED
        BY <1>3, <1>6, <2>1, <2>2
<1>7. ASSUME \A k \in 1..(j - 1) : s[k].page # e.page
      PROVE  e.report = Applied(f[e.page], e)
    <2>1. ASSUME NEW k \in 2..j
          PROVE  events[k].page # e.page
        <3>1. k - 1 \in 1..(j - 1) /\ k - 1 \in 1..(n - 1) /\ (k - 1) + 1 = k
            BY <1>1
        <3>2. s[k - 1] = events[(k - 1) + 1]
            BY <1>1, <3>1
        <3> QED
            BY <1>7, <3>1, <3>2
    <2>2. CASE events[1].page = e.page
        <3>1. 1 \in 1..j /\ 1 + 1 = 2
            BY <1>1
        <3>2. e.report = Applied(events[1].report, e)
            BY <1>3, <2>1, <2>2, <3>1
        <3> QED
            BY <1>4, <2>2, <3>2
    <2>3. CASE events[1].page # e.page
        <3>1. \A k \in 1..j : k = 1 \/ k \in 2..j
            BY <1>1
        <3>2. \A k \in 1..j : events[k].page # e.page
            BY <2>1, <2>3, <3>1
        <3> QED
            BY <1>3, <1>4, <2>3, <3>2
    <2> QED
        BY <2>2, <2>3
<1> QED
    BY <1>3, <1>5, <1>6, <1>7

\* The queue r is q with the event x of usage u, whose page is now its report.
AppendsKey(q, r, x, u, t) ==
    /\ x.kind = "key" /\ x.type = t /\ x.usage = u /\ x.page = PageOf[u]
    /\ x.report = Applied(q.report[x.page], x)
    /\ r.events = Append(q.events, x)
    /\ \A p \in Pages : r.report[p] = IF p = x.page THEN x.report ELSE q.report[p]

\* What emplace_back_key_event adds to the queue.
LEMMA KeyEventAppends ==
    ASSUME NEW q \in Queue, NEW u \in Usages, NEW t \in {"key_down", "key_up"}, NEW s \in Nat
    PROVE  \E x \in Event : AppendsKey(q, emplace_back_key_event(q, u, t, s), x, u, t)
<1> DEFINE e == [kind |-> "key", type |-> t, usage |-> u, page |-> PageOf[u],
                 report |-> next_report(q, u, t), buttons |-> {}, time_stamp |-> s]
           m == u \in ModifierUsages
           r == Enqueue(q, e, m)
           f == emplace_back_key_event(q, u, t, s)
<1>1. PageOf[u] \in Pages
    BY PageAssumption
<1>2. next_report(q, u, t) \in SUBSET Usages
    BY <1>1 DEF next_report, Queue
<1>3. /\ e \in Event /\ e.kind = "key" /\ e.type = t /\ e.usage = u /\ e.page = PageOf[u]
      /\ e.report = next_report(q, u, t)
    BY <1>1, <1>2 DEF Event
<1>4. m \in BOOLEAN
    OBVIOUS
<1>5. f = [r EXCEPT !.report[PageOf[u]] = next_report(q, u, t),
                    !.repeating_key = next_repeating_key(@, u, t)]
    BY DEF emplace_back_key_event
<1> HIDE DEF e, m, f
<1>6. PICK x \in Event : /\ x.kind = "key" /\ x.type = t /\ x.usage = u /\ x.page = PageOf[u]
                        /\ x.report = next_report(q, u, t)
                        /\ r.events = Append(q.events, x) /\ r.report = q.report
    BY <1>3, <1>4, EnqueueAppends
<1>7. r \in Queue
    BY <1>3, <1>4, EnqueueType
<1> HIDE DEF r
<1>8. /\ f.events = Append(q.events, x)
      /\ \A p \in Pages : f.report[p] = IF p = x.page THEN x.report ELSE q.report[p]
    BY <1>5, <1>6, <1>7 DEF Queue
<1>9. x.report = Applied(q.report[x.page], x)
    BY <1>6 DEF next_report, Applied
<1>10. AppendsKey(q, f, x, u, t)
    BY <1>6, <1>8, <1>9 DEF AppendsKey
<1> QED
    BY <1>6, <1>10 DEF f

\* A key event keeps the reports consecutive and on their pages.
LEMMA KeyEventKeepsReports ==
    ASSUME NEW q \in Queue, NEW u \in Usages, NEW t \in {"key_down", "key_up"}, NEW s \in Nat,
           NEW d, ConsecutiveReports(q.events, d), OnPages(q, d),
           \A p \in Pages : LastSnapshot(q, d[p], p)
    PROVE  /\ ConsecutiveReports(emplace_back_key_event(q, u, t, s).events, d)
           /\ OnPages(emplace_back_key_event(q, u, t, s), d)
<1> DEFINE r == emplace_back_key_event(q, u, t, s)
<1>0. PICK x \in Event : AppendsKey(q, r, x, u, t)
    BY KeyEventAppends
<1> HIDE DEF r
<1>1. /\ x.kind = "key" /\ x.type = t /\ x.usage = u /\ x.page = PageOf[u]
      /\ x.report = Applied(q.report[x.page], x)
      /\ r.events = Append(q.events, x)
      /\ \A p \in Pages : r.report[p] = IF p = x.page THEN x.report ELSE q.report[p]
    BY <1>0 DEF AppendsKey
<1>2. x.page \in Pages
    BY <1>1, PageAssumption
<1>3. ConsecutiveReports(r.events, d)
    BY <1>1, <1>2, AppendKeepsConsecutiveReports
<1>4. OnPage(x.report, x.page)
    BY <1>1, <1>2 DEF OnPages, OnPage, Applied
<1>5. \A p \in Pages : OnPage(r.report[p], p) /\ OnPage(d[p], p)
    BY <1>1, <1>2, <1>4 DEF OnPages, Queue
<1>6. \A i \in DOMAIN r.events : r.events[i] = x \/ (i \in DOMAIN q.events /\ r.events[i] = q.events[i])
    BY <1>1 DEF Queue
<1>7. ASSUME NEW i \in DOMAIN r.events, r.events[i].kind = "key"
      PROVE  OnPage(r.events[i].report, r.events[i].page)
    BY <1>4, <1>6, <1>7 DEF OnPages
<1> QED
    BY <1>3, <1>5, <1>7 DEF OnPages, r

\* Any other event keeps them, too.
LEMMA OtherEventKeepsReports ==
    ASSUME NEW q \in Queue, NEW r, NEW e \in Event, e.kind # "key",
           NEW d, ConsecutiveReports(q.events, d), OnPages(q, d),
           r.events = Append(q.events, e), r.report = q.report
    PROVE  ConsecutiveReports(r.events, d) /\ OnPages(r, d)
<1>1. ConsecutiveReports(r.events, d)
    BY AppendKeepsConsecutiveReports
<1>2. \A i \in DOMAIN r.events : r.events[i] = e \/ (i \in DOMAIN q.events /\ r.events[i] = q.events[i])
    BY DEF Queue
<1> QED
    BY <1>1, <1>2 DEF OnPages

\* The reports that are queued, and what they say of the device.
ReportsAreConsecutive ==
    /\ ConsecutiveReports(queue.events, device_report)
    /\ OnPages(queue, device_report)
    /\ PressedKeysArePosted

\* Posting a key event changes the keys of the device by the key of the event:
\* its report differs from the one before by that key, and no other page has it.
LEMMA PostingChangesOneKey ==
    ASSUME TypeOK, ReportsAreConsecutive, queue.events # <<>>,
           NEW f, f = report_after(Front)
    PROVE  pressed_after(Front) = UNION {f[p] : p \in Pages}
<1> DEFINE e == Front
<1>1. /\ e \in Event /\ e = queue.events[1] /\ 1 \in DOMAIN queue.events
      /\ device_report \in [Pages -> SUBSET Usages]
    BY DEF TypeOK, Queue, Front
<1>2. pressed_keys_manager = UNION {device_report[p] : p \in Pages}
    BY DEF ReportsAreConsecutive, PressedKeysArePosted
<1>3. CASE e.kind # "key"
    BY <1>2, <1>3 DEF report_after, pressed_after
<1>4. CASE e.kind = "key"
    <2>1. /\ e.type # "single" /\ e.page = PageOf[e.usage] /\ e.page \in Pages
          /\ e.report = Applied(device_report[e.page], e)
        <3>1. e.page \in Pages
            BY <1>1, <1>4 DEF Event
        <3>2. \A k \in 1..(1 - 1) : queue.events[k].page # e.page
            OBVIOUS
        <3> QED
            BY <1>1, <1>4, <3>1, <3>2 DEF ReportsAreConsecutive, ConsecutiveReports
    <2>2. e.type \in {"key_down", "key_up"}
        BY <1>1, <2>1 DEF Event
    <2>3. f = [device_report EXCEPT ![e.page] = e.report]
        BY <1>4 DEF report_after
    <2>4. \A p \in Pages : OnPage(device_report[p], p)
        BY DEF ReportsAreConsecutive, OnPages
    <2> HIDE DEF e
    <2>5. CASE e.type = "key_down"
        <3>1. f = [device_report EXCEPT ![e.page] = @ \cup {e.usage}]
            BY <2>1, <2>3, <2>5 DEF Applied
        <3>2. pressed_after(e) = pressed_keys_manager \cup {e.usage}
            BY <1>4, <2>5 DEF pressed_after
        <3>3. \A u : u \in UNION {f[p] : p \in Pages} <=> u \in pressed_keys_manager \/ u = e.usage
            BY <1>1, <1>2, <2>1, <3>1
        <3> QED
            BY <3>2, <3>3 DEF e
    <2>6. CASE e.type = "key_up"
        <3>1. f = [device_report EXCEPT ![e.page] = @ \ {e.usage}]
            BY <2>1, <2>3, <2>6 DEF Applied
        <3>2. pressed_after(e) = pressed_keys_manager \ {e.usage}
            BY <1>4, <2>6 DEF pressed_after
        <3>3. \A p \in Pages : e.usage \in device_report[p] => p = e.page
            BY <2>1, <2>4 DEF OnPage
        <3>4. \A u : u \in UNION {f[p] : p \in Pages} <=> u \in pressed_keys_manager /\ u # e.usage
            BY <1>1, <1>2, <2>1, <3>1, <3>3
        <3> QED
            BY <3>2, <3>4 DEF e
    <2> QED
        BY <2>2, <2>5, <2>6
<1> QED
    BY <1>3, <1>4

\* The keys the event tap thread is told are held are the keys in the reports
\* the device received, after every single report: the set is kept key by key
\* (handle_posted_momentary_switch_event) while the reports are snapshots made
\* when the events were queued, and other events may lie between them.
THEOREM HeldKeysAreReported == Spec => []PressedKeysArePosted
<1>1. Init => ReportsAreConsecutive
    BY DEF Init, EmptyQueue, ReportsAreConsecutive, ConsecutiveReports, OnPages, OnPage,
           PressedKeysArePosted
<1>2. TypeOK /\ TypeOK' /\ ReportIsLastSnapshot /\ ReportsAreConsecutive /\ [Next]_vars
          => ReportsAreConsecutive'
    <2> SUFFICES ASSUME TypeOK, TypeOK', ReportIsLastSnapshot, ReportsAreConsecutive, [Next]_vars
                 PROVE  ReportsAreConsecutive'
        OBVIOUS
    <2>0. /\ queue \in Queue /\ ConsecutiveReports(queue.events, device_report)
          /\ OnPages(queue, device_report) /\ PressedKeysArePosted
          /\ \A p \in Pages : LastSnapshot(queue, device_report[p], p)
        BY DEF TypeOK, ReportsAreConsecutive, ReportIsLastSnapshot, LastSnapshot
    <2>1. ASSUME NEW u \in Usages, NEW t \in {"key_down", "key_up"}, NEW s \in 0..MaxTime,
                 EmplaceBackKeyEvent(u, t, s)
          PROVE  ReportsAreConsecutive'
        <3>1. s \in Nat
            BY TimeAssumption
        <3>2. /\ queue' = emplace_back_key_event(queue, u, t, s) /\ device_report' = device_report
              /\ pressed_keys_manager' = pressed_keys_manager
            BY <2>1 DEF EmplaceBackKeyEvent, Arrives, posted
        <3>3. ConsecutiveReports(queue'.events, device_report) /\ OnPages(queue', device_report)
            BY <2>0, <3>1, <3>2, KeyEventKeepsReports
        <3> QED
            BY <2>0, <3>2, <3>3 DEF ReportsAreConsecutive, PressedKeysArePosted
    <2>2. ASSUME NEW b \in SUBSET Buttons, NEW t \in EventTypes, NEW s \in 0..MaxTime,
                 EmplaceBackPointingInput(b, t, s)
          PROVE  ReportsAreConsecutive'
        <3> DEFINE e == [kind |-> "pointing", type |-> t, usage |-> None, page |-> None,
                         report |-> {}, buttons |-> b, time_stamp |-> s]
        <3>1. e \in Event /\ e.kind # "key"
            BY TimeAssumption DEF Event
        <3>2. /\ queue' = Enqueue(queue, e, FALSE) /\ device_report' = device_report
              /\ pressed_keys_manager' = pressed_keys_manager
            BY <2>2 DEF EmplaceBackPointingInput, Arrives, posted, emplace_back_pointing_input
        <3> HIDE DEF e
        <3>0. FALSE \in BOOLEAN
            OBVIOUS
        <3>3. PICK x \in Event : /\ x.kind = e.kind
                                /\ Enqueue(queue, e, FALSE).events = Append(queue.events, x)
                                /\ Enqueue(queue, e, FALSE).report = queue.report
            BY <2>0, <3>0, <3>1, EnqueueAppends
        <3>4. ConsecutiveReports(queue'.events, device_report) /\ OnPages(queue', device_report)
            BY <2>0, <3>1, <3>2, <3>3, OtherEventKeepsReports
        <3> QED
            BY <2>0, <3>2, <3>4 DEF ReportsAreConsecutive, PressedKeysArePosted
    <2>3. ASSUME NEW s \in 0..MaxTime, PushBackCommandEvent(s)
          PROVE  ReportsAreConsecutive'
        <3> DEFINE e == [kind |-> "command", type |-> "single", usage |-> None,
                         page |-> None, report |-> {}, buttons |-> {}, time_stamp |-> s]
        <3>1. e \in Event /\ e.kind # "key"
            BY TimeAssumption DEF Event
        <3>2. /\ queue'.events = Append(queue.events, e) /\ queue'.report = queue.report
              /\ device_report' = device_report /\ pressed_keys_manager' = pressed_keys_manager
            BY <2>0, <2>3 DEF PushBackCommandEvent, Arrives, posted, push_back_command_event, Queue
        <3> HIDE DEF e
        <3>3. ConsecutiveReports(queue'.events, device_report) /\ OnPages(queue', device_report)
            BY <2>0, <3>1, <3>2, OtherEventKeepsReports
        <3> QED
            BY <2>0, <3>2, <3>3 DEF ReportsAreConsecutive, PressedKeysArePosted
    <2>4. CASE PostFront
        <3> DEFINE e == queue.events[1]
        <3>1. /\ queue.events # <<>> /\ queue'.events = Tail(queue.events)
              /\ queue'.report = queue.report /\ device_report' = report_after(e)
              /\ Front = e /\ pressed_keys_manager' = pressed_after(e)
            BY <2>0, <2>4 DEF PostFront, TakeFront, Front, Queue
        <3>2. /\ queue.events \in Seq(Event) /\ e \in Event /\ 1 \in DOMAIN queue.events
              /\ device_report \in [Pages -> SUBSET Usages]
            BY <2>0, <3>1 DEF Queue, TypeOK
        <3>3. \A p \in Pages : device_report'[p] = IF e.page = p THEN e.report ELSE device_report[p]
            BY <3>1, <3>2, NoneAssumption DEF report_after, Event
        <3>4. ConsecutiveReports(queue'.events, device_report')
            BY <2>0, <3>1, <3>2, <3>3, PostingKeepsConsecutiveReports
        <3>5. \A i \in DOMAIN queue'.events :
                  i + 1 \in DOMAIN queue.events /\ queue'.events[i] = queue.events[i + 1]
            BY <3>1, <3>2
        <3>6. \A p \in Pages : OnPage(device_report'[p], p)
            <4>1. e.page \in Pages => OnPage(e.report, e.page)
                BY <2>0, <3>2, NoneAssumption DEF OnPages, Event
            <4> QED
                BY <2>0, <3>3, <4>1 DEF OnPages
        <3>7. OnPages(queue', device_report')
            BY <2>0, <3>1, <3>5, <3>6 DEF OnPages
        <3>8. PressedKeysArePosted'
            BY <3>1, PostingChangesOneKey DEF PressedKeysArePosted
        <3> QED
            BY <3>4, <3>7, <3>8 DEF ReportsAreConsecutive
    <2>5. CASE UNCHANGED <<queue, device_report, pressed_keys_manager>>
        BY <2>0, <2>5 DEF ReportsAreConsecutive, PressedKeysArePosted
    <2> QED
        BY <2>1, <2>2, <2>3, <2>4, <2>5
        DEF Next, AsyncPostEvents, StartTask, FinishTask, Tick, vars, posted
<1>3. ReportsAreConsecutive => PressedKeysArePosted
    BY DEF ReportsAreConsecutive
<1> QED
    BY <1>1, <1>2, <1>3, TypeCorrect, SnapshotsReachTheDevice, PTL DEF Spec
=============================================================================
