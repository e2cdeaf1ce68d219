---------------------------- MODULE IpcServerProofs ----------------------------
(***************************************************************************)
(* The properties of the event bus, of the timeline and of the IPC server  *)
(* hold for any events, subscribers, connections and requests, any ranks   *)
(* and queue sizes, and every interleaving.                                *)
(*                                                                         *)
(* Events: all that is on its way keeps the order of publication (InLine), *)
(* a delivery is in one place only, and the ledger agrees with it: each    *)
(* delivery that was due is taken, queued, waiting for the loop, or lost,  *)
(* and dropped counts the lost ones (BusInv).  The timeline holds public   *)
(* events only, later than the last clearing (LogInv).  What a full queue  *)
(* gives up is outranked by what it keeps, at every step of the fold that  *)
(* walks it (Guarded).                                                     *)
(*                                                                         *)
(* Requests: the queue of a connection holds its queued requests in the    *)
(* order they were sent, behind the one its worker serves; a withdrawn     *)
(* request is owed by one stop that is still at work; what is unanswered   *)
(* has no answer (ServerInv).                                              *)
(*                                                                         *)
(* Publish, Flush and a stop walk their queues with a fold.  What the      *)
(* fold computes is proved by induction over the beginnings of the         *)
(* sequence, for a set of naturals, from the least element of its          *)
(* complement (Least, Induction, UpTo).                                    *)
(***************************************************************************)
EXTENDS IpcServer, SequenceTheorems, FiniteSetTheorems, WellFoundedInduction, TLAPS

--------------------------------------------------------------------------------
(* Induction, and what a fold computes                                        *)

\* A set of naturals that is not empty has a least element.
LEMMA Least ==
  ASSUME NEW T, T \subseteq Nat, T # {}
  PROVE  \E n \in T : \A m \in T : n <= m
<1>1. \E n \in T : \A m \in T : ~ (<<m, n>> \in OpToRel(<, Nat))
  BY WFMin, NatLessThanWellFounded
<1>2. \A n \in T, m \in T : <<m, n>> \in OpToRel(<, Nat) <=> m < n
  BY DEF OpToRel
<1>3. PICK n \in T : \A m \in T : ~ (<<m, n>> \in OpToRel(<, Nat))
  BY <1>1
<1>4. \A m \in T : ~(m < n)
  BY <1>2, <1>3
<1>5. \A m \in T : n <= m
  BY <1>4
<1> QED BY <1>5

\* Induction, for a set instead of a predicate.
LEMMA Induction ==
  ASSUME NEW S, 0 \in S, \A n \in Nat : n \in S => n + 1 \in S
  PROVE  Nat \subseteq S
<1> SUFFICES ASSUME Nat \ S # {} PROVE FALSE
  OBVIOUS
<1> PICK n \in Nat \ S : \A m \in Nat \ S : n <= m
  BY Least
<1>1. n # 0
  OBVIOUS
<1>2. n - 1 \in Nat
  BY <1>1
<1>3. n - 1 \in S
  BY <1>2
<1>4. (n - 1) + 1 \in S
  BY <1>2, <1>3
<1> QED BY <1>4

\* Induction up to a bound.
LEMMA UpTo ==
  ASSUME NEW n \in Nat, NEW S, 0 \in S, \A k \in 0..(n - 1) : k \in S => k + 1 \in S
  PROVE  n \in S
<1> DEFINE T == {k \in Nat : k <= n => k \in S}
<1>1. 0 \in T
  OBVIOUS
<1>2. \A k \in Nat : k \in T => k + 1 \in T
  OBVIOUS
<1> HIDE DEF T
<1>3. n \in T
  BY <1>1, <1>2, Induction
<1> QED BY <1>3 DEF T

LEMMA MaxIs ==
  ASSUME NEW n \in Nat, NEW s \in SUBSET (1..(n + 1)), n + 1 \in s
  PROVE  Max(s) = n + 1
<1>1. \A x \in s : n + 1 >= x
  OBVIOUS
<1>2. \A x \in s : (\A y \in s : x >= y) => x = n + 1
  OBVIOUS
<1> QED BY <1>1, <1>2 DEF Max

LEMMA MaxIn ==
  ASSUME NEW n \in Nat, NEW s \in SUBSET (1..n), s # {}
  PROVE  Max(s) \in s
<1> DEFINE T == {n - x : x \in s}
<1>0. \A x \in s : x \in 1..n /\ n - x \in Nat
  OBVIOUS
<1>1. T \subseteq Nat /\ T # {}
  BY <1>0
<1> HIDE DEF T
<1>2. PICK m \in T : \A k \in T : m <= k
  BY <1>1, Least
<1> USE DEF T
<1>3. PICK x \in s : m = n - x
  OBVIOUS
<1>4. ASSUME NEW y \in s PROVE x >= y
  <2>1. n - y \in T
    OBVIOUS
  <2>2. n - x <= n - y
    BY <1>2, <1>3, <2>1
  <2> QED BY <1>0, <2>2
<1> QED BY <1>4 DEF Max

\* The three operators that are folded over a sequence.
Step(operator, state, item) ==
  IF operator = "deliver" THEN Delivered(state, item)
  ELSE IF operator = "lose" THEN Undelivered(state, item)
  ELSE Retained(state, item)

\* The function by which a fold is defined, on the sets of indices up to n.
Iterates(g, operator, base, seq, n) ==
  g = [s \in SUBSET (1..n) |->
         IF s = {} THEN base ELSE Step(operator, g[s \ {Max(s)}], seq[Max(s)])]

LEMMA IteratesExist ==
  ASSUME NEW operator, NEW base, NEW seq
  PROVE  \A n \in Nat : \E g : Iterates(g, operator, base, seq, n)
<1> DEFINE S == {n \in Nat : \E g : Iterates(g, operator, base, seq, n)}
<1>1. 0 \in S
  <2> DEFINE g == [s \in SUBSET (1..0) |-> base]
  <2>1. \A s \in SUBSET (1..0) : s = {}
    OBVIOUS
  <2>2. Iterates(g, operator, base, seq, 0)
    BY <2>1 DEF Iterates
  <2> QED BY <2>2
<1>2. ASSUME NEW n \in Nat, n \in S PROVE n + 1 \in S
  <2>1. PICK g : Iterates(g, operator, base, seq, n)
    BY <1>2
  <2> DEFINE h == [s \in SUBSET (1..(n + 1)) |->
                     IF n + 1 \in s THEN Step(operator, g[s \ {n + 1}], seq[n + 1]) ELSE g[s]]
  <2>2. ASSUME NEW s \in SUBSET (1..(n + 1))
        PROVE  h[s] = IF s = {} THEN base ELSE Step(operator, h[s \ {Max(s)}], seq[Max(s)])
    <3>1. CASE n + 1 \in s
      <4>1. Max(s) = n + 1
        BY <3>1, MaxIs
      <4>2. s \ {n + 1} \in SUBSET (1..(n + 1)) /\ n + 1 \notin s \ {n + 1}
        OBVIOUS
      <4>3. h[s \ {n + 1}] = g[s \ {n + 1}]
        BY <4>2
      <4> HIDE DEF h
      <4>4. h[s] = Step(operator, g[s \ {n + 1}], seq[n + 1])
        BY <3>1 DEF h
      <4> QED BY <3>1, <4>1, <4>3, <4>4
    <3>2. CASE n + 1 \notin s /\ s # {}
      <4>1. s \in SUBSET (1..n)
        BY <3>2
      <4>2. Max(s) \in s
        BY <3>2, <4>1, MaxIn
      <4>3. s \ {Max(s)} \in SUBSET (1..(n + 1)) /\ n + 1 \notin s \ {Max(s)}
        BY <3>2
      <4>4. h[s \ {Max(s)}] = g[s \ {Max(s)}] /\ h[s] = g[s]
        BY <3>2, <4>3
      <4>5. g[s] = Step(operator, g[s \ {Max(s)}], seq[Max(s)])
        BY <2>1, <3>2, <4>1 DEF Iterates
      <4> HIDE DEF h
      <4> QED BY <3>2, <4>4, <4>5
    <3>3. CASE s = {}
      <4>1. g[{}] = base
        BY <2>1 DEF Iterates
      <4> QED BY <3>3, <4>1
    <3> QED BY <3>1, <3>2, <3>3
  <2>3. h = [s \in SUBSET (1..(n + 1)) |-> h[s]]
    OBVIOUS
  <2> HIDE DEF h
  <2>4. Iterates(h, operator, base, seq, n + 1)
    BY <2>2, <2>3 DEF Iterates
  <2> QED BY <2>4
<1> HIDE DEF S
<1>3. Nat \subseteq S
  BY <1>1, <1>2, Induction
<1> QED BY <1>3 DEF S

\* The values of such a function over the beginnings of the sequence.
LEMMA IteratesRun ==
  ASSUME NEW operator, NEW base, NEW seq, NEW n \in Nat, NEW g, Iterates(g, operator, base, seq, n)
  PROVE  /\ g[1..0] = base
         /\ \A k \in 0..(n - 1) : g[1..(k + 1)] = Step(operator, g[1..k], seq[k + 1])
<1>1. g[1..0] = base
  <2>1. 1..0 = {}
    OBVIOUS
  <2>2. g[{}] = base
    BY DEF Iterates
  <2> QED BY <2>1, <2>2
<1>2. ASSUME NEW k \in 0..(n - 1)
      PROVE  g[1..(k + 1)] = Step(operator, g[1..k], seq[k + 1])
  <2>1. 1..(k + 1) \in SUBSET (1..n) /\ k + 1 \in 1..(k + 1) /\ k \in Nat
    OBVIOUS
  <2>2. Max(1..(k + 1)) = k + 1
    BY <2>1, MaxIs
  <2>3. (1..(k + 1)) \ {k + 1} = 1..k
    BY <2>1
  <2>4. 1..(k + 1) # {}
    BY <2>1
  <2>5. \A s \in SUBSET (1..n) : s # {} => g[s] = Step(operator, g[s \ {Max(s)}], seq[Max(s)])
    BY DEF Iterates
  <2> QED BY <2>1, <2>2, <2>3, <2>4, <2>5
<1> QED BY <1>1, <1>2

\* A fold runs through a sequence of states, one for each element.
Runs(f, operator, base, seq, n, end) ==
  /\ f[0] = base /\ f[n] = end
  /\ \A k \in 0..(n - 1) : f[k + 1] = Step(operator, f[k], seq[k + 1])

LEMMA FoldRuns ==
  ASSUME NEW operator, NEW base, NEW seq, NEW n \in Nat, NEW g, Iterates(g, operator, base, seq, n)
  PROVE  \E f : Runs(f, operator, base, seq, n, g[1..n])
<1> DEFINE f == [k \in 0..n |-> g[1..k]]
<1>1. f[0] = base /\ f[n] = g[1..n]
  <2>1. f[0] = g[1..0] /\ f[n] = g[1..n]
    OBVIOUS
  <2> HIDE DEF f
  <2> QED BY <2>1, IteratesRun
<1>2. ASSUME NEW k \in 0..(n - 1) PROVE f[k + 1] = Step(operator, f[k], seq[k + 1])
  <2>1. f[k] = g[1..k] /\ f[k + 1] = g[1..(k + 1)]
    OBVIOUS
  <2> HIDE DEF f
  <2> QED BY <2>1, IteratesRun
<1> HIDE DEF f
<1>3. Runs(f, operator, base, seq, n, g[1..n])
  BY <1>1, <1>2 DEF Runs
<1> QED BY <1>3

LEMMA DeliverRuns ==
  ASSUME NEW base, NEW seq, NEW n \in Nat, DOMAIN seq = 1..n
  PROVE  \E f : Runs(f, "deliver", base, seq, n, FoldLeft(Delivered, base, seq))
<1> DEFINE It(g) == g = [s \in SUBSET (1..n) |->
                           IF s = {} THEN base ELSE Delivered(g[s \ {Max(s)}], seq[Max(s)])]
           iter == CHOOSE g : It(g)
<1>1. FoldLeft(Delivered, base, seq) = iter[1..n]
  BY DEF FoldLeft, MapThenFoldSet
<1>2. \A g : It(g) <=> Iterates(g, "deliver", base, seq, n)
  BY DEF Iterates, Step
<1>3. Iterates(iter, "deliver", base, seq, n)
  <2> HIDE DEF It
  <2> QED BY <1>2, IteratesExist
<1> HIDE DEF iter
<1> QED BY <1>1, <1>3, FoldRuns

LEMMA LoseRuns ==
  ASSUME NEW base, NEW seq, NEW n \in Nat, DOMAIN seq = 1..n
  PROVE  \E f : Runs(f, "lose", base, seq, n, FoldLeft(Undelivered, base, seq))
<1> DEFINE It(g) == g = [s \in SUBSET (1..n) |->
                           IF s = {} THEN base ELSE Undelivered(g[s \ {Max(s)}], seq[Max(s)])]
           iter == CHOOSE g : It(g)
<1>1. FoldLeft(Undelivered, base, seq) = iter[1..n]
  BY DEF FoldLeft, MapThenFoldSet
<1>2. \A g : It(g) <=> Iterates(g, "lose", base, seq, n)
  BY DEF Iterates, Step
<1>3. Iterates(iter, "lose", base, seq, n)
  <2> HIDE DEF It
  <2> QED BY <1>2, IteratesExist
<1> HIDE DEF iter
<1> QED BY <1>1, <1>3, FoldRuns

LEMMA RetainRuns ==
  ASSUME NEW base, NEW seq, NEW n \in Nat, DOMAIN seq = 1..n
  PROVE  \E f : Runs(f, "retain", base, seq, n, FoldLeft(Retained, base, seq))
<1> DEFINE It(g) == g = [s \in SUBSET (1..n) |->
                           IF s = {} THEN base ELSE Retained(g[s \ {Max(s)}], seq[Max(s)])]
           iter == CHOOSE g : It(g)
<1>1. FoldLeft(Retained, base, seq) = iter[1..n]
  BY DEF FoldLeft, MapThenFoldSet
<1>2. \A g : It(g) <=> Iterates(g, "retain", base, seq, n)
  BY DEF Iterates, Step
<1>3. Iterates(iter, "retain", base, seq, n)
  <2> HIDE DEF It
  <2> QED BY <1>2, IteratesExist
<1> HIDE DEF iter
<1> QED BY <1>1, <1>3, FoldRuns

--------------------------------------------------------------------------------
(* The bounded queues                                                         *)

Rising(seq, pos) == \A i, j \in DOMAIN seq : i < j => pos[seq[i]] < pos[seq[j]]

LEMMA RangeIs ==
  ASSUME NEW T, NEW seq \in Seq(T)
  PROVE  Range(seq) = {seq[i] : i \in 1..Len(seq)} /\ Range(seq) \subseteq T /\ DOMAIN seq = 1..Len(seq)
BY DEF Range

\* A sequence without its v-th element.
LEMMA RemoveAtIs ==
  ASSUME NEW T, NEW seq \in Seq(T), NEW v \in 1..Len(seq)
  PROVE  /\ RemoveAt(seq, v) \in Seq(T) /\ Len(RemoveAt(seq, v)) = Len(seq) - 1
         /\ \A i \in 1..(Len(seq) - 1) : RemoveAt(seq, v)[i] = IF i < v THEN seq[i] ELSE seq[i + 1]
<1> DEFINE left == SubSeq(seq, 1, v - 1)
           right == SubSeq(seq, v + 1, Len(seq))
<1>1. Len(seq) \in Nat /\ v \in Nat /\ v - 1 \in Int /\ v + 1 \in Int /\ 1 \in Int /\ Len(seq) \in Int
  BY LenProperties
<1>2. (\A i \in 1..(v - 1) : seq[i] \in T) /\ (\A i \in (v + 1)..Len(seq) : seq[i] \in T)
  BY <1>1, ElementOfSeq
<1>3. /\ left \in Seq(T) /\ Len(left) = v - 1
      /\ \A i \in 1..(v - 1) : left[i] = seq[i]
  <2>1. /\ left \in Seq(T)
        /\ Len(left) = IF 1 <= v - 1 THEN (v - 1) - 1 + 1 ELSE 0
        /\ \A i \in 1..((v - 1) - 1 + 1) : left[i] = seq[1 + i - 1]
    BY <1>1, <1>2, SubSeqProperties
  <2> HIDE DEF left
  <2>2. Len(left) = v - 1
    BY <1>1, <2>1
  <2>3. ASSUME NEW i \in 1..(v - 1) PROVE left[i] = seq[i]
    <3>1. i \in 1..((v - 1) - 1 + 1) /\ 1 + i - 1 = i
      BY <1>1
    <3> QED BY <2>1, <3>1
  <2> QED BY <2>1, <2>2, <2>3
<1>4. /\ right \in Seq(T) /\ Len(right) = Len(seq) - v
      /\ \A i \in 1..(Len(seq) - v) : right[i] = seq[v + i]
  <2>1. /\ right \in Seq(T)
        /\ Len(right) = IF v + 1 <= Len(seq) THEN Len(seq) - (v + 1) + 1 ELSE 0
        /\ \A i \in 1..(Len(seq) - (v + 1) + 1) : right[i] = seq[(v + 1) + i - 1]
    BY <1>1, <1>2, SubSeqProperties
  <2> HIDE DEF right
  <2>2. Len(right) = Len(seq) - v
    BY <1>1, <2>1
  <2>3. ASSUME NEW i \in 1..(Len(seq) - v) PROVE right[i] = seq[v + i]
    <3>1. i \in 1..(Len(seq) - (v + 1) + 1) /\ (v + 1) + i - 1 = v + i
      BY <1>1
    <3> QED BY <2>1, <3>1
  <2> QED BY <2>1, <2>2, <2>3
<1>5. RemoveAt(seq, v) = left \o right
  BY DEF RemoveAt
<1> HIDE DEF left, right
<1>6. /\ left \o right \in Seq(T) /\ Len(left \o right) = Len(left) + Len(right)
      /\ \A i \in 1..(Len(left) + Len(right)) :
           (left \o right)[i] = IF i <= Len(left) THEN left[i] ELSE right[i - Len(left)]
  BY <1>3, <1>4, ConcatProperties, Zenon
<1>7. Len(left) + Len(right) = Len(seq) - 1
  BY <1>1, <1>3, <1>4
<1>8. ASSUME NEW i \in 1..(Len(seq) - 1)
      PROVE  (left \o right)[i] = IF i < v THEN seq[i] ELSE seq[i + 1]
  <2>1. CASE i < v
    <3>1. i \in 1..(v - 1) /\ i <= Len(left) /\ i \in 1..(Len(left) + Len(right))
      BY <1>1, <1>3, <1>7, <2>1
    <3> QED BY <1>3, <1>6, <2>1, <3>1
  <2>2. CASE ~(i < v)
    <3>1. /\ i - Len(left) \in 1..(Len(seq) - v) /\ ~(i <= Len(left))
          /\ i \in 1..(Len(left) + Len(right)) /\ v + (i - Len(left)) = i + 1
      BY <1>1, <1>3, <1>7, <2>2
    <3>2. (left \o right)[i] = right[i - Len(left)]
      BY <1>6, <3>1
    <3>3. right[i - Len(left)] = seq[v + (i - Len(left))]
      BY <1>4, <3>1
    <3> QED BY <2>2, <3>1, <3>2, <3>3
  <2> QED BY <2>1, <2>2
<1> QED BY <1>5, <1>6, <1>7, <1>8

\* In a rising sequence the v-th element occurs once: without it the others remain.
Shortened(n, v, seq, less, pos) ==
  /\ n \in Nat /\ v \in 1..n /\ DOMAIN seq = 1..n /\ DOMAIN less = 1..(n - 1)
  /\ \A i \in 1..(n - 1) : less[i] = IF i < v THEN seq[i] ELSE seq[i + 1]
  /\ \A i \in 1..n : pos[seq[i]] \in Int
  /\ Rising(seq, pos)

LEMMA WithoutOne ==
  ASSUME NEW n, NEW v, NEW seq, NEW less, NEW pos, Shortened(n, v, seq, less, pos)
  PROVE  Rising(less, pos) /\ Range(less) = Range(seq) \ {seq[v]}
<1> USE DEF Shortened
<1>1. \A k, l \in 1..n : k < l => pos[seq[k]] < pos[seq[l]]
  BY DEF Rising
<1>2. \A i \in 1..(n - 1) : i \in 1..n /\ i + 1 \in 1..n
  OBVIOUS
<1>3. Rising(less, pos)
  <2> SUFFICES ASSUME NEW i \in 1..(n - 1), NEW j \in 1..(n - 1), i < j
               PROVE  pos[less[i]] < pos[less[j]]
    BY DEF Rising
  <2>1. CASE j < v
    <3>1. less[i] = seq[i] /\ less[j] = seq[j]
      BY <2>1
    <3> QED BY <1>1, <1>2, <3>1
  <2>2. CASE i < v /\ ~(j < v)
    <3>1. less[i] = seq[i] /\ less[j] = seq[j + 1] /\ i < j + 1
      BY <2>2
    <3> QED BY <1>1, <1>2, <3>1
  <2>3. CASE ~(i < v) /\ ~(j < v)
    <3>1. less[i] = seq[i + 1] /\ less[j] = seq[j + 1] /\ i + 1 < j + 1
      BY <2>3
    <3> QED BY <1>1, <1>2, <3>1
  <2> QED BY <2>1, <2>2, <2>3
<1>4. ASSUME NEW k \in 1..n, k # v
      PROVE  seq[k] # seq[v]
  <2>1. pos[seq[k]] < pos[seq[v]] \/ pos[seq[v]] < pos[seq[k]]
    BY <1>1, <1>4
  <2> QED BY <2>1
<1>5. ASSUME NEW i \in 1..(n - 1)
      PROVE  \E k \in 1..n : k # v /\ less[i] = seq[k]
  <2>1. CASE i < v BY <1>2, <2>1
  <2>2. CASE ~(i < v)
    <3>1. less[i] = seq[i + 1] /\ i + 1 # v BY <2>2
    <3> QED BY <1>2, <3>1
  <2> QED BY <2>1, <2>2
<1>6. ASSUME NEW k \in 1..n, k # v
      PROVE  \E i \in 1..(n - 1) : less[i] = seq[k]
  <2>1. CASE k < v
    <3>1. k \in 1..(n - 1) BY <2>1
    <3> QED BY <2>1, <3>1
  <2>2. CASE k > v
    <3>1. k - 1 \in 1..(n - 1) /\ ~(k - 1 < v) /\ (k - 1) + 1 = k BY <2>2
    <3>2. less[k - 1] = seq[k] BY <3>1
    <3> QED BY <3>1, <3>2
  <2> QED BY <1>6, <2>1, <2>2
<1>7. Range(seq) = {seq[i] : i \in 1..n} /\ Range(less) = {less[i] : i \in 1..(n - 1)}
  BY DEF Range
<1>8. Range(less) = Range(seq) \ {seq[v]}
  <2>1. \A x \in Range(less) : x \in Range(seq) \ {seq[v]}
    BY <1>4, <1>5, <1>7
  <2>2. \A x \in Range(seq) \ {seq[v]} : x \in Range(less)
    <3> SUFFICES ASSUME NEW k \in 1..n, seq[k] # seq[v] PROVE seq[k] \in Range(less)
      BY <1>7
    <3>1. k # v
      OBVIOUS
    <3> QED BY <1>6, <1>7, <3>1
  <2> QED BY <2>1, <2>2
<1> QED BY <1>3, <1>8

LEMMA RemoveAtKeeps ==
  ASSUME NEW T, NEW seq \in Seq(T), NEW v \in 1..Len(seq), NEW pos \in [T -> Int], Rising(seq, pos)
  PROVE  /\ RemoveAt(seq, v) \in Seq(T) /\ Rising(RemoveAt(seq, v), pos)
         /\ Range(RemoveAt(seq, v)) = Range(seq) \ {seq[v]}
<1> DEFINE rest == RemoveAt(seq, v)
<1>1. /\ rest \in Seq(T) /\ Len(rest) = Len(seq) - 1
      /\ \A i \in 1..(Len(seq) - 1) : rest[i] = IF i < v THEN seq[i] ELSE seq[i + 1]
  BY RemoveAtIs
<1>2. Len(seq) \in Nat /\ DOMAIN seq = 1..Len(seq) /\ DOMAIN rest = 1..(Len(seq) - 1)
  BY <1>1, LenProperties
<1> HIDE DEF rest
<1>3. \A i \in 1..Len(seq) : pos[seq[i]] \in Int
  BY ElementOfSeq
<1>4. PICK n \in Nat : n = Len(seq)
  BY <1>2
<1>5. Rising(rest, pos) /\ Range(rest) = Range(seq) \ {seq[v]}
  <2>1. Shortened(n, v, seq, rest, pos)
    BY <1>1, <1>2, <1>3, <1>4 DEF Shortened
  <2> QED BY <2>1, WithoutOne
<1> QED BY <1>1, <1>5 DEF rest

\* An element later than all of a rising sequence may follow it.
LEMMA AppendKeeps ==
  ASSUME NEW T, NEW seq \in Seq(T), NEW item \in T, NEW pos \in [T -> Int], Rising(seq, pos),
         \A x \in Range(seq) : pos[x] < pos[item]
  PROVE  /\ Append(seq, item) \in Seq(T) /\ Rising(Append(seq, item), pos)
         /\ Range(Append(seq, item)) = Range(seq) \cup {item}
<1> DEFINE longer == Append(seq, item)
<1>1. /\ longer \in Seq(T) /\ Len(longer) = Len(seq) + 1
      /\ \A i \in 1..Len(seq) : longer[i] = seq[i]
      /\ longer[Len(seq) + 1] = item
  BY AppendProperties
<1>2. Len(seq) \in Nat /\ DOMAIN seq = 1..Len(seq) /\ DOMAIN longer = 1..(Len(seq) + 1)
  BY <1>1, LenProperties
<1> HIDE DEF longer
<1>3. Rising(longer, pos)
  <2> SUFFICES ASSUME NEW i \in 1..(Len(seq) + 1), NEW j \in 1..(Len(seq) + 1), i < j
               PROVE  pos[longer[i]] < pos[longer[j]]
    BY <1>2 DEF Rising
  <2>1. i \in 1..Len(seq) /\ (j \in 1..Len(seq) \/ j = Len(seq) + 1)
    BY <1>2
  <2>2. CASE j \in 1..Len(seq)
    BY <1>1, <1>2, <2>1, <2>2 DEF Rising
  <2>3. CASE j = Len(seq) + 1
    <3>1. seq[i] \in Range(seq)
      BY <1>2, <2>1 DEF Range
    <3> QED BY <1>1, <2>1, <2>3, <3>1
  <2> QED BY <2>1, <2>2, <2>3
<1>4. Range(longer) = Range(seq) \cup {item}
  <2>1. 1..(Len(seq) + 1) = 1..Len(seq) \cup {Len(seq) + 1}
    BY <1>2
  <2> QED BY <1>1, <1>2, <2>1 DEF Range
<1> QED BY <1>1, <1>3, <1>4 DEF longer

\* The victim of a sequence that is not empty is one of its elements.
LEMMA VictimIs ==
  ASSUME NEW n \in Nat \ {0}, NEW ranks \in [1..n -> Nat]
  PROVE  Victim(ranks) \in 1..n /\ \A j \in 1..n : ranks[Victim(ranks)] <= ranks[j]
<1>1. PICK low \in {ranks[i] : i \in 1..n} : \A k \in {ranks[i] : i \in 1..n} : low <= k
  <2>1. {ranks[i] : i \in 1..n} \subseteq Nat /\ {ranks[i] : i \in 1..n} # {}
    BY SMT
  <2> QED BY <2>1, Least
<1>2. PICK first \in {i \in 1..n : ranks[i] = low} : \A k \in {i \in 1..n : ranks[i] = low} : first <= k
  <2>1. {i \in 1..n : ranks[i] = low} \subseteq Nat /\ {i \in 1..n : ranks[i] = low} # {}
    BY <1>1
  <2> QED BY <2>1, Least
<1> DEFINE Is(i) == \A j \in 1..n : ranks[i] < ranks[j] \/ (ranks[i] = ranks[j] /\ i <= j)
<1>3. Is(first)
  <2> SUFFICES ASSUME NEW j \in 1..n
               PROVE  ranks[first] < ranks[j] \/ (ranks[first] = ranks[j] /\ first <= j)
    OBVIOUS
  <2>1. low <= ranks[j] /\ low \in Nat /\ ranks[j] \in Nat /\ ranks[first] = low
    BY <1>1, <1>2
  <2>2. ranks[j] = low => first <= j
    BY <1>2
  <2> QED BY <2>1, <2>2
<1>4. first \in 1..n /\ DOMAIN ranks = 1..n
  BY <1>2
<1>5. Victim(ranks) = CHOOSE i \in 1..n : Is(i)
  BY <1>4 DEF Victim
<1> HIDE DEF Is
<1>6. Victim(ranks) \in 1..n /\ Is(Victim(ranks))
  BY <1>3, <1>4, <1>5
<1> QED
  <2> SUFFICES ASSUME NEW j \in 1..n PROVE ranks[Victim(ranks)] <= ranks[j]
    BY <1>6
  <2> QED BY <1>6 DEF Is

\* What a bounded queue admits and what it gives up for it.
Admits(T, seq, ranks, item, rank, pos) ==
  LET new == Admitted(seq, ranks, item, rank) IN
  /\ new \in Seq(T) /\ Rising(new, pos)
  /\ Len(seq) < QueueSize => Range(new) = Range(seq) \cup {item}
  /\ Len(seq) >= QueueSize =>
       /\ Victim(ranks) \in 1..Len(seq) /\ seq[Victim(ranks)] \in Range(seq)
       /\ rank >= ranks[Victim(ranks)] => Range(new) = (Range(seq) \ {seq[Victim(ranks)]}) \cup {item}
       /\ ~(rank >= ranks[Victim(ranks)]) => Range(new) = Range(seq)

LEMMA Admission ==
  ASSUME NEW T, NEW seq \in Seq(T), NEW ranks \in [1..Len(seq) -> Nat], NEW item \in T,
         NEW rank \in Nat, NEW pos \in [T -> Int], Rising(seq, pos),
         \A x \in Range(seq) : pos[x] < pos[item]
  PROVE  Admits(T, seq, ranks, item, rank, pos)
<1> USE DEF Admits
<1>1. Len(seq) \in Nat /\ QueueSize \in Nat /\ QueueSize > 0 /\ DOMAIN seq = 1..Len(seq)
  BY BusAssumption, LenProperties
<1>2. CASE Len(seq) < QueueSize
  BY <1>1, <1>2, AppendKeeps DEF Admitted
<1>3. CASE Len(seq) >= QueueSize
  <2>1. ~(Len(seq) < QueueSize) /\ Len(seq) \in Nat \ {0}
    BY <1>1, <1>3
  <2>2. Victim(ranks) \in 1..Len(seq)
    BY <2>1, VictimIs
  <2>3. seq[Victim(ranks)] \in Range(seq)
    BY <1>1, <2>2 DEF Range
  <2>4. CASE rank >= ranks[Victim(ranks)]
    <3> DEFINE rest == RemoveAt(seq, Victim(ranks))
    <3>1. /\ rest \in Seq(T) /\ Rising(rest, pos) /\ Range(rest) = Range(seq) \ {seq[Victim(ranks)]}
      BY <2>2, RemoveAtKeeps
    <3>2. Admitted(seq, ranks, item, rank) = Append(rest, item)
      BY <2>1, <2>4 DEF Admitted
    <3> HIDE DEF rest
    <3>3. \A x \in Range(rest) : pos[x] < pos[item]
      BY <3>1
    <3>4. /\ Append(rest, item) \in Seq(T) /\ Rising(Append(rest, item), pos)
          /\ Range(Append(rest, item)) = Range(rest) \cup {item}
      BY <3>1, <3>3, AppendKeeps
    <3> QED BY <2>1, <2>2, <2>3, <2>4, <3>1, <3>2, <3>4
  <2>5. CASE ~(rank >= ranks[Victim(ranks)])
    <3>1. Admitted(seq, ranks, item, rank) = seq
      BY <2>1, <2>5 DEF Admitted
    <3> QED BY <2>1, <2>2, <2>3, <2>5, <3>1
  <2> QED BY <2>4, <2>5
<1> QED BY <1>1, <1>2, <1>3

--------------------------------------------------------------------------------
(* Deliveries                                                                 *)

LEMMA CountTogether ==
  ASSUME NEW S, NEW T, IsFiniteSet(S), IsFiniteSet(T), S \cap T = {}
  PROVE  /\ IsFiniteSet(S \cup T) /\ Cardinality(S \cup T) = Cardinality(S) + Cardinality(T)
         /\ Cardinality(S) \in Nat /\ Cardinality(T) \in Nat
<1>1. Cardinality(S \cap T) = 0
  BY FS_EmptySet
<1>2. Cardinality(S) \in Nat /\ Cardinality(T) \in Nat
  BY FS_CardinalityType
<1>3. IsFiniteSet(S \cup T) /\ Cardinality(S \cup T) = Cardinality(S) + Cardinality(T) - Cardinality(S \cap T)
  BY FS_Union
<1> QED BY <1>1, <1>2, <1>3

LEMMA CountAlike ==
  ASSUME NEW S, NEW T, IsFiniteSet(S), NEW g \in [S -> T],
         \A x, y \in S : g[x] = g[y] => x = y,
         \A z \in T : \E x \in S : g[x] = z
  PROVE  IsFiniteSet(T) /\ Cardinality(T) = Cardinality(S)
<1>1. g \in Bijection(S, T)
  BY DEF Bijection, Injection, Surjection, IsInjective
<1>2. ExistsBijection(S, T)
  BY <1>1 DEF ExistsBijection
<1> QED BY <1>2, FS_Bijection

Queues == [Subscribers -> Seq(Events)]
Entries == [event : Events, to : SUBSET Subscribers]
Deliveries == Subscribers \X Events

\* The deliveries that are waiting in the queues, and those of an entry.
Held(q) == {d \in Deliveries : d[2] \in Range(q[d[1]])}
OfEntry(entry) == {d \in Deliveries : d[1] \in entry.to /\ d[2] = entry.event}

\* All of a rising queue is earlier than the event.
ReadyFor(q, event, pos) ==
  \A s \in Subscribers : Rising(q[s], pos) /\ \A x \in Range(q[s]) : pos[x] < pos[event]

LEMMA DeliverStep ==
  ASSUME NEW pos \in [Events -> Int], NEW state, NEW entry \in Entries,
         state.queue \in Queues, state.dropped \in Nat, IsFiniteSet(entry.to),
         ReadyFor(state.queue, entry.event, pos)
  PROVE  /\ Delivered(state, entry).queue \in Queues /\ Delivered(state, entry).dropped \in Nat
         /\ \A s \in Subscribers : Rising(Delivered(state, entry).queue[s], pos)
         /\ Held(Delivered(state, entry).queue) \subseteq Held(state.queue) \cup OfEntry(entry)
         /\ IsFiniteSet((Held(state.queue) \cup OfEntry(entry)) \ Held(Delivered(state, entry).queue))
         /\ Delivered(state, entry).dropped = state.dropped
              + Cardinality((Held(state.queue) \cup OfEntry(entry)) \ Held(Delivered(state, entry).queue))
<1> DEFINE old == state.queue
           new == Delivered(state, entry).queue
           e == entry.event
           full == {s \in entry.to : Len(old[s]) >= QueueSize}
           ranks(s) == EventRanks(old[s])
           v(s) == Victim(ranks(s))
           loses(s) == IF Rank[e] >= ranks(s)[v(s)] THEN old[s][v(s)] ELSE e
           gone == (Held(old) \cup OfEntry(entry)) \ Held(new)
<1>1. e \in Events /\ entry.to \subseteq Subscribers
  BY DEF Entries
<1>2. \A s \in Subscribers :
        new[s] = IF s \in entry.to THEN Admitted(old[s], ranks(s), e, Rank[e]) ELSE old[s]
  BY DEF Delivered
<1>3. new = [s \in Subscribers |->
               IF s \in entry.to THEN Admitted(old[s], ranks(s), e, Rank[e]) ELSE old[s]]
  BY DEF Delivered
<1>4. ASSUME NEW s \in Subscribers
      PROVE  /\ old[s] \in Seq(Events) /\ ranks(s) \in [1..Len(old[s]) -> Nat] /\ Rank[e] \in Nat
             /\ Rising(old[s], pos) /\ \A x \in Range(old[s]) : pos[x] < pos[e] /\ x \in Events
  <2>1. old[s] \in Seq(Events)
    BY DEF Queues
  <2>2. DOMAIN old[s] = 1..Len(old[s]) /\ \A i \in 1..Len(old[s]) : old[s][i] \in Events
    BY <2>1, LenProperties, ElementOfSeq
  <2>3. \A x \in Events : Rank[x] \in Nat
    BY BusAssumption
  <2>4. ranks(s) \in [1..Len(old[s]) -> Nat]
    BY <2>2, <2>3 DEF EventRanks
  <2>5. Range(old[s]) \subseteq Events
    BY <2>1, RangeIs
  <2> QED BY <1>1, <2>1, <2>3, <2>4, <2>5 DEF ReadyFor
<1>5. ASSUME NEW s \in entry.to PROVE Admits(Events, old[s], ranks(s), e, Rank[e], pos)
  <2>1. s \in Subscribers
    BY <1>1
  <2> HIDE DEF ranks, old, e
  <2>2. /\ old[s] \in Seq(Events) /\ ranks(s) \in [1..Len(old[s]) -> Nat] /\ Rank[e] \in Nat
        /\ Rising(old[s], pos) /\ \A x \in Range(old[s]) : pos[x] < pos[e]
    BY <1>4, <2>1
  <2> QED BY <1>1, <2>2, Admission
<1> HIDE DEF old, new, e, ranks
<1>6. new \in Queues /\ \A s \in Subscribers : Rising(new[s], pos)
  <2>1. ASSUME NEW s \in Subscribers PROVE new[s] \in Seq(Events) /\ Rising(new[s], pos)
    BY <1>2, <1>4, <1>5 DEF Admits
  <2> QED BY <1>3, <2>1 DEF Queues
<1>7. ASSUME NEW s \in Subscribers
      PROVE  /\ s \notin entry.to => Range(new[s]) = Range(old[s])
             /\ s \in entry.to /\ s \notin full => Range(new[s]) = Range(old[s]) \cup {e}
             /\ s \in full => /\ loses(s) \in Range(old[s]) \cup {e} /\ loses(s) \in Events
                              /\ Range(new[s]) = (Range(old[s]) \cup {e}) \ {loses(s)}
  <2>1. CASE s \notin entry.to
    BY <1>2, <2>1
  <2>2. CASE s \in entry.to /\ s \notin full
    <3>1. Len(old[s]) \in Nat /\ QueueSize \in Nat
      BY <1>4, LenProperties, BusAssumption
    <3>2. Len(old[s]) < QueueSize
      BY <2>2, <3>1
    <3> QED BY <1>2, <1>5, <2>2, <3>2 DEF Admits
  <2>3. CASE s \in full
    <3>1. s \in entry.to /\ Len(old[s]) >= QueueSize
      BY <2>3
    <3>2. e \notin Range(old[s])
      BY <1>4 
    <3>3. CASE Rank[e] >= ranks(s)[v(s)]
      <4>1. loses(s) = old[s][v(s)] /\ loses(s) \in Range(old[s])
        BY <1>5, <3>1, <3>3 DEF Admits
      <4>2. Range(new[s]) = (Range(old[s]) \ {loses(s)}) \cup {e}
        BY <1>2, <1>5, <3>1, <3>3, <4>1 DEF Admits
      <4> HIDE DEF loses
      <4> QED BY <1>4, <2>3, <3>1, <3>2, <4>1, <4>2
    <3>4. CASE ~(Rank[e] >= ranks(s)[v(s)])
      <4>1. loses(s) = e
        BY <3>4
      <4>2. Range(new[s]) = Range(old[s])
        BY <1>2, <1>5, <3>1, <3>4 DEF Admits
      <4> HIDE DEF loses
      <4> QED BY <1>1, <1>4, <2>3, <3>1, <3>2, <4>1, <4>2
    <3> QED BY <3>3, <3>4
  <2> QED BY <2>1, <2>2, <2>3
<1>8. Held(new) \subseteq Held(old) \cup OfEntry(entry)
  <2> SUFFICES ASSUME NEW s \in Subscribers, NEW x \in Events, x \in Range(new[s]), x \notin Range(old[s])
               PROVE  s \in entry.to /\ x = e
    BY DEF Held, OfEntry, Deliveries, e
  <2> HIDE DEF full, loses
  <2> QED BY <1>7
<1>9. \A s \in Subscribers, x \in Events :
        <<s, x>> \in gone <=> s \in full /\ x = loses(s)
  <2> SUFFICES ASSUME NEW s \in Subscribers, NEW x \in Events
               PROVE  <<s, x>> \in gone <=> s \in full /\ x = loses(s)
    OBVIOUS
  <2>1. <<s, x>> \in gone <=> (x \in Range(old[s]) \/ (s \in entry.to /\ x = e)) /\ x \notin Range(new[s])
    BY DEF Held, OfEntry, Deliveries, e
  <2>2. s \in full => s \in entry.to
    OBVIOUS
  <2> HIDE DEF full, loses, gone
  <2>3. CASE s \in full
    BY <1>7, <2>1, <2>2, <2>3
  <2>4. CASE s \notin full
    BY <1>7, <2>1, <2>2, <2>4
  <2> QED BY <2>3, <2>4
<1>10. IsFiniteSet(full) /\ Cardinality(full) \in Nat
  BY FS_Subset, FS_CardinalityType
<1>11. IsFiniteSet(gone) /\ Cardinality(gone) = Cardinality(full)
  <2> DEFINE g == [s \in full |-> <<s, loses(s)>>]
  <2>1. full \subseteq Subscribers
    BY <1>1
  <2>2. gone \subseteq Deliveries
    BY DEF Held, OfEntry
  <2> HIDE DEF full, loses, gone
  <2>3. \A s \in full : loses(s) \in Events
    BY <1>7, <2>1
  <2>4. \A s \in full : <<s, loses(s)>> \in gone
    BY <1>9, <2>1, <2>3
  <2>5. g \in [full -> gone]
    BY <2>4
  <2>6. \A s, t \in full : g[s] = g[t] => s = t
    OBVIOUS
  <2>7. ASSUME NEW z \in gone PROVE \E s \in full : g[s] = z
    <3>1. PICK s \in Subscribers, x \in Events : z = <<s, x>>
      BY <2>2 DEF Deliveries
    <3>2. s \in full /\ x = loses(s)
      BY <1>9, <3>1
    <3> QED BY <3>1, <3>2
  <2> HIDE DEF g
  <2> QED BY <1>10, <2>5, <2>6, <2>7, CountAlike
<1>12. Delivered(state, entry).dropped = state.dropped + Cardinality(full)
  BY DEF Delivered, old
<1>13. Delivered(state, entry).dropped = state.dropped + Cardinality(gone)
       /\ Delivered(state, entry).dropped \in Nat
  BY <1>10, <1>11, <1>12
<1> QED BY <1>6, <1>8, <1>11, <1>13 DEF new, old

LEMMA CountOfEntry ==
  ASSUME NEW entry \in Entries, IsFiniteSet(entry.to)
  PROVE  IsFiniteSet(OfEntry(entry)) /\ Cardinality(OfEntry(entry)) = Cardinality(entry.to)
<1> DEFINE g == [s \in entry.to |-> <<s, entry.event>>]
<1>1. entry.event \in Events /\ entry.to \subseteq Subscribers
  BY DEF Entries
<1>2. g \in [entry.to -> OfEntry(entry)]
  BY <1>1 DEF OfEntry, Deliveries
<1>3. \A s, t \in entry.to : g[s] = g[t] => s = t
  OBVIOUS
<1>4. \A z \in OfEntry(entry) : \E s \in entry.to : g[s] = z
  BY DEF OfEntry, Deliveries
<1> HIDE DEF g
<1> QED BY <1>2, <1>3, <1>4, CountAlike

\* The deliveries of the first k entries.
Addressed(entries, k) ==
  {d \in Deliveries : \E i \in 1..k : d[1] \in entries[i].to /\ d[2] = entries[i].event}

\* Entries in the order of their events, and queues that are earlier than all of them.
InLine(q, entries, pos) ==
  /\ pos \in [Events -> Int] /\ q \in Queues /\ entries \in Seq(Entries)
  /\ \A s \in Subscribers : Rising(q[s], pos)
  /\ \A i \in DOMAIN entries : IsFiniteSet(entries[i].to)
  /\ \A s \in Subscribers : \A x \in Range(q[s]) : \A i \in DOMAIN entries : pos[x] < pos[entries[i].event]
  /\ \A i, j \in DOMAIN entries : i < j => pos[entries[i].event] < pos[entries[j].event]

\* What the queues and the count of lost deliveries are after k entries.
Reached(q, d, entries, pos, k, state) ==
  LET due0 == Held(q) \cup Addressed(entries, k) IN
  /\ state.queue \in Queues /\ state.dropped \in Nat
  /\ \A s \in Subscribers : Rising(state.queue[s], pos)
  /\ Held(state.queue) \subseteq due0
  /\ IsFiniteSet(due0 \ Held(state.queue))
  /\ state.dropped = d + Cardinality(due0 \ Held(state.queue))

\* One more entry.
LEMMA NextAddressed ==
  ASSUME NEW q, NEW entries, NEW pos, InLine(q, entries, pos), NEW k \in Nat, k + 1 \in DOMAIN entries
  PROVE  /\ Addressed(entries, k + 1) = Addressed(entries, k) \cup OfEntry(entries[k + 1])
         /\ (Held(q) \cup Addressed(entries, k)) \cap OfEntry(entries[k + 1]) = {}
         /\ entries[k + 1] \in Entries /\ IsFiniteSet(entries[k + 1].to)
         /\ \A d \in Held(q) \cup Addressed(entries, k) : pos[d[2]] < pos[entries[k + 1].event]
<1>0. entries \in Seq(Entries) /\ DOMAIN entries = 1..Len(entries) /\ Len(entries) \in Nat
  BY LenProperties DEF InLine
<1>1. entries[k + 1] \in Entries /\ IsFiniteSet(entries[k + 1].to)
  BY <1>0 DEF InLine
<1>2. 1..(k + 1) = 1..k \cup {k + 1} /\ k + 1 \in 1..(k + 1)
  OBVIOUS
<1>3. Addressed(entries, k + 1) = Addressed(entries, k) \cup OfEntry(entries[k + 1])
  BY <1>2 DEF Addressed, OfEntry
<1>4. ASSUME NEW d \in Held(q) \cup Addressed(entries, k)
      PROVE  pos[d[2]] < pos[entries[k + 1].event]
  <2>1. CASE d \in Held(q)
    BY <2>1 DEF Held, Deliveries, InLine
  <2>2. CASE d \in Addressed(entries, k)
    <3>1. PICK i \in 1..k : d[2] = entries[i].event
      BY <2>2 DEF Addressed
    <3>2. i \in DOMAIN entries /\ i < k + 1
      BY <1>0
    <3> QED BY <3>1, <3>2 DEF InLine
  <2> QED BY <2>1, <2>2
<1>5. pos[entries[k + 1].event] \in Int
  BY <1>1 DEF InLine, Entries
<1>6. ASSUME NEW d \in OfEntry(entries[k + 1]) PROVE ~(pos[d[2]] < pos[entries[k + 1].event])
  BY <1>5 DEF OfEntry
<1> QED BY <1>1, <1>3, <1>4, <1>6

LEMMA ReachNext ==
  ASSUME NEW q, NEW entries, NEW pos, InLine(q, entries, pos), NEW d \in Nat,
         NEW k \in Nat, k + 1 \in DOMAIN entries,
         NEW state, Reached(q, d, entries, pos, k, state)
  PROVE  Reached(q, d, entries, pos, k + 1, Delivered(state, entries[k + 1]))
<1> DEFINE entry == entries[k + 1]
           new == Delivered(state, entry)
           due0 == Held(q) \cup Addressed(entries, k)
           due1 == Held(q) \cup Addressed(entries, k + 1)
           gone0 == due0 \ Held(state.queue)
           more == (Held(state.queue) \cup OfEntry(entry)) \ Held(new.queue)
           gone1 == due1 \ Held(new.queue)
<1>1. /\ due1 = due0 \cup OfEntry(entry) /\ due0 \cap OfEntry(entry) = {}
      /\ entry \in Entries /\ IsFiniteSet(entry.to)
      /\ \A x \in due0 : pos[x[2]] < pos[entry.event]
  BY NextAddressed
<1>2. /\ state.queue \in Queues /\ state.dropped \in Nat
      /\ \A s \in Subscribers : Rising(state.queue[s], pos)
      /\ Held(state.queue) \subseteq due0
      /\ IsFiniteSet(gone0) /\ state.dropped = d + Cardinality(gone0)
  BY DEF Reached
<1> HIDE DEF entry, due0, due1
<1>3. ReadyFor(state.queue, entry.event, pos)
  <2> SUFFICES ASSUME NEW s \in Subscribers, NEW x \in Range(state.queue[s])
               PROVE  pos[x] < pos[entry.event]
    BY <1>2 DEF ReadyFor
  <2>1. x \in Events
    BY <1>2, RangeIs DEF Queues
  <2>2. <<s, x>> \in Held(state.queue)
    BY <2>1 DEF Held, Deliveries
  <2> QED BY <1>1, <1>2, <2>2
<1>4. /\ new.queue \in Queues /\ new.dropped \in Nat
      /\ \A s \in Subscribers : Rising(new.queue[s], pos)
      /\ Held(new.queue) \subseteq Held(state.queue) \cup OfEntry(entry)
      /\ IsFiniteSet(more) /\ new.dropped = state.dropped + Cardinality(more)
  <2>1. pos \in [Events -> Int]
    BY DEF InLine
  <2> QED BY <1>1, <1>2, <1>3, <2>1, DeliverStep
<1> HIDE DEF new
<1>5. gone1 = gone0 \cup more /\ gone0 \cap more = {}
  BY <1>1, <1>2, <1>4
<1> HIDE DEF gone0, more, gone1
<1>6. /\ IsFiniteSet(gone1) /\ Cardinality(gone1) = Cardinality(gone0) + Cardinality(more)
      /\ Cardinality(gone0) \in Nat /\ Cardinality(more) \in Nat
  BY <1>2, <1>4, <1>5, CountTogether
<1>7. new.dropped = d + Cardinality(gone1)
  BY <1>2, <1>4, <1>6
<1>8. Held(new.queue) \subseteq due1
  BY <1>1, <1>2, <1>4
<1> QED BY <1>4, <1>6, <1>7, <1>8 DEF Reached, gone1, due1, new, entry

\* _flush_pending delivers the entries in order, and counts what it loses.
LEMMA DeliverAll ==
  ASSUME NEW q, NEW entries, NEW pos, InLine(q, entries, pos), NEW d \in Nat
  PROVE  Reached(q, d, entries, pos, Len(entries),
                 FoldLeft(Delivered, [queue |-> q, dropped |-> d], entries))
<1> DEFINE base == [queue |-> q, dropped |-> d]
           n == Len(entries)
           end == FoldLeft(Delivered, base, entries)
<1>1. n \in Nat /\ DOMAIN entries = 1..n
  BY LenProperties DEF InLine
<1>2. PICK f : Runs(f, "deliver", base, entries, n, end)
  BY <1>1, DeliverRuns
<1>3. f[0] = base /\ f[n] = end /\ \A k \in 0..(n - 1) : f[k + 1] = Delivered(f[k], entries[k + 1])
  BY <1>2 DEF Runs, Step
<1>4. Reached(q, d, entries, pos, 0, base)
  <2>1. Addressed(entries, 0) = {}
    BY DEF Addressed
  <2>2. (Held(q) \cup {}) \ Held(q) = {} /\ Held(q) \cup {} = Held(q)
    OBVIOUS
  <2>3. d = d + 0 /\ base.queue = q /\ base.dropped = d
    OBVIOUS
  <2> QED BY <2>1, <2>2, <2>3, FS_EmptySet DEF Reached, InLine
<1> HIDE DEF base, n, end
<1> DEFINE S == {k \in Nat : Reached(q, d, entries, pos, k, f[k])}
<1>5. 0 \in S
  BY <1>3, <1>4
<1>6. \A k \in 0..(n - 1) : k \in S => k + 1 \in S
  <2> SUFFICES ASSUME NEW k \in 0..(n - 1), Reached(q, d, entries, pos, k, f[k])
               PROVE  Reached(q, d, entries, pos, k + 1, f[k + 1])
    OBVIOUS
  <2>1. k \in Nat /\ k + 1 \in DOMAIN entries
    BY <1>1
  <2> QED BY <1>3, <2>1, ReachNext
<1> HIDE DEF S
<1>7. n \in S
  BY <1>1, <1>5, <1>6, UpTo
<1> QED BY <1>3, <1>7 DEF S, n, end, base

\* Losing all entries counts every delivery of theirs.
LEMMA LoseAll ==
  ASSUME NEW q, NEW entries, NEW pos, InLine(q, entries, pos), NEW d \in Nat
  PROVE  /\ IsFiniteSet(Addressed(entries, Len(entries)))
         /\ FoldLeft(Undelivered, d, entries) = d + Cardinality(Addressed(entries, Len(entries)))
         /\ FoldLeft(Undelivered, d, entries) \in Nat
<1> DEFINE n == Len(entries)
           end == FoldLeft(Undelivered, d, entries)
           Counted(k, lost) == /\ IsFiniteSet(Addressed(entries, k)) /\ lost \in Nat
                               /\ lost = d + Cardinality(Addressed(entries, k))
<1>1. n \in Nat /\ DOMAIN entries = 1..n
  BY LenProperties DEF InLine
<1>2. PICK f : Runs(f, "lose", d, entries, n, end)
  BY <1>1, LoseRuns
<1>3. f[0] = d /\ f[n] = end /\ \A k \in 0..(n - 1) : f[k + 1] = f[k] + Cardinality(entries[k + 1].to)
  <2>1. "lose" # "deliver"
    OBVIOUS
  <2> QED BY <1>2, <2>1 DEF Runs, Step, Undelivered
<1>4. Counted(0, d)
  <2>1. Addressed(entries, 0) = {}
    BY DEF Addressed
  <2> QED BY <2>1, FS_EmptySet
<1>5. ASSUME NEW k \in 0..(n - 1), Counted(k, f[k])
      PROVE  Counted(k + 1, f[k + 1])
  <2>1. k \in Nat /\ k + 1 \in DOMAIN entries
    BY <1>1
  <2>2. /\ Addressed(entries, k + 1) = Addressed(entries, k) \cup OfEntry(entries[k + 1])
        /\ Addressed(entries, k) \cap OfEntry(entries[k + 1]) = {}
        /\ entries[k + 1] \in Entries /\ IsFiniteSet(entries[k + 1].to)
    <3>1. /\ Addressed(entries, k + 1) = Addressed(entries, k) \cup OfEntry(entries[k + 1])
          /\ (Held(q) \cup Addressed(entries, k)) \cap OfEntry(entries[k + 1]) = {}
          /\ entries[k + 1] \in Entries /\ IsFiniteSet(entries[k + 1].to)
      BY <2>1, NextAddressed
    <3> QED BY <3>1
  <2>3. IsFiniteSet(OfEntry(entries[k + 1])) /\ Cardinality(OfEntry(entries[k + 1])) = Cardinality(entries[k + 1].to)
    BY <2>2, CountOfEntry
  <2>4. /\ IsFiniteSet(Addressed(entries, k) \cup OfEntry(entries[k + 1]))
        /\ Cardinality(Addressed(entries, k) \cup OfEntry(entries[k + 1]))
             = Cardinality(Addressed(entries, k)) + Cardinality(OfEntry(entries[k + 1]))
        /\ Cardinality(Addressed(entries, k)) \in Nat /\ Cardinality(OfEntry(entries[k + 1])) \in Nat
    BY <1>5, <2>2, <2>3, CountTogether
  <2>5. f[k + 1] = f[k] + Cardinality(entries[k + 1].to)
    BY <1>3
  <2>6. f[k] = d + Cardinality(Addressed(entries, k)) /\ IsFiniteSet(Addressed(entries, k + 1))
    BY <1>5, <2>2, <2>4
  <2>7. Cardinality(Addressed(entries, k + 1))
          = Cardinality(Addressed(entries, k)) + Cardinality(OfEntry(entries[k + 1]))
    BY <2>2, <2>4
  <2>8. f[k + 1] = d + Cardinality(Addressed(entries, k + 1)) /\ f[k + 1] \in Nat
    BY <2>3, <2>4, <2>5, <2>6, <2>7
  <2> QED BY <2>6, <2>8
<1> HIDE DEF n, end, Counted
<1> DEFINE S == {k \in Nat : Counted(k, f[k])}
<1>6. 0 \in S
  BY <1>3, <1>4
<1>7. \A k \in 0..(n - 1) : k \in S => k + 1 \in S
  BY <1>1, <1>5
<1> HIDE DEF S
<1>8. n \in S
  BY <1>1, <1>6, <1>7, UpTo
<1> QED BY <1>3, <1>8 DEF S, n, end, Counted

--------------------------------------------------------------------------------
(* The queue between the threads and the loop                                 *)

AllAddressed(entries) == Addressed(entries, Len(entries))

LEMMA AddressedIs ==
  ASSUME NEW entries \in Seq(Entries)
  PROVE  \A d : d \in AllAddressed(entries) <=> \E x \in Range(entries) : d \in OfEntry(x)
<1>1. Range(entries) = {entries[i] : i \in 1..Len(entries)}
  BY RangeIs
<1> QED BY <1>1 DEF AllAddressed, Addressed, OfEntry

\* InLine in terms of the sets of what is in the queues.
LEMMA InLineIs ==
  ASSUME NEW q \in Queues, NEW entries \in Seq(Entries), NEW pos \in [Events -> Int],
         NEW epos \in [Entries -> Int], \A x \in Entries : epos[x] = pos[x.event]
  PROVE  InLine(q, entries, pos) <=>
           /\ \A s \in Subscribers : Rising(q[s], pos)
           /\ Rising(entries, epos)
           /\ \A x \in Range(entries) : IsFiniteSet(x.to)
           /\ \A s \in Subscribers : \A y \in Range(q[s]) : \A x \in Range(entries) : pos[y] < pos[x.event]
<1>1. Range(entries) = {entries[i] : i \in DOMAIN entries} /\ \A i \in DOMAIN entries : entries[i] \in Entries
  BY RangeIs, ElementOfSeq
<1>2. \A i \in DOMAIN entries : epos[entries[i]] = pos[entries[i].event]
  BY <1>1
<1>3. Rising(entries, epos)
        <=> \A i, j \in DOMAIN entries : i < j => pos[entries[i].event] < pos[entries[j].event]
  BY <1>2 DEF Rising
<1> QED BY <1>1, <1>3 DEF InLine

\* What the queue is when an event has asked to enter, and what that cost.
EnteredFor(q, pos, new, entries) ==
  /\ InLine(q, entries, pos) /\ Range(entries) \subseteq Range(ingress) \cup {new}
  /\ AllAddressed(entries) \subseteq AllAddressed(ingress) \cup OfEntry(new)
  /\ IsFiniteSet((AllAddressed(ingress) \cup OfEntry(new)) \ AllAddressed(entries))
  /\ LostOnEntry(new.event, new.to)
       = Cardinality((AllAddressed(ingress) \cup OfEntry(new)) \ AllAddressed(entries))

LaterThan(q, pos, e) ==
  /\ \A s \in Subscribers : \A y \in Range(q[s]) : pos[y] < pos[e]
  /\ \A i \in DOMAIN ingress : pos[ingress[i].event] < pos[e]

\* Which entries are kept when an entry asks to enter.
EntryPos(pos) == [x \in Entries |-> pos[x.event]]

Chosen(pos, new, entries) ==
  LET least == Victim(IngressRanks) IN
  /\ entries \in Seq(Entries) /\ Rising(entries, EntryPos(pos))
  /\ Len(ingress) < QueueSize => Range(entries) = Range(ingress) \cup {new}
  /\ Len(ingress) >= QueueSize =>
       /\ least \in 1..Len(ingress) /\ ingress[least] \in Range(ingress)
       /\ \A j \in 1..Len(ingress) : IngressRanks[least] <= IngressRanks[j]
       /\ Rank[new.event] >= IngressRanks[least] =>
            Range(entries) = (Range(ingress) \ {ingress[least]}) \cup {new}
       /\ ~(Rank[new.event] >= IngressRanks[least]) => Range(entries) = Range(ingress)

LEMMA EntryChosen ==
  ASSUME NEW q, NEW pos, InLine(q, ingress, pos), NEW new \in Entries, LaterThan(q, pos, new.event),
         NEW entries, entries = Admitted(ingress, IngressRanks, new, Rank[new.event])
  PROVE  Chosen(pos, new, entries)
<1> DEFINE epos == EntryPos(pos)
<1>1. /\ pos \in [Events -> Int] /\ q \in Queues /\ ingress \in Seq(Entries)
      /\ DOMAIN ingress = 1..Len(ingress) /\ Len(ingress) \in Nat
  BY LenProperties DEF InLine
<1>2. epos \in [Entries -> Int] /\ \A x \in Entries : epos[x] = pos[x.event]
  BY <1>1 DEF Entries, EntryPos
<1> HIDE DEF epos
<1>3. Rising(ingress, epos)
  BY <1>1, <1>2, InLineIs
<1>4. Range(ingress) = {ingress[i] : i \in DOMAIN ingress} /\ Range(ingress) \subseteq Entries
  BY <1>1, RangeIs
<1>5. \A x \in Range(ingress) : epos[x] < epos[new]
  BY <1>2, <1>4 DEF LaterThan
<1>6. IngressRanks \in [1..Len(ingress) -> Nat] /\ Rank[new.event] \in Nat
  <2>1. \A i \in 1..Len(ingress) : ingress[i].event \in Events
    <3>1. \A i \in 1..Len(ingress) : ingress[i] \in Entries
      BY <1>1, ElementOfSeq
    <3> QED BY <3>1 DEF Entries
  <2>2. \A e \in Events : Rank[e] \in Nat
    BY BusAssumption
  <2>3. new.event \in Events
    BY DEF Entries
  <2> QED BY <1>1, <2>1, <2>2, <2>3 DEF IngressRanks
<1>7. Admits(Entries, ingress, IngressRanks, new, Rank[new.event], epos)
  BY <1>1, <1>2, <1>3, <1>5, <1>6, Admission
<1>8. Len(ingress) >= QueueSize => \A j \in 1..Len(ingress) : IngressRanks[Victim(IngressRanks)] <= IngressRanks[j]
  <2> SUFFICES ASSUME Len(ingress) >= QueueSize
               PROVE  \A j \in 1..Len(ingress) : IngressRanks[Victim(IngressRanks)] <= IngressRanks[j]
    OBVIOUS
  <2>1. Len(ingress) \in Nat \ {0}
    BY <1>1, BusAssumption
  <2> QED BY <1>6, <2>1, VictimIs
<1> QED BY <1>7, <1>8 DEF Admits, Chosen, epos

LEMMA EntryAdmitted ==
  ASSUME NEW q, NEW pos, InLine(q, ingress, pos), NEW new \in Entries, IsFiniteSet(new.to),
         LaterThan(q, pos, new.event),
         NEW entries, entries = Admitted(ingress, IngressRanks, new, Rank[new.event])
  PROVE  EnteredFor(q, pos, new, entries)
<1> DEFINE epos == EntryPos(pos)
           w == ingress[Victim(IngressRanks)]
           gone == (AllAddressed(ingress) \cup OfEntry(new)) \ AllAddressed(entries)
<1>1. /\ pos \in [Events -> Int] /\ q \in Queues /\ ingress \in Seq(Entries)
      /\ DOMAIN ingress = 1..Len(ingress) /\ Len(ingress) \in Nat
  BY LenProperties DEF InLine
<1>2. epos \in [Entries -> Int] /\ \A x \in Entries : epos[x] = pos[x.event]
  BY <1>1 DEF Entries, EntryPos
<1> HIDE DEF epos
<1>3. /\ Rising(ingress, epos) /\ \A s \in Subscribers : Rising(q[s], pos)
      /\ \A x \in Range(ingress) : IsFiniteSet(x.to)
      /\ \A s \in Subscribers : \A y \in Range(q[s]) : \A x \in Range(ingress) : pos[y] < pos[x.event]
  BY <1>1, <1>2, InLineIs
<1>4. Range(ingress) = {ingress[i] : i \in DOMAIN ingress} /\ Range(ingress) \subseteq Entries
  BY <1>1, RangeIs
<1>5. \A x \in Range(ingress) : epos[x] < epos[new] /\ x # new
  <2>1. \A x \in Range(ingress) : epos[x] < epos[new]
    BY <1>2, <1>4 DEF LaterThan
  <2>2. epos[new] \in Int
    BY <1>2
  <2> QED BY <2>1, <2>2
<1>8. /\ entries \in Seq(Entries) /\ Rising(entries, epos)
      /\ Len(ingress) < QueueSize => Range(entries) = Range(ingress) \cup {new}
      /\ Len(ingress) >= QueueSize =>
           /\ w \in Range(ingress)
           /\ Rank[new.event] >= IngressRanks[Victim(IngressRanks)] =>
                Range(entries) = (Range(ingress) \ {w}) \cup {new}
           /\ ~(Rank[new.event] >= IngressRanks[Victim(IngressRanks)]) => Range(entries) = Range(ingress)
  BY EntryChosen DEF Chosen, epos
<1>9. Len(ingress) < QueueSize \/ Len(ingress) >= QueueSize
  BY <1>1, BusAssumption
<1>10. Range(entries) \subseteq Range(ingress) \cup {new}
  BY <1>8, <1>9
<1>11. InLine(q, entries, pos)
  <2>1. \A x \in Range(entries) : IsFiniteSet(x.to)
    BY <1>3, <1>10
  <2>2. \A s \in Subscribers : \A y \in Range(q[s]) : \A x \in Range(entries) : pos[y] < pos[x.event]
    BY <1>3, <1>10 DEF LaterThan
  <2> QED BY <1>1, <1>2, <1>3, <1>8, <2>1, <2>2, InLineIs
<1>12. /\ \A d : d \in AllAddressed(entries) <=> \E x \in Range(entries) : d \in OfEntry(x)
       /\ \A d : d \in AllAddressed(ingress) <=> \E x \in Range(ingress) : d \in OfEntry(x)
  BY <1>1, <1>8, AddressedIs
<1>13. AllAddressed(entries) \subseteq AllAddressed(ingress) \cup OfEntry(new)
  BY <1>10, <1>12
<1>14. \A x, y \in Range(ingress) \cup {new} : \A d : d \in OfEntry(x) /\ d \in OfEntry(y) => x = y
  <2>1. \A x, y \in Range(ingress) : x.event = y.event => x = y
    <3> SUFFICES ASSUME NEW i \in DOMAIN ingress, NEW j \in DOMAIN ingress,
                        ingress[i].event = ingress[j].event, i # j
                 PROVE  FALSE
      BY <1>4
    <3>1. i < j \/ j < i
      BY <1>1
    <3>2. pos[ingress[i].event] \in Int
      BY <1>1, <1>4 DEF Entries
    <3> QED BY <3>1, <3>2 DEF InLine
  <2>2. \A x \in Range(ingress) : x.event # new.event
    BY <1>2, <1>4, <1>5
  <2> QED BY <2>1, <2>2 DEF OfEntry
<1>15. IsFiniteSet(gone) /\ LostOnEntry(new.event, new.to) = Cardinality(gone)
  <2>1. CASE Len(ingress) < QueueSize
    <3>1. gone = {}
      BY <1>8, <1>12, <2>1
    <3>2. LostOnEntry(new.event, new.to) = 0
      BY <2>1 DEF LostOnEntry
    <3> QED BY <3>1, <3>2, FS_EmptySet
  <2>2. CASE ~(Len(ingress) < QueueSize) /\ Rank[new.event] >= IngressRanks[Victim(IngressRanks)]
    <3>1. Range(entries) = (Range(ingress) \ {w}) \cup {new} /\ w \in Range(ingress)
      BY <1>8, <1>9, <2>2
    <3>2. LostOnEntry(new.event, new.to) = Cardinality(w.to)
      BY <2>2 DEF LostOnEntry
    <3> HIDE DEF w
    <3>3. \A d : d \in gone <=> d \in OfEntry(w)
      BY <1>5, <1>12, <1>14, <3>1
    <3>4. gone = OfEntry(w)
      BY <3>3
    <3>5. w \in Entries /\ IsFiniteSet(w.to)
      BY <1>3, <1>4, <3>1
    <3> QED BY <3>2, <3>4, <3>5, CountOfEntry
  <2>3. CASE ~(Len(ingress) < QueueSize) /\ ~(Rank[new.event] >= IngressRanks[Victim(IngressRanks)])
    <3>1. Range(entries) = Range(ingress)
      BY <1>8, <1>9, <2>3
    <3>2. LostOnEntry(new.event, new.to) = Cardinality(new.to)
      BY <2>3 DEF LostOnEntry
    <3>3. \A d : d \in gone <=> d \in OfEntry(new)
      BY <1>5, <1>12, <1>14, <3>1
    <3>4. gone = OfEntry(new)
      BY <3>3
    <3> QED BY <3>2, <3>4, CountOfEntry
  <2> QED BY <2>1, <2>2, <2>3
<1> QED BY <1>10, <1>11, <1>13, <1>15 DEF EnteredFor

--------------------------------------------------------------------------------
(* The bus                                                                    *)

Known == Range(published)

\* The order of the publications; an event that is not published yet is later.
At(seq, e) == CHOOSE i \in DOMAIN seq : seq[i] = e
Order(T, seq) == [e \in T |-> IF e \in Range(seq) THEN At(seq, e) ELSE Len(seq) + 1]
Pos == Order(Events, published)
Once(seq) == \A i, j \in DOMAIN seq : seq[i] = seq[j] => i = j

BusTypeOK ==
  /\ published \in Seq(Events) /\ Once(published)
  /\ stamped \subseteq Known /\ private \in BOOLEAN
  /\ history \in Seq(Events) /\ Range(history) \subseteq Known
  /\ ownerLoop \in {"unbound", "open", "closed"}
  /\ subscribed \subseteq Subscribers /\ IsFiniteSet(subscribed)
  /\ scheduled \in BOOLEAN /\ dropped \in Nat
  /\ queue \in Queues /\ received \in Queues /\ ingress \in Seq(Entries)
  /\ \A i \in DOMAIN ingress : ingress[i].event \in Known
  /\ due \in [Subscribers -> SUBSET Events] /\ \A s \in Subscribers : due[s] \subseteq Known

\* What was received comes before what is queued, which comes before what waits
\* for the loop.
LineInv ==
  /\ InLine(queue, ingress, Pos)
  /\ \A s \in Subscribers :
       /\ Rising(received[s], Pos)
       /\ \A x \in Range(received[s]) :
            /\ \A y \in Range(queue[s]) : Pos[x] < Pos[y]
            /\ \A i \in DOMAIN ingress : Pos[x] < Pos[ingress[i].event]

\* Every delivery that is due was received, waits, or is lost and counted.
Due == {d \in Deliveries : d[2] \in due[d[1]]}
LostOnes == ((Due \ Held(received)) \ Held(queue)) \ AllAddressed(ingress)
CountInv ==
  /\ Held(received) \cup Held(queue) \cup AllAddressed(ingress) \subseteq Due
  /\ IsFiniteSet(LostOnes) /\ dropped = Cardinality(LostOnes)

BusInv == BusTypeOK /\ LineInv /\ CountInv

\* Each element of such a sequence has one place.
HasPlaces(T, seq) ==
  /\ Len(seq) \in Nat /\ DOMAIN seq = 1..Len(seq)
  /\ Range(seq) = {seq[i] : i \in 1..Len(seq)} /\ Range(seq) \subseteq T
  /\ \A e \in Range(seq) : At(seq, e) \in 1..Len(seq) /\ seq[At(seq, e)] = e
  /\ Order(T, seq) \in [T -> Int]
  /\ \A e \in Range(seq) : Order(T, seq)[e] = At(seq, e) /\ Order(T, seq)[e] <= Len(seq)

LEMMA Placed ==
  ASSUME NEW T, NEW seq \in Seq(T), Once(seq)
  PROVE  HasPlaces(T, seq)
<1>1. /\ Len(seq) \in Nat /\ DOMAIN seq = 1..Len(seq)
      /\ Range(seq) = {seq[i] : i \in 1..Len(seq)} /\ Range(seq) \subseteq T
  BY LenProperties, RangeIs
<1>2. ASSUME NEW e \in Range(seq)
      PROVE  At(seq, e) \in 1..Len(seq) /\ seq[At(seq, e)] = e
  BY <1>1, <1>2 DEF At
<1>3. \A e \in Range(seq) : Order(T, seq)[e] = At(seq, e)
  BY <1>1 DEF Order
<1>4. Order(T, seq) \in [T -> Int]
  BY <1>1, <1>2 DEF Order
<1> QED BY <1>1, <1>2, <1>3, <1>4 DEF HasPlaces

\* An event that is published for the first time follows all the others.
FollowsAll(T, seq, e, longer) ==
  /\ longer \in Seq(T) /\ Once(longer) /\ Range(longer) = Range(seq) \cup {e}
  /\ Len(longer) = Len(seq) + 1
  /\ Order(T, longer) \in [T -> Int] /\ At(longer, e) = Len(seq) + 1
  /\ \A x \in Range(seq) : /\ Order(T, longer)[x] = Order(T, seq)[x] /\ Order(T, longer)[x] < Order(T, longer)[e]
                           /\ At(longer, x) = At(seq, x)

LEMMA PlacedLast ==
  ASSUME NEW T, NEW seq \in Seq(T), Once(seq), NEW e \in T, e \notin Range(seq),
         NEW longer, longer = Append(seq, e)
  PROVE  FollowsAll(T, seq, e, longer)
<1>1. /\ Len(seq) \in Nat /\ DOMAIN seq = 1..Len(seq)
      /\ Range(seq) = {seq[i] : i \in 1..Len(seq)}
      /\ \A x \in Range(seq) : At(seq, x) \in 1..Len(seq) /\ seq[At(seq, x)] = x
      /\ \A x \in Range(seq) : Order(T, seq)[x] = At(seq, x) /\ Order(T, seq)[x] <= Len(seq)
  BY Placed DEF HasPlaces
<1>2. /\ longer \in Seq(T) /\ Len(longer) = Len(seq) + 1
      /\ \A i \in 1..Len(seq) : longer[i] = seq[i]
      /\ longer[Len(seq) + 1] = e
  BY AppendProperties
<1>3. \A i \in 1..(Len(seq) + 1) : i \in 1..Len(seq) \/ i = Len(seq) + 1
  BY <1>1
<1>4. Once(longer)
  <2>1. DOMAIN longer = 1..(Len(seq) + 1)
    BY <1>2, LenProperties
  <2> QED BY <1>1, <1>2, <1>3, <2>1 DEF Once
<1>5. /\ DOMAIN longer = 1..(Len(seq) + 1)
      /\ Range(longer) = {longer[i] : i \in 1..(Len(seq) + 1)}
      /\ \A x \in Range(longer) : At(longer, x) \in 1..(Len(seq) + 1) /\ longer[At(longer, x)] = x
      /\ \A x \in Range(longer) : Order(T, longer)[x] = At(longer, x)
      /\ Order(T, longer) \in [T -> Int]
  <2>1. HasPlaces(T, longer)
    BY <1>2, <1>4, Placed
  <2> QED BY <1>2, <2>1 DEF HasPlaces
<1>6. Len(seq) + 1 \in 1..(Len(seq) + 1) /\ 1..Len(seq) \subseteq 1..(Len(seq) + 1)
  BY <1>1
<1>7. Range(longer) = Range(seq) \cup {e}
  <2>1. \A x \in Range(longer) : x \in Range(seq) \cup {e}
    BY <1>1, <1>2, <1>3, <1>5
  <2>2. \A x \in Range(seq) \cup {e} : x \in Range(longer)
    BY <1>1, <1>2, <1>5, <1>6
  <2> QED BY <2>1, <2>2
<1>8. At(longer, e) = Len(seq) + 1
  <2>1. longer[At(longer, e)] = longer[Len(seq) + 1] /\ At(longer, e) \in 1..(Len(seq) + 1)
    BY <1>2, <1>5, <1>7
  <2> QED BY <1>4, <1>5, <1>6, <2>1 DEF Once
<1>9. ASSUME NEW x \in Range(seq) PROVE At(longer, x) = At(seq, x)
  <2>1. At(seq, x) \in 1..Len(seq) /\ seq[At(seq, x)] = x
    BY <1>1
  <2>2. longer[At(longer, x)] = longer[At(seq, x)] /\ At(longer, x) \in DOMAIN longer
        /\ At(seq, x) \in DOMAIN longer
    BY <1>2, <1>5, <1>6, <1>7, <2>1
  <2> QED BY <1>4, <2>2 DEF Once
<1>10. ASSUME NEW x \in Range(seq)
       PROVE  Order(T, longer)[x] = Order(T, seq)[x] /\ Order(T, longer)[x] < Order(T, longer)[e]
  <2>1. Order(T, longer)[x] = At(seq, x) /\ Order(T, seq)[x] = At(seq, x) /\ At(seq, x) \in 1..Len(seq)
    BY <1>1, <1>5, <1>7, <1>9
  <2>2. Order(T, longer)[e] = Len(seq) + 1
    BY <1>5, <1>7, <1>8
  <2> QED BY <1>1, <2>1, <2>2
<1> QED BY <1>2, <1>4, <1>5, <1>7, <1>8, <1>9, <1>10 DEF FollowsAll

\* All that the queues hold was published.
LEMMA AllKnown ==
  ASSUME BusTypeOK, CountInv
  PROVE  /\ \A s \in Subscribers : Range(received[s]) \cup Range(queue[s]) \subseteq Known
         /\ \A d \in AllAddressed(ingress) : d[2] \in Known
<1>1. \A d \in Due : d[2] \in Known
  BY DEF Due, Deliveries, BusTypeOK
<1>2. ASSUME NEW s \in Subscribers, NEW x \in Range(received[s]) \cup Range(queue[s])
      PROVE  x \in Known
  <2>1. x \in Events
    BY RangeIs DEF BusTypeOK, Queues
  <2>2. <<s, x>> \in Held(received) \cup Held(queue)
    BY <2>1 DEF Held, Deliveries
  <2> QED BY <1>1, <2>2 DEF CountInv
<1> QED BY <1>1, <1>2 DEF CountInv

\* What changes the places of other events only leaves a line as it is.
LEMMA InLineSame ==
  ASSUME NEW q, NEW entries, NEW pos, InLine(q, entries, pos), NEW pos2 \in [Events -> Int],
         NEW K, \A x \in K : pos2[x] = pos[x],
         \A s \in Subscribers : Range(q[s]) \subseteq K,
         \A i \in DOMAIN entries : entries[i].event \in K
  PROVE  InLine(q, entries, pos2)
<1>1. ASSUME NEW s \in Subscribers PROVE Rising(q[s], pos2)
  <2>1. \A i \in DOMAIN q[s] : q[s][i] \in K
    BY DEF Range
  <2> QED BY <2>1 DEF Rising, InLine
<1> QED BY <1>1 DEF InLine

LEMMA RisingSame ==
  ASSUME NEW seq, NEW pos, Rising(seq, pos), NEW pos2, \A x \in Range(seq) : pos2[x] = pos[x]
  PROVE  Rising(seq, pos2)
<1>1. \A i \in DOMAIN seq : seq[i] \in Range(seq)
  BY DEF Range
<1> QED BY <1>1 DEF Rising

\* A delivery is in one place only.
LEMMA OnePlace ==
  ASSUME BusTypeOK, LineInv
  PROVE  /\ Held(received) \cap Held(queue) = {}
         /\ Held(received) \cap AllAddressed(ingress) = {}
         /\ Held(queue) \cap AllAddressed(ingress) = {}
<1>1. \A x \in Events : Pos[x] \in Int
  BY Placed DEF BusTypeOK, Pos, HasPlaces
<1>2. \A i \in 1..Len(ingress) : i \in DOMAIN ingress
  BY LenProperties DEF BusTypeOK
<1>3. \A d \in Deliveries : ~(d \in Held(received) /\ d \in Held(queue))
  BY <1>1 DEF LineInv, Held, Deliveries
<1>4. ASSUME NEW d \in AllAddressed(ingress)
      PROVE  d \notin Held(received) /\ d \notin Held(queue)
  <2>1. PICK i \in DOMAIN ingress : d[2] = ingress[i].event
    BY <1>2 DEF AllAddressed, Addressed
  <2>2. d[1] \in Subscribers /\ d[2] \in Events
    BY DEF AllAddressed, Addressed, Deliveries
  <2> QED BY <1>1, <2>1, <2>2 DEF LineInv, InLine, Held
<1> QED BY <1>3, <1>4 DEF Held

\* The books of a publication: D was due, of which R was received, Q is queued and
\* I waits; F is added, E enters, and Q2 is what the queues then hold.
Opened(D, R, Q, I, F, E, Q2) ==
  /\ R \cup Q \cup I \subseteq D /\ R \cap Q = {} /\ R \cap I = {} /\ Q \cap I = {}
  /\ F \cap D = {} /\ E \subseteq I \cup F /\ Q2 \subseteq Q \cup E
  /\ IsFiniteSet(((D \ R) \ Q) \ I) /\ IsFiniteSet((I \cup F) \ E)

Closed(D, R, Q, I, F, E, Q2) ==
  /\ IsFiniteSet((((D \cup F) \ R) \ Q) \ E)
  /\ Cardinality((((D \cup F) \ R) \ Q) \ E)
       = Cardinality(((D \ R) \ Q) \ I) + Cardinality((I \cup F) \ E)
  /\ IsFiniteSet((Q \cup E) \ Q2) =>
       /\ IsFiniteSet((((D \cup F) \ R) \ Q2) \ {})
       /\ Cardinality((((D \cup F) \ R) \ Q2) \ {})
            = Cardinality(((D \ R) \ Q) \ I) + Cardinality((I \cup F) \ E) + Cardinality((Q \cup E) \ Q2)
  /\ IsFiniteSet(E) =>
       /\ IsFiniteSet((((D \cup F) \ R) \ Q) \ {})
       /\ Cardinality((((D \cup F) \ R) \ Q) \ {})
            = Cardinality(((D \ R) \ Q) \ I) + Cardinality((I \cup F) \ E) + Cardinality(E)

\* What the queues give up for a publication is lost, once.
LEMMA Ledger ==
  ASSUME NEW D, NEW R, NEW Q, NEW I, NEW F, NEW E, NEW Q2, Opened(D, R, Q, I, F, E, Q2)
  PROVE  Closed(D, R, Q, I, F, E, Q2)
<1> DEFINE L == ((D \ R) \ Q) \ I
           A == (I \cup F) \ E
           B == (Q \cup E) \ Q2
           M == (((D \cup F) \ R) \ Q) \ E
           N == (((D \cup F) \ R) \ Q2) \ {}
           P == (((D \cup F) \ R) \ Q) \ {}
<1>1. M = L \cup A /\ L \cap A = {}
  BY DEF Opened
<1>2. N = M \cup B /\ M \cap B = {}
  BY DEF Opened
<1>3. P = M \cup E /\ M \cap E = {}
  BY DEF Opened
<1> HIDE DEF L, A, B, M, N, P
<1>4. IsFiniteSet(L) /\ IsFiniteSet(A)
  BY DEF L, A, Opened
<1>5. IsFiniteSet(M) /\ Cardinality(M) = Cardinality(L) + Cardinality(A)
  BY <1>1, <1>4, CountTogether
<1>6. IsFiniteSet(B) => IsFiniteSet(N) /\ Cardinality(N) = Cardinality(M) + Cardinality(B)
  BY <1>2, <1>5, CountTogether
<1>7. IsFiniteSet(E) => IsFiniteSet(P) /\ Cardinality(P) = Cardinality(M) + Cardinality(E)
  BY <1>3, <1>5, CountTogether
<1>8. /\ IsFiniteSet(B) => /\ IsFiniteSet(N)
                           /\ Cardinality(N) = Cardinality(L) + Cardinality(A) + Cardinality(B)
      /\ IsFiniteSet(E) => /\ IsFiniteSet(P)
                           /\ Cardinality(P) = Cardinality(L) + Cardinality(A) + Cardinality(E)
  BY <1>5, <1>6, <1>7
<1> QED BY <1>5, <1>8 DEF L, A, B, M, N, P, Closed

\* A rising sequence without its first element.
LEMMA TailKeeps ==
  ASSUME NEW T, NEW seq \in Seq(T), seq # <<>>, NEW pos \in [T -> Int], Rising(seq, pos)
  PROVE  /\ Tail(seq) \in Seq(T) /\ Rising(Tail(seq), pos)
         /\ Head(seq) \in Range(seq) /\ Range(Tail(seq)) = Range(seq) \ {Head(seq)}
         /\ \A x \in Range(Tail(seq)) : pos[Head(seq)] < pos[x]
<1> DEFINE less == Tail(seq)
<1>1. /\ less \in Seq(T) /\ Len(less) = Len(seq) - 1
      /\ \A i \in 1..Len(less) : less[i] = seq[i + 1]
  BY HeadTailProperties
<1>2. Len(seq) \in Nat \ {0} /\ DOMAIN seq = 1..Len(seq) /\ DOMAIN less = 1..Len(less)
  BY <1>1, LenProperties, EmptySeq
<1>3. Head(seq) = seq[1]
  OBVIOUS
<1> HIDE DEF less
<1>4. PICK n \in Nat \ {0} : n = Len(seq)
  BY <1>2
<1>5. \A i \in 1..n : pos[seq[i]] \in Int
  BY <1>4, ElementOfSeq
<1>6. Shortened(n, 1, seq, less, pos)
  <2>1. \A i \in 1..(n - 1) : less[i] = IF i < 1 THEN seq[i] ELSE seq[i + 1]
    BY <1>1, <1>4
  <2> QED BY <1>1, <1>2, <1>4, <1>5, <2>1 DEF Shortened
<1>7. Rising(less, pos) /\ Range(less) = Range(seq) \ {seq[1]}
  BY <1>6, WithoutOne
<1>8. seq[1] \in Range(seq)
  BY <1>2 DEF Range
<1>9. ASSUME NEW x \in Range(less) PROVE pos[seq[1]] < pos[x]
  <2>1. PICK i \in 1..(n - 1) : x = less[i]
    BY <1>1, <1>2, <1>4 DEF Range
  <2>2. i + 1 \in 1..n /\ 1 \in 1..n /\ 1 < i + 1 /\ x = seq[i + 1]
    BY <1>1, <1>4, <2>1
  <2> QED BY <1>2, <1>4, <2>2 DEF Rising
<1> QED BY <1>1, <1>3, <1>7, <1>8, <1>9 DEF less

\* What a publication adds to the order.
LEMMA PublishedLast ==
  ASSUME BusTypeOK, NEW e \in Events, Unpublished(e), published' = Append(published, e)
  PROVE  /\ e \notin Known /\ Known' = Known \cup {e}
         /\ published' \in Seq(Events) /\ Once(published')
         /\ Len(published) \in Nat /\ Len(published') = Len(published) + 1
         /\ Sequence(e)' = Len(published) + 1
         /\ Pos' \in [Events -> Int]
         /\ \A x \in Known : /\ Pos'[x] = Pos[x] /\ Pos'[x] < Pos'[e]
                             /\ Sequence(x)' = Sequence(x)
<1>1. published \in Seq(Events) /\ Once(published)
  BY DEF BusTypeOK
<1>2. /\ Len(published) \in Nat /\ DOMAIN published = 1..Len(published)
      /\ Range(published) = {published[i] : i \in 1..Len(published)}
  BY <1>1, Placed DEF HasPlaces
<1>3. e \notin Range(published)
  BY <1>2 DEF Unpublished
<1>4. FollowsAll(Events, published, e, published')
  BY <1>1, <1>3, PlacedLast
<1>5. /\ Pos' = Order(Events, published') /\ Pos = Order(Events, published)
      /\ Known' = Range(published') /\ Known = Range(published)
      /\ \A x : Sequence(x) = At(published, x) /\ Sequence(x)' = At(published', x)
  BY DEF Pos, Known, Sequence, At, Order
<1> QED BY <1>2, <1>3, <1>4, <1>5 DEF FollowsAll

\* What a publication adds to the lines and to the books, whatever it then does
\* with the entries: the entries with the new one, and what they cost.
Entered(e, new, entries) ==
  /\ InLine(queue, ingress, Pos') /\ InLine(queue, entries, Pos')
  /\ EnteredFor(queue, Pos', new, entries) /\ new.event = e /\ new.to = subscribed
  /\ LostOnEntry(e, subscribed) \in Nat

LEMMA PublicationEnters ==
  ASSUME BusInv, NEW e \in Events, Unpublished(e), published' = Append(published, e),
         NEW new, new = [event |-> e, to |-> subscribed],
         NEW entries, entries = Admitted(ingress, IngressRanks, new, Rank[e])
  PROVE  new \in Entries /\ Entered(e, new, entries)
<1>1. /\ BusTypeOK /\ LineInv /\ CountInv
      /\ Pos' \in [Events -> Int] /\ \A x \in Known : Pos'[x] = Pos[x] /\ Pos'[x] < Pos'[e]
  BY PublishedLast DEF BusInv
<1>2. \A s \in Subscribers : Range(received[s]) \cup Range(queue[s]) \subseteq Known
  BY <1>1, AllKnown
<1>3. /\ \A i \in DOMAIN ingress : ingress[i].event \in Known
      /\ subscribed \subseteq Subscribers /\ IsFiniteSet(subscribed) /\ InLine(queue, ingress, Pos)
  BY <1>1 DEF BusTypeOK, LineInv
<1>4. new \in Entries /\ new.event = e /\ new.to = subscribed
  BY <1>3 DEF Entries
<1>5. InLine(queue, ingress, Pos')
  <2>1. \A x \in Known : Pos'[x] = Pos[x]
    BY <1>1
  <2>2. \A s \in Subscribers : Range(queue[s]) \subseteq Known
    BY <1>2
  <2> QED BY <1>1, <1>3, <2>1, <2>2, InLineSame
<1>6. EnteredFor(queue, Pos', new, entries)
  <2>1. LaterThan(queue, Pos', new.event)
    BY <1>1, <1>2, <1>3, <1>4 DEF LaterThan
  <2>2. IsFiniteSet(new.to) /\ entries = Admitted(ingress, IngressRanks, new, Rank[new.event])
    BY <1>3, <1>4
  <2> QED BY <1>4, <1>5, <2>1, <2>2, EntryAdmitted
<1>7. InLine(queue, entries, Pos') /\ LostOnEntry(e, subscribed) \in Nat
  BY <1>4, <1>6, FS_CardinalityType DEF EnteredFor
<1> QED BY <1>4, <1>5, <1>6, <1>7 DEF Entered

\* What is due after the publication.
LEMMA DueAfter ==
  ASSUME BusInv, NEW e \in Events, Unpublished(e),
         NEW new, new = [event |-> e, to |-> subscribed],
         due' = [s \in Subscribers |-> IF s \in subscribed THEN due[s] \cup {e} ELSE due[s]]
  PROVE  Due' = Due \cup OfEntry(new) /\ OfEntry(new) \cap Due = {}
<1>1. e \notin Known
  <2>1. \A i \in DOMAIN published : published[i] # e
    BY DEF Unpublished
  <2> QED BY <2>1 DEF Known, Range
<1>2. /\ \A s \in Subscribers : due[s] \subseteq Known /\ subscribed \subseteq Subscribers
      /\ new.event = e /\ new.to = subscribed
  BY DEF BusInv, BusTypeOK
<1>3. \A d \in Deliveries : d \in Due' <=> d \in Due \cup OfEntry(new)
  BY <1>2 DEF Due, OfEntry, Deliveries
<1>4. Due' \subseteq Deliveries /\ Due \cup OfEntry(new) \subseteq Deliveries
  BY DEF Due, OfEntry
<1>5. Due' = Due \cup OfEntry(new)
  BY <1>3, <1>4
<1>6. \A d \in OfEntry(new) : d \notin Due
  BY <1>1, <1>2 DEF OfEntry, Due, Deliveries
<1> QED BY <1>5, <1>6

LEMMA NoneAddressed ==
  ASSUME NEW entries, entries = <<>>
  PROVE  AllAddressed(entries) = {} /\ Range(entries) = {} /\ DOMAIN entries = {} /\ entries \in Seq(Entries)
<1>1. Len(entries) = 0 /\ DOMAIN entries = {}
  OBVIOUS
<1> QED BY <1>1 DEF AllAddressed, Addressed, Range

\* What the three ways a publication ends have in common: F is what it adds, and
\* pos the order after it.
Settled(pos, F) ==
  /\ InLine(queue', ingress', pos) /\ dropped' \in Nat
  /\ Held(queue') \cup AllAddressed(ingress') \subseteq Held(queue) \cup AllAddressed(ingress) \cup F
  /\ IsFiniteSet((((Due \cup F) \ Held(received)) \ Held(queue')) \ AllAddressed(ingress'))
  /\ dropped' = Cardinality((((Due \cup F) \ Held(received)) \ Held(queue')) \ AllAddressed(ingress'))

\* The parts of the books before a step.
Books(F) ==
  /\ Held(received) \cup Held(queue) \cup AllAddressed(ingress) \subseteq Due
  /\ Held(received) \cap Held(queue) = {} /\ Held(received) \cap AllAddressed(ingress) = {}
  /\ Held(queue) \cap AllAddressed(ingress) = {} /\ F \cap Due = {}
  /\ IsFiniteSet(((Due \ Held(received)) \ Held(queue)) \ AllAddressed(ingress))
  /\ dropped = Cardinality(((Due \ Held(received)) \ Held(queue)) \ AllAddressed(ingress))
  /\ dropped \in Nat

LEMMA BooksBefore ==
  ASSUME BusInv, NEW F, F \cap Due = {}
  PROVE  Books(F)
BY OnePlace DEF Books, BusInv, CountInv, LostOnes, BusTypeOK

\* The flush: what the queues gave up for the entries is lost, once.
LEMMA FlushSettles ==
  ASSUME NEW F, Books(F), NEW pos, NEW entries, InLine(queue, entries, pos), NEW lost \in Nat,
         AllAddressed(entries) \subseteq AllAddressed(ingress) \cup F,
         IsFiniteSet((AllAddressed(ingress) \cup F) \ AllAddressed(entries)),
         lost = Cardinality((AllAddressed(ingress) \cup F) \ AllAddressed(entries)),
         FlushAll(entries, lost)
  PROVE  Settled(pos, F)
<1> DEFINE end == FoldLeft(Delivered, [queue |-> queue, dropped |-> dropped + lost], entries)
           E == AllAddressed(entries)
           gone == (Held(queue) \cup E) \ Held(end.queue)
<1>1. queue' = end.queue /\ dropped' = end.dropped /\ ingress' = <<>>
  BY DEF FlushAll
<1>2. dropped + lost \in Nat
  BY DEF Books
<1>3. Reached(queue, dropped + lost, entries, pos, Len(entries), end)
  BY <1>2, DeliverAll
<1> HIDE DEF end, E
<1>4. /\ end.queue \in Queues /\ end.dropped \in Nat
      /\ \A s \in Subscribers : Rising(end.queue[s], pos)
      /\ Held(end.queue) \subseteq Held(queue) \cup E
      /\ IsFiniteSet(gone) /\ end.dropped = dropped + lost + Cardinality(gone)
  BY <1>3 DEF Reached, AllAddressed, E
<1>5. AllAddressed(ingress') = {} /\ DOMAIN ingress' = {} /\ ingress' \in Seq(Entries)
  BY <1>1, NoneAddressed
<1>6. InLine(queue', ingress', pos)
  BY <1>1, <1>4, <1>5 DEF InLine
<1>7. /\ IsFiniteSet((((Due \cup F) \ Held(received)) \ Held(end.queue)) \ {})
      /\ Cardinality((((Due \cup F) \ Held(received)) \ Held(end.queue)) \ {})
           = Cardinality(((Due \ Held(received)) \ Held(queue)) \ AllAddressed(ingress))
             + Cardinality((AllAddressed(ingress) \cup F) \ E)
             + Cardinality((Held(queue) \cup E) \ Held(end.queue))
  <2>1. Opened(Due, Held(received), Held(queue), AllAddressed(ingress), F, E, Held(end.queue))
    BY <1>4 DEF Opened, Books, E
  <2>2. Closed(Due, Held(received), Held(queue), AllAddressed(ingress), F, E, Held(end.queue))
    BY <2>1, Ledger
  <2> QED BY <1>4, <2>2 DEF Closed
<1>8. dropped' = Cardinality((((Due \cup F) \ Held(received)) \ Held(end.queue)) \ {})
  BY <1>1, <1>4, <1>7 DEF Books, E
<1>9. Held(queue') \cup AllAddressed(ingress') \subseteq Held(queue) \cup AllAddressed(ingress) \cup F
  BY <1>1, <1>4, <1>5 DEF E
<1> QED BY <1>1, <1>4, <1>5, <1>6, <1>7, <1>8, <1>9 DEF Settled

\* The publication of a thread that leaves the delivery to the loop.
LEMMA WaitSettles ==
  ASSUME NEW F, Books(F), NEW pos, NEW entries, InLine(queue, entries, pos), NEW lost \in Nat,
         AllAddressed(entries) \subseteq AllAddressed(ingress) \cup F,
         IsFiniteSet((AllAddressed(ingress) \cup F) \ AllAddressed(entries)),
         lost = Cardinality((AllAddressed(ingress) \cup F) \ AllAddressed(entries)),
         ingress' = entries, dropped' = dropped + lost, queue' = queue
  PROVE  Settled(pos, F)
<1> DEFINE E == AllAddressed(entries)
<1> HIDE DEF E
<1>1. /\ IsFiniteSet((((Due \cup F) \ Held(received)) \ Held(queue)) \ E)
      /\ Cardinality((((Due \cup F) \ Held(received)) \ Held(queue)) \ E)
           = Cardinality(((Due \ Held(received)) \ Held(queue)) \ AllAddressed(ingress))
             + Cardinality((AllAddressed(ingress) \cup F) \ E)
  <2>1. Opened(Due, Held(received), Held(queue), AllAddressed(ingress), F, E, Held(queue))
    BY DEF Opened, Books, E
  <2>2. Closed(Due, Held(received), Held(queue), AllAddressed(ingress), F, E, Held(queue))
    BY <2>1, Ledger
  <2> QED BY <2>2 DEF Closed
<1>2. AllAddressed(ingress') = E /\ Held(queue') = Held(queue)
  BY DEF E
<1> QED BY <1>1, <1>2 DEF Settled, Books, E

\* The publication of a thread after the loop has closed.
LEMMA LossSettles ==
  ASSUME NEW F, Books(F), NEW pos, NEW entries, InLine(queue, entries, pos), NEW lost \in Nat,
         AllAddressed(entries) \subseteq AllAddressed(ingress) \cup F,
         IsFiniteSet((AllAddressed(ingress) \cup F) \ AllAddressed(entries)),
         lost = Cardinality((AllAddressed(ingress) \cup F) \ AllAddressed(entries)),
         ingress' = <<>>, dropped' = FoldLeft(Undelivered, dropped + lost, entries), queue' = queue
  PROVE  Settled(pos, F)
<1> DEFINE E == AllAddressed(entries)
<1>1. dropped + lost \in Nat
  BY DEF Books
<1>2. IsFiniteSet(E) /\ dropped' = dropped + lost + Cardinality(E) /\ dropped' \in Nat
  BY <1>1, LoseAll DEF AllAddressed
<1> HIDE DEF E
<1>3. AllAddressed(ingress') = {} /\ DOMAIN ingress' = {} /\ ingress' \in Seq(Entries)
  BY NoneAddressed
<1>4. /\ IsFiniteSet((((Due \cup F) \ Held(received)) \ Held(queue)) \ {})
      /\ Cardinality((((Due \cup F) \ Held(received)) \ Held(queue)) \ {})
           = Cardinality(((Due \ Held(received)) \ Held(queue)) \ AllAddressed(ingress))
             + Cardinality((AllAddressed(ingress) \cup F) \ E) + Cardinality(E)
  <2>1. Opened(Due, Held(received), Held(queue), AllAddressed(ingress), F, E, Held(queue))
    BY DEF Opened, Books, E
  <2>2. Closed(Due, Held(received), Held(queue), AllAddressed(ingress), F, E, Held(queue))
    BY <2>1, Ledger
  <2> QED BY <1>2, <2>2 DEF Closed
<1>5. dropped' = Cardinality((((Due \cup F) \ Held(received)) \ Held(queue)) \ {})
  BY <1>2, <1>4 DEF Books, E
<1>6. InLine(queue', ingress', pos)
  BY <1>3 DEF InLine
<1>7. Held(queue') = Held(queue)
  OBVIOUS
<1> QED BY <1>2, <1>3, <1>4, <1>5, <1>6, <1>7 DEF Settled

--------------------------------------------------------------------------------
(* The steps of the bus                                                       *)

\* A publication settles, whichever thread makes it.
LEMMA PublishSettles ==
  ASSUME BusInv, NEW e \in Events, Publish(e), NEW new, new = [event |-> e, to |-> subscribed]
  PROVE  /\ new \in Entries /\ new.event = e
         /\ OfEntry(new) \cap Due = {} /\ Due' = Due \cup OfEntry(new)
         /\ Settled(Pos', OfEntry(new)) /\ Range(ingress') \subseteq Range(ingress) \cup {new}
<1>1. PICK entries : entries = Admitted(ingress, IngressRanks, new, Rank[e])
  OBVIOUS
<1>2. PICK lost : lost = LostOnEntry(e, subscribed)
  OBVIOUS
<1>3. /\ Unpublished(e) /\ published' = Append(published, e)
      /\ due' = [s \in Subscribers |-> IF s \in subscribed THEN due[s] \cup {e} ELSE due[s]]
      /\ \/ FlushAll(entries, lost)
         \/ ingress' = entries /\ dropped' = dropped + lost /\ queue' = queue
         \/ ingress' = <<>> /\ dropped' = FoldLeft(Undelivered, dropped + lost, entries) /\ queue' = queue
  BY <1>1, <1>2 DEF Publish
<1>4. new \in Entries /\ Entered(e, new, entries)
  BY <1>1, <1>3, PublicationEnters
<1>5. Due' = Due \cup OfEntry(new) /\ OfEntry(new) \cap Due = {}
  BY <1>3, DueAfter
<1>6. Books(OfEntry(new))
  BY <1>5, BooksBefore
<1>7. /\ InLine(queue, entries, Pos') /\ lost \in Nat /\ new.event = e /\ new.to = subscribed
      /\ EnteredFor(queue, Pos', new, entries)
  BY <1>2, <1>4 DEF Entered
<1>8. /\ AllAddressed(entries) \subseteq AllAddressed(ingress) \cup OfEntry(new)
      /\ IsFiniteSet((AllAddressed(ingress) \cup OfEntry(new)) \ AllAddressed(entries))
      /\ lost = Cardinality((AllAddressed(ingress) \cup OfEntry(new)) \ AllAddressed(entries))
      /\ Range(entries) \subseteq Range(ingress) \cup {new}
  BY <1>2, <1>7 DEF EnteredFor
<1>9. CASE FlushAll(entries, lost)
  <2>1. ingress' = <<>>
    BY <1>9 DEF FlushAll
  <2>2. Range(ingress') = {}
    BY <2>1, NoneAddressed
  <2>3. Settled(Pos', OfEntry(new))
    BY <1>6, <1>7, <1>8, <1>9, FlushSettles
  <2> QED BY <1>4, <1>5, <1>7, <2>2, <2>3
<1>10. CASE ingress' = entries /\ dropped' = dropped + lost /\ queue' = queue
  <2>1. Settled(Pos', OfEntry(new))
    BY <1>6, <1>7, <1>8, <1>10, WaitSettles
  <2> QED BY <1>4, <1>5, <1>7, <1>8, <1>10, <2>1
<1>11. CASE ingress' = <<>> /\ dropped' = FoldLeft(Undelivered, dropped + lost, entries) /\ queue' = queue
  <2>1. Settled(Pos', OfEntry(new))
    BY <1>6, <1>7, <1>8, <1>11, LossSettles
  <2>2. Range(ingress') = {}
    BY <1>11, NoneAddressed
  <2> QED BY <1>4, <1>5, <1>7, <2>1, <2>2
<1> QED BY <1>3, <1>9, <1>10, <1>11

LEMMA PublishKeeps ==
  ASSUME BusInv, NEW e \in Events, Publish(e)
  PROVE  BusInv'
<1>1. PICK new : new = [event |-> e, to |-> subscribed]
  OBVIOUS
<1>2. /\ new \in Entries /\ new.event = e
      /\ OfEntry(new) \cap Due = {} /\ Due' = Due \cup OfEntry(new)
      /\ Settled(Pos', OfEntry(new)) /\ Range(ingress') \subseteq Range(ingress) \cup {new}
  BY <1>1, PublishSettles
<1>3. /\ BusTypeOK /\ LineInv /\ CountInv
  BY DEF BusInv
<1>4. /\ Unpublished(e) /\ published' = Append(published, e)
      /\ UNCHANGED <<private, subscribed, received>>
  BY DEF Publish
<1>5. /\ Known' = Known \cup {e} /\ published' \in Seq(Events) /\ Once(published')
      /\ Pos' \in [Events -> Int] /\ \A x \in Known : Pos'[x] = Pos[x] /\ Pos'[x] < Pos'[e]
  BY <1>3, <1>4, PublishedLast
<1>6. /\ InLine(queue', ingress', Pos') /\ dropped' \in Nat
      /\ Held(queue') \cup AllAddressed(ingress')
           \subseteq Held(queue) \cup AllAddressed(ingress) \cup OfEntry(new)
      /\ IsFiniteSet(LostOnes') /\ dropped' = Cardinality(LostOnes')
  BY <1>2, <1>4 DEF Settled, LostOnes
<1>7. CountInv'
  <2>1. Held(received) \cup Held(queue) \cup AllAddressed(ingress) \subseteq Due
    BY <1>3 DEF CountInv
  <2>2. Held(received)' = Held(received) /\ Held(queue)' = Held(queue')
        /\ AllAddressed(ingress)' = AllAddressed(ingress')
    BY <1>4 DEF Held, AllAddressed, Addressed
  <2> QED BY <1>2, <1>6, <2>1, <2>2 DEF CountInv
<1>8. \A i \in DOMAIN ingress' : ingress'[i] \in Range(ingress) \cup {new}
  BY <1>2 DEF Range
<1>9. \A x \in Range(ingress) : x.event \in Known
  BY <1>3 DEF BusTypeOK, Range
<1>10. BusTypeOK'
  <2>1. queue' \in Queues /\ ingress' \in Seq(Entries)
    BY <1>6 DEF InLine
  <2>2. \A i \in DOMAIN ingress' : ingress'[i].event \in Known'
    BY <1>2, <1>5, <1>8, <1>9
  <2>3. scheduled' \in BOOLEAN
    BY <1>3 DEF Publish, FlushAll, BusTypeOK
  <2>4. ownerLoop' \in {"unbound", "open", "closed"}
    BY <1>3 DEF Publish, BusTypeOK
  <2>5. stamped' \subseteq Known'
    BY <1>3, <1>5 DEF Publish, BusTypeOK
  <2>6. history' \in Seq(Events) /\ Range(history') \subseteq Known'
    <3>1. history \in Seq(Events) /\ Range(history) \subseteq Known
      BY <1>3 DEF BusTypeOK
    <3>2. Append(history, e) \in Seq(Events) /\ Range(Append(history, e)) \subseteq Known \cup {e}
      <4>1. /\ Append(history, e) \in Seq(Events) /\ Len(Append(history, e)) = Len(history) + 1
            /\ \A i \in 1..Len(history) : Append(history, e)[i] = history[i]
            /\ Append(history, e)[Len(history) + 1] = e
        BY <3>1, AppendProperties
      <4>2. Range(Append(history, e)) = {Append(history, e)[i] : i \in 1..(Len(history) + 1)}
        BY <4>1, RangeIs
      <4>3. Range(history) = {history[i] : i \in 1..Len(history)} /\ Len(history) \in Nat
        BY <3>1, RangeIs, LenProperties
      <4>4. \A i \in 1..(Len(history) + 1) : i \in 1..Len(history) \/ i = Len(history) + 1
        BY <4>3
      <4> QED BY <3>1, <4>1, <4>2, <4>3, <4>4
    <3>3. history' = history \/ history' = Append(history, e)
      BY DEF Publish
    <3> QED BY <1>5, <3>1, <3>2, <3>3
  <2>7. due' \in [Subscribers -> SUBSET Events] /\ \A s \in Subscribers : due'[s] \subseteq Known'
    <3>1. due' = [s \in Subscribers |-> IF s \in subscribed THEN due[s] \cup {e} ELSE due[s]]
      BY DEF Publish
    <3> QED BY <1>3, <1>5, <3>1 DEF BusTypeOK
  <2>8. received' \in Queues /\ private' \in BOOLEAN /\ subscribed' \subseteq Subscribers
        /\ IsFiniteSet(subscribed')
    BY <1>3, <1>4 DEF BusTypeOK
  <2>9. (queue \in Queues /\ ingress \in Seq(Entries))'
    BY <2>1 DEF Queues, Entries
  <2>10. (received \in Queues)'
    BY <2>8 DEF Queues
  <2> QED BY <1>5, <1>6, <2>2, <2>3, <2>4, <2>5, <2>6, <2>7, <2>8, <2>9, <2>10 DEF BusTypeOK
<1>11. \A s \in Subscribers : Range(received[s]) \cup Range(queue[s]) \subseteq Known
  BY <1>3, AllKnown
<1>12. \A s \in Subscribers : Rising(received[s], Pos')
  <2> SUFFICES ASSUME NEW s \in Subscribers PROVE Rising(received[s], Pos')
    OBVIOUS
  <2>1. \A x \in Range(received[s]) : Pos'[x] = Pos[x]
    BY <1>5, <1>11
  <2>2. Rising(received[s], Pos)
    BY <1>3 DEF LineInv
  <2> QED BY <2>1, <2>2, RisingSame
<1>13. ASSUME NEW s \in Subscribers, NEW x \in Range(received[s])
       PROVE  /\ \A y \in Range(queue'[s]) : Pos'[x] < Pos'[y]
              /\ \A i \in DOMAIN ingress' : Pos'[x] < Pos'[ingress'[i].event]
  <2>1. \A y \in Range(queue[s]) : Pos'[x] < Pos'[y]
    BY <1>3, <1>5, <1>11 DEF LineInv
  <2>2. \A z \in Range(ingress) : Pos'[x] < Pos'[z.event]
    <3>1. \A i \in DOMAIN ingress : Pos[x] < Pos[ingress[i].event] /\ ingress[i].event \in Known
      BY <1>3 DEF LineInv, BusTypeOK
    <3>2. \A i \in DOMAIN ingress : Pos'[x] < Pos'[ingress[i].event]
      BY <1>5, <1>11, <3>1
    <3> QED BY <3>2 DEF Range
  <2>3. Pos'[x] < Pos'[e]
    BY <1>5, <1>11
  <2>4. \A i \in DOMAIN ingress' : Pos'[x] < Pos'[ingress'[i].event]
    BY <1>2, <1>8, <2>2, <2>3
  <2>5. ASSUME NEW y \in Range(queue'[s]) PROVE Pos'[x] < Pos'[y]
    <3>1. y \in Events
      <4>1. queue'[s] \in Seq(Events)
        BY <1>6 DEF InLine, Queues
      <4> QED BY <4>1, RangeIs
    <3>2. <<s, y>> \in Held(queue')
      BY <3>1 DEF Held, Deliveries
    <3>3. <<s, y>> \in Held(queue) \/ <<s, y>> \in AllAddressed(ingress) \/ <<s, y>> \in OfEntry(new)
      BY <1>6, <3>2
    <3>4. CASE <<s, y>> \in Held(queue)
      BY <2>1, <3>4 DEF Held
    <3>5. CASE <<s, y>> \in AllAddressed(ingress)
      <4>1. PICK z \in Range(ingress) : <<s, y>> \in OfEntry(z)
        <5>1. ingress \in Seq(Entries)
          BY <1>3 DEF BusTypeOK
        <5> QED BY <3>5, <5>1, AddressedIs
      <4> QED BY <2>2, <4>1 DEF OfEntry
    <3>6. CASE <<s, y>> \in OfEntry(new)
      BY <1>2, <2>3, <3>6 DEF OfEntry
    <3> QED BY <3>3, <3>4, <3>5, <3>6
  <2> QED BY <2>4, <2>5
<1>14. LineInv'
  <2>1. InLine(queue, ingress, Pos)'
    BY <1>6 DEF InLine, Queues, Entries, Rising
  <2>3. \A s \in Subscribers : Rising(received[s], Pos)'
    BY <1>4, <1>12 DEF Rising
  <2> QED BY <1>4, <1>13, <2>1, <2>3 DEF LineInv
<1> QED BY <1>7, <1>10, <1>14 DEF BusInv

\* The flush on the loop.
LEMMA FlushKeeps ==
  ASSUME BusInv, Flush
  PROVE  BusInv'
<1>1. /\ BusTypeOK /\ LineInv /\ CountInv
      /\ UNCHANGED <<published, stamped, private, history, ownerLoop, subscribed, due, received>>
      /\ FlushAll(ingress, 0)
  BY DEF BusInv, Flush
<1>2. Books({})
  BY BooksBefore
<1>3. Settled(Pos, {})
  <2>1. (AllAddressed(ingress) \cup {}) \ AllAddressed(ingress) = {}
    OBVIOUS
  <2>2. /\ IsFiniteSet((AllAddressed(ingress) \cup {}) \ AllAddressed(ingress))
        /\ Cardinality((AllAddressed(ingress) \cup {}) \ AllAddressed(ingress)) = 0
    BY <2>1, FS_EmptySet
  <2>3. AllAddressed(ingress) \subseteq AllAddressed(ingress) \cup {} /\ 0 \in Nat
    OBVIOUS
  <2>4. InLine(queue, ingress, Pos)
    BY <1>1 DEF LineInv
  <2> QED BY <1>1, <1>2, <2>2, <2>3, <2>4, FlushSettles
<1>4. ingress' = <<>> /\ scheduled' = FALSE /\ Due' = Due /\ Pos' = Pos /\ Known' = Known
  BY <1>1 DEF FlushAll, Due, Pos, Known
<1>5. /\ InLine(queue', ingress', Pos) /\ dropped' \in Nat
      /\ Held(queue') \cup AllAddressed(ingress') \subseteq Held(queue) \cup AllAddressed(ingress)
  BY <1>3 DEF Settled
<1>6. IsFiniteSet(LostOnes') /\ dropped' = Cardinality(LostOnes')
  <2>1. (((Due \cup {}) \ Held(received)) \ Held(queue')) \ AllAddressed(ingress') = LostOnes'
    BY <1>1, <1>4 DEF LostOnes
  <2> QED BY <1>3, <2>1 DEF Settled
<1>7. CountInv'
  <2>1. Held(received) \cup Held(queue) \cup AllAddressed(ingress) \subseteq Due
    BY <1>1 DEF CountInv
  <2>2. Held(received)' = Held(received) /\ Held(queue)' = Held(queue')
        /\ AllAddressed(ingress)' = AllAddressed(ingress')
    BY <1>1 DEF Held, AllAddressed, Addressed
  <2> QED BY <1>4, <1>5, <1>6, <2>1, <2>2 DEF CountInv
<1>8. DOMAIN ingress' = {} /\ ingress' \in Seq(Entries) /\ queue' \in Queues
  BY <1>4, <1>5, NoneAddressed DEF InLine
<1>9. BusTypeOK'
  <2>1. (queue \in Queues /\ ingress \in Seq(Entries) /\ received \in Queues)'
    BY <1>1, <1>8 DEF Queues, Entries, BusTypeOK
  <2> QED BY <1>1, <1>4, <1>5, <1>8, <2>1 DEF BusTypeOK
<1>10. ASSUME NEW s \in Subscribers, NEW x \in Range(received[s]), NEW y \in Range(queue'[s])
       PROVE  Pos[x] < Pos[y]
  <2>1. y \in Events
    <3>1. queue'[s] \in Seq(Events)
      BY <1>8 DEF Queues
    <3> QED BY <3>1, RangeIs
  <2>2. <<s, y>> \in Held(queue')
    BY <2>1 DEF Held, Deliveries
  <2>3. <<s, y>> \in Held(queue) \/ <<s, y>> \in AllAddressed(ingress)
    BY <1>5, <2>2
  <2>4. CASE <<s, y>> \in Held(queue)
    BY <1>1, <2>4 DEF Held, LineInv
  <2>5. CASE <<s, y>> \in AllAddressed(ingress)
    <3>1. PICK z \in Range(ingress) : <<s, y>> \in OfEntry(z)
      <4>1. ingress \in Seq(Entries)
        BY <1>1 DEF BusTypeOK
      <4> QED BY <2>5, <4>1, AddressedIs
    <3>2. PICK i \in DOMAIN ingress : z = ingress[i]
      BY DEF Range
    <3> QED BY <1>1, <3>1, <3>2 DEF OfEntry, LineInv
  <2> QED BY <2>3, <2>4, <2>5
<1>11. LineInv'
  <2>1. InLine(queue, ingress, Pos)'
    BY <1>4, <1>5 DEF InLine, Queues, Entries, Rising
  <2>2. \A s \in Subscribers : Rising(received[s], Pos)'
    BY <1>1, <1>4 DEF Rising, LineInv
  <2> QED BY <1>1, <1>4, <1>8, <1>10, <2>1, <2>2 DEF LineInv
<1> QED BY <1>7, <1>9, <1>11 DEF BusInv

\* A subscriber takes the first event of its queue.
LEMMA ReceiveKeeps ==
  ASSUME BusInv, NEW s \in Subscribers, Receive(s)
  PROVE  BusInv' /\ Head(queue[s]) \in Known
<1>1. /\ BusTypeOK /\ LineInv /\ CountInv
      /\ UNCHANGED <<published, stamped, private, history, ownerLoop, subscribed, ingress,
                     scheduled, dropped, due>>
  BY DEF BusInv, Receive
<1>2. PICK e : e = Head(queue[s])
  OBVIOUS
<1>3. PICK pos : pos = Pos
  OBVIOUS
<1>4. pos \in [Events -> Int] /\ queue[s] \in Seq(Events) /\ received[s] \in Seq(Events)
  BY <1>1, <1>3, Placed DEF HasPlaces, Pos, BusTypeOK, Queues
<1>5. /\ Rising(queue[s], pos) /\ Rising(received[s], pos) /\ queue[s] # <<>>
      /\ \A x \in Range(received[s]) : \A y \in Range(queue[s]) : pos[x] < pos[y]
  BY <1>1, <1>3 DEF LineInv, InLine, Receive
<1>6. /\ Tail(queue[s]) \in Seq(Events) /\ Rising(Tail(queue[s]), pos)
      /\ e \in Range(queue[s]) /\ Range(Tail(queue[s])) = Range(queue[s]) \ {e}
      /\ \A x \in Range(Tail(queue[s])) : pos[e] < pos[x]
  BY <1>2, <1>4, <1>5, TailKeeps
<1>7. e \in Events /\ e \in Known
  <2>1. Range(queue[s]) \subseteq Known
    BY <1>1, AllKnown
  <2>2. Known \subseteq Events
    BY <1>1, Placed DEF BusTypeOK, Known, HasPlaces
  <2> QED BY <1>6, <2>1, <2>2
<1>8. /\ Append(received[s], e) \in Seq(Events) /\ Rising(Append(received[s], e), pos)
      /\ Range(Append(received[s], e)) = Range(received[s]) \cup {e}
  BY <1>4, <1>5, <1>6, <1>7, AppendKeeps
<1>9. /\ received' = [received EXCEPT ![s] = Append(received[s], e)]
      /\ queue' = [queue EXCEPT ![s] = Tail(queue[s])]
  BY <1>2 DEF Receive
<1>10. received' \in Queues /\ queue' \in Queues
  BY <1>1, <1>6, <1>8, <1>9 DEF BusTypeOK, Queues
<1>11. /\ received'[s] = Append(received[s], e) /\ queue'[s] = Tail(queue[s])
       /\ \A t \in Subscribers \ {s} : received'[t] = received[t] /\ queue'[t] = queue[t]
  BY <1>1, <1>9 DEF BusTypeOK, Queues
<1>12. BusTypeOK'
  <2>1. (queue \in Queues /\ ingress \in Seq(Entries) /\ received \in Queues)'
    BY <1>1, <1>10 DEF Queues, Entries, BusTypeOK
  <2> QED BY <1>1, <2>1 DEF BusTypeOK, Known
<1>13. Pos' = pos /\ Pos = pos
  BY <1>1, <1>3 DEF Pos
<1>14. LineInv'
  <2>1. ASSUME NEW t \in Subscribers
        PROVE  /\ Rising(queue'[t], pos) /\ Rising(received'[t], pos)
               /\ Range(queue'[t]) \subseteq Range(queue[t])
               /\ \A x \in Range(received'[t]) :
                    /\ \A y \in Range(queue'[t]) : pos[x] < pos[y]
                    /\ \A i \in DOMAIN ingress : pos[x] < pos[ingress[i].event]
    <3>1. CASE t = s
      <4>1. \A i \in DOMAIN ingress : pos[e] < pos[ingress[i].event]
        BY <1>1, <1>6, <1>13 DEF LineInv, InLine
      <4>2. \A x \in Range(received[s]) : \A i \in DOMAIN ingress : pos[x] < pos[ingress[i].event]
        BY <1>1, <1>13 DEF LineInv
      <4> QED BY <1>5, <1>6, <1>8, <1>11, <3>1, <4>1, <4>2
    <3>2. CASE t # s
      BY <1>1, <1>11, <1>13, <3>2 DEF LineInv, InLine
    <3> QED BY <3>1, <3>2
  <2>2. InLine(queue', ingress', pos)
    BY <1>1, <1>4, <1>10, <1>13, <2>1 DEF LineInv, InLine
  <2>3. InLine(queue, ingress, Pos)'
    BY <1>13, <2>2 DEF InLine, Queues, Entries, Rising
  <2>4. \A t \in Subscribers : Rising(received[t], Pos)'
    BY <1>13, <2>1 DEF Rising
  <2> QED BY <1>1, <1>13, <2>1, <2>3, <2>4 DEF LineInv
<1>15. CountInv'
  <2>1. <<s, e>> \in Held(queue)
    BY <1>6, <1>7 DEF Held, Deliveries
  <2>2. \A d \in Deliveries : /\ d \in Held(received') <=> d \in Held(received) \cup {<<s, e>>}
                              /\ d \in Held(queue') => d \in Held(queue)
                              /\ d \in Held(queue) /\ d # <<s, e>> => d \in Held(queue')
    <3>1. ASSUME NEW t \in Subscribers, NEW x \in Events
          PROVE  /\ x \in Range(received'[t]) <=> x \in Range(received[t]) \/ (t = s /\ x = e)
                 /\ x \in Range(queue'[t]) => x \in Range(queue[t])
                 /\ x \in Range(queue[t]) /\ ~(t = s /\ x = e) => x \in Range(queue'[t])
      BY <1>6, <1>8, <1>11
    <3>2. ASSUME NEW d \in Deliveries
          PROVE  d[1] \in Subscribers /\ d[2] \in Events /\ (d = <<s, e>> <=> d[1] = s /\ d[2] = e)
      BY DEF Deliveries
    <3> QED BY <3>1, <3>2 DEF Held
  <2>3. /\ Held(received') \subseteq Deliveries /\ Held(queue') \subseteq Deliveries
        /\ Held(received) \subseteq Deliveries /\ Held(queue) \subseteq Deliveries
    BY DEF Held
  <2>4. Held(received)' = Held(received') /\ Held(queue)' = Held(queue') /\ Due' = Due
        /\ AllAddressed(ingress)' = AllAddressed(ingress)
    BY <1>1 DEF Held, Due, AllAddressed, Addressed
  <2>5. Held(received') \cup Held(queue') \cup AllAddressed(ingress) \subseteq Due
    BY <1>1, <2>1, <2>2, <2>3 DEF CountInv
  <2>6. ((Due \ Held(received')) \ Held(queue')) \ AllAddressed(ingress)
          = ((Due \ Held(received)) \ Held(queue)) \ AllAddressed(ingress)
    <3>1. Due \subseteq Deliveries
      BY DEF Due
    <3> QED BY <2>1, <2>2, <3>1
  <2>7. LostOnes' = LostOnes
    BY <2>4, <2>6 DEF LostOnes
  <2> QED BY <1>1, <2>4, <2>5, <2>7 DEF CountInv
<1> QED BY <1>2, <1>7, <1>12, <1>14, <1>15 DEF BusInv

\* What touches neither the events nor the queues.
LEMMA BusRests ==
  ASSUME BusInv, UNCHANGED <<published, queue, ingress, dropped, due, received>>
  PROVE  LineInv' /\ CountInv' /\ Known' = Known
<1>1. Pos' = Pos /\ Known' = Known
  BY DEF Pos, Known
<1>2. Due' = Due /\ Held(received)' = Held(received) /\ Held(queue)' = Held(queue)
      /\ AllAddressed(ingress)' = AllAddressed(ingress)
  BY DEF Due, Held, AllAddressed, Addressed
<1>3. LostOnes' = LostOnes
  BY <1>2 DEF LostOnes
<1>4. CountInv'
  BY <1>2, <1>3 DEF CountInv, BusInv
<1>5. InLine(queue, ingress, Pos)'
  BY <1>1 DEF InLine, Queues, Entries, Rising, BusInv, LineInv
<1>6. \A s \in Subscribers : Rising(received[s], Pos)'
  BY <1>1 DEF Rising, BusInv, LineInv
<1>7. LineInv'
  BY <1>1, <1>5, <1>6 DEF BusInv, LineInv
<1> QED BY <1>1, <1>4, <1>7

LEMMA OthersKeep ==
  ASSUME BusInv,
         \/ \E s \in Subscribers : Subscribe(s) \/ Unsubscribe(s)
         \/ \E enabled \in BOOLEAN : SetPrivate(enabled)
         \/ CloseLoop
         \/ UNCHANGED busVars
  PROVE  BusInv'
<1>1. UNCHANGED <<published, stamped, queue, ingress, scheduled, dropped, due, received>>
  BY DEF Subscribe, Unsubscribe, SetPrivate, CloseLoop, busVars, deliveryVars
<1>2. LineInv' /\ CountInv' /\ Known' = Known
  BY <1>1, BusRests
<1>3. subscribed' \subseteq Subscribers /\ IsFiniteSet(subscribed')
  <2>1. subscribed \subseteq Subscribers /\ IsFiniteSet(subscribed)
    BY DEF BusInv, BusTypeOK
  <2>2. ASSUME NEW s \in Subscribers
        PROVE  IsFiniteSet(subscribed \cup {s}) /\ IsFiniteSet(subscribed \ {s})
    BY <2>1, FS_AddElement, FS_RemoveElement
  <2>3. \/ \E s \in Subscribers : subscribed' = subscribed \cup {s}
        \/ \E s \in Subscribers : subscribed' = subscribed \ {s}
        \/ subscribed' = subscribed
    BY DEF Subscribe, Unsubscribe, SetPrivate, CloseLoop, busVars
  <2> QED BY <2>1, <2>2, <2>3
<1>4. ownerLoop' \in {"unbound", "open", "closed"} /\ private' \in BOOLEAN
  BY DEF Subscribe, Unsubscribe, SetPrivate, CloseLoop, busVars, BusInv, BusTypeOK
<1>5. history' = history \/ history' = <<>>
  BY DEF Subscribe, Unsubscribe, SetPrivate, CloseLoop, busVars
<1>6. history' \in Seq(Events) /\ Range(history') \subseteq Known'
  <2>1. Range(<<>>) = {} /\ <<>> \in Seq(Events)
    BY DEF Range
  <2>2. history \in Seq(Events) /\ Range(history) \subseteq Known
    BY DEF BusInv, BusTypeOK
  <2>3. CASE history' = history
    BY <1>2, <2>2, <2>3
  <2>4. CASE history' = <<>>
    <3>1. Range(history') = {}
      BY <2>1, <2>4
    <3> QED BY <2>1, <2>4, <3>1
  <2> QED BY <1>5, <2>3, <2>4
<1>7. (queue \in Queues /\ ingress \in Seq(Entries) /\ received \in Queues)'
  BY <1>1 DEF Queues, Entries, BusInv, BusTypeOK
<1>8. BusTypeOK'
  BY <1>1, <1>2, <1>3, <1>4, <1>6, <1>7 DEF BusInv, BusTypeOK
<1> QED BY <1>2, <1>8 DEF BusInv

\* The bus at the start.
LEMMA BusStarts ==
  ASSUME BusInit
  PROVE  BusInv
<1>1. /\ published = <<>> /\ stamped = {} /\ history = <<>> /\ private \in BOOLEAN
      /\ ownerLoop = "unbound" /\ subscribed = {} /\ queue = [s \in Subscribers |-> <<>>]
      /\ ingress = <<>> /\ scheduled = FALSE /\ dropped = 0
      /\ due = [s \in Subscribers |-> {}] /\ received = [s \in Subscribers |-> <<>>]
  BY DEF BusInit
<1>2. <<>> \in Seq(Events) /\ Range(<<>>) = {} /\ DOMAIN <<>> = {} /\ Once(<<>>)
  BY DEF Range, Once
<1>3. AllAddressed(ingress) = {} /\ DOMAIN ingress = {} /\ ingress \in Seq(Entries)
  BY <1>1, NoneAddressed
<1>4. queue \in Queues /\ received \in Queues /\ Pos \in [Events -> Int]
  BY <1>1, <1>2, Placed DEF Queues, Pos, HasPlaces
<1>5. Held(received) = {} /\ Held(queue) = {} /\ Due = {}
  BY <1>1, <1>2 DEF Held, Due, Deliveries
<1>6. LostOnes = {} /\ IsFiniteSet({}) /\ Cardinality({}) = 0
  BY <1>3, <1>5, FS_EmptySet DEF LostOnes
<1>7. CountInv
  BY <1>1, <1>3, <1>5, <1>6 DEF CountInv
<1>8. BusTypeOK
  BY <1>1, <1>2, <1>3, <1>4, <1>6 DEF BusTypeOK, Known
<1>9. LineInv
  BY <1>1, <1>2, <1>3, <1>4 DEF LineInv, InLine, Rising
<1> QED BY <1>7, <1>8, <1>9 DEF BusInv

--------------------------------------------------------------------------------
(* What the histories hold                                                    *)

LogInv ==
  /\ inHand \in Known \cup {NoEvent} /\ recorded \subseteq Known
  /\ HistoriesHonest

\* A publication changes no event that is recorded or in the history.
LEMMA PublishLog ==
  ASSUME BusInv, LogInv, NEW e \in Events, Publish(e), UNCHANGED logVars
  PROVE  LogInv'
<1>1. /\ published' = Append(published, e) /\ Unpublished(e)
      /\ stamped' = IF private THEN stamped \cup {e} ELSE stamped
      /\ history' = IF e \in Transient THEN history ELSE Append(history, e)
      /\ private' = private
      /\ inHand' = inHand /\ recorded' = recorded /\ clearedThrough' = clearedThrough
  BY DEF Publish, logVars
<1>2. /\ e \notin Known /\ Known' = Known \cup {e} /\ \A x \in Known : Sequence(x)' = Sequence(x)
  BY <1>1, PublishedLast DEF BusInv
<1>3. /\ history \in Seq(Events) /\ Range(history) \subseteq Known /\ stamped \subseteq Known
      /\ private \in BOOLEAN
  BY DEF BusInv, BusTypeOK
<1>4. /\ inHand \in Known \cup {NoEvent} /\ recorded \subseteq Known
      /\ \A x \in recorded : x \notin stamped /\ Sequence(x) > clearedThrough
      /\ \A i \in DOMAIN history : (history[i] \in stamped) = private
  BY DEF LogInv, HistoriesHonest
<1>5. \A x \in recorded' : x \notin stamped' /\ Sequence(x)' > clearedThrough'
  BY <1>1, <1>2, <1>4
<1>6. /\ Len(history) \in Nat /\ DOMAIN history = 1..Len(history)
      /\ \A i \in 1..Len(history) : history[i] \in Known
  BY <1>3, RangeIs, LenProperties
<1>7. \A i \in 1..Len(history) : (history[i] \in stamped') = private
  BY <1>1, <1>2, <1>4, <1>6
<1>8. (e \in stamped') = private
  BY <1>1, <1>2, <1>3
<1>9. \A i \in DOMAIN history' : (history'[i] \in stamped') = private'
  <2>1. CASE e \in Transient
    BY <1>1, <1>6, <1>7, <2>1
  <2>2. CASE e \notin Transient
    <3>1. /\ Len(history') = Len(history) + 1 /\ history' \in Seq(Events)
          /\ \A i \in 1..Len(history) : history'[i] = history[i]
          /\ history'[Len(history) + 1] = e
      BY <1>1, <1>3, <2>2, AppendProperties
    <3>2. DOMAIN history' = 1..(Len(history) + 1)
      BY <3>1, LenProperties
    <3>3. \A i \in 1..(Len(history) + 1) : i \in 1..Len(history) \/ i = Len(history) + 1
      BY <1>6
    <3> QED BY <1>1, <1>7, <1>8, <3>1, <3>2, <3>3
  <2> QED BY <2>1, <2>2
<1>10. HistoriesHonest'
  BY <1>5, <1>9 DEF HistoriesHonest
<1> QED BY <1>1, <1>2, <1>4, <1>10 DEF LogInv

\* The persistence task and the timeline.
LEMMA LogKeeps ==
  ASSUME BusInv, LogInv, Persist \/ RecordEvent \/ ClearTimeline \/ BeginNotice \/ EndNotice
  PROVE  BusInv' /\ LogInv'
<1>1. /\ inHand \in Known \cup {NoEvent} /\ recorded \subseteq Known
      /\ \A x \in recorded : x \notin stamped /\ Sequence(x) > clearedThrough
      /\ \A i \in DOMAIN history : (history[i] \in stamped) = private
  BY DEF LogInv, HistoriesHonest
<1>2. published' = published /\ stamped' = stamped /\ history' = history /\ private' = private
  BY DEF Persist, Receive, RecordEvent, ClearTimeline, BeginNotice, EndNotice, busVars
<1>3. Known' = Known /\ \A x : Sequence(x)' = Sequence(x)
  BY <1>2 DEF Known, Sequence
<1>4. CASE Persist
  <2>1. Persister \in Subscribers
    BY LogAssumption
  <2>2. Receive(Persister)
    BY <1>4 DEF Persist
  <2>3. BusInv' /\ Head(queue[Persister]) \in Known
    BY <2>1, <2>2, ReceiveKeeps
  <2>4. /\ inHand' \in {Head(queue[Persister]), NoEvent}
        /\ recorded' = recorded /\ clearedThrough' = clearedThrough
    BY <1>4 DEF Persist
  <2> QED BY <1>1, <1>2, <1>3, <2>3, <2>4 DEF LogInv, HistoriesHonest
<1>5. CASE ~Persist
  <2>1. UNCHANGED busVars
    BY <1>5 DEF RecordEvent, ClearTimeline, BeginNotice, EndNotice
  <2>2. BusInv'
    BY <2>1, OthersKeep
  <2>3. CASE RecordEvent
    <3>1. /\ inHand \in Known /\ inHand' = NoEvent /\ clearedThrough' = clearedThrough
          /\ recorded' = IF ShouldRecord(inHand) THEN recorded \cup {inHand} ELSE recorded
      BY <1>1, <2>3 DEF RecordEvent
    <3>2. recorded' \subseteq Known /\ \A x \in recorded' : x \notin stamped /\ Sequence(x) > clearedThrough
      BY <1>1, <3>1 DEF ShouldRecord
    <3> QED BY <1>1, <1>2, <1>3, <2>2, <3>1, <3>2 DEF LogInv, HistoriesHonest
  <2>4. CASE ClearTimeline
    <3>1. inHand' = inHand /\ recorded' = {}
      BY <2>4 DEF ClearTimeline
    <3> QED BY <1>1, <1>2, <1>3, <2>2, <3>1 DEF LogInv, HistoriesHonest
  <2>5. CASE BeginNotice \/ EndNotice
    <3>1. inHand' = inHand /\ recorded' = recorded /\ clearedThrough' = clearedThrough
      BY <2>5 DEF BeginNotice, EndNotice
    <3> QED BY <1>1, <1>2, <1>3, <2>2, <3>1 DEF LogInv, HistoriesHonest
  <2> QED BY <1>5, <2>3, <2>4, <2>5
<1> QED BY <1>4, <1>5

\* A change of privacy clears the history; the other steps leave all of it alone.
LEMMA LogRests ==
  ASSUME LogInv, UNCHANGED logVars,
         \/ Flush \/ CloseLoop \/ UNCHANGED busVars
         \/ \E s \in Subscribers : Subscribe(s) \/ Unsubscribe(s) \/ Receive(s)
         \/ \E enabled \in BOOLEAN : SetPrivate(enabled)
  PROVE  LogInv'
<1>1. /\ inHand \in Known \cup {NoEvent} /\ recorded \subseteq Known
      /\ \A x \in recorded : x \notin stamped /\ Sequence(x) > clearedThrough
      /\ \A i \in DOMAIN history : (history[i] \in stamped) = private
  BY DEF LogInv, HistoriesHonest
<1>2. /\ published' = published /\ stamped' = stamped
      /\ inHand' = inHand /\ recorded' = recorded /\ clearedThrough' = clearedThrough
      /\ (history' = history /\ private' = private) \/ history' = <<>>
  BY DEF Flush, CloseLoop, busVars, Subscribe, Unsubscribe, Receive, SetPrivate, logVars
<1>3. Known' = Known /\ \A x : Sequence(x)' = Sequence(x)
  BY <1>2 DEF Known, Sequence
<1>4. \A i \in DOMAIN history' : (history'[i] \in stamped) = private'
  <2>1. CASE history' = history /\ private' = private
    BY <1>1, <2>1
  <2>2. CASE history' = <<>>
    <3>1. DOMAIN history' = {}
      BY <2>2
    <3> QED BY <3>1
  <2> QED BY <1>2, <2>1, <2>2
<1> QED BY <1>1, <1>2, <1>3, <1>4 DEF LogInv, HistoriesHonest

--------------------------------------------------------------------------------
(* The event properties                                                       *)

EventInv == BusInv /\ LogInv /\ workload \in Workloads

LEMMA LoadFixed ==
  ASSUME [Next]_vars
  PROVE  workload' = workload
BY DEF Next, vars, ipcVars, Persistence, ReaderStep, WorkerStep, RequestTaken, ReplyStep, CoreStep,
       CoreIncident, Connect, ReadEof, Teardown, CancelClient, SubscribeClient, TakeOrdinary, Taken,
       TakeResponsive, TakeStop, Wake, Serve, ServeFails, ReplyQuick, ReplyStop, Inform, SendEvent,
       StopServer, Disconnect

\* What a step of the core or of the server does to the events.
EventStep ==
  \/ UNCHANGED eventVars
  \/ (\E s \in Subscribers : Subscribe(s) \/ Unsubscribe(s) \/ Receive(s)) /\ UNCHANGED logVars
  \/ (Flush \/ CloseLoop) /\ UNCHANGED logVars
  \/ (\E enabled \in BOOLEAN : SetPrivate(enabled)) /\ UNCHANGED logVars
  \/ (\E e \in Events : Publish(e)) /\ UNCHANGED logVars
  \/ Persist \/ RecordEvent \/ ClearTimeline \/ BeginNotice \/ EndNotice

LEMMA StepOfEvents ==
  ASSUME EventInv, [Next]_vars
  PROVE  EventStep
<1>1. Conns \subseteq Subscribers /\ Persister \in Subscribers
  BY IpcAssumption
<1>2. workload.events \subseteq Events
  BY IpcAssumption DEF EventInv
<1>3. (~private) \in BOOLEAN
  OBVIOUS
<1>4. CASE Persistence
  BY <1>1, <1>4 DEF Persistence, EventStep
<1>5. ASSUME NEW c \in Conns, ReaderStep(c) \/ WorkerStep(c) \/ (SendEvent(c) /\ UNCHANGED logVars)
      PROVE  EventStep
  BY <1>1, <1>5 DEF ReaderStep, WorkerStep, SendEvent, SubscribeClient, EventStep
<1>6. ASSUME NEW r \in Requests, RequestTaken(r) \/ ReplyStep(r)
      PROVE  EventStep
  BY <1>6 DEF RequestTaken, ReplyStep, EventStep
<1>7. CASE CoreStep
  BY <1>7 DEF CoreStep, EventStep
<1>8. CASE CoreIncident
  BY <1>2, <1>3, <1>8 DEF CoreIncident, ChangePrivacy, EventStep
<1>9. CASE UNCHANGED vars
  BY <1>9 DEF vars, EventStep
<1> QED BY <1>4, <1>5, <1>6, <1>7, <1>8, <1>9 DEF Next

LEMMA EventsKept ==
  ASSUME EventInv, [Next]_vars
  PROVE  EventInv'
<1>1. BusInv /\ LogInv /\ workload' \in Workloads
  BY LoadFixed DEF EventInv
<1>2. EventStep
  BY StepOfEvents
<1>3. CASE UNCHANGED eventVars
  <2>1. UNCHANGED busVars /\ UNCHANGED logVars
    BY <1>3 DEF eventVars
  <2> QED BY <1>1, <2>1, OthersKeep, LogRests DEF EventInv
<1>4. ASSUME NEW s \in Subscribers, Subscribe(s) \/ Unsubscribe(s), UNCHANGED logVars
      PROVE  BusInv' /\ LogInv'
  BY <1>1, <1>4, OthersKeep, LogRests
<1>5. ASSUME NEW s \in Subscribers, Receive(s), UNCHANGED logVars
      PROVE  BusInv' /\ LogInv'
  BY <1>1, <1>5, ReceiveKeeps, LogRests
<1>6. CASE Flush /\ UNCHANGED logVars
  BY <1>1, <1>6, FlushKeeps, LogRests DEF EventInv
<1>7. CASE CloseLoop /\ UNCHANGED logVars
  BY <1>1, <1>7, OthersKeep, LogRests DEF EventInv
<1>8. ASSUME NEW enabled \in BOOLEAN, SetPrivate(enabled), UNCHANGED logVars
      PROVE  BusInv' /\ LogInv'
  BY <1>1, <1>8, OthersKeep, LogRests
<1>9. ASSUME NEW e \in Events, Publish(e), UNCHANGED logVars
      PROVE  BusInv' /\ LogInv'
  BY <1>1, <1>9, PublishKeeps, PublishLog
<1>10. CASE Persist \/ RecordEvent \/ ClearTimeline \/ BeginNotice \/ EndNotice
  BY <1>1, <1>10, LogKeeps DEF EventInv
<1> QED BY <1>1, <1>2, <1>3, <1>4, <1>5, <1>6, <1>7, <1>8, <1>9, <1>10 DEF EventStep, EventInv

\* The invariant of the bus, the timeline and the workload, from the start.
THEOREM EventInvariant == Spec => []EventInv
<1>1. Init => EventInv
  <2> SUFFICES ASSUME Init PROVE EventInv
    OBVIOUS
  <2>1. BusInv
    BY BusStarts DEF Init
  <2>2. history = <<>> /\ inHand = NoEvent /\ recorded = {} /\ workload \in Workloads
    BY DEF Init, BusInit, LogInit, IpcInit
  <2>3. DOMAIN history = {}
    BY <2>2
  <2>4. HistoriesHonest
    BY <2>2, <2>3 DEF HistoriesHonest
  <2> QED BY <2>1, <2>2, <2>4 DEF EventInv, LogInv
<1>2. EventInv /\ [Next]_vars => EventInv'
  BY EventsKept
<1> QED BY <1>1, <1>2, PTL DEF Spec

\* Two increasing sequences, one after the other.
LEMMA TogetherOrdered ==
  ASSUME NEW s1 \in Seq(Events), NEW s2 \in Seq(Events),
         \A x \in Range(s1) \cup Range(s2) : Sequence(x) = Pos[x] /\ Pos[x] \in Int,
         Rising(s1, Pos), Rising(s2, Pos),
         \A x \in Range(s1) : \A y \in Range(s2) : Pos[x] < Pos[y]
  PROVE  Ordered(s1 \o s2)
<1> DEFINE both == s1 \o s2
<1>1. /\ both \in Seq(Events) /\ Len(both) = Len(s1) + Len(s2)
      /\ \A i \in 1 .. Len(s1) + Len(s2) : both[i] = IF i <= Len(s1) THEN s1[i] ELSE s2[i - Len(s1)]
  BY ConcatProperties
<1> HIDE DEF both
<1>2. /\ Len(s1) \in Nat /\ DOMAIN s1 = 1..Len(s1) /\ Len(s2) \in Nat /\ DOMAIN s2 = 1..Len(s2)
      /\ DOMAIN both = 1..(Len(s1) + Len(s2))
  BY <1>1, LenProperties
<1>3. /\ \A i \in 1..Len(s1) : s1[i] \in Range(s1)
      /\ \A i \in 1..Len(s2) : s2[i] \in Range(s2)
  BY <1>2 DEF Range
<1>4. ASSUME NEW i \in 1..(Len(s1) + Len(s2)), NEW j \in 1..(Len(s1) + Len(s2)), i < j
      PROVE  Sequence(both[i]) < Sequence(both[j])
  <2>1. CASE j <= Len(s1)
    <3>1. i \in 1..Len(s1) /\ j \in 1..Len(s1) /\ both[i] = s1[i] /\ both[j] = s1[j]
      BY <1>1, <1>2, <1>4, <2>1
    <3> QED BY <1>2, <1>3, <1>4, <3>1 DEF Rising
  <2>2. CASE i <= Len(s1) /\ ~(j <= Len(s1))
    <3>1. i \in 1..Len(s1) /\ j - Len(s1) \in 1..Len(s2) /\ both[i] = s1[i] /\ both[j] = s2[j - Len(s1)]
      BY <1>1, <1>2, <2>2
    <3> QED BY <1>3, <3>1
  <2>3. CASE ~(i <= Len(s1))
    <3>1. /\ i - Len(s1) \in 1..Len(s2) /\ j - Len(s1) \in 1..Len(s2) /\ i - Len(s1) < j - Len(s1)
          /\ both[i] = s2[i - Len(s1)] /\ both[j] = s2[j - Len(s1)]
      BY <1>1, <1>2, <1>4, <2>3
    <3> QED BY <1>2, <1>3, <3>1 DEF Rising
  <2> QED BY <1>2, <2>1, <2>2, <2>3
<1> QED BY <1>2, <1>4 DEF Ordered, both

\* A subscriber sees what it gets in the order of the publications: what it took
\* before what is queued, that before what still waits for the loop.
THEOREM DeliveryOrdered == Spec => []OrderedDelivery
<1>1. EventInv => OrderedDelivery
  <2> SUFFICES ASSUME EventInv, NEW s \in Subscribers
               PROVE  /\ Ordered(received[s] \o queue[s])
                      /\ \A i \in DOMAIN ingress : s \in ingress[i].to =>
                           /\ \A e \in Range(received[s]) \cup Range(queue[s]) :
                                Sequence(e) < Sequence(ingress[i].event)
                           /\ \A j \in DOMAIN ingress : s \in ingress[j].to /\ i < j =>
                                Sequence(ingress[i].event) < Sequence(ingress[j].event)
    BY DEF OrderedDelivery
  <2>1. BusTypeOK /\ LineInv /\ CountInv
    BY DEF EventInv, BusInv
  <2>2. \A x \in Known : Sequence(x) = Pos[x] /\ Pos[x] \in Int
    <3>1. published \in Seq(Events) /\ Once(published)
      BY <2>1 DEF BusTypeOK
    <3>2. \A x \in Range(published) : At(published, x) = Order(Events, published)[x] /\ At(published, x) \in Int
      BY <3>1, Placed DEF HasPlaces
    <3> QED BY <3>2 DEF Known, Pos, Sequence, At
  <2>3. Range(received[s]) \cup Range(queue[s]) \subseteq Known
    BY <2>1, AllKnown
  <2>4. \A i \in DOMAIN ingress : ingress[i].event \in Known
    BY <2>1 DEF BusTypeOK
  <2>5. received[s] \in Seq(Events) /\ queue[s] \in Seq(Events)
    BY <2>1 DEF BusTypeOK, Queues
  <2>6. Ordered(received[s] \o queue[s])
    <3>1. /\ Rising(received[s], Pos) /\ Rising(queue[s], Pos)
          /\ \A x \in Range(received[s]) : \A y \in Range(queue[s]) : Pos[x] < Pos[y]
      BY <2>1 DEF LineInv, InLine
    <3>2. \A x \in Range(received[s]) \cup Range(queue[s]) : Sequence(x) = Pos[x] /\ Pos[x] \in Int
      BY <2>2, <2>3
    <3> QED BY <2>5, <3>1, <3>2, TogetherOrdered
  <2>7. \A i \in DOMAIN ingress : \A e \in Range(received[s]) \cup Range(queue[s]) :
          Pos[e] < Pos[ingress[i].event]
    BY <2>1 DEF LineInv, InLine
  <2>8. \A i, j \in DOMAIN ingress : i < j => Pos[ingress[i].event] < Pos[ingress[j].event]
    BY <2>1 DEF LineInv, InLine
  <2> QED BY <2>2, <2>3, <2>4, <2>6, <2>7, <2>8
<1> QED BY <1>1, EventInvariant, PTL

\* The count the diagnostics report is the number of deliveries that were lost.
THEOREM DropsAreCounted == Spec => []DropsCounted
<1>1. EventInv => DropsCounted
  <2> SUFFICES ASSUME EventInv PROVE DropsCounted
    OBVIOUS
  <2>1. BusTypeOK /\ CountInv
    BY DEF EventInv, BusInv
  <2>2. DOMAIN ingress = 1..Len(ingress)
    BY <2>1, LenProperties DEF BusTypeOK
  <2>3. ASSUME NEW d \in Deliveries
        PROVE  d[2] \in Lost(d[1]) <=> d \in LostOnes
    <3>1. d[2] \in Ingress(d[1]) <=> d \in AllAddressed(ingress)
      BY <2>2 DEF Ingress, AllAddressed, Addressed
    <3> QED BY <3>1 DEF Lost, Waiting, LostOnes, Due, Held
  <2>4. LostOnes \subseteq Deliveries
    BY DEF LostOnes, Due
  <2>5. {d \in Subscribers \X Events : d[2] \in Lost(d[1])} = LostOnes
    BY <2>3, <2>4 DEF Deliveries
  <2> QED BY <2>1, <2>5 DEF CountInv, DropsCounted
<1> QED BY <1>1, EventInvariant, PTL

\* Nothing of a private session reaches the disk, nothing older than a clearing
\* comes back, and the history a client can ask for is of one session.
THEOREM HistoriesStayHonest == Spec => []HistoriesHonest
<1>1. EventInv => HistoriesHonest
  BY DEF EventInv, LogInv
<1> QED BY <1>1, EventInvariant, PTL

--------------------------------------------------------------------------------
(* What is lost is the least important                                        *)

\* A full queue that holds nothing less important than the event.
Outranks(seq, e) == Len(seq) >= QueueSize /\ \A x \in Range(seq) : Rank[x] >= Rank[e]

\* Such a queue stays one, and what it gives up is less important than what it keeps.
LEMMA AdmitOutranks ==
  ASSUME NEW seq \in Seq(Events), NEW e \in Events, NEW pos \in [Events -> Int], Rising(seq, pos),
         \A x \in Range(seq) : pos[x] < pos[e],
         NEW new, new = Admitted(seq, EventRanks(seq), e, Rank[e])
  PROVE  /\ \A y \in Events : Outranks(seq, y) => Outranks(new, y)
         /\ \A y \in Range(seq) \cup {e} : y \notin Range(new) => Outranks(new, y)
<1> DEFINE ranks == EventRanks(seq)
           least == Victim(ranks)
<1>1. /\ Len(seq) \in Nat /\ DOMAIN seq = 1..Len(seq) /\ QueueSize \in Nat \ {0}
      /\ Range(seq) = {seq[i] : i \in 1..Len(seq)} /\ Range(seq) \subseteq Events
  BY RangeIs, LenProperties, BusAssumption
<1>2. \A x \in Events : Rank[x] \in Nat
  BY BusAssumption
<1>3. ranks \in [1..Len(seq) -> Nat] /\ \A i \in 1..Len(seq) : ranks[i] = Rank[seq[i]]
  BY <1>1, <1>2 DEF EventRanks
<1> HIDE DEF ranks
<1>4. Admits(Events, seq, ranks, e, Rank[e], pos)
  BY <1>2, <1>3, Admission
<1>5. new = Admitted(seq, ranks, e, Rank[e])
  BY DEF ranks
<1>6. CASE Len(seq) < QueueSize
  <2>1. Range(new) = Range(seq) \cup {e}
    BY <1>4, <1>5, <1>6 DEF Admits
  <2>2. \A y \in Events : ~Outranks(seq, y)
    BY <1>1, <1>6 DEF Outranks
  <2> QED BY <2>1, <2>2
<1>7. CASE Len(seq) >= QueueSize
  <2>1. least \in 1..Len(seq) /\ \A j \in 1..Len(seq) : ranks[least] <= ranks[j]
    <3>1. Len(seq) \in Nat \ {0}
      BY <1>1, <1>7
    <3> QED BY <1>3, <3>1, VictimIs
  <2>0. ~(Len(seq) < QueueSize)
    BY <1>1, <1>7
  <2> HIDE DEF least
  <2>2. seq[least] \in Range(seq) /\ \A x \in Range(seq) : Rank[x] >= Rank[seq[least]]
    BY <1>1, <1>2, <1>3, <2>1
  <2>3. CASE Rank[e] >= ranks[least]
    <3>1. Range(new) = (Range(seq) \ {seq[least]}) \cup {e}
      BY <1>4, <1>5, <1>7, <2>3 DEF Admits, least
    <3>2. Len(new) = Len(seq)
      <4>1. RemoveAt(seq, least) \in Seq(Events) /\ Len(RemoveAt(seq, least)) = Len(seq) - 1
        BY <2>1, RemoveAtIs
      <4>2. new = Append(RemoveAt(seq, least), e)
        BY <1>5, <2>0, <2>3 DEF Admitted, least
      <4>3. Len(new) = Len(RemoveAt(seq, least)) + 1
        BY <4>1, <4>2, AppendProperties
      <4> QED BY <1>1, <4>1, <4>3
    <3>3. Rank[e] >= Rank[seq[least]]
      BY <1>3, <2>1, <2>3
    <3>4. \A x \in Range(new) : x \in Events /\ Rank[x] >= Rank[seq[least]]
      BY <1>1, <2>2, <3>1, <3>3
    <3>5. ASSUME NEW y \in Events, Outranks(seq, y) PROVE Outranks(new, y)
      <4>1. Rank[seq[least]] >= Rank[y]
        BY <2>2, <3>5 DEF Outranks
      <4> QED BY <1>1, <1>2, <1>7, <2>2, <3>2, <3>4, <4>1 DEF Outranks
    <3>6. ASSUME NEW y \in Range(seq) \cup {e}, y \notin Range(new) PROVE Outranks(new, y)
      <4>1. y = seq[least]
        BY <3>1, <3>6
      <4> QED BY <1>7, <3>2, <3>4, <4>1 DEF Outranks
    <3> QED BY <3>5, <3>6
  <2>4. CASE ~(Rank[e] >= ranks[least])
    <3>1. new = seq
      BY <1>5, <2>0, <2>4 DEF Admitted, least
    <3>2. ASSUME NEW y \in Range(seq) \cup {e}, y \notin Range(new) PROVE Outranks(new, y)
      <4>1. y = e /\ Rank[seq[least]] > Rank[e]
        BY <1>2, <1>3, <2>1, <2>4, <3>1, <3>2
      <4>2. \A x \in Range(seq) : Rank[x] >= Rank[y]
        <5>1. \A x \in Range(seq) : Rank[x] \in Nat /\ Rank[x] >= Rank[seq[least]]
          BY <1>1, <1>2, <2>2
        <5>2. Rank[e] \in Nat /\ Rank[seq[least]] \in Nat
          BY <1>1, <1>2, <2>2
        <5> QED BY <4>1, <5>1, <5>2
      <4> QED BY <1>7, <3>1, <4>2 DEF Outranks
    <3> QED BY <3>1, <3>2
  <2> QED BY <2>3, <2>4
<1> QED BY <1>1, <1>6, <1>7

\* What the queues have given up after k entries.
Guarded(q, entries, k, state) ==
  \A s \in Subscribers, y \in Events :
    <<s, y>> \in (Held(q) \cup Addressed(entries, k)) \ Held(state.queue) => Outranks(state.queue[s], y)

LEMMA GuardNext ==
  ASSUME NEW q, NEW entries, NEW pos, InLine(q, entries, pos), NEW d \in Nat,
         NEW k \in Nat, k + 1 \in DOMAIN entries,
         NEW state, Reached(q, d, entries, pos, k, state), Guarded(q, entries, k, state)
  PROVE  Guarded(q, entries, k + 1, Delivered(state, entries[k + 1]))
<1> DEFINE entry == entries[k + 1]
           e == entry.event
           due0 == Held(q) \cup Addressed(entries, k)
           old == state.queue
           new == Delivered(state, entry).queue
<1>1. /\ Addressed(entries, k + 1) = Addressed(entries, k) \cup OfEntry(entry)
      /\ entry \in Entries /\ \A x \in due0 : pos[x[2]] < pos[e]
  BY NextAddressed
<1>2. old \in Queues /\ (\A s \in Subscribers : Rising(old[s], pos)) /\ Held(old) \subseteq due0
  BY DEF Reached
<1>3. pos \in [Events -> Int] /\ e \in Events
  BY <1>1 DEF InLine, Entries
<1>4. \A s \in Subscribers :
        new[s] = IF s \in entry.to THEN Admitted(old[s], EventRanks(old[s]), e, Rank[e]) ELSE old[s]
  BY DEF Delivered
<1>5. \A s \in Subscribers, y \in Events : <<s, y>> \in due0 /\ y \notin Range(old[s]) => Outranks(old[s], y)
  BY DEF Guarded, Held, Deliveries
<1>6. \A s \in Subscribers, y \in Events :
        <<s, y>> \in due0 \cup OfEntry(entry) => <<s, y>> \in due0 \/ (s \in entry.to /\ y = e)
  BY DEF OfEntry
<1>7. \A s \in Subscribers : \A x \in Range(old[s]) : x \in Events /\ pos[x] < pos[e]
  <2> SUFFICES ASSUME NEW s \in Subscribers, NEW x \in Range(old[s])
               PROVE  x \in Events /\ pos[x] < pos[e]
    OBVIOUS
  <2>1. x \in Events
    BY <1>2, RangeIs DEF Queues
  <2>2. <<s, x>> \in Held(old)
    BY <2>1 DEF Held, Deliveries
  <2>3. pos[<<s, x>>[2]] < pos[e]
    BY <1>1, <1>2, <2>2
  <2> QED BY <2>1, <2>3
<1> HIDE DEF entry, e, due0, old, new
<1>8. ASSUME NEW s \in Subscribers, NEW y \in Events, <<s, y>> \in due0 \cup OfEntry(entry), y \notin Range(new[s])
      PROVE  Outranks(new[s], y)
  <2>1. CASE s \notin entry.to
    <3>1. new[s] = old[s] /\ <<s, y>> \in due0
      BY <1>4, <1>6, <1>8, <2>1
    <3> QED BY <1>5, <1>8, <3>1
  <2>2. CASE s \in entry.to
    <3>1. new[s] = Admitted(old[s], EventRanks(old[s]), e, Rank[e])
      BY <1>4, <2>2
    <3>2. old[s] \in Seq(Events) /\ Rising(old[s], pos) /\ \A x \in Range(old[s]) : pos[x] < pos[e]
      BY <1>2, <1>7 DEF Queues
    <3>3. /\ \A x \in Events : Outranks(old[s], x) => Outranks(new[s], x)
          /\ \A x \in Range(old[s]) \cup {e} : x \notin Range(new[s]) => Outranks(new[s], x)
      BY <1>3, <3>1, <3>2, AdmitOutranks
    <3> QED BY <1>5, <1>6, <1>8, <3>3
  <2> QED BY <2>1, <2>2
<1>9. \A s \in Subscribers, y \in Events : <<s, y>> \notin Held(new) => y \notin Range(new[s])
  BY DEF Held, Deliveries
<1>10. Held(q) \cup Addressed(entries, k + 1) = due0 \cup OfEntry(entry)
  BY <1>1 DEF due0
<1>11. Delivered(state, entries[k + 1]).queue = new
  BY DEF new, entry
<1> QED BY <1>8, <1>9, <1>10, <1>11 DEF Guarded

\* A flush loses the least important of what it finds in a queue and of what it brings.
LEMMA GuardAll ==
  ASSUME NEW q, NEW entries, NEW pos, InLine(q, entries, pos), NEW d \in Nat
  PROVE  Guarded(q, entries, Len(entries), FoldLeft(Delivered, [queue |-> q, dropped |-> d], entries))
<1> DEFINE base == [queue |-> q, dropped |-> d]
           n == Len(entries)
           end == FoldLeft(Delivered, base, entries)
           Both(k, state) == Reached(q, d, entries, pos, k, state) /\ Guarded(q, entries, k, state)
<1>1. n \in Nat /\ DOMAIN entries = 1..n
  BY LenProperties DEF InLine
<1>2. PICK f : Runs(f, "deliver", base, entries, n, end)
  BY <1>1, DeliverRuns
<1>3. f[0] = base /\ f[n] = end /\ \A k \in 0..(n - 1) : f[k + 1] = Delivered(f[k], entries[k + 1])
  BY <1>2 DEF Runs, Step
<1>4. Both(0, base)
  <2>1. Addressed(entries, 0) = {}
    BY DEF Addressed
  <2>2. (Held(q) \cup {}) \ Held(q) = {} /\ Held(q) \cup {} = Held(q)
    OBVIOUS
  <2>3. d = d + 0 /\ base.queue = q /\ base.dropped = d
    OBVIOUS
  <2>4. Reached(q, d, entries, pos, 0, base)
    BY <2>1, <2>2, <2>3, FS_EmptySet DEF Reached, InLine
  <2>5. Guarded(q, entries, 0, base)
    BY <2>1, <2>2, <2>3 DEF Guarded
  <2> QED BY <2>4, <2>5
<1> HIDE DEF base, n, end
<1>5. ASSUME NEW k \in 0..(n - 1), Both(k, f[k])
      PROVE  Both(k + 1, f[k + 1])
  <2>1. k \in Nat /\ k + 1 \in DOMAIN entries
    BY <1>1
  <2> QED BY <1>3, <1>5, <2>1, ReachNext, GuardNext
<1> HIDE DEF Both
<1> DEFINE S == {k \in Nat : Both(k, f[k])}
<1>6. 0 \in S
  BY <1>3, <1>4
<1>7. \A k \in 0..(n - 1) : k \in S => k + 1 \in S
  BY <1>1, <1>5
<1> HIDE DEF S
<1>8. n \in S
  BY <1>1, <1>6, <1>7, UpTo
<1> QED BY <1>3, <1>8 DEF S, Both, n, end, base

\* What the dispatch queue gives up for an entry is less important than what waited there.
LEMMA EntryOutranked ==
  ASSUME NEW q, NEW pos, InLine(q, ingress, pos), NEW new \in Entries, LaterThan(q, pos, new.event),
         NEW entries, entries = Admitted(ingress, IngressRanks, new, Rank[new.event]),
         NEW d \in AllAddressed(ingress) \cup OfEntry(new), d \notin AllAddressed(entries)
  PROVE  /\ Len(ingress) >= QueueSize
         /\ \A i \in DOMAIN ingress : Rank[ingress[i].event] >= Rank[d[2]]
<1> DEFINE least == Victim(IngressRanks)
<1>1. Chosen(pos, new, entries)
  BY EntryChosen
<1>2. /\ ingress \in Seq(Entries) /\ entries \in Seq(Entries)
      /\ DOMAIN ingress = 1..Len(ingress) /\ Len(ingress) \in Nat /\ QueueSize \in Nat
  BY <1>1, LenProperties, BusAssumption DEF InLine, Chosen
<1>3. PICK x \in Range(ingress) \cup {new} : d \in OfEntry(x)
  BY <1>2, AddressedIs
<1>4. x \notin Range(entries)
  BY <1>2, <1>3, AddressedIs
<1>5. d[2] = x.event
  BY <1>3 DEF OfEntry
<1>6. \A i \in DOMAIN ingress : IngressRanks[i] = Rank[ingress[i].event] /\ IngressRanks[i] \in Nat
  <2>1. \A i \in DOMAIN ingress : ingress[i] \in Entries
    BY <1>2, ElementOfSeq
  <2>2. \A i \in DOMAIN ingress : ingress[i].event \in Events
    BY <2>1 DEF Entries
  <2> QED BY <2>2, BusAssumption DEF IngressRanks
<1>7. Rank[new.event] \in Nat
  BY BusAssumption DEF Entries
<1>8. Len(ingress) >= QueueSize
  BY <1>1, <1>2, <1>3, <1>4 DEF Chosen
<1>9. least \in DOMAIN ingress /\ \A j \in DOMAIN ingress : IngressRanks[least] <= IngressRanks[j]
  BY <1>1, <1>2, <1>8 DEF Chosen
<1>10. CASE Rank[new.event] >= IngressRanks[least]
  <2>1. x = ingress[least]
    BY <1>1, <1>3, <1>4, <1>8, <1>10 DEF Chosen
  <2> HIDE DEF least
  <2> QED BY <1>5, <1>6, <1>8, <1>9, <2>1
<1>11. CASE ~(Rank[new.event] >= IngressRanks[least])
  <2>1. x = new
    BY <1>1, <1>3, <1>4, <1>8, <1>11 DEF Chosen
  <2> HIDE DEF least
  <2> QED BY <1>5, <1>6, <1>7, <1>8, <1>9, <1>11, <2>1
<1> QED BY <1>10, <1>11

\* What waits for a subscriber.
LEMMA WaitingIs ==
  ASSUME NEW q \in Queues, NEW entries \in Seq(Entries), NEW s \in Subscribers
  PROVE  Range(q[s]) \cup {entries[i].event : i \in {j \in DOMAIN entries : s \in entries[j].to}}
           = {x \in Events : <<s, x>> \in Held(q) \cup AllAddressed(entries)}
<1>1. Range(q[s]) \subseteq Events
  BY RangeIs DEF Queues
<1>2. DOMAIN entries = 1..Len(entries) /\ \A i \in DOMAIN entries : entries[i].event \in Events
  <2>1. DOMAIN entries = 1..Len(entries) /\ \A i \in DOMAIN entries : entries[i] \in Entries
    BY LenProperties, ElementOfSeq
  <2> QED BY <2>1 DEF Entries
<1>3. \A x \in Events : x \in Range(q[s]) <=> <<s, x>> \in Held(q)
  BY DEF Held, Deliveries
<1>4. \A x \in Events :
        x \in {entries[i].event : i \in {j \in DOMAIN entries : s \in entries[j].to}}
          <=> <<s, x>> \in AllAddressed(entries)
  BY <1>2 DEF AllAddressed, Addressed, Deliveries
<1> QED BY <1>1, <1>2, <1>3, <1>4

\* What an event that a step loses leaves behind is at least as important.
LosesLeastOf(s, y) ==
  ownerLoop = "open" => \A f \in Companions(s, y) \cap (Waiting(s))' : Rank[f] >= Rank[y]

LEMMA LosesLeastIs ==
  ASSUME \A s \in Subscribers : \A y \in (Lost(s))' \ Lost(s) : LosesLeastOf(s, y)
  PROVE  LosesLeastImportant
BY DEF LosesLeastImportant, LosesLeastOf

\* A flush of entries that hold the event.
LEMMA FlushLosesLeast ==
  ASSUME NEW pos, NEW entries, InLine(queue, entries, pos), NEW lost \in Nat, dropped \in Nat,
         FlushAll(entries, lost), NEW s \in Subscribers, NEW y \in Events,
         <<s, y>> \in Held(queue) \cup AllAddressed(entries), y \notin (Waiting(s))'
  PROVE  LosesLeastOf(s, y)
<1> DEFINE end == FoldLeft(Delivered, [queue |-> queue, dropped |-> dropped + lost], entries)
<1>1. Guarded(queue, entries, Len(entries), end)
  BY GuardAll
<1>2. queue' = end.queue /\ ingress' = <<>>
  BY DEF FlushAll
<1>3. (Waiting(s))' = Range(queue'[s])
  <2>1. DOMAIN ingress' = {}
    BY <1>2
  <2>2. (Waiting(s))' = Range(queue'[s])
                        \cup {ingress'[i].event : i \in {j \in DOMAIN ingress' : s \in ingress'[j].to}}
    BY DEF Waiting, Ingress
  <2> QED BY <2>1, <2>2
<1> HIDE DEF end
<1>4. <<s, y>> \notin Held(end.queue)
  BY <1>2, <1>3 DEF Held
<1>5. Outranks(end.queue[s], y)
  BY <1>1, <1>4 DEF Guarded, AllAddressed
<1> QED BY <1>2, <1>3, <1>5 DEF LosesLeastOf, Outranks

\* The publication.
LEMMA PublishLosesLeast ==
  ASSUME BusInv, NEW e \in Events, Publish(e)
  PROVE  LosesLeastImportant
<1> SUFFICES ASSUME NEW s \in Subscribers, NEW y \in (Lost(s))' \ Lost(s), ownerLoop = "open"
             PROVE  LosesLeastOf(s, y)
  BY LosesLeastIs DEF LosesLeastOf
<1>1. PICK new : new = [event |-> e, to |-> subscribed]
  OBVIOUS
<1>2. PICK entries : entries = Admitted(ingress, IngressRanks, new, Rank[e])
  OBVIOUS
<1>3. PICK lost : lost = LostOnEntry(e, subscribed)
  OBVIOUS
<1>4. /\ Unpublished(e) /\ published' = Append(published, e) /\ received' = received
      /\ due' = [t \in Subscribers |-> IF t \in subscribed THEN due[t] \cup {e} ELSE due[t]]
      /\ \/ FlushAll(entries, lost)
         \/ ingress' = entries /\ queue' = queue
  BY <1>1, <1>2, <1>3 DEF Publish
<1>5. /\ BusTypeOK /\ LineInv /\ dropped \in Nat /\ subscribed \subseteq Subscribers
      /\ queue \in Queues /\ ingress \in Seq(Entries) /\ due[s] \subseteq Events
  BY DEF BusInv, BusTypeOK
<1>6. new \in Entries /\ Entered(e, new, entries)
  BY <1>1, <1>2, <1>4, PublicationEnters
<1>7. /\ new.event = e /\ new.to = subscribed /\ lost \in Nat
      /\ InLine(queue, ingress, Pos') /\ InLine(queue, entries, Pos')
  BY <1>3, <1>6 DEF Entered
<1>8. y \in Events /\ y \notin (Waiting(s))' /\ (y \in Waiting(s) \/ <<s, y>> \in OfEntry(new))
  <2>1. (Lost(s))' = (due'[s] \ Range(received'[s])) \ (Waiting(s))'
    BY DEF Lost
  <2>2. y \notin due[s] \/ y \in Waiting(s)
    BY <1>4, <2>1 DEF Lost
  <2>3. y \in due[s] \/ (y = e /\ s \in subscribed)
    BY <1>4, <2>1
  <2> QED BY <1>5, <1>7, <2>1, <2>2, <2>3 DEF OfEntry, Deliveries
<1>9. <<s, y>> \in Held(queue) \cup AllAddressed(ingress) \cup OfEntry(new)
  <2>1. Waiting(s) = {x \in Events : <<s, x>> \in Held(queue) \cup AllAddressed(ingress)}
    BY <1>5, WaitingIs DEF Waiting, Ingress
  <2> QED BY <1>8, <2>1
<1>10. CASE FlushAll(entries, lost) /\ <<s, y>> \in Held(queue) \cup AllAddressed(entries)
  BY <1>5, <1>7, <1>8, <1>10, FlushLosesLeast
<1>11. ASSUME <<s, y>> \notin Held(queue), <<s, y>> \notin AllAddressed(entries)
       PROVE  LosesLeastOf(s, y)
  <2>1. LaterThan(queue, Pos', new.event)
    <3>1. \A x \in Known : Pos'[x] < Pos'[e]
      BY <1>4, <1>5, PublishedLast
    <3>2. \A t \in Subscribers : Range(queue[t]) \subseteq Known
      BY AllKnown DEF BusInv
    <3>3. \A i \in DOMAIN ingress : ingress[i].event \in Known
      BY <1>5 DEF BusTypeOK
    <3> QED BY <1>7, <3>1, <3>2, <3>3 DEF LaterThan
  <2>2. <<s, y>> \in AllAddressed(ingress) \cup OfEntry(new)
    BY <1>9, <1>11
  <2>3. entries = Admitted(ingress, IngressRanks, new, Rank[new.event])
    BY <1>2, <1>7
  <2>4. Len(ingress) >= QueueSize /\ \A i \in DOMAIN ingress : Rank[ingress[i].event] >= Rank[<<s, y>>[2]]
    BY <1>6, <1>7, <1>11, <2>1, <2>2, <2>3, EntryOutranked
  <2>5. y \notin Range(queue[s])
    BY <1>8, <1>11 DEF Held, Deliveries
  <2>6. ~(Len(ingress) < QueueSize)
    <3>1. Len(ingress) \in Nat /\ QueueSize \in Nat
      BY <1>5, LenProperties, BusAssumption
    <3> QED BY <2>4, <3>1
  <2>7. Companions(s, y) = Ingress(s)
    BY <2>5, <2>6 DEF Companions
  <2>8. \A f \in Ingress(s) : Rank[f] >= Rank[y]
    BY <2>4 DEF Ingress
  <2> QED BY <2>7, <2>8 DEF LosesLeastOf
<1>12. CASE ingress' = entries /\ queue' = queue
  <2>1. entries \in Seq(Entries)
    BY <1>7 DEF InLine
  <2>2. (Waiting(s))' = Range(queue[s]) \cup {entries[i].event : i \in {j \in DOMAIN entries : s \in entries[j].to}}
    BY <1>12 DEF Waiting, Ingress
  <2>3. (Waiting(s))' = {x \in Events : <<s, x>> \in Held(queue) \cup AllAddressed(entries)}
    BY <1>5, <2>1, <2>2, WaitingIs
  <2> QED BY <1>8, <1>11, <2>3
<1> QED BY <1>4, <1>10, <1>11, <1>12

LEMMA TailHolds ==
  ASSUME NEW T, NEW seq \in Seq(T), seq # <<>>
  PROVE  Range(seq) \subseteq Range(Tail(seq)) \cup {Head(seq)}
<1>1. /\ Tail(seq) \in Seq(T) /\ Len(Tail(seq)) = Len(seq) - 1
      /\ \A i \in 1..Len(Tail(seq)) : Tail(seq)[i] = seq[i + 1]
  BY HeadTailProperties
<1>2. Len(seq) \in Nat \ {0} /\ DOMAIN seq = 1..Len(seq) /\ DOMAIN Tail(seq) = 1..Len(Tail(seq))
  BY <1>1, LenProperties, EmptySeq
<1>3. Head(seq) = seq[1]
  OBVIOUS
<1>4. ASSUME NEW i \in 1..Len(seq) PROVE seq[i] \in Range(Tail(seq)) \cup {Head(seq)}
  <2>1. CASE i = 1
    BY <1>3, <2>1
  <2>2. CASE i # 1
    <3>1. i - 1 \in 1..Len(Tail(seq)) /\ (i - 1) + 1 = i
      BY <1>1, <1>2, <2>2
    <3>2. Tail(seq)[i - 1] = seq[i]
      BY <1>1, <3>1
    <3> QED BY <1>2, <3>1, <3>2 DEF Range
  <2> QED BY <2>1, <2>2
<1> QED BY <1>2, <1>4 DEF Range

LEMMA AppendHolds ==
  ASSUME NEW T, NEW seq \in Seq(T), NEW x \in T
  PROVE  Range(Append(seq, x)) = Range(seq) \cup {x}
<1>1. /\ Append(seq, x) \in Seq(T) /\ Len(Append(seq, x)) = Len(seq) + 1
      /\ \A i \in 1..Len(seq) : Append(seq, x)[i] = seq[i]
      /\ Append(seq, x)[Len(seq) + 1] = x
  BY AppendProperties
<1>2. Len(seq) \in Nat /\ DOMAIN seq = 1..Len(seq) /\ DOMAIN Append(seq, x) = 1..(Len(seq) + 1)
  BY <1>1, LenProperties
<1>3. 1..(Len(seq) + 1) = 1..Len(seq) \cup {Len(seq) + 1}
  BY <1>2
<1> QED BY <1>1, <1>2, <1>3 DEF Range

\* Nothing else loses an event, but the flush on the loop.
LEMMA OthersLoseLeast ==
  ASSUME BusInv,
         \/ Flush
         \/ \E t \in Subscribers : Subscribe(t) \/ Unsubscribe(t) \/ Receive(t)
         \/ UNCHANGED <<queue, ingress, due, received>>
  PROVE  LosesLeastImportant
<1>1. CASE UNCHANGED <<queue, ingress, due, received>>
  <2>1. \A s \in Subscribers : (Lost(s))' = Lost(s)
    BY <1>1 DEF Lost, Waiting, Ingress
  <2> QED BY <2>1, LosesLeastIs
<1>2. ASSUME NEW t \in Subscribers, Subscribe(t) \/ Unsubscribe(t) PROVE LosesLeastImportant
  <2>1. UNCHANGED <<queue, ingress, due, received>>
    BY <1>2 DEF Subscribe, Unsubscribe, deliveryVars
  <2> QED BY <1>1, <2>1
<1>3. ASSUME NEW t \in Subscribers, Receive(t) PROVE LosesLeastImportant
  <2>1. queue \in Queues /\ received \in Queues
    BY DEF BusInv, BusTypeOK
  <2>2. /\ queue[t] # <<>> /\ ingress' = ingress /\ due' = due
        /\ received' = [received EXCEPT ![t] = Append(received[t], Head(queue[t]))]
        /\ queue' = [queue EXCEPT ![t] = Tail(queue[t])]
    BY <1>3 DEF Receive
  <2>3. ASSUME NEW s \in Subscribers
        PROVE  Range(received[s]) \cup Range(queue[s]) \subseteq Range(received'[s]) \cup Range(queue'[s])
    <3>1. CASE s = t
      <4>1. /\ queue[s] \in Seq(Events) /\ received[s] \in Seq(Events) /\ queue[s] # <<>>
            /\ Head(queue[s]) \in Events
        <5>1. queue[s] \in Seq(Events) /\ received[s] \in Seq(Events) /\ queue[s] # <<>>
          BY <2>1, <2>2, <3>1 DEF Queues
        <5> QED BY <5>1, HeadTailProperties
      <4>2. received'[s] = Append(received[s], Head(queue[s])) /\ queue'[s] = Tail(queue[s])
        BY <2>1, <2>2, <3>1 DEF Queues
      <4>3. Range(queue[s]) \subseteq Range(Tail(queue[s])) \cup {Head(queue[s])}
        BY <4>1, TailHolds
      <4>4. Range(received[s]) \cup {Head(queue[s])} \subseteq Range(Append(received[s], Head(queue[s])))
        BY <4>1, AppendHolds
      <4> QED BY <4>2, <4>3, <4>4
    <3>2. CASE s # t
      BY <2>1, <2>2, <3>2 DEF Queues
    <3> QED BY <3>1, <3>2
  <2>4. \A s \in Subscribers : Ingress(s)' = Ingress(s)
    BY <2>2 DEF Ingress
  <2>5. \A s \in Subscribers : (Lost(s))' \subseteq Lost(s)
    BY <2>2, <2>3, <2>4 DEF Lost, Waiting
  <2> QED BY <2>5, LosesLeastIs
<1>4. CASE Flush
  <2>1. /\ FlushAll(ingress, 0) /\ received' = received /\ due' = due
        /\ queue \in Queues /\ ingress \in Seq(Entries) /\ dropped \in Nat /\ 0 \in Nat
        /\ InLine(queue, ingress, Pos)
    BY <1>4 DEF Flush, BusInv, BusTypeOK, LineInv
  <2> SUFFICES ASSUME NEW s \in Subscribers, NEW y \in (Lost(s))' \ Lost(s)
               PROVE  LosesLeastOf(s, y)
    BY LosesLeastIs
  <2>2. y \notin (Waiting(s))' /\ y \in Waiting(s)
    BY <2>1 DEF Lost
  <2>3. Waiting(s) = {x \in Events : <<s, x>> \in Held(queue) \cup AllAddressed(ingress)}
    BY <2>1, WaitingIs DEF Waiting, Ingress
  <2> QED BY <2>1, <2>2, <2>3, FlushLosesLeast
<1> QED BY <1>1, <1>2, <1>3, <1>4

\* A step of the core loses the least important of a subscriber's events.
LEMMA StepLosesLeast ==
  ASSUME BusInv, EventStep
  PROVE  LosesLeastImportant
<1>1. CASE UNCHANGED eventVars
  BY <1>1, OthersLoseLeast DEF eventVars, busVars
<1>2. ASSUME NEW s \in Subscribers, Subscribe(s) \/ Unsubscribe(s) \/ Receive(s)
      PROVE  LosesLeastImportant
  BY <1>2, OthersLoseLeast
<1>3. CASE Flush
  BY <1>3, OthersLoseLeast
<1>4. CASE CloseLoop
  BY <1>4, OthersLoseLeast DEF CloseLoop, deliveryVars
<1>5. ASSUME NEW enabled \in BOOLEAN, SetPrivate(enabled) PROVE LosesLeastImportant
  BY <1>5, OthersLoseLeast DEF SetPrivate, deliveryVars
<1>6. ASSUME NEW e \in Events, Publish(e) PROVE LosesLeastImportant
  BY <1>6, PublishLosesLeast
<1>7. CASE Persist
  <2>1. Persister \in Subscribers /\ Receive(Persister)
    BY <1>7, LogAssumption DEF Persist
  <2> QED BY <2>1, OthersLoseLeast
<1>8. CASE RecordEvent \/ ClearTimeline \/ BeginNotice \/ EndNotice
  BY <1>8, OthersLoseLeast DEF RecordEvent, ClearTimeline, BeginNotice, EndNotice, busVars
<1> QED BY <1>1, <1>2, <1>3, <1>4, <1>5, <1>6, <1>7, <1>8 DEF EventStep

--------------------------------------------------------------------------------
(* The notices                                                                *)

NoticeInv == notices \in Seq(Events)

LEMMA RanksOfNotices ==
  ASSUME NoticeInv
  PROVE  /\ Len(notices) \in Nat /\ DOMAIN notices = 1..Len(notices)
         /\ NoticeRanks \in [1..Len(notices) -> 0..3]
         /\ \A i \in 1..Len(notices) : notices[i] \in Events /\ NoticeRanks[i] = Rank[notices[i]]
<1>1. Len(notices) \in Nat /\ DOMAIN notices = 1..Len(notices)
  BY LenProperties DEF NoticeInv
<1>2. \A i \in 1..Len(notices) : notices[i] \in Events
  BY <1>1, ElementOfSeq DEF NoticeInv
<1> QED BY <1>1, <1>2, BusAssumption DEF NoticeRanks

\* A queue that is not empty has a most urgent notice.
LEMMA MostUrgentIs ==
  ASSUME NoticeInv, notices # <<>>
  PROVE  MostUrgent \in 1..Len(notices)
<1> DEFINE n == Len(notices)
           ranks == NoticeRanks
<1>1. n \in Nat \ {0} /\ DOMAIN notices = 1..n /\ ranks \in [1..n -> 0..3]
  BY RanksOfNotices, EmptySeq DEF NoticeInv
<1> HIDE DEF n, ranks
<1>2. PICK low \in {3 - ranks[i] : i \in 1..n} : \A k \in {3 - ranks[i] : i \in 1..n} : low <= k
  <2>1. \A i \in 1..n : 3 - ranks[i] \in Nat
    BY <1>1
  <2>2. {3 - ranks[i] : i \in 1..n} \subseteq Nat
    BY <2>1
  <2>3. 3 - ranks[1] \in {3 - ranks[i] : i \in 1..n}
    BY <1>1
  <2> QED BY <2>2, <2>3, Least
<1>3. PICK first \in {i \in 1..n : 3 - ranks[i] = low} : \A k \in {i \in 1..n : 3 - ranks[i] = low} : first <= k
  <2>1. {i \in 1..n : 3 - ranks[i] = low} \subseteq Nat /\ {i \in 1..n : 3 - ranks[i] = low} # {}
    BY <1>2
  <2> QED BY <2>1, Least
<1>4. ASSUME NEW j \in 1..n
      PROVE  ranks[j] < ranks[first] \/ (ranks[j] = ranks[first] /\ first <= j)
  <2>1. low <= 3 - ranks[j] /\ ranks[j] \in 0..3 /\ ranks[first] \in 0..3 /\ 3 - ranks[first] = low
    BY <1>1, <1>2, <1>3
  <2>2. 3 - ranks[j] = low => first <= j
    BY <1>3
  <2> QED BY <2>1, <2>2
<1>5. first \in DOMAIN notices
  BY <1>1, <1>3
<1>6. MostUrgent \in DOMAIN notices
  BY <1>1, <1>4, <1>5 DEF MostUrgent, ranks
<1> QED BY <1>1, <1>6 DEF n

\* A full queue refuses or evicts what no notice it keeps is less important than.
LEMMA OfferRefuses ==
  ASSUME NoticeInv, NEW e \in Events, Offer(e)
  PROVE  NoticeInv' /\ RefusesLesserNotice
<1> DEFINE least == Victim(NoticeRanks)
           n == Len(notices)
<1>1. /\ n \in Nat /\ NoticeRanks \in [1..n -> Nat] /\ NoticeLimit \in Nat \ {0}
      /\ \A i \in 1..n : notices[i] \in Events /\ NoticeRanks[i] = Rank[notices[i]] /\ Rank[notices[i]] \in Nat
      /\ Rank[e] \in Nat
  BY RanksOfNotices, BusAssumption, LogAssumption
<1>2. CASE n < NoticeLimit /\ notices' = Append(notices, e) /\ refused' = refused
  <2>1. notices' \in Seq(Events)
    BY <1>2, AppendProperties DEF NoticeInv
  <2> QED BY <1>2, <2>1 DEF NoticeInv, RefusesLesserNotice
<1>3. ASSUME n >= NoticeLimit
      PROVE  least \in 1..n /\ \A j \in 1..n : NoticeRanks[least] <= NoticeRanks[j]
  <2>1. n \in Nat \ {0}
    BY <1>1, <1>3
  <2> HIDE DEF n
  <2> QED BY <1>1, <2>1, VictimIs
<1>4. CASE n >= NoticeLimit /\ Rank[e] < NoticeRanks[least] /\ refused' = refused \cup {e} /\ notices' = notices
  <2> HIDE DEF least
  <2>1. \A j \in 1..n : NoticeRanks[j] >= Rank[e]
    <3>1. NoticeRanks[least] \in Nat /\ \A j \in 1..n : NoticeRanks[j] \in Nat /\ NoticeRanks[least] <= NoticeRanks[j]
      BY <1>1, <1>3, <1>4
    <3> QED BY <1>1, <1>4, <3>1
  <2>2. \A j \in DOMAIN notices' : Rank[notices'[j]] >= Rank[e]
    BY <1>1, <1>4, <2>1, RanksOfNotices
  <2> QED BY <1>4, <2>2 DEF NoticeInv, RefusesLesserNotice
<1>5. CASE /\ n >= NoticeLimit /\ Rank[e] >= NoticeRanks[least]
           /\ refused' = refused \cup {notices[least]}
           /\ notices' = Append(RemoveAt(notices, least), e)
  <2> DEFINE rest == RemoveAt(notices, least)
  <2>1. least \in 1..n /\ \A j \in 1..n : NoticeRanks[least] <= NoticeRanks[j]
    BY <1>3, <1>5
  <2> HIDE DEF least
  <2>2. /\ rest \in Seq(Events) /\ Len(rest) = n - 1
        /\ \A i \in 1..(n - 1) : rest[i] = IF i < least THEN notices[i] ELSE notices[i + 1]
    BY <2>1, RemoveAtIs DEF NoticeInv
  <2> HIDE DEF rest
  <2>3. /\ Append(rest, e) \in Seq(Events) /\ Len(Append(rest, e)) = n
        /\ \A i \in 1..(n - 1) : Append(rest, e)[i] = rest[i]
        /\ Append(rest, e)[n] = e
    <3>1. (n - 1) + 1 = n
      BY <1>1
    <3> QED BY <2>2, <3>1, AppendProperties
  <2>4. notices' = Append(rest, e) /\ refused' = refused \cup {notices[least]}
    BY <1>5 DEF rest
  <2>5. DOMAIN notices' = 1..n
    BY <2>3, <2>4, LenProperties
  <2>6. ASSUME NEW i \in 1..n PROVE Rank[notices'[i]] >= Rank[notices[least]]
    <3>1. CASE i = n
      <4>1. notices'[i] = e /\ NoticeRanks[least] = Rank[notices[least]]
        BY <1>1, <2>1, <2>3, <2>4, <3>1
      <4> QED BY <1>5, <4>1
    <3>2. CASE i # n
      <4>1. i \in 1..(n - 1) /\ i \in 1..n /\ i + 1 \in 1..n
        BY <1>1, <3>2
      <4>2. PICK j \in 1..n : notices'[i] = notices[j]
        BY <2>2, <2>3, <2>4, <4>1
      <4>3. NoticeRanks[least] <= NoticeRanks[j]
        BY <2>1
      <4>4. Rank[notices[least]] <= Rank[notices[j]]
        BY <1>1, <2>1, <4>3
      <4> QED BY <1>1, <2>1, <4>2, <4>4
    <3> QED BY <3>1, <3>2
  <2> QED BY <2>3, <2>4, <2>5, <2>6 DEF NoticeInv, RefusesLesserNotice
<1> QED BY <1>2, <1>4, <1>5 DEF Offer

LEMMA StepRefuses ==
  ASSUME BusInv, NoticeInv, EventStep
  PROVE  NoticeInv' /\ RefusesLesserNotice
<1>1. CASE notices' = notices /\ refused' = refused
  BY <1>1 DEF NoticeInv, RefusesLesserNotice
<1>2. CASE UNCHANGED logVars
  BY <1>1, <1>2 DEF logVars
<1>3. CASE Persist
  <2>1. Persister \in Subscribers /\ Receive(Persister)
    BY <1>3, LogAssumption DEF Persist
  <2>2. Head(queue[Persister]) \in Events
    <3>1. Head(queue[Persister]) \in Known
      BY <2>1, ReceiveKeeps
    <3>2. Known \subseteq Events
      BY RangeIs DEF BusInv, BusTypeOK, Known
    <3> QED BY <3>1, <3>2
  <2>3. Offer(Head(queue[Persister])) \/ UNCHANGED <<notices, refused>>
    BY <1>3 DEF Persist
  <2> QED BY <1>1, <2>2, <2>3, OfferRefuses
<1>4. CASE RecordEvent \/ ClearTimeline \/ EndNotice
  BY <1>1, <1>4 DEF RecordEvent, ClearTimeline, EndNotice, noticeVars
<1>5. CASE BeginNotice
  <2>1. notices # <<>> /\ notices' = RemoveAt(notices, MostUrgent) /\ refused' = refused
    BY <1>5 DEF BeginNotice
  <2>2. MostUrgent \in 1..Len(notices)
    BY <2>1, MostUrgentIs
  <2>3. RemoveAt(notices, MostUrgent) \in Seq(Events)
    BY <2>2, RemoveAtIs DEF NoticeInv
  <2> QED BY <2>1, <2>3 DEF NoticeInv, RefusesLesserNotice
<1>6. UNCHANGED eventVars => UNCHANGED logVars
  BY DEF eventVars
<1> QED BY <1>2, <1>3, <1>4, <1>5, <1>6 DEF EventStep

\* No alert is lost to a flood of lesser events: what a queue, the flush of a
\* thread's events or the notices give up is no more important than what they keep.
THEOREM UrgentStays == Spec => UrgentKept
<1>1. Init => NoticeInv
  BY DEF Init, LogInit, NoticeInv
<1>2. EventInv /\ NoticeInv /\ [Next]_vars => NoticeInv' /\ [LosesLeastImportant /\ RefusesLesserNotice]_eventVars
  BY StepOfEvents, StepLosesLeast, StepRefuses DEF EventInv
<1> QED BY <1>1, <1>2, EventInvariant, PTL DEF Spec, UrgentKept

--------------------------------------------------------------------------------
(* The requests                                                               *)

\* What is left of a queue when its actions are withdrawn, in the same order.
Kept(T, seq, pos, k, kept) ==
  /\ kept \in Seq(T) /\ Rising(kept, pos)
  /\ Range(kept) = {seq[i] : i \in 1..k} \ Actions

LEMMA RetainedKeeps ==
  ASSUME NEW T, NEW seq \in Seq(T), NEW pos \in [T -> Int], Rising(seq, pos)
  PROVE  LET left == FoldLeft(Retained, <<>>, seq) IN
         /\ left \in Seq(T) /\ Rising(left, pos) /\ Range(left) = Range(seq) \ Actions
<1> DEFINE n == Len(seq)
           left == FoldLeft(Retained, <<>>, seq)
<1>1. n \in Nat /\ DOMAIN seq = 1..n /\ Range(seq) = {seq[i] : i \in 1..n} /\ Range(seq) \subseteq T
  BY LenProperties, RangeIs
<1>2. PICK f : Runs(f, "retain", <<>>, seq, n, left)
  BY <1>1, RetainRuns
<1>3. f[0] = <<>> /\ f[n] = left /\ \A k \in 0..(n - 1) : f[k + 1] = Retained(f[k], seq[k + 1])
  <2>1. "retain" # "deliver" /\ "retain" # "lose"
    OBVIOUS
  <2> QED BY <1>2, <2>1 DEF Runs, Step
<1> HIDE DEF n, left
<1>4. Kept(T, seq, pos, 0, <<>>)
  <2>1. Range(<<>>) = {} /\ DOMAIN <<>> = {} /\ <<>> \in Seq(T) /\ {seq[i] : i \in 1..0} = {}
    BY DEF Range
  <2> QED BY <2>1 DEF Kept, Rising
<1>5. ASSUME NEW k \in 0..(n - 1), Kept(T, seq, pos, k, f[k])
      PROVE  Kept(T, seq, pos, k + 1, f[k + 1])
  <2>1. f[k] \in Seq(T) /\ Rising(f[k], pos) /\ Range(f[k]) = {seq[i] : i \in 1..k} \ Actions
    BY <1>5 DEF Kept
  <2>2. k + 1 \in 1..n /\ seq[k + 1] \in T /\ \A i \in 1..k : i \in 1..n /\ i < k + 1
    BY <1>1
  <2>3. {seq[i] : i \in 1..(k + 1)} = {seq[i] : i \in 1..k} \cup {seq[k + 1]}
    <3>1. 1..(k + 1) = 1..k \cup {k + 1}
      OBVIOUS
    <3> QED BY <3>1
  <2>4. CASE seq[k + 1] \in Actions
    <3>1. f[k + 1] = f[k]
      BY <1>3, <2>4 DEF Retained
    <3> QED BY <2>1, <2>3, <2>4, <3>1 DEF Kept
  <2>5. CASE seq[k + 1] \notin Actions
    <3>1. f[k + 1] = Append(f[k], seq[k + 1])
      BY <1>3, <2>5 DEF Retained
    <3>2. \A i \in 1..k : pos[seq[i]] < pos[seq[k + 1]]
      BY <1>1, <2>2 DEF Rising
    <3>3. \A x \in Range(f[k]) : pos[x] < pos[seq[k + 1]]
      BY <2>1, <3>2
    <3>4. /\ Append(f[k], seq[k + 1]) \in Seq(T) /\ Rising(Append(f[k], seq[k + 1]), pos)
          /\ Range(Append(f[k], seq[k + 1])) = Range(f[k]) \cup {seq[k + 1]}
      BY <2>1, <2>2, <3>3, AppendKeeps
    <3> QED BY <2>1, <2>3, <2>5, <3>1, <3>4 DEF Kept
  <2> QED BY <2>4, <2>5
<1> DEFINE S == {k \in Nat : Kept(T, seq, pos, k, f[k])}
<1>6. 0 \in S
  BY <1>3, <1>4
<1>7. \A k \in 0..(n - 1) : k \in S => k + 1 \in S
  BY <1>1, <1>5
<1> HIDE DEF S
<1>8. n \in S
  BY <1>1, <1>6, <1>7, UpTo
<1>9. Kept(T, seq, pos, n, left)
  BY <1>3, <1>8 DEF S
<1> QED BY <1>1, <1>9 DEF Kept, left

Places == {"unsent", "queued", "running", "quick", "stopping", "informing", "owed", "busy",
           "answered", "cancelled", "unanswered", "orphaned", "aborted"}
Unanswered == {"unsent", "queued", "running", "quick", "stopping", "owed"}

ServerTypeOK ==
  /\ conn \in [Conns -> {"new", "open", "eof", "gathering", "broken", "closed"}]
  /\ requests \in [Conns -> Seq(Requests)] /\ sent \in [Conns -> Seq(Requests)]
  /\ worker \in [Conns -> Requests \cup {NoRequest, "dead"}]
  /\ place \in [Requests -> Places] /\ answers \in [Requests -> {0, 1}]
  /\ owed \in [Stops -> SUBSET Requests]

\* The order in which a connection's requests were sent.
Turn(c) == Order(Requests, sent[c])

\* What a reader took is what is not unsent.
SentInv ==
  \A c \in Conns : /\ Once(sent[c])
                   /\ Range(sent[c]) = {r \in Requests : Of[r] = c /\ place[r] # "unsent"}

\* A connection's queue holds its queued requests in the order they were sent, and
\* its worker serves an earlier one.
Line(c) ==
  /\ Range(requests[c]) = {r \in Requests : Of[r] = c /\ place[r] = "queued"}
  /\ Rising(requests[c], Turn(c))
  /\ worker[c] \in Requests =>
       /\ Of[worker[c]] = c /\ place[worker[c]] = "running"
       /\ \A r \in Range(requests[c]) : Turn(c)[worker[c]] < Turn(c)[r]

\* A withdrawn request is owed by one stop, which is still at work.
OwedInv ==
  /\ \A s \in Stops : \A r \in owed[s] : place[r] = "owed" /\ place[s] \in {"stopping", "informing"}
  /\ \A s, t \in Stops : \A r \in owed[s] \cap owed[t] : s = t

AnswerInv == \A r \in Requests : place[r] \in Unanswered => answers[r] = 0

\* A reader that waits for its responsive requests only has no work queued, unless
\* the join let it go early.
JoinInv ==
  \A c \in Conns : conn[c] = "gathering" /\ c \notin early =>
    worker[c] \notin Requests /\ (requests[c] = <<>> \/ worker[c] = "dead")

ServerInv ==
  ServerTypeOK /\ SentInv /\ (\A c \in Conns : Line(c)) /\ OwedInv /\ AnswerInv /\ JoinInv

\* A reader takes a request.
LEMMA SentGrows ==
  ASSUME ServerTypeOK, SentInv, NEW r \in Requests, place[r] = "unsent",
         sent' = [sent EXCEPT ![Of[r]] = Append(@, r)],
         place'[r] # "unsent", \A x \in Requests \ {r} : place'[x] = "unsent" <=> place[x] = "unsent"
  PROVE  /\ SentInv' /\ sent' \in [Conns -> Seq(Requests)]
         /\ \A c \in Conns : \A x \in Range(sent[c]) :
              Turn(c)'[x] = Turn(c)[x] /\ (c = Of[r] => Turn(c)'[x] < Turn(c)'[r])
<1>1. Of[r] \in Conns /\ sent \in [Conns -> Seq(Requests)]
  BY IpcAssumption DEF ServerTypeOK
<1>2. /\ sent' \in [Conns -> Seq(Requests)]
      /\ sent'[Of[r]] = Append(sent[Of[r]], r)
      /\ \A c \in Conns \ {Of[r]} : sent'[c] = sent[c]
  BY <1>1, AppendProperties
<1>3. FollowsAll(Requests, sent[Of[r]], r, sent'[Of[r]])
  <2>1. Once(sent[Of[r]]) /\ r \notin Range(sent[Of[r]])
    BY <1>1 DEF SentInv
  <2> QED BY <1>1, <1>2, <2>1, PlacedLast
<1>4. ASSUME NEW c \in Conns
      PROVE  /\ Once(sent'[c])
             /\ Range(sent'[c]) = {x \in Requests : Of[x] = c /\ place'[x] # "unsent"}
             /\ \A x \in Range(sent[c]) :
                  Turn(c)'[x] = Turn(c)[x] /\ (c = Of[r] => Turn(c)'[x] < Turn(c)'[r])
  <2>1. Turn(c)' = Order(Requests, sent'[c]) /\ Turn(c) = Order(Requests, sent[c])
    BY DEF Turn, Order, At
  <2>2. CASE c = Of[r]
    BY <1>3, <2>1, <2>2 DEF FollowsAll, SentInv
  <2>3. CASE c # Of[r]
    BY <1>2, <2>1, <2>3 DEF SentInv
  <2> QED BY <2>2, <2>3
<1>5. SentInv'
  BY <1>4 DEF SentInv, Once
<1> QED BY <1>2, <1>4, <1>5

LEMMA SentStays ==
  ASSUME SentInv, sent' = sent, \A x \in Requests : place'[x] = "unsent" <=> place[x] = "unsent"
  PROVE  SentInv' /\ \A c \in Conns : \A x \in Range(sent[c]) : Turn(c)'[x] = Turn(c)[x]
<1>1. SentInv'
  BY DEF SentInv, Once
<1>2. \A c \in Conns : Turn(c)' = Turn(c)
  BY DEF Turn
<1> QED BY <1>1, <1>2

\* The line of a connection that a step does not touch.
LEMMA LineMoves ==
  ASSUME SentInv, NEW c \in Conns, Line(c),
         \A x \in Range(sent[c]) : Turn(c)'[x] = Turn(c)[x],
         requests'[c] = requests[c], worker'[c] = worker[c],
         \A x \in Requests : Of[x] = c => /\ place'[x] = "queued" <=> place[x] = "queued"
                                          /\ x = worker[c] => place'[x] = place[x]
  PROVE  Line(c)'
<1>1. Range(requests[c]) \subseteq Range(sent[c])
  BY DEF Line, SentInv
<1>2. worker[c] \in Requests => worker[c] \in Range(sent[c])
  BY DEF Line, SentInv
<1>3. \A x \in Range(requests[c]) : Turn(c)'[x] = Turn(c)[x]
  BY <1>1
<1>4. Rising(requests'[c], Turn(c)')
  BY <1>3, RisingSame DEF Line
<1>5. Rising(requests[c], Turn(c))'
  BY <1>4 DEF Rising
<1> QED BY <1>1, <1>2, <1>5 DEF Line

\* The line of a connection whose worker has ended.
LEMMA LineEnds ==
  ASSUME NEW c \in Conns, requests'[c] = <<>>, worker'[c] = "dead",
         \A x \in Requests : Of[x] = c => place'[x] # "queued"
  PROVE  Line(c)'
<1>1. Range(<<>>) = {} /\ DOMAIN <<>> = {}
  BY DEF Range
<1>2. "dead" \notin Requests
  BY IpcAssumption
<1> QED BY <1>1, <1>2 DEF Line, Rising

\* What a step does that leaves the requests alone.
LEMMA ServerRests ==
  ASSUME ServerInv, UNCHANGED <<requests, worker, place, owed, sent, answers, early>>,
         conn' \in [Conns -> {"new", "open", "eof", "gathering", "broken", "closed"}],
         \A c \in Conns : conn'[c] = "gathering" =>
            conn[c] = "gathering" \/ worker[c] = "dead" \/ (requests[c] = <<>> /\ ~Serving(c))
  PROVE  ServerInv'
<1>1. ServerTypeOK'
  BY DEF ServerInv, ServerTypeOK
<1>2. SentInv' /\ \A c \in Conns : \A x \in Range(sent[c]) : Turn(c)'[x] = Turn(c)[x]
  BY SentStays DEF ServerInv
<1>3. \A c \in Conns : Line(c)'
  BY <1>2, LineMoves DEF ServerInv
<1>4. OwedInv' /\ AnswerInv'
  BY DEF ServerInv, OwedInv, AnswerInv
<1>5. JoinInv'
  <2> SUFFICES ASSUME NEW c \in Conns, conn'[c] = "gathering", c \notin early
               PROVE  worker[c] \notin Requests /\ (requests[c] = <<>> \/ worker[c] = "dead")
    BY DEF JoinInv
  <2>1. "dead" \notin Requests
    BY IpcAssumption
  <2> QED BY <2>1 DEF ServerInv, JoinInv, Serving
<1> QED BY <1>1, <1>2, <1>3, <1>4, <1>5 DEF ServerInv

LEMMA SmallSteps ==
  ASSUME ServerInv,
         \/ \E c \in Conns : Connect(c) \/ ReadEof(c) \/ CancelClient(c) \/ SubscribeClient(c)
                             \/ SendEvent(c) \/ Disconnect(c)
         \/ StopServer
         \/ UNCHANGED ipcVars
  PROVE  ServerInv'
<1>1. UNCHANGED <<requests, worker, place, owed, sent, answers, early>>
  BY DEF Connect, ReadEof, CancelClient, SubscribeClient, SendEvent, Disconnect, StopServer, ipcVars,
         taskVars, ghostVars
<1>2. conn \in [Conns -> {"new", "open", "eof", "gathering", "broken", "closed"}]
  BY DEF ServerInv, ServerTypeOK
<1>3. \/ conn' = conn
      \/ \E c \in Conns : \E k \in {"open", "broken"} : conn' = [conn EXCEPT ![c] = k]
      \/ \E c \in Conns : conn' = [conn EXCEPT ![c] =
            IF worker[c] = "dead" \/ (requests[c] = <<>> /\ ~Serving(c)) THEN "gathering" ELSE "eof"]
  BY DEF Connect, ReadEof, CancelClient, SubscribeClient, SendEvent, Disconnect, StopServer, ipcVars,
         taskVars
<1>4. CASE conn' = conn
  BY <1>1, <1>2, <1>4, ServerRests
<1>5. ASSUME NEW c \in Conns, NEW k \in {"open", "broken"}, conn' = [conn EXCEPT ![c] = k]
      PROVE  ServerInv'
  <2>1. conn' \in [Conns -> {"new", "open", "eof", "gathering", "broken", "closed"}]
        /\ \A d \in Conns : conn'[d] = "gathering" => conn[d] = "gathering"
    BY <1>2, <1>5
  <2> QED BY <1>1, <2>1, ServerRests
<1>6. ASSUME NEW c \in Conns, conn' = [conn EXCEPT ![c] =
            IF worker[c] = "dead" \/ (requests[c] = <<>> /\ ~Serving(c)) THEN "gathering" ELSE "eof"]
      PROVE  ServerInv'
  <2>1. /\ conn' \in [Conns -> {"new", "open", "eof", "gathering", "broken", "closed"}]
        /\ \A d \in Conns : conn'[d] = "gathering" =>
             conn[d] = "gathering" \/ worker[d] = "dead" \/ (requests[d] = <<>> /\ ~Serving(d))
    BY <1>2, <1>6
  <2> QED BY <1>1, <2>1, ServerRests
<1> QED BY <1>3, <1>4, <1>5, <1>6

\* A request is taken and put somewhere else than in the queue.
LEMMA TakenAside ==
  ASSUME ServerInv, NEW r \in Requests, place[r] = "unsent",
         sent' = [sent EXCEPT ![Of[r]] = Append(@, r)],
         NEW where \in Places \ {"unsent", "queued"}, place' = [place EXCEPT ![r] = where],
         answers' = answers \/ (where \notin Unanswered /\ answers' = [answers EXCEPT ![r] = @ + 1]),
         UNCHANGED <<requests, worker, owed, early>>,
         conn' \in [Conns -> {"new", "open", "eof", "gathering", "broken", "closed"}],
         \A c \in Conns : conn'[c] = "gathering" => conn[c] = "gathering"
  PROVE  ServerInv'
<1>1. ServerTypeOK /\ SentInv /\ OwedInv /\ AnswerInv /\ JoinInv /\ \A c \in Conns : Line(c)
  BY DEF ServerInv
<1>2. /\ place' \in [Requests -> Places] /\ place'[r] = where
      /\ \A x \in Requests \ {r} : place'[x] = place[x]
  BY <1>1 DEF ServerTypeOK
<1>3. /\ SentInv' /\ sent' \in [Conns -> Seq(Requests)]
      /\ \A c \in Conns : \A x \in Range(sent[c]) : Turn(c)'[x] = Turn(c)[x]
  <2>1. place'[r] # "unsent" /\ \A x \in Requests \ {r} : place'[x] = "unsent" <=> place[x] = "unsent"
    BY <1>2
  <2>2. /\ SentInv' /\ sent' \in [Conns -> Seq(Requests)]
        /\ \A c \in Conns : \A x \in Range(sent[c]) :
             Turn(c)'[x] = Turn(c)[x] /\ (c = Of[r] => Turn(c)'[x] < Turn(c)'[r])
    BY <1>1, <2>1, SentGrows
  <2> QED BY <2>2
<1>4. /\ answers' \in [Requests -> {0, 1}]
      /\ \A x \in Requests \ {r} : answers'[x] = answers[x]
      /\ where \in Unanswered => answers'[r] = 0
  <2>1. answers[r] = 0 /\ answers \in [Requests -> {0, 1}]
    BY <1>1 DEF ServerTypeOK, AnswerInv, Unanswered
  <2>2. CASE answers' = answers
    BY <2>1, <2>2
  <2>3. CASE where \notin Unanswered /\ answers' = [answers EXCEPT ![r] = @ + 1]
    BY <2>1, <2>3
  <2> QED BY <2>2, <2>3
<1>5. ServerTypeOK'
  BY <1>1, <1>2, <1>3, <1>4 DEF ServerTypeOK
<1>6. ASSUME NEW c \in Conns PROVE Line(c)'
  <2>1. worker[c] \in Requests => place[worker[c]] = "running"
    BY <1>1 DEF Line
  <2>2. \A x \in Requests : /\ place'[x] = "queued" <=> place[x] = "queued"
                            /\ x = worker[c] => place'[x] = place[x]
    BY <1>2, <2>1
  <2> QED BY <1>1, <1>3, <2>2, LineMoves
<1>7. OwedInv'
  BY <1>1, <1>2 DEF OwedInv, ServerTypeOK
<1>8. AnswerInv'
  BY <1>1, <1>2, <1>4 DEF AnswerInv
<1>9. JoinInv'
  BY <1>1 DEF JoinInv
<1> QED BY <1>3, <1>5, <1>6, <1>7, <1>8, <1>9 DEF ServerInv

\* A request is taken and queued.
LEMMA TakenQueued ==
  ASSUME ServerInv, NEW r \in Requests, place[r] = "unsent", conn[Of[r]] = "open",
         sent' = [sent EXCEPT ![Of[r]] = Append(@, r)],
         place' = [place EXCEPT ![r] = "queued"],
         requests' = [requests EXCEPT ![Of[r]] = Append(@, r)],
         UNCHANGED <<conn, answers, worker, owed, early>>
  PROVE  ServerInv'
<1>1. ServerTypeOK /\ SentInv /\ OwedInv /\ AnswerInv /\ JoinInv /\ \A c \in Conns : Line(c)
  BY DEF ServerInv
<1>2. /\ place' \in [Requests -> Places] /\ place'[r] = "queued"
      /\ \A x \in Requests \ {r} : place'[x] = place[x]
  BY <1>1 DEF ServerTypeOK, Places
<1>3. /\ SentInv' /\ sent' \in [Conns -> Seq(Requests)]
      /\ \A c \in Conns : \A x \in Range(sent[c]) :
           Turn(c)'[x] = Turn(c)[x] /\ (c = Of[r] => Turn(c)'[x] < Turn(c)'[r])
  BY <1>1, <1>2, SentGrows
<1>4. PICK home \in Conns : home = Of[r]
  BY IpcAssumption
<1>5. /\ requests' \in [Conns -> Seq(Requests)] /\ requests'[home] = Append(requests[home], r)
      /\ requests[home] \in Seq(Requests) /\ \A c \in Conns \ {home} : requests'[c] = requests[c]
  BY <1>1, <1>4, AppendProperties DEF ServerTypeOK
<1>6. ServerTypeOK'
  BY <1>1, <1>2, <1>3, <1>5 DEF ServerTypeOK
<1>7. Line(home)'
  <2>1. Turn(home)' \in [Requests -> Int]
    <3>1. sent'[home] \in Seq(Requests) /\ Once(sent'[home])
      BY <1>3 DEF SentInv, Once
    <3>2. HasPlaces(Requests, sent'[home])
      BY <3>1, Placed
    <3>3. Turn(home)' = Order(Requests, sent'[home])
      BY DEF Turn, Order, At
    <3> QED BY <3>2, <3>3 DEF HasPlaces
  <2>2. Range(requests[home]) \subseteq Range(sent[home])
    BY <1>1 DEF Line, SentInv
  <2>3. Rising(requests[home], Turn(home)')
    <3>1. \A x \in Range(requests[home]) : Turn(home)'[x] = Turn(home)[x]
      BY <1>3, <2>2
    <3> QED BY <1>1, <3>1, RisingSame DEF Line
  <2>4. \A x \in Range(requests[home]) : Turn(home)'[x] < Turn(home)'[r]
    BY <1>3, <1>4, <2>2
  <2>5. Rising(requests'[home], Turn(home)') /\ Range(requests'[home]) = Range(requests[home]) \cup {r}
    BY <1>5, <2>1, <2>3, <2>4, AppendKeeps
  <2>6. Range(requests'[home]) = {x \in Requests : Of[x] = home /\ place'[x] = "queued"}
    BY <1>1, <1>2, <1>4, <2>5 DEF Line
  <2>7. worker[home] \in Requests =>
          /\ Of[worker[home]] = home /\ place'[worker[home]] = "running"
          /\ \A x \in Range(requests'[home]) : Turn(home)'[worker[home]] < Turn(home)'[x]
    <3> SUFFICES ASSUME worker[home] \in Requests
                 PROVE  /\ Of[worker[home]] = home /\ place'[worker[home]] = "running"
                        /\ \A x \in Range(requests'[home]) : Turn(home)'[worker[home]] < Turn(home)'[x]
      OBVIOUS
    <3>1. /\ Of[worker[home]] = home /\ place[worker[home]] = "running"
          /\ \A x \in Range(requests[home]) : Turn(home)[worker[home]] < Turn(home)[x]
      BY <1>1 DEF Line
    <3>2. worker[home] \in Range(sent[home])
      BY <1>1, <3>1 DEF SentInv
    <3> QED BY <1>2, <1>3, <1>4, <2>2, <2>5, <3>1, <3>2
  <2>8. Rising(requests[home], Turn(home))'
    BY <2>5 DEF Rising
  <2> QED BY <2>6, <2>7, <2>8 DEF Line
<1>8. ASSUME NEW c \in Conns, c # home PROVE Line(c)'
  <2>1. worker[c] \in Requests => place[worker[c]] = "running"
    BY <1>1 DEF Line
  <2>2. \A x \in Requests : Of[x] = c => /\ place'[x] = "queued" <=> place[x] = "queued"
                                         /\ x = worker[c] => place'[x] = place[x]
    BY <1>2, <1>4, <1>8, <2>1
  <2> QED BY <1>1, <1>3, <1>5, <1>8, <2>2, LineMoves
<1>9. OwedInv' /\ AnswerInv'
  BY <1>1, <1>2 DEF OwedInv, AnswerInv, ServerTypeOK, Unanswered
<1>10. JoinInv'
  <2>1. conn[home] # "gathering"
    BY <1>4
  <2> QED BY <1>1, <1>5, <2>1 DEF JoinInv
<1> QED BY <1>3, <1>6, <1>7, <1>8, <1>9, <1>10 DEF ServerInv

LEMMA TakeKeeps ==
  ASSUME ServerInv, NEW r \in Requests,
         \/ Taken(r) /\ Enqueue(r) /\ UNCHANGED owed
         \/ Taken(r) /\ Put(r, "quick") /\ UNCHANGED <<conn, requests, answers, owed>>
         \/ /\ r \in Stops /\ conn[Of[r]] = "open" /\ place[r] = "unsent"
            /\ sent' = [sent EXCEPT ![Of[r]] = Append(@, r)]
            /\ ReplyBusy(r) /\ UNCHANGED <<requests, owed, early, worker>>
  PROVE  ServerInv'
<1>1. /\ place[r] = "unsent" /\ conn[Of[r]] = "open"
      /\ sent' = [sent EXCEPT ![Of[r]] = Append(@, r)]
      /\ UNCHANGED <<worker, owed, early>>
  BY DEF Taken
<1>2. Of[r] \in Conns /\ conn \in [Conns -> {"new", "open", "eof", "gathering", "broken", "closed"}]
  BY IpcAssumption DEF ServerInv, ServerTypeOK
<1>3. CASE ReplyBusy(r) /\ UNCHANGED requests
  <2>1. PICK where \in {"busy", "unanswered"} :
          /\ place' = [place EXCEPT ![r] = where]
          /\ answers' = answers \/ answers' = [answers EXCEPT ![r] = @ + 1]
          /\ conn' = conn \/ conn' = [conn EXCEPT ![Of[r]] = "broken"]
    BY <1>3 DEF ReplyBusy, Put, Answered
  <2>2. where \in Places \ {"unsent", "queued"} /\ where \notin Unanswered
    BY <2>1 DEF Places, Unanswered
  <2>3. /\ conn' \in [Conns -> {"new", "open", "eof", "gathering", "broken", "closed"}]
        /\ \A c \in Conns : conn'[c] = "gathering" => conn[c] = "gathering"
    BY <1>2, <2>1
  <2> QED BY <1>1, <1>3, <2>1, <2>2, <2>3, TakenAside
<1>4. CASE Put(r, "quick") /\ UNCHANGED <<conn, requests, answers>>
  <2>1. "quick" \in Places \ {"unsent", "queued"} /\ place' = [place EXCEPT ![r] = "quick"]
    BY <1>4 DEF Places, Put
  <2> QED BY <1>1, <1>2, <1>4, <2>1, TakenAside
<1>5. CASE Enqueue(r)
  <2>1. CASE requests' = [requests EXCEPT ![Of[r]] = Append(@, r)] /\ Put(r, "queued")
             /\ UNCHANGED <<conn, answers>>
    <3>1. place' = [place EXCEPT ![r] = "queued"]
      BY <2>1 DEF Put
    <3> QED BY <1>1, <2>1, <3>1, TakenQueued
  <2> QED BY <1>3, <1>5, <2>1 DEF Enqueue
<1> QED BY <1>3, <1>4, <1>5

\* A sequence without elements is empty.
LEMMA NoneLeft ==
  ASSUME NEW T, NEW seq \in Seq(T), Range(seq) = {}
  PROVE  seq = <<>>
<1>1. Len(seq) \in Nat /\ DOMAIN seq = 1..Len(seq)
  BY LenProperties
<1>2. \A i \in DOMAIN seq : seq[i] \in Range(seq)
  BY DEF Range
<1>3. Len(seq) = 0
  <2> SUFFICES ASSUME Len(seq) # 0 PROVE FALSE
    OBVIOUS
  <2>1. 1 \in DOMAIN seq
    BY <1>1
  <2> QED BY <1>2, <2>1
<1> QED BY <1>3, EmptySeq

\* A stop withdraws the actions of every queue.
LEMMA CancelKeeps ==
  ASSUME ServerInv, NEW s \in Stops, place[s] = "unsent", conn[Of[s]] = "open",
         sent' = [sent EXCEPT ![Of[s]] = Append(@, s)],
         CancelQueued(s), UNCHANGED <<answers, worker>>
  PROVE  ServerInv'
<1> DEFINE gone == UNION {Withdrawn(c) : c \in Conns}
<1>1. ServerTypeOK /\ SentInv /\ OwedInv /\ AnswerInv /\ JoinInv /\ \A c \in Conns : Line(c)
  BY DEF ServerInv
<1>2. /\ owed' = [owed EXCEPT ![s] = gone]
      /\ requests' = [c \in Conns |-> Removed(c)]
      /\ place' = [r \in Requests |-> IF r = s THEN "stopping" ELSE IF r \in gone THEN "owed" ELSE place[r]]
      /\ conn' = [c \in Conns |-> IF c \in Released THEN "gathering" ELSE conn[c]]
      /\ early' = early \cup {c \in Released : requests'[c] # <<>>}
  BY DEF CancelQueued
<1>3. s \in Requests /\ Of \in [Requests -> Conns]
  BY IpcAssumption DEF Requests
<1>4. gone = {r \in Requests : place[r] = "queued" /\ r \in Actions}
  <2>1. \A c \in Conns : Withdrawn(c) = {r \in Requests : Of[r] = c /\ place[r] = "queued" /\ r \in Actions}
    BY <1>1 DEF Withdrawn, Line
  <2> QED BY <1>3, <2>1
<1> HIDE DEF gone
<1>5. /\ place' \in [Requests -> Places] /\ place'[s] = "stopping"
      /\ \A r \in gone : place'[r] = "owed" /\ place[r] = "queued"
      /\ \A r \in Requests \ (gone \cup {s}) : place'[r] = place[r]
  <2>1. s \notin gone
    BY <1>4
  <2>2. "stopping" \in Places /\ "owed" \in Places
    BY DEF Places
  <2> QED BY <1>1, <1>2, <1>3, <1>4, <2>1, <2>2 DEF ServerTypeOK
<1>6. /\ SentInv' /\ sent' \in [Conns -> Seq(Requests)]
      /\ \A c \in Conns : \A x \in Range(sent[c]) : Turn(c)'[x] = Turn(c)[x]
  <2>1. place'[s] # "unsent" /\ \A x \in Requests \ {s} : place'[x] = "unsent" <=> place[x] = "unsent"
    BY <1>5
  <2>2. /\ SentInv' /\ sent' \in [Conns -> Seq(Requests)]
        /\ \A c \in Conns : \A x \in Range(sent[c]) :
             Turn(c)'[x] = Turn(c)[x] /\ (c = Of[s] => Turn(c)'[x] < Turn(c)'[s])
    BY <1>1, <1>3, <2>1, SentGrows
  <2> QED BY <2>2
<1>7. ASSUME NEW c \in Conns
      PROVE  /\ requests'[c] \in Seq(Requests) /\ Rising(requests'[c], Turn(c)')
             /\ Range(requests'[c]) = Range(requests[c]) \ Actions
             /\ Range(requests[c]) \subseteq Range(sent[c])
  <2>1. requests[c] \in Seq(Requests)
    BY <1>1 DEF ServerTypeOK
  <2>2. Range(requests[c]) \subseteq Range(sent[c])
    BY <1>1 DEF Line, SentInv
  <2>3. Rising(requests[c], Turn(c)')
    <3>1. \A x \in Range(requests[c]) : Turn(c)'[x] = Turn(c)[x]
      BY <1>6, <2>2
    <3> QED BY <1>1, <3>1, RisingSame DEF Line
  <2>4. Turn(c)' \in [Requests -> Int]
    <3>1. sent'[c] \in Seq(Requests) /\ Once(sent'[c])
      BY <1>6 DEF SentInv, Once
    <3>2. HasPlaces(Requests, sent'[c])
      BY <3>1, Placed
    <3>3. Turn(c)' = Order(Requests, sent'[c])
      BY DEF Turn, Order, At
    <3> QED BY <3>2, <3>3 DEF HasPlaces
  <2>5. requests'[c] = FoldLeft(Retained, <<>>, requests[c])
    BY <1>2 DEF Removed
  <2> QED BY <2>1, <2>2, <2>3, <2>4, <2>5, RetainedKeeps
<1>8. ServerTypeOK'
  <2>1. requests' \in [Conns -> Seq(Requests)]
    BY <1>2, <1>7
  <2>2. conn' \in [Conns -> {"new", "open", "eof", "gathering", "broken", "closed"}]
    BY <1>1, <1>2 DEF ServerTypeOK
  <2>3. owed' \in [Stops -> SUBSET Requests]
    BY <1>1, <1>2, <1>4 DEF ServerTypeOK
  <2> QED BY <1>1, <1>5, <1>6, <2>1, <2>2, <2>3 DEF ServerTypeOK
<1>9. ASSUME NEW c \in Conns PROVE Line(c)'
  <2>1. Range(requests'[c]) = {r \in Requests : Of[r] = c /\ place'[r] = "queued"}
    <3>1. Range(requests[c]) = {r \in Requests : Of[r] = c /\ place[r] = "queued"}
      BY <1>1 DEF Line
    <3>2. \A r \in Requests : place'[r] = "queued" <=> place[r] = "queued" /\ r \notin Actions
      BY <1>3, <1>4, <1>5
    <3> QED BY <1>7, <3>1, <3>2
  <2>2. Rising(requests[c], Turn(c))'
    BY <1>7 DEF Rising
  <2>3. worker[c] \in Requests =>
          /\ Of[worker[c]] = c /\ place'[worker[c]] = "running"
          /\ \A r \in Range(requests'[c]) : Turn(c)'[worker[c]] < Turn(c)'[r]
    <3> SUFFICES ASSUME worker[c] \in Requests
                 PROVE  /\ Of[worker[c]] = c /\ place'[worker[c]] = "running"
                        /\ \A r \in Range(requests'[c]) : Turn(c)'[worker[c]] < Turn(c)'[r]
      OBVIOUS
    <3>1. /\ Of[worker[c]] = c /\ place[worker[c]] = "running"
          /\ \A r \in Range(requests[c]) : Turn(c)[worker[c]] < Turn(c)[r]
      BY <1>1 DEF Line
    <3>2. worker[c] \in Range(sent[c]) /\ worker[c] \notin gone /\ worker[c] # s
      BY <1>1, <1>5, <3>1 DEF SentInv
    <3> QED BY <1>5, <1>6, <1>7, <3>1, <3>2
  <2> QED BY <2>1, <2>2, <2>3 DEF Line
<1>10. OwedInv'
  <2>1. owed'[s] = gone /\ \A t \in Stops \ {s} : owed'[t] = owed[t] /\ owed[t] \subseteq Requests
    BY <1>1, <1>2 DEF ServerTypeOK
  <2>2. \A t \in Stops \ {s} : \A r \in owed[t] :
          /\ r \notin gone /\ r # s /\ place'[r] = "owed"
          /\ place'[t] \in {"stopping", "informing"}
    <3> SUFFICES ASSUME NEW t \in Stops \ {s}, NEW r \in owed[t]
                 PROVE  /\ r \notin gone /\ r # s /\ place'[r] = "owed"
                        /\ place'[t] \in {"stopping", "informing"}
      OBVIOUS
    <3>1. place[r] = "owed" /\ place[t] \in {"stopping", "informing"} /\ r \in Requests /\ t \in Requests
      BY <1>1, <2>1 DEF OwedInv, Requests
    <3>2. r \notin gone /\ r # s /\ t \notin gone
      BY <1>5, <3>1
    <3> QED BY <1>5, <3>1, <3>2
  <2>3. \A t \in Stops : \A r \in owed'[t] : place'[r] = "owed" /\ place'[t] \in {"stopping", "informing"}
    BY <1>5, <2>1, <2>2
  <2>4. \A t, u \in Stops : \A r \in owed'[t] \cap owed'[u] : t = u
    BY <1>1, <2>1, <2>2 DEF OwedInv
  <2> QED BY <2>3, <2>4 DEF OwedInv
<1>11. AnswerInv'
  <2> SUFFICES ASSUME NEW r \in Requests, place'[r] \in Unanswered PROVE answers[r] = 0
    BY DEF AnswerInv
  <2>1. place[r] \in Unanswered
    BY <1>5 DEF Unanswered
  <2> QED BY <1>1, <2>1 DEF AnswerInv
<1>12. JoinInv'
  <2> SUFFICES ASSUME NEW c \in Conns, conn'[c] = "gathering", c \notin early'
               PROVE  worker[c] \notin Requests /\ (requests'[c] = <<>> \/ worker[c] = "dead")
    BY DEF JoinInv
  <2>1. CASE c \in Released
    BY <1>2, <2>1 DEF Released, Serving
  <2>2. CASE c \notin Released
    <3>1. worker[c] \notin Requests /\ (requests[c] = <<>> \/ worker[c] = "dead")
      BY <1>1, <1>2, <2>2 DEF JoinInv
    <3>2. requests[c] = <<>> => requests'[c] = <<>>
      <4> SUFFICES ASSUME requests[c] = <<>> PROVE requests'[c] = <<>>
        OBVIOUS
      <4>1. Range(requests[c]) = {}
        BY DEF Range
      <4>2. Range(requests'[c]) = {}
        BY <1>7, <4>1
      <4> QED BY <1>7, <4>2, NoneLeft
    <3> QED BY <3>1, <3>2
  <2> QED BY <2>1, <2>2
<1> QED BY <1>6, <1>8, <1>9, <1>10, <1>11, <1>12 DEF ServerInv

\* The finally clause of a connection.
LEMMA TeardownKeeps ==
  ASSUME ServerInv, NEW c \in Conns, Teardown(c)
  PROVE  ServerInv'
<1> DEFINE stopped == InterruptsOf(c)
           orphans == UNION {owed[s] : s \in stopped}
           tasks   == QuickOf(c) \cup stopped \cup {r \in Requests : r = worker[c]}
           ends    == {"aborted", "orphaned", "unanswered"}
<1>1. ServerTypeOK /\ SentInv /\ OwedInv /\ AnswerInv /\ JoinInv /\ \A d \in Conns : Line(d)
  BY DEF ServerInv
<1>2. /\ conn' = [conn EXCEPT ![c] = "closed"]
      /\ worker' = [worker EXCEPT ![c] = "dead"]
      /\ requests' = [requests EXCEPT ![c] = <<>>]
      /\ place' = [r \in Requests |-> CASE r \in tasks -> "aborted"
                                        [] r \in orphans -> "orphaned"
                                        [] r \in Range(requests[c]) -> "unanswered"
                                        [] OTHER -> place[r]]
      /\ owed' = [s \in Stops |-> IF s \in stopped THEN {} ELSE owed[s]]
      /\ UNCHANGED <<sent, answers, early>>
  BY DEF Teardown, ghostVars
<1>3. Stops \subseteq Requests
  BY DEF Requests
<1>4. /\ \A r \in tasks : Of[r] = c /\ place[r] \in {"quick", "stopping", "informing", "running"}
      /\ \A s \in stopped : s \in Stops
  BY <1>1 DEF QuickOf, InterruptsOf, Line
<1>5. \A r \in orphans : place[r] = "owed"
  BY <1>1, <1>4 DEF OwedInv
<1>6. /\ Range(requests[c]) = {r \in Requests : Of[r] = c /\ place[r] = "queued"}
      /\ worker[c] \in Requests => place[worker[c]] = "running"
  BY <1>1 DEF Line
<1> HIDE DEF stopped, orphans, tasks
<1>7. \A r \in Requests :
        \/ r \in tasks \cup orphans \cup Range(requests[c]) /\ place'[r] \in ends
        \/ r \notin tasks \cup orphans \cup Range(requests[c]) /\ place'[r] = place[r]
  <2> SUFFICES ASSUME NEW r \in Requests
               PROVE  \/ r \in tasks \cup orphans \cup Range(requests[c]) /\ place'[r] \in ends
                      \/ r \notin tasks \cup orphans \cup Range(requests[c]) /\ place'[r] = place[r]
    OBVIOUS
  <2>1. CASE r \in tasks
    <3>1. r \notin orphans /\ r \notin Range(requests[c])
      BY <1>4, <1>5, <1>6, <2>1
    <3> QED BY <1>2, <2>1, <3>1
  <2>2. CASE r \in orphans
    <3>1. r \notin tasks /\ r \notin Range(requests[c])
      BY <1>4, <1>5, <1>6, <2>2
    <3> QED BY <1>2, <2>2, <3>1
  <2>3. CASE r \in Range(requests[c])
    <3>1. r \notin tasks /\ r \notin orphans
      BY <1>4, <1>5, <1>6, <2>3
    <3> QED BY <1>2, <2>3, <3>1
  <2>4. CASE r \notin tasks \cup orphans \cup Range(requests[c])
    BY <1>2, <2>4
  <2> QED BY <2>1, <2>2, <2>3, <2>4
<1>8. \A r \in Requests : /\ place'[r] \in ends \/ place'[r] = place[r]
                          /\ place'[r] = "unsent" <=> place[r] = "unsent"
  <2>1. \A r \in tasks \cup orphans \cup Range(requests[c]) : r \in Requests => place[r] # "unsent"
    BY <1>4, <1>5, <1>6
  <2> QED BY <1>7, <2>1
<1>9. SentInv' /\ \A d \in Conns : \A x \in Range(sent[d]) : Turn(d)'[x] = Turn(d)[x]
  BY <1>1, <1>2, <1>8, SentStays
<1>10. ServerTypeOK'
  <2>1. ends \subseteq Places
    BY DEF Places
  <2>2. place' \in [Requests -> Places]
    <3>1. DOMAIN place' = Requests /\ place' = [r \in Requests |-> place'[r]]
      BY <1>2
    <3>2. \A r \in Requests : place'[r] \in Places
      BY <1>1, <1>8, <2>1 DEF ServerTypeOK
    <3> QED BY <3>1, <3>2
  <2> QED BY <1>1, <1>2, <2>2 DEF ServerTypeOK
<1>11. Line(c)'
  <2>1. requests'[c] = <<>> /\ worker'[c] = "dead"
    BY <1>1, <1>2 DEF ServerTypeOK
  <2>2. \A x \in Requests : Of[x] = c => place'[x] # "queued"
    BY <1>6, <1>7
  <2> QED BY <2>1, <2>2, LineEnds
<1>12. ASSUME NEW d \in Conns, d # c PROVE Line(d)'
  <2>1. requests'[d] = requests[d] /\ worker'[d] = worker[d]
    BY <1>1, <1>2, <1>12 DEF ServerTypeOK
  <2>2. ASSUME NEW x \in Requests, Of[x] = d
        PROVE  /\ place'[x] = "queued" <=> place[x] = "queued"
               /\ x = worker[d] => place'[x] = place[x]
    <3>1. x \notin tasks /\ x \notin Range(requests[c])
      BY <1>4, <1>6, <1>12, <2>2
    <3>2. x = worker[d] => place[x] = "running"
      BY <1>1 DEF Line
    <3> QED BY <1>5, <1>7, <3>1, <3>2
  <2> QED BY <1>1, <1>9, <2>1, <2>2, LineMoves
<1>13. OwedInv'
  <2>1. \A s \in Stops : owed'[s] = IF s \in stopped THEN {} ELSE owed[s]
    BY <1>2
  <2>2. ASSUME NEW s \in Stops, s \notin stopped, NEW r \in owed[s]
        PROVE  place'[r] = "owed" /\ place'[s] \in {"stopping", "informing"}
    <3>1. r \in Requests /\ place[r] = "owed" /\ place[s] \in {"stopping", "informing"} /\ s \in Requests
      BY <1>1, <1>3 DEF OwedInv, ServerTypeOK
    <3>2. r \notin orphans
      BY <1>1, <1>4, <2>2 DEF OwedInv, orphans
    <3>3. r \notin tasks /\ r \notin Range(requests[c])
      BY <1>4, <1>6, <3>1
    <3>4. s \notin tasks
      <4>1. s \notin QuickOf(c) /\ ~(s = worker[c])
        BY <1>6, <3>1 DEF QuickOf
      <4> QED BY <2>2, <4>1 DEF tasks
    <3>5. s \notin orphans /\ s \notin Range(requests[c])
      BY <1>5, <1>6, <3>1
    <3> QED BY <1>7, <3>1, <3>2, <3>3, <3>4, <3>5
  <2>3. \A s \in Stops : \A r \in owed'[s] : r \in owed[s] /\ s \notin stopped
    BY <2>1
  <2> QED BY <1>1, <2>2, <2>3 DEF OwedInv
<1>14. AnswerInv'
  <2>1. \A x \in ends : x \notin Unanswered
    BY DEF Unanswered
  <2> QED BY <1>1, <1>2, <1>8, <2>1 DEF AnswerInv
<1>15. JoinInv'
  <2>1. conn'[c] = "closed" /\ \A d \in Conns \ {c} :
          conn'[d] = conn[d] /\ worker'[d] = worker[d] /\ requests'[d] = requests[d]
    BY <1>1, <1>2 DEF ServerTypeOK
  <2> QED BY <1>1, <1>2, <2>1 DEF JoinInv
<1> QED BY <1>9, <1>10, <1>11, <1>12, <1>13, <1>14, <1>15 DEF ServerInv

\* A reply that cannot be written ends the worker.
LEMMA ServeFailsKeeps ==
  ASSUME ServerInv, NEW c \in Conns, ServeFails(c)
  PROVE  ServerInv'
<1>1. ServerTypeOK /\ SentInv /\ OwedInv /\ AnswerInv /\ JoinInv /\ \A d \in Conns : Line(d)
  BY DEF ServerInv
<1>2. /\ worker[c] \in Requests
      /\ worker' = [worker EXCEPT ![c] = "dead"]
      /\ requests' = [requests EXCEPT ![c] = <<>>]
      /\ place' = [r \in Requests |->
                     IF r = worker[c] \/ r \in Range(requests[c]) THEN "unanswered" ELSE place[r]]
      /\ conn' = IF conn[c] = "eof" THEN [conn EXCEPT ![c] = "gathering"] ELSE conn
      /\ UNCHANGED <<owed, sent, answers, early>>
  BY DEF ServeFails, Serving, Joined, ghostVars
<1>3. /\ Range(requests[c]) = {r \in Requests : Of[r] = c /\ place[r] = "queued"}
      /\ Of[worker[c]] = c /\ place[worker[c]] = "running"
  BY <1>1, <1>2 DEF Line
<1>4. /\ \A r \in Requests : r = worker[c] \/ r \in Range(requests[c]) =>
           place'[r] = "unanswered" /\ place[r] \in {"queued", "running"} /\ Of[r] = c
      /\ \A r \in Requests : ~(r = worker[c] \/ r \in Range(requests[c])) => place'[r] = place[r]
  BY <1>2, <1>3
<1>5. SentInv' /\ \A d \in Conns : \A x \in Range(sent[d]) : Turn(d)'[x] = Turn(d)[x]
  <2>1. \A x \in Requests : place'[x] = "unsent" <=> place[x] = "unsent"
    BY <1>4
  <2> QED BY <1>1, <1>2, <2>1, SentStays
<1>6. ServerTypeOK'
  <2>1. place' \in [Requests -> Places]
    BY <1>1, <1>2 DEF ServerTypeOK, Places
  <2> QED BY <1>1, <1>2, <2>1 DEF ServerTypeOK
<1>7. Line(c)'
  <2>1. requests'[c] = <<>> /\ worker'[c] = "dead"
    BY <1>1, <1>2 DEF ServerTypeOK
  <2>2. \A x \in Requests : Of[x] = c => place'[x] # "queued"
    BY <1>3, <1>4
  <2> QED BY <2>1, <2>2, LineEnds
<1>8. ASSUME NEW d \in Conns, d # c PROVE Line(d)'
  <2>1. requests'[d] = requests[d] /\ worker'[d] = worker[d]
    BY <1>1, <1>2, <1>8 DEF ServerTypeOK
  <2>2. \A x \in Requests : Of[x] = d => /\ place'[x] = "queued" <=> place[x] = "queued"
                                         /\ x = worker[d] => place'[x] = place[x]
    BY <1>4, <1>8
  <2> QED BY <1>1, <1>5, <2>1, <2>2, LineMoves
<1>9. OwedInv'
  <2>1. \A r \in Requests : place[r] \in {"owed", "stopping", "informing"} => place'[r] = place[r]
    BY <1>4
  <2>2. Stops \subseteq Requests /\ \A s \in Stops : owed[s] \subseteq Requests
    BY <1>1 DEF Requests, ServerTypeOK
  <2> QED BY <1>1, <1>2, <2>1, <2>2 DEF OwedInv
<1>10. AnswerInv'
  <2>1. \A r \in Requests : place'[r] \in Unanswered => place'[r] = place[r]
    BY <1>4 DEF Unanswered
  <2> QED BY <1>1, <1>2, <2>1 DEF AnswerInv
<1>11. JoinInv'
  <2>1. worker'[c] = "dead" /\ "dead" \notin Requests
    BY <1>1, <1>2, IpcAssumption DEF ServerTypeOK
  <2>2. \A d \in Conns \ {c} : conn'[d] = conn[d] /\ worker'[d] = worker[d] /\ requests'[d] = requests[d]
    BY <1>1, <1>2 DEF ServerTypeOK
  <2> QED BY <1>1, <1>2, <2>1, <2>2 DEF JoinInv
<1> QED BY <1>5, <1>6, <1>7, <1>8, <1>9, <1>10, <1>11 DEF ServerInv

\* A worker takes the first request of its queue.
LEMMA NextServed ==
  ASSUME ServerInv, NEW c \in Conns, requests[c] # <<>>,
         UNCHANGED sent, \A x \in Requests : place'[x] = "unsent" <=> place[x] = "unsent",
         NEW first, first = Head(requests[c]), worker'[c] = first,
         requests'[c] = Tail(requests[c]), place'[first] = "running",
         \A x \in Requests \ {first} : Of[x] = c => (place'[x] = "queued" <=> place[x] = "queued")
  PROVE  Line(c)'
<1>1. ServerTypeOK /\ SentInv /\ Line(c)
  BY DEF ServerInv
<1>2. PICK pos : pos = Turn(c)
  OBVIOUS
<1>3. pos \in [Requests -> Int] /\ requests[c] \in Seq(Requests) /\ Rising(requests[c], pos)
  <2>1. HasPlaces(Requests, sent[c])
    BY <1>1, Placed DEF ServerTypeOK, SentInv
  <2> QED BY <1>1, <1>2, <2>1 DEF HasPlaces, Turn, Line, ServerTypeOK
<1>4. /\ Tail(requests[c]) \in Seq(Requests) /\ Rising(Tail(requests[c]), pos)
      /\ Head(requests[c]) \in Range(requests[c])
      /\ Range(Tail(requests[c])) = Range(requests[c]) \ {Head(requests[c])}
      /\ \A x \in Range(Tail(requests[c])) : pos[Head(requests[c])] < pos[x]
  BY <1>3, TailKeeps
<1>5. Range(requests[c]) = {x \in Requests : Of[x] = c /\ place[x] = "queued"}
  BY <1>1 DEF Line
<1>6. Turn(c)' = pos
  BY <1>2 DEF Turn
<1>7. Range(requests'[c]) = {x \in Requests : Of[x] = c /\ place'[x] = "queued"}
  BY <1>4, <1>5
<1>8. Rising(requests[c], Turn(c))'
  BY <1>4, <1>6 DEF Rising
<1>9. worker'[c] \in Requests =>
        /\ Of[worker'[c]] = c /\ place'[worker'[c]] = "running"
        /\ \A x \in Range(requests'[c]) : Turn(c)'[worker'[c]] < Turn(c)'[x]
  BY <1>4, <1>5, <1>6
<1> QED BY <1>7, <1>8, <1>9 DEF Line

LEMMA WakeKeeps ==
  ASSUME ServerInv, NEW c \in Conns, Wake(c)
  PROVE  ServerInv'
<1>1. ServerTypeOK /\ SentInv /\ OwedInv /\ AnswerInv /\ JoinInv /\ \A d \in Conns : Line(d)
  BY DEF ServerInv
<1>2. PICK first : first = Head(requests[c])
  OBVIOUS
<1>3. /\ worker[c] = NoRequest /\ requests[c] # <<>>
      /\ worker' = [worker EXCEPT ![c] = first]
      /\ requests' = [requests EXCEPT ![c] = Tail(@)]
      /\ place' = [place EXCEPT ![first] = "running"]
      /\ UNCHANGED <<conn, owed, sent, answers, early>>
  BY <1>2 DEF Wake, Put, ghostVars
<1>4. /\ first \in Requests /\ Of[first] = c /\ place[first] = "queued"
      /\ requests[c] \in Seq(Requests) /\ Tail(requests[c]) \in Seq(Requests)
  <2>1. requests[c] \in Seq(Requests)
    BY <1>1 DEF ServerTypeOK
  <2>2. first \in Range(requests[c]) /\ Tail(requests[c]) \in Seq(Requests)
    <3>1. Len(requests[c]) \in Nat \ {0} /\ DOMAIN requests[c] = 1..Len(requests[c])
      BY <1>3, <2>1, LenProperties, EmptySeq
    <3>2. requests[c][1] \in Range(requests[c])
      BY <3>1 DEF Range
    <3> QED BY <1>2, <1>3, <2>1, <3>2, HeadTailProperties
  <2> QED BY <1>1, <2>1, <2>2 DEF Line
<1>5. place'[first] = "running" /\ \A x \in Requests \ {first} : place'[x] = place[x]
  BY <1>1, <1>3, <1>4 DEF ServerTypeOK
<1>6. ServerTypeOK'
  BY <1>1, <1>3, <1>4 DEF ServerTypeOK, Places
<1>7. SentInv' /\ \A d \in Conns : \A x \in Range(sent[d]) : Turn(d)'[x] = Turn(d)[x]
  <2>1. \A x \in Requests : place'[x] = "unsent" <=> place[x] = "unsent"
    BY <1>4, <1>5
  <2> QED BY <1>1, <1>3, <2>1, SentStays
<1>8. Line(c)'
  <2>1. worker'[c] = first /\ requests'[c] = Tail(requests[c])
    BY <1>1, <1>3 DEF ServerTypeOK
  <2>2. \A x \in Requests : place'[x] = "unsent" <=> place[x] = "unsent"
    BY <1>4, <1>5
  <2> QED BY <1>2, <1>3, <1>5, <2>1, <2>2, NextServed
<1>9. ASSUME NEW d \in Conns, d # c PROVE Line(d)'
  <2>1. requests'[d] = requests[d] /\ worker'[d] = worker[d]
    BY <1>1, <1>3, <1>9 DEF ServerTypeOK
  <2>2. \A x \in Requests : Of[x] = d => /\ place'[x] = "queued" <=> place[x] = "queued"
                                         /\ x = worker[d] => place'[x] = place[x]
    BY <1>4, <1>5, <1>9
  <2> QED BY <1>1, <1>7, <2>1, <2>2, LineMoves
<1>10. OwedInv'
  <2>1. \A r \in Requests : place[r] \in {"owed", "stopping", "informing"} => place'[r] = place[r]
    BY <1>4, <1>5
  <2>2. Stops \subseteq Requests /\ \A s \in Stops : owed[s] \subseteq Requests
    BY <1>1 DEF Requests, ServerTypeOK
  <2> QED BY <1>1, <1>3, <2>1, <2>2 DEF OwedInv
<1>11. AnswerInv'
  BY <1>1, <1>3, <1>4, <1>5 DEF AnswerInv, Unanswered
<1>12. JoinInv'
  <2>1. ~(conn[c] = "gathering" /\ c \notin early)
    <3>1. NoRequest # "dead"
      BY IpcAssumption
    <3> QED BY <1>1, <1>3, <3>1 DEF JoinInv
  <2>2. \A d \in Conns \ {c} : worker'[d] = worker[d] /\ requests'[d] = requests[d]
    BY <1>1, <1>3 DEF ServerTypeOK
  <2> QED BY <1>1, <1>3, <2>1, <2>2 DEF JoinInv
<1> QED BY <1>6, <1>7, <1>8, <1>9, <1>10, <1>11, <1>12 DEF ServerInv

LEMMA ServeKeeps ==
  ASSUME ServerInv, NEW c \in Conns, Serve(c)
  PROVE  ServerInv'
<1>1. ServerTypeOK /\ SentInv /\ OwedInv /\ AnswerInv /\ JoinInv /\ \A d \in Conns : Line(d)
  BY DEF ServerInv
<1>2. PICK done : done = worker[c]
  OBVIOUS
<1>3. /\ done \in Requests /\ Of[done] = c /\ place[done] = "running" /\ answers[done] = 0
      /\ answers' = [answers EXCEPT ![done] = @ + 1]
      /\ UNCHANGED <<owed, sent, early>>
  BY <1>1, <1>2 DEF Serve, Serving, Answered, Line, AnswerInv, Unanswered
<1>4. /\ answers' \in [Requests -> {0, 1}]
      /\ \A x \in Requests \ {done} : answers'[x] = answers[x]
  BY <1>1, <1>3 DEF ServerTypeOK
<1>5. CASE requests[c] = <<>>
  <2>1. /\ worker' = [worker EXCEPT ![c] = NoRequest]
        /\ place' = [place EXCEPT ![done] = "answered"]
        /\ conn' = IF conn[c] = "eof" THEN [conn EXCEPT ![c] = "gathering"] ELSE conn
        /\ requests' = requests
    BY <1>2, <1>5 DEF Serve, Put, Joined
  <2>2. place'[done] = "answered" /\ \A x \in Requests \ {done} : place'[x] = place[x]
    BY <1>1, <1>3, <2>1 DEF ServerTypeOK
  <2>3. ServerTypeOK'
    BY <1>1, <1>3, <1>4, <2>1 DEF ServerTypeOK, Places
  <2>4. SentInv' /\ \A d \in Conns : \A x \in Range(sent[d]) : Turn(d)'[x] = Turn(d)[x]
    <3>1. \A x \in Requests : place'[x] = "unsent" <=> place[x] = "unsent"
      BY <1>3, <2>2
    <3> QED BY <1>1, <1>3, <3>1, SentStays
  <2>5. Line(c)'
    <3>1. requests'[c] = <<>> /\ worker'[c] \notin Requests
      BY <1>1, <1>5, <2>1, IpcAssumption DEF ServerTypeOK
    <3>2. Range(requests[c]) = {} /\ DOMAIN requests[c] = {}
      BY <1>5 DEF Range
    <3>3. Range(requests[c]) = {x \in Requests : Of[x] = c /\ place[x] = "queued"}
      BY <1>1 DEF Line
    <3>4. Range(requests[c])' = {} /\ \A x \in Requests : Of[x] = c => place'[x] # "queued"
      BY <2>1, <2>2, <3>2, <3>3
    <3>5. Rising(requests[c], Turn(c))'
      BY <2>1, <3>2 DEF Rising
    <3> QED BY <3>1, <3>4, <3>5 DEF Line
  <2>6. ASSUME NEW d \in Conns, d # c PROVE Line(d)'
    <3>1. requests'[d] = requests[d] /\ worker'[d] = worker[d]
      BY <1>1, <2>1, <2>6 DEF ServerTypeOK
    <3>2. \A x \in Requests : Of[x] = d => /\ place'[x] = "queued" <=> place[x] = "queued"
                                           /\ x = worker[d] => place'[x] = place[x]
      BY <1>3, <2>2, <2>6
    <3> QED BY <1>1, <2>4, <3>1, <3>2, LineMoves
  <2>7. OwedInv'
    <3>1. \A r \in Requests : place[r] \in {"owed", "stopping", "informing"} => place'[r] = place[r]
      BY <1>3, <2>2
    <3>2. Stops \subseteq Requests /\ \A s \in Stops : owed[s] \subseteq Requests
      BY <1>1 DEF Requests, ServerTypeOK
    <3> QED BY <1>1, <1>3, <3>1, <3>2 DEF OwedInv
  <2>8. AnswerInv'
    BY <1>1, <1>4, <2>2 DEF AnswerInv, Unanswered
  <2>9. JoinInv'
    <3>1. requests'[c] = <<>> /\ worker'[c] \notin Requests
      BY <1>1, <1>5, <2>1, IpcAssumption DEF ServerTypeOK
    <3>2. \A d \in Conns \ {c} : conn'[d] = conn[d] /\ worker'[d] = worker[d] /\ requests'[d] = requests[d]
      BY <1>1, <2>1 DEF ServerTypeOK
    <3> QED BY <1>1, <1>3, <3>1, <3>2 DEF JoinInv
  <2> QED BY <2>3, <2>4, <2>5, <2>6, <2>7, <2>8, <2>9 DEF ServerInv
<1>6. CASE requests[c] # <<>>
  <2>0. PICK first : first = Head(requests[c])
    OBVIOUS
  <2>1. /\ worker' = [worker EXCEPT ![c] = first]
        /\ requests' = [requests EXCEPT ![c] = Tail(@)]
        /\ place' = [place EXCEPT ![done] = "answered", ![first] = "running"]
        /\ conn' = conn
    BY <1>2, <1>6, <2>0 DEF Serve
  <2>2. /\ first \in Requests /\ Of[first] = c /\ place[first] = "queued"
        /\ requests[c] \in Seq(Requests) /\ Tail(requests[c]) \in Seq(Requests)
    <3>1. requests[c] \in Seq(Requests)
      BY <1>1 DEF ServerTypeOK
    <3>2. Len(requests[c]) \in Nat \ {0} /\ DOMAIN requests[c] = 1..Len(requests[c])
      BY <1>6, <3>1, LenProperties, EmptySeq
    <3>3. requests[c][1] \in Range(requests[c])
      BY <3>2 DEF Range
    <3>4. first \in Range(requests[c]) /\ Tail(requests[c]) \in Seq(Requests)
      BY <1>6, <2>0, <3>1, <3>3, HeadTailProperties
    <3> QED BY <1>1, <3>1, <3>4 DEF Line
  <2>3. /\ first # done /\ place'[first] = "running" /\ place'[done] = "answered"
        /\ \A x \in Requests \ {first, done} : place'[x] = place[x]
    BY <1>1, <1>3, <2>1, <2>2 DEF ServerTypeOK
  <2>4. ServerTypeOK'
    BY <1>1, <1>3, <1>4, <2>1, <2>2 DEF ServerTypeOK, Places
  <2>5. \A x \in Requests : place'[x] = "unsent" <=> place[x] = "unsent"
    BY <1>3, <2>2, <2>3
  <2>6. SentInv' /\ \A d \in Conns : \A x \in Range(sent[d]) : Turn(d)'[x] = Turn(d)[x]
    BY <1>1, <1>3, <2>5, SentStays
  <2>7. Line(c)'
    <3>1. worker'[c] = first /\ requests'[c] = Tail(requests[c])
      BY <1>1, <2>1 DEF ServerTypeOK
    <3>2. \A x \in Requests \ {first} : Of[x] = c => (place'[x] = "queued" <=> place[x] = "queued")
      BY <1>3, <2>3
    <3>3. UNCHANGED sent
      BY <1>3
    <3> QED BY <1>6, <2>0, <2>3, <2>5, <3>1, <3>2, <3>3, NextServed
  <2>8. ASSUME NEW d \in Conns, d # c PROVE Line(d)'
    <3>1. requests'[d] = requests[d] /\ worker'[d] = worker[d]
      BY <1>1, <2>1, <2>8 DEF ServerTypeOK
    <3>2. \A x \in Requests : Of[x] = d => /\ place'[x] = "queued" <=> place[x] = "queued"
                                           /\ x = worker[d] => place'[x] = place[x]
      BY <1>3, <2>2, <2>3, <2>8
    <3> QED BY <1>1, <2>6, <3>1, <3>2, LineMoves
  <2>9. OwedInv'
    <3>1. \A r \in Requests : place[r] \in {"owed", "stopping", "informing"} => place'[r] = place[r]
      BY <1>3, <2>2, <2>3
    <3>2. Stops \subseteq Requests /\ \A s \in Stops : owed[s] \subseteq Requests
      BY <1>1 DEF Requests, ServerTypeOK
    <3> QED BY <1>1, <1>3, <3>1, <3>2 DEF OwedInv
  <2>10. AnswerInv'
    <3>1. answers[first] = 0
      BY <1>1, <2>2 DEF AnswerInv, Unanswered
    <3> QED BY <1>1, <1>4, <2>2, <2>3, <3>1 DEF AnswerInv, Unanswered
  <2>11. JoinInv'
    <3>1. ~(conn[c] = "gathering" /\ c \notin early)
      BY <1>1, <1>2, <1>3 DEF JoinInv
    <3>2. \A d \in Conns \ {c} : worker'[d] = worker[d] /\ requests'[d] = requests[d]
      BY <1>1, <2>1 DEF ServerTypeOK
    <3> QED BY <1>1, <1>3, <2>1, <3>1, <3>2 DEF JoinInv
  <2> QED BY <2>4, <2>6, <2>7, <2>8, <2>9, <2>10, <2>11 DEF ServerInv
<1> QED BY <1>5, <1>6

\* A reply of another task than the worker leaves the queues alone.
LEMMA RepliesRest ==
  ASSUME ServerInv, UNCHANGED <<conn, requests, worker, sent, early>>,
         place' \in [Requests -> Places],
         \A x \in Requests : \/ place'[x] = place[x]
                             \/ /\ place[x] \notin {"unsent", "queued", "running"}
                                /\ place'[x] \notin {"unsent", "queued", "running"},
         owed' \in [Stops -> SUBSET Requests], answers' \in [Requests -> {0, 1}],
         OwedInv', AnswerInv'
  PROVE  ServerInv'
<1>1. ServerTypeOK /\ SentInv /\ JoinInv /\ \A c \in Conns : Line(c)
  BY DEF ServerInv
<1>2. SentInv' /\ \A c \in Conns : \A x \in Range(sent[c]) : Turn(c)'[x] = Turn(c)[x]
  <2>1. \A x \in Requests : place'[x] = "unsent" <=> place[x] = "unsent"
    OBVIOUS
  <2> QED BY <1>1, <2>1, SentStays
<1>3. ASSUME NEW c \in Conns PROVE Line(c)'
  <2>1. worker[c] \in Requests => place[worker[c]] = "running"
    BY <1>1 DEF Line
  <2>2. \A x \in Requests : Of[x] = c => /\ place'[x] = "queued" <=> place[x] = "queued"
                                         /\ x = worker[c] => place'[x] = place[x]
    BY <2>1
  <2> QED BY <1>1, <1>2, <2>2, LineMoves
<1>4. ServerTypeOK'
  BY <1>1 DEF ServerTypeOK
<1>5. JoinInv'
  BY <1>1 DEF JoinInv
<1> QED BY <1>2, <1>3, <1>4, <1>5 DEF ServerInv

LEMMA ReplyQuickKeeps ==
  ASSUME ServerInv, NEW r \in Requests, ReplyQuick(r)
  PROVE  ServerInv'
<1>1. ServerTypeOK /\ OwedInv /\ AnswerInv
  BY DEF ServerInv
<1>2. PICK to \in {"answered", "unanswered"} :
        /\ place[r] = "quick" /\ place' = [place EXCEPT ![r] = to]
        /\ answers' = answers \/ answers' = [answers EXCEPT ![r] = @ + 1]
        /\ UNCHANGED <<conn, requests, worker, sent, early, owed>>
  BY DEF ReplyQuick, Put, Answered
<1>3. place'[r] = to /\ \A x \in Requests \ {r} : place'[x] = place[x]
  BY <1>1, <1>2 DEF ServerTypeOK
<1>4. place' \in [Requests -> Places]
  BY <1>1, <1>2 DEF ServerTypeOK, Places
<1>5. answers[r] = 0
  BY <1>1, <1>2 DEF AnswerInv, Unanswered
<1>6. answers' \in [Requests -> {0, 1}] /\ \A x \in Requests \ {r} : answers'[x] = answers[x]
  <2>1. CASE answers' = answers
    BY <1>1, <2>1 DEF ServerTypeOK
  <2>2. CASE answers' = [answers EXCEPT ![r] = @ + 1]
    BY <1>1, <1>5, <2>2 DEF ServerTypeOK
  <2> QED BY <1>2, <2>1, <2>2
<1>7. OwedInv'
  <2>1. \A x \in Requests : place[x] \in {"owed", "stopping", "informing"} => place'[x] = place[x]
    BY <1>2, <1>3
  <2>2. Stops \subseteq Requests /\ \A s \in Stops : owed[s] \subseteq Requests
    BY <1>1 DEF Requests, ServerTypeOK
  <2> QED BY <1>1, <1>2, <2>1, <2>2 DEF OwedInv
<1>8. AnswerInv'
  BY <1>1, <1>2, <1>3, <1>6 DEF AnswerInv, Unanswered
<1>9. \A x \in Requests : \/ place'[x] = place[x]
                          \/ /\ place[x] \notin {"unsent", "queued", "running"}
                             /\ place'[x] \notin {"unsent", "queued", "running"}
  BY <1>2, <1>3
<1>10. owed' \in [Stops -> SUBSET Requests]
  BY <1>1, <1>2 DEF ServerTypeOK
<1> QED BY <1>2, <1>4, <1>6, <1>7, <1>8, <1>9, <1>10, RepliesRest

\* A stop answers its own client, or ends there.
LEMMA ReplyStopKeeps ==
  ASSUME ServerInv, NEW s \in Stops, ReplyStop(s)
  PROVE  ServerInv'
<1>1. ServerTypeOK /\ OwedInv /\ AnswerInv
  BY DEF ServerInv
<1>2. /\ s \in Requests /\ place[s] = "stopping" /\ answers[s] = 0
      /\ UNCHANGED <<conn, requests, worker, sent, early>>
      /\ owed[s] \subseteq Requests /\ \A r \in owed[s] : place[r] = "owed"
      /\ Stops \subseteq Requests /\ \A t \in Stops : owed[t] \subseteq Requests
  BY <1>1 DEF ReplyStop, Requests, ServerTypeOK, OwedInv, AnswerInv, Unanswered
<1>3. CASE /\ Put(s, IF owed[s] = {} THEN "answered" ELSE "informing")
           /\ Answered(s) /\ UNCHANGED <<closing, owed>>
  <2>1. /\ place' = [place EXCEPT ![s] = IF owed[s] = {} THEN "answered" ELSE "informing"]
        /\ answers' = [answers EXCEPT ![s] = @ + 1] /\ owed' = owed
    BY <1>3 DEF Put, Answered
  <2>2. /\ place'[s] \in {"answered", "informing"} /\ (owed[s] # {} => place'[s] = "informing")
        /\ \A x \in Requests \ {s} : place'[x] = place[x]
    BY <1>1, <1>2, <2>1 DEF ServerTypeOK
  <2>3. place' \in [Requests -> Places]
    BY <1>1, <2>1 DEF ServerTypeOK, Places
  <2>4. answers' \in [Requests -> {0, 1}] /\ \A x \in Requests \ {s} : answers'[x] = answers[x]
    BY <1>1, <1>2, <2>1 DEF ServerTypeOK
  <2>5. OwedInv'
    <3>1. ASSUME NEW t \in Stops, NEW r \in owed[t]
          PROVE  place'[r] = "owed" /\ place'[t] \in {"stopping", "informing"}
      <4>1. r \in Requests /\ t \in Requests /\ place[r] = "owed" /\ place[t] \in {"stopping", "informing"}
        BY <1>1, <1>2 DEF OwedInv
      <4>2. place'[r] = "owed"
        BY <1>2, <2>2, <4>1
      <4>3. place'[t] \in {"stopping", "informing"}
        BY <2>2, <4>1
      <4> QED BY <4>2, <4>3
    <3> QED BY <1>1, <2>1, <3>1 DEF OwedInv
  <2>6. AnswerInv'
    BY <1>1, <1>2, <2>2, <2>4 DEF AnswerInv, Unanswered
  <2>7. \A x \in Requests : \/ place'[x] = place[x]
                            \/ /\ place[x] \notin {"unsent", "queued", "running"}
                               /\ place'[x] \notin {"unsent", "queued", "running"}
    BY <1>2, <2>2
  <2>8. owed' \in [Stops -> SUBSET Requests]
    BY <1>1, <2>1 DEF ServerTypeOK
  <2> QED BY <1>2, <2>3, <2>4, <2>5, <2>6, <2>7, <2>8, RepliesRest
<1>4. CASE /\ place' = [r \in Requests |-> CASE r = s -> "unanswered"
                                             [] r \in owed[s] -> "orphaned"
                                             [] OTHER -> place[r]]
           /\ owed' = [owed EXCEPT ![s] = {}] /\ answers' = answers
  <2>1. s \notin owed[s]
    BY <1>2
  <2>2. /\ place'[s] = "unanswered" /\ \A r \in owed[s] : place'[r] = "orphaned"
        /\ \A r \in Requests \ (owed[s] \cup {s}) : place'[r] = place[r]
    BY <1>2, <1>4, <2>1
  <2>3. place' \in [Requests -> Places]
    <3>1. DOMAIN place' = Requests /\ place' = [r \in Requests |-> place'[r]]
      BY <1>4
    <3>2. \A r \in Requests : place'[r] \in Places
      BY <1>1, <2>2 DEF ServerTypeOK, Places
    <3> QED BY <3>1, <3>2
  <2>4. \A t \in Stops : owed'[t] = IF t = s THEN {} ELSE owed[t]
    BY <1>1, <1>4 DEF ServerTypeOK
  <2>5. OwedInv'
    <3>1. ASSUME NEW t \in Stops, t # s, NEW r \in owed[t]
          PROVE  place'[r] = "owed" /\ place'[t] \in {"stopping", "informing"}
      <4>1. r \in Requests /\ t \in Requests /\ place[r] = "owed" /\ place[t] \in {"stopping", "informing"}
        BY <1>1, <1>2 DEF OwedInv
      <4>2. r \notin owed[s] /\ r # s
        BY <1>1, <1>2, <3>1, <4>1 DEF OwedInv
      <4>3. t \notin owed[s]
        BY <1>2, <4>1
      <4> QED BY <2>2, <3>1, <4>1, <4>2, <4>3
    <3>2. \A t \in Stops : \A r \in owed'[t] : t # s /\ r \in owed[t]
      BY <2>4
    <3> QED BY <1>1, <3>1, <3>2 DEF OwedInv
  <2>6. AnswerInv'
    BY <1>1, <1>2, <1>4, <2>2 DEF AnswerInv, Unanswered
  <2>7. \A x \in Requests : \/ place'[x] = place[x]
                            \/ /\ place[x] \notin {"unsent", "queued", "running"}
                               /\ place'[x] \notin {"unsent", "queued", "running"}
    BY <1>2, <2>2
  <2>8. owed' \in [Stops -> SUBSET Requests] /\ answers' \in [Requests -> {0, 1}]
    BY <1>1, <1>4 DEF ServerTypeOK
  <2> QED BY <1>2, <2>3, <2>5, <2>6, <2>7, <2>8, RepliesRest
<1> QED BY <1>3, <1>4 DEF ReplyStop

\* A stop answers one of the requests it withdrew.
LEMMA InformKeeps ==
  ASSUME ServerInv, NEW s \in Stops, NEW r \in owed[s], Inform(s, r)
  PROVE  ServerInv'
<1>1. ServerTypeOK /\ OwedInv /\ AnswerInv
  BY DEF ServerInv
<1>2. /\ s \in Requests /\ r \in Requests /\ place[s] = "informing" /\ place[r] = "owed"
      /\ answers[r] = 0 /\ r # s
      /\ Stops \subseteq Requests /\ \A t \in Stops : owed[t] \subseteq Requests
  BY <1>1 DEF Inform, Requests, ServerTypeOK, OwedInv, AnswerInv, Unanswered
<1>3. /\ owed' = [owed EXCEPT ![s] = @ \ {r}]
      /\ UNCHANGED <<conn, requests, worker, sent, early>>
  BY DEF Inform
<1>4. PICK to \in {"cancelled", "unanswered"}, next \in {"answered", "informing"} :
        /\ next = IF owed'[s] = {} THEN "answered" ELSE "informing"
        /\ place' = [place EXCEPT ![r] = to, ![s] = next]
        /\ answers' = answers \/ answers' = [answers EXCEPT ![r] = @ + 1]
  <2>1. PICK next : next = IF owed'[s] = {} THEN "answered" ELSE "informing"
    OBVIOUS
  <2>2. \/ place' = [place EXCEPT ![r] = "cancelled", ![s] = next] /\ answers' = [answers EXCEPT ![r] = @ + 1]
        \/ place' = [place EXCEPT ![r] = "unanswered", ![s] = next] /\ answers' = answers
    BY <2>1 DEF Inform, Answered
  <2> QED BY <2>1, <2>2
<1>5. /\ place'[r] = to /\ place'[s] = next /\ \A x \in Requests \ {r, s} : place'[x] = place[x]
  BY <1>1, <1>2, <1>4 DEF ServerTypeOK
<1>6. place' \in [Requests -> Places]
  BY <1>1, <1>4 DEF ServerTypeOK, Places
<1>7. answers' \in [Requests -> {0, 1}] /\ \A x \in Requests \ {r} : answers'[x] = answers[x]
  <2>1. CASE answers' = answers
    BY <1>1, <2>1 DEF ServerTypeOK
  <2>2. CASE answers' = [answers EXCEPT ![r] = @ + 1]
    BY <1>1, <1>2, <2>2 DEF ServerTypeOK
  <2> QED BY <1>4, <2>1, <2>2
<1>8. \A t \in Stops : owed'[t] = IF t = s THEN owed[s] \ {r} ELSE owed[t]
  BY <1>1, <1>3 DEF ServerTypeOK
<1>9. OwedInv'
  <2>1. \A t \in Stops : owed'[t] \subseteq owed[t] /\ r \notin owed'[t]
    BY <1>1, <1>8 DEF OwedInv
  <2>2. ASSUME NEW t \in Stops, NEW x \in owed'[t]
        PROVE  place'[x] = "owed" /\ place'[t] \in {"stopping", "informing"}
    <3>1. /\ x \in Requests /\ t \in Requests /\ place[x] = "owed" /\ place[t] \in {"stopping", "informing"}
          /\ x # r
      BY <1>1, <1>2, <2>1 DEF OwedInv
    <3>2. place'[x] = "owed"
      BY <1>2, <1>5, <3>1
    <3>3. CASE t = s
      BY <1>4, <1>5, <2>2, <3>2, <3>3
    <3>4. CASE t # s
      BY <1>2, <1>5, <3>1, <3>2, <3>4
    <3> QED BY <3>2, <3>3, <3>4
  <2> QED BY <1>1, <2>1, <2>2 DEF OwedInv
<1>10. AnswerInv'
  BY <1>1, <1>2, <1>5, <1>7 DEF AnswerInv, Unanswered
<1>11. \A x \in Requests : \/ place'[x] = place[x]
                           \/ /\ place[x] \notin {"unsent", "queued", "running"}
                              /\ place'[x] \notin {"unsent", "queued", "running"}
  BY <1>2, <1>5
<1>12. owed' \in [Stops -> SUBSET Requests]
  BY <1>1, <1>3 DEF ServerTypeOK
<1> QED BY <1>3, <1>6, <1>7, <1>9, <1>10, <1>11, <1>12, RepliesRest

\* Only the end of a connection aborts a request.
LEMMA OnlyTeardown ==
  ASSUME ServerInv, Next, NEW r \in Requests, place[r] # "aborted", place'[r] = "aborted"
  PROVE  \E c \in Conns : Teardown(c)
<1>1. place \in [Requests -> Places] /\ Of \in [Requests -> Conns]
  BY IpcAssumption DEF ServerInv, ServerTypeOK
<1>2. CASE UNCHANGED place
  BY <1>2
<1>3. ASSUME NEW x \in Requests, NEW where \in Places \ {"aborted"}, place' = [place EXCEPT ![x] = where]
      PROVE  FALSE
  BY <1>1, <1>3
<1>4. ASSUME NEW c \in Conns, ReaderStep(c) PROVE \E d \in Conns : Teardown(d)
  BY <1>2, <1>4 DEF ReaderStep, Connect, ReadEof, CancelClient, SubscribeClient
<1>5. ASSUME NEW c \in Conns, WorkerStep(c) PROVE FALSE
  <2>1. CASE Wake(c)
    BY <1>1, <2>1 DEF Wake, Put
  <2>2. CASE Serve(c)
    BY <1>1, <2>2 DEF Serve, Put
  <2>3. CASE ServeFails(c)
    BY <1>1, <2>3 DEF ServeFails
  <2> QED BY <1>5, <2>1, <2>2, <2>3 DEF WorkerStep
<1>6. ASSUME NEW x \in Requests, RequestTaken(x) PROVE FALSE
  <2>1. CASE ReplyBusy(x)
    BY <1>1, <2>1 DEF ReplyBusy, Put
  <2>2. CASE Enqueue(x)
    BY <1>1, <2>1, <2>2 DEF Enqueue, Put
  <2>3. CASE TakeOrdinary(x)
    BY <2>2, <2>3 DEF TakeOrdinary
  <2>4. CASE TakeResponsive(x)
    BY <1>1, <2>2, <2>4 DEF TakeResponsive, Put
  <2>5. CASE x \in Stops /\ TakeStop(x)
    <3>1. CASE CancelQueued(x)
      BY <1>1, <3>1 DEF CancelQueued
    <3> QED BY <2>1, <2>5, <3>1 DEF TakeStop
  <2> QED BY <1>6, <2>3, <2>4, <2>5 DEF RequestTaken
<1>7. ASSUME NEW x \in Requests, ReplyStep(x) PROVE FALSE
  <2>1. CASE ReplyQuick(x)
    BY <1>1, <2>1 DEF ReplyQuick, Put
  <2>2. CASE x \in Stops /\ ReplyStop(x)
    <3>1. CASE Put(x, IF owed[x] = {} THEN "answered" ELSE "informing")
      BY <1>1, <3>1 DEF Put
    <3>2. CASE place' = [y \in Requests |-> CASE y = x -> "unanswered"
                                             [] y \in owed[x] -> "orphaned"
                                             [] OTHER -> place[y]]
      <4>1. place[x] = "stopping" /\ x \notin owed[x]
        BY <2>2 DEF ReplyStop, ServerInv, OwedInv
      <4> QED BY <3>2, <4>1
    <3> QED BY <2>2, <3>1, <3>2 DEF ReplyStop
  <2>3. ASSUME x \in Stops, NEW q \in owed[x], Inform(x, q) PROVE FALSE
    BY <1>1, <2>3 DEF Inform
  <2> QED BY <1>7, <2>1, <2>2, <2>3 DEF ReplyStep
<1>8. CASE UNCHANGED ipcVars
  BY <1>2, <1>8 DEF ipcVars, taskVars
<1>9. CASE CoreIncident
  BY <1>2, <1>8, <1>9 DEF CoreIncident, StopServer, Disconnect
<1>10. CASE Persistence \/ CoreStep
  BY <1>8, <1>10 DEF Persistence, CoreStep
<1>11. ASSUME NEW c \in Conns, SendEvent(c) PROVE FALSE
  BY <1>11 DEF SendEvent
<1> QED BY <1>4, <1>5, <1>6, <1>7, <1>9, <1>10, <1>11 DEF Next

LEMMA ServerKept ==
  ASSUME ServerInv, [Next]_vars
  PROVE  ServerInv'
<1>1. CASE UNCHANGED ipcVars
  BY <1>1, SmallSteps
<1>2. ASSUME NEW c \in Conns, ReaderStep(c) PROVE ServerInv'
  BY <1>2, SmallSteps, TeardownKeeps DEF ReaderStep
<1>3. ASSUME NEW c \in Conns, WorkerStep(c) PROVE ServerInv'
  BY <1>3, WakeKeeps, ServeKeeps, ServeFailsKeeps DEF WorkerStep
<1>4. ASSUME NEW c \in Conns, SendEvent(c) PROVE ServerInv'
  BY <1>4, SmallSteps
<1>5. ASSUME NEW r \in Requests, RequestTaken(r) PROVE ServerInv'
  <2>1. CASE TakeOrdinary(r)
    BY <2>1, TakeKeeps DEF TakeOrdinary
  <2>2. CASE TakeResponsive(r)
    BY <2>2, TakeKeeps DEF TakeResponsive
  <2>3. CASE r \in Stops /\ TakeStop(r)
    BY <2>3, TakeKeeps, CancelKeeps DEF TakeStop
  <2> QED BY <1>5, <2>1, <2>2, <2>3 DEF RequestTaken
<1>6. ASSUME NEW r \in Requests, ReplyStep(r) PROVE ServerInv'
  BY <1>6, ReplyQuickKeeps, ReplyStopKeeps, InformKeeps DEF ReplyStep
<1>7. CASE CoreIncident
  BY <1>1, <1>7, SmallSteps DEF CoreIncident
<1>8. CASE Persistence \/ CoreStep
  BY <1>1, <1>8 DEF Persistence, CoreStep
<1>9. CASE UNCHANGED vars
  BY <1>1, <1>9 DEF vars
<1> QED BY <1>2, <1>3, <1>4, <1>5, <1>6, <1>7, <1>8, <1>9 DEF Next

\* The invariant of the server: every queue holds its connection's queued requests
\* in order, and each withdrawn request is owed by one stop.
THEOREM ServerInvariant == Spec => []ServerInv
<1>1. Init => ServerInv
  <2> SUFFICES ASSUME Init PROVE ServerInv
    OBVIOUS
  <2>1. /\ conn = [c \in Conns |-> "new"] /\ requests = [c \in Conns |-> <<>>]
        /\ worker = [c \in Conns |-> NoRequest] /\ place = [r \in Requests |-> "unsent"]
        /\ owed = [s \in Stops |-> {}] /\ sent = [c \in Conns |-> <<>>]
        /\ answers = [r \in Requests |-> 0]
    BY DEF Init, IpcInit
  <2>2. Range(<<>>) = {} /\ DOMAIN <<>> = {} /\ <<>> \in Seq(Requests)
    BY DEF Range
  <2>3. ServerTypeOK
    BY <2>1, <2>2 DEF ServerTypeOK, Places
  <2>4. SentInv
    BY <2>1, <2>2 DEF SentInv, Once
  <2>5. NoRequest \notin Requests
    BY IpcAssumption
  <2>6. \A c \in Conns : Line(c)
    BY <2>1, <2>2, <2>5 DEF Line, Rising
  <2>7. OwedInv /\ AnswerInv
    BY <2>1 DEF OwedInv, AnswerInv
  <2>8. JoinInv
    BY <2>1 DEF JoinInv
  <2> QED BY <2>3, <2>4, <2>6, <2>7, <2>8 DEF ServerInv
<1>2. ServerInv /\ [Next]_vars => ServerInv'
  BY ServerKept
<1> QED BY <1>1, <1>2, PTL DEF Spec

\* No request is answered twice, whoever gets to it first.
THEOREM OneAnswer == Spec => []AnsweredOnce
<1>1. ServerInv => AnsweredOnce
  BY DEF ServerInv, ServerTypeOK, AnsweredOnce
<1> QED BY <1>1, ServerInvariant, PTL

\* A worker overtakes no request of its connection that still waits.
THEOREM ServedInOrder == Spec => []InOrder
<1>1. ServerInv => InOrder
  <2> SUFFICES ASSUME ServerInv, NEW c \in Conns, NEW i \in DOMAIN sent[c], NEW j \in DOMAIN sent[c],
                      i < j, worker[c] = sent[c][j], place[sent[c][i]] = "queued"
               PROVE  FALSE
    BY DEF InOrder
  <2>1. sent[c] \in Seq(Requests) /\ Once(sent[c]) /\ Line(c)
        /\ Range(sent[c]) = {r \in Requests : Of[r] = c /\ place[r] # "unsent"}
    BY DEF ServerInv, ServerTypeOK, SentInv
  <2>2. HasPlaces(Requests, sent[c])
    BY <2>1, Placed
  <2>3. sent[c][i] \in Range(sent[c]) /\ sent[c][j] \in Range(sent[c])
    BY DEF Range
  <2>4. Turn(c)[sent[c][i]] = i /\ Turn(c)[sent[c][j]] = j
    <3>1. /\ sent[c][At(sent[c], sent[c][i])] = sent[c][i] /\ At(sent[c], sent[c][i]) \in DOMAIN sent[c]
          /\ sent[c][At(sent[c], sent[c][j])] = sent[c][j] /\ At(sent[c], sent[c][j]) \in DOMAIN sent[c]
      BY <2>2, <2>3 DEF HasPlaces
    <3>2. At(sent[c], sent[c][i]) = i /\ At(sent[c], sent[c][j]) = j
      BY <2>1, <3>1 DEF Once
    <3> QED BY <2>2, <2>3, <3>2 DEF HasPlaces, Turn
  <2>5. worker[c] \in Requests /\ sent[c][i] \in Range(requests[c])
    BY <2>1, <2>3 DEF Line
  <2>6. j < i
    BY <2>1, <2>4, <2>5 DEF Line
  <2>7. i \in Int /\ j \in Int
    BY <2>1, LenProperties
  <2> QED BY <2>6, <2>7
<1> QED BY <1>1, ServerInvariant, PTL

\* What runs for a connection is cut off only when the server stops, when the
\* reader's own write fails, or when a stop let the reader go early.
THEOREM AcceptedWorkFinishes == Spec => AcceptedFinishes
<1> DEFINE Cut == \A r \in Requests : place[r] \in Pending /\ place'[r] = "aborted" =>
                    conn[Of[r]] = "broken" \/ Of[r] \in early
<1>1. ServerInv /\ [Next]_vars => [Cut]_vars
  <2> SUFFICES ASSUME ServerInv, Next, NEW r \in Requests, place[r] \in Pending, place'[r] = "aborted"
               PROVE  conn[Of[r]] = "broken" \/ Of[r] \in early
    OBVIOUS
  <2>1. ServerTypeOK /\ JoinInv /\ \A c \in Conns : Line(c)
    BY DEF ServerInv
  <2>2. place[r] # "aborted"
    BY DEF Pending
  <2>3. PICK c \in Conns : Teardown(c)
    BY <2>2, OnlyTeardown
  <2>4. place'[r] = CASE r \in QuickOf(c) \cup InterruptsOf(c) \cup {x \in Requests : x = worker[c]} -> "aborted"
                      [] r \in UNION {owed[s] : s \in InterruptsOf(c)} -> "orphaned"
                      [] r \in Range(requests[c]) -> "unanswered"
                      [] OTHER -> place[r]
    BY <2>3 DEF Teardown
  <2>5. r \in QuickOf(c) \cup InterruptsOf(c) \cup {x \in Requests : x = worker[c]}
    BY <2>2, <2>4
  <2>6. Of[r] = c
    BY <2>1, <2>5 DEF QuickOf, InterruptsOf, Line
  <2>7. CASE conn[c] = "broken"
    BY <2>6, <2>7
  <2>8. CASE conn[c] = "gathering" /\ QuickOf(c) = {} /\ InterruptsOf(c) = {}
    BY <2>1, <2>5, <2>6, <2>8 DEF JoinInv
  <2> QED BY <2>3, <2>7, <2>8 DEF Teardown, Ready
<1> QED BY <1>1, ServerInvariant, PTL DEF Spec, AcceptedFinishes
================================================================================
