----------------------------- MODULE FoldProofs -----------------------------
(***************************************************************************)
(* What the proofs about loops over a sequence rest on: induction over     *)
(* natural numbers, for sets of them, and that the function exists which   *)
(* a recursive definition or FoldLeft names.  The steps of the loop are    *)
(* given by a function h from a value and an index to the next value.      *)
(* Then what is done to sequences and to the linked lists that stand for   *)
(* them: an element is put in, taken out or looked up, and a stream is cut *)
(* into what was read, what is on its way and what is to be sent.          *)
(***************************************************************************)
EXTENDS Integers, SequencesExt, WellFoundedInduction, SequenceTheorems, TLAPS

LEMMA LeastOf ==
  ASSUME NEW T \in SUBSET Nat, T # {}
  PROVE  \E x \in T : \A y \in T : x <= y
<1> DEFINE L == {ss \in Nat \X Nat : ss[1] < ss[2]}
<1>0. IsWellFoundedOn(L, Nat)
  BY NatLessThanWellFounded DEF OpToRel
<1>1. PICK x \in T : \A y \in T : ~ (<< y, x >> \in L)
  BY <1>0, WFMin, Zenon
<1>2. \A y \in T : x <= y
  <2> TAKE y \in T
  <2>1. x \in Nat /\ y \in Nat /\ << y, x >> \notin L
    BY <1>1
  <2>2. << y, x >> \in L <=> y < x
    BY <2>1, SMT
  <2> QED BY <2>1, <2>2
<1> QED BY <1>2

LEMMA InductionUpTo ==
  ASSUME NEW n \in Nat, NEW I, 0 \in I, \A k \in 0..(n - 1) : k \in I => k + 1 \in I
  PROVE  0..n \subseteq I
<1> DEFINE T == (0..n) \ I
<1> SUFFICES ASSUME T # {}  PROVE FALSE
  OBVIOUS
<1>1. PICK x \in T : \A y \in T : x <= y
  <2>1. T \in SUBSET Nat
    OBVIOUS
  <2> HIDE DEF T
  <2> QED BY <2>1, LeastOf
<1>2. x # 0 /\ x \in 0..n /\ x \notin I
  OBVIOUS
<1>3. x - 1 \in 0..(n - 1) /\ (x - 1) + 1 = x
  BY <1>2
<1>4. x - 1 \in I
  BY <1>1, <1>3
<1> QED BY <1>2, <1>3, <1>4

\* g[k] is the value after k steps of a loop.
IsLoop(g, base, h, n) == g[0] = base /\ \A k \in 1..n : g[k] = h[<< g[k - 1], k >>]

LEMMA RecursionExists ==
  ASSUME NEW n \in Nat, NEW V, NEW base \in V, NEW h \in [V \X (1..n) -> V]
  PROVE  \E g \in [0..n -> V] : IsLoop(g, base, h, n)
<1> DEFINE Good(m, g) == g[0] = base /\ \A k \in 1..m : g[k] = h[<< g[k - 1], k >>]
           I == {m \in 0..n : \E g \in [0..m -> V] : Good(m, g)}
<1>1. 0 \in I
  <2> DEFINE g == [x \in 0..0 |-> base]
  <2>1. g \in [0..0 -> V] /\ Good(0, g) /\ 0 \in 0..n
    OBVIOUS
  <2> HIDE DEF Good, g
  <2> QED BY <2>1
<1>2. ASSUME NEW m \in 0..(n - 1), m \in I  PROVE m + 1 \in I
  <2>1. PICK g \in [0..m -> V] : Good(m, g)
    BY <1>2
  <2> DEFINE f == [k \in 0..(m + 1) |-> IF k <= m THEN g[k] ELSE h[<< g[m], m + 1 >>]]
  <2>2. g[m] \in V /\ h[<< g[m], m + 1 >>] \in V
    OBVIOUS
  <2>3. f \in [0..(m + 1) -> V]
    BY <2>2
  <2>4. /\ \A k \in 0..m : f[k] = g[k]
        /\ f[m + 1] = h[<< g[m], m + 1 >>]
    OBVIOUS
  <2> HIDE DEF f
  <2>5. f[0] = base
    BY <2>1, <2>4
  <2>6. ASSUME NEW k \in 1..(m + 1)  PROVE f[k] = h[<< f[k - 1], k >>]
    <3>1. CASE k <= m
      <4>1. f[k] = g[k] /\ f[k - 1] = g[k - 1] /\ k \in 1..m
        BY <2>4, <3>1
      <4> QED BY <2>1, <4>1
    <3>2. CASE k = m + 1
      <4>1. k - 1 = m /\ f[m] = g[m]
        BY <2>4, <3>2
      <4> QED BY <2>4, <3>2, <4>1
    <3> QED BY <3>1, <3>2
  <2>7. Good(m + 1, f) /\ m + 1 \in 0..n
    BY <2>5, <2>6
  <2> HIDE DEF Good
  <2> QED BY <2>3, <2>7
<1> HIDE DEF Good
<1>3. n \in I
  <2> HIDE DEF I
  <2> QED BY <1>1, <1>2, InductionUpTo
<1>4. \E g \in [0..n -> V] : Good(n, g)
  BY <1>3
<1> QED BY <1>4 DEF Good, IsLoop
-----------------------------------------------------------------------------
\* A function on the sets of indices that removes the greatest one each time.
IsIter(f, base, h, n) ==
  \A s \in SUBSET (1..n) : f[s] = IF s = {} THEN base ELSE h[<< f[s \ {Max(s)}], Max(s) >>]

LEMMA IterExists ==
  ASSUME NEW n \in Nat, NEW V, NEW base \in V, NEW h \in [V \X (1..n) -> V]
  PROVE  \E f \in [SUBSET (1..n) -> V] : IsIter(f, base, h, n)
<1> DEFINE Good(m, f) == \A s \in SUBSET (1..m) :
                           f[s] = IF s = {} THEN base ELSE h[<< f[s \ {Max(s)}], Max(s) >>]
           I == {m \in 0..n : \E f \in [SUBSET (1..m) -> V] : Good(m, f)}
<1>1. 0 \in I
  <2> DEFINE f == [s \in SUBSET (1..0) |-> base]
  <2>1. \A s \in SUBSET (1..0) : s = {}
    OBVIOUS
  <2>2. f \in [SUBSET (1..0) -> V] /\ Good(0, f) /\ 0 \in 0..n
    BY <2>1
  <2> HIDE DEF Good, f
  <2> QED BY <2>2
<1>2. ASSUME NEW m \in 0..(n - 1), m \in I  PROVE m + 1 \in I
  <2>1. PICK f \in [SUBSET (1..m) -> V] : Good(m, f)
    BY <1>2
  <2> DEFINE p == m + 1
             g == [s \in SUBSET (1..p) |-> IF p \in s THEN h[<< f[s \ {p}], p >>] ELSE f[s]]
  <2>0. p \in 1..n /\ m \in Nat /\ p \notin 1..m
    OBVIOUS
  <2>2. \A s \in SUBSET (1..p) : s \ {p} \in SUBSET (1..m) /\ (p \notin s => s \in SUBSET (1..m))
    OBVIOUS
  <2>3. \A s \in SUBSET (1..m) : s \in SUBSET (1..p) /\ p \notin s
    OBVIOUS
  <2> HIDE DEF p
  <2>4. g \in [SUBSET (1..p) -> V]
    BY <2>0, <2>2
  <2>5. /\ \A s \in SUBSET (1..m) : g[s] = f[s]
        /\ \A s \in SUBSET (1..p) : p \in s => g[s] = h[<< f[s \ {p}], p >>]
    BY <2>3
  <2> HIDE DEF g
  <2>6. ASSUME NEW s \in SUBSET (1..p)
        PROVE  g[s] = IF s = {} THEN base ELSE h[<< g[s \ {Max(s)}], Max(s) >>]
    <3>1. CASE p \in s
      <4>1. Max(s) = p
        <5>1. \A x \in s : p >= x /\ x \in Nat
          BY <2>0
        <5>2. Max(s) \in s /\ \A y \in s : Max(s) >= y
          BY <3>1, <5>1 DEF Max
        <5>3. Max(s) \in Nat /\ p \in Nat /\ p >= Max(s) /\ Max(s) >= p
          BY <2>0, <3>1, <5>1, <5>2
        <5> QED BY <5>3
      <4>2. g[s \ {p}] = f[s \ {p}]
        BY <2>2, <2>5
      <4> QED BY <2>5, <3>1, <4>1, <4>2
    <3>2. CASE p \notin s
      <4>1. s \in SUBSET (1..m) /\ s \ {Max(s)} \in SUBSET (1..m)
        BY <2>2, <3>2
      <4> QED BY <2>1, <2>5, <4>1
    <3> QED BY <3>1, <3>2
  <2>7. Good(p, g)
    BY <2>6
  <2> HIDE DEF Good
  <2>8. p \in I
    BY <2>0, <2>4, <2>7
  <2> QED BY <2>8 DEF p
<1>3. n \in I
  <2> HIDE DEF I
  <2> QED BY <1>1, <1>2, InductionUpTo
<1>4. PICK f \in [SUBSET (1..n) -> V] : Good(n, f)
  <2> HIDE DEF Good
  <2> QED BY <1>3
<1> QED BY <1>4 DEF IsIter

LEMMA MaxOfSome ==
  ASSUME NEW n \in Nat, NEW S \in SUBSET (1..n), S # {}
  PROVE  Max(S) \in S
<1> DEFINE T == {k \in Nat : \A x \in S : x <= k}
<1>1. n \in T
  OBVIOUS
<1>2. PICK m \in T : \A k \in T : m <= k
  <2>1. T \in SUBSET Nat /\ T # {}
    BY <1>1
  <2> HIDE DEF T
  <2> QED BY <2>1, LeastOf
<1>3. m \in S
  <2> SUFFICES ASSUME m \notin S  PROVE FALSE
    OBVIOUS
  <2>1. \A x \in S : x \in Nat \ {0} /\ x <= m /\ x # m
    BY <1>2
  <2>2. m \in Nat \ {0} /\ \A x \in S : x <= m - 1
    <3>1. m \in Nat
      BY <1>2
    <3>2. \A x \in S : m \in Nat \ {0} /\ x <= m - 1
      BY <2>1, <3>1
    <3> QED BY <3>2
  <2>3. m - 1 \in T
    BY <2>2
  <2> QED BY <1>2, <2>2, <2>3
<1>4. \A y \in S : m >= y
  BY <1>2
<1> HIDE DEF T
<1> QED BY <1>3, <1>4 DEF Max

\* What such a function is on 1..k: the value after k steps of the loop.
LoopResult(x, V, base, h, n) == \E g \in [0..n -> V] : IsLoop(g, base, h, n) /\ x = g[n]
IterOn(f, V, base, h, n) ==
  /\ f[{}] = base
  /\ \A s \in SUBSET (1..n) :
       s # {} /\ f[s \ {Max(s)}] \in V => f[s] = h[<< f[s \ {Max(s)}], Max(s) >>]

LEMMA IterSteps ==
  ASSUME NEW n \in Nat, NEW V, NEW base \in V, NEW h \in [V \X (1..n) -> V],
         NEW f, IterOn(f, V, base, h, n)
  PROVE  LoopResult(f[1..n], V, base, h, n)
<1> DEFINE g == [k \in 0..n |-> f[1..k]]
           I == {k \in 0..n : g[k] \in V}
<1>1. \A k \in 0..n : 1..k \in SUBSET (1..n)
  OBVIOUS
<1>2. g[0] = base
  <2>1. 1..0 = {} /\ g[0] = f[1..0]
    OBVIOUS
  <2> QED BY <2>1 DEF IterOn
<1>3. ASSUME NEW k \in 1..n, g[k - 1] \in V  PROVE g[k] = h[<< g[k - 1], k >>]
  <2>1. k \in 1..k /\ \A x \in 1..k : k >= x /\ x \in Nat
    OBVIOUS
  <2>2. Max(1..k) = k
    <3>1. Max(1..k) \in 1..k /\ \A x \in 1..k : Max(1..k) >= x
      BY <2>1 DEF Max
    <3> QED BY <2>1, <3>1
  <2>3. (1..k) \ {k} = 1..(k - 1) /\ 1..k # {} /\ k - 1 \in 0..n
    OBVIOUS
  <2>4. f[1..(k - 1)] \in V
    BY <1>3, <2>3
  <2>5. f[1..k] = h[<< f[1..(k - 1)], k >>]
    BY <1>1, <2>2, <2>3, <2>4 DEF IterOn
  <2> QED BY <2>3, <2>5
<1>4. 0 \in I
  BY <1>2
<1>5. ASSUME NEW k \in 0..(n - 1), k \in I  PROVE k + 1 \in I
  <2>1. k + 1 \in 1..n /\ (k + 1) - 1 = k /\ g[k] \in V
    BY <1>5
  <2>2. g[k + 1] = h[<< g[k], k + 1 >>] /\ k + 1 \in 0..n
    <3> HIDE DEF g
    <3> QED BY <1>3, <2>1
  <2> HIDE DEF g
  <2> QED BY <2>1, <2>2
<1>6. 0..n \subseteq I
  <2> HIDE DEF I
  <2> QED BY <1>4, <1>5, InductionUpTo
<1>7. g \in [0..n -> V]
  BY <1>6
<1>8. \A k \in 1..n : g[k] = h[<< g[k - 1], k >>]
  <2> TAKE k \in 1..n
  <2>1. k - 1 \in 0..n
    OBVIOUS
  <2> QED BY <1>3, <1>6, <2>1
<1>9. f[1..n] = g[n]
  OBVIOUS
<1> HIDE DEF g
<1> QED BY <1>2, <1>7, <1>8, <1>9 DEF IsLoop, LoopResult
-----------------------------------------------------------------------------
LEMMA RemoveAtIs ==
  ASSUME NEW S, NEW q \in Seq(S), NEW i \in DOMAIN q
  PROVE  /\ RemoveAt(q, i) \in Seq(S) /\ Len(RemoveAt(q, i)) = Len(q) - 1
         /\ DOMAIN RemoveAt(q, i) = 1..(Len(q) - 1)
         /\ \A k \in DOMAIN RemoveAt(q, i) :
              RemoveAt(q, i)[k] = IF k < i THEN q[k] ELSE q[k + 1]
<1> DEFINE r == RemoveAt(q, i)
<1>1. Len(q) \in Nat /\ DOMAIN q = 1..Len(q) /\ i \in 1..Len(q)
  OBVIOUS
<1>2. /\ r \in Seq(S) /\ Len(r) = Len(q) - 1 /\ DOMAIN r = 1..(Len(q) - 1)
      /\ \A k \in DOMAIN r : r[k] = IF k < i THEN q[k] ELSE q[k + 1]
  <2> DEFINE front == SubSeq(q, 1, i - 1)
             back == SubSeq(q, i + 1, Len(q))
             all == front \o back
  <2>1. /\ front \in Seq(S) /\ Len(front) = i - 1 /\ \A k \in 1..(i - 1) : front[k] = q[k]
        /\ back \in Seq(S) /\ Len(back) = Len(q) - i /\ \A k \in 1..(Len(q) - i) : back[k] = q[i + k]
    BY <1>1, SMTT(40)
  <2> HIDE DEF front, back
  <2>2. /\ all \in Seq(S) /\ Len(all) = Len(q) - 1
        /\ \A k \in 1..(Len(q) - 1) : all[k] = IF k < i THEN front[k] ELSE back[k - (i - 1)]
    <3>1. /\ all \in Seq(S) /\ Len(all) = Len(front) + Len(back)
          /\ \A k \in 1..(Len(front) + Len(back)) :
               all[k] = IF k <= Len(front) THEN front[k] ELSE back[k - Len(front)]
      BY <2>1, ConcatProperties
    <3>2. Len(front) = i - 1 /\ Len(front) + Len(back) = Len(q) - 1
      BY <1>1, <2>1
    <3> HIDE DEF all
    <3> QED BY <1>1, <3>1, <3>2
  <2>3. r = all
    BY DEF RemoveAt, front, back
  <2> HIDE DEF r, all
  <2>4. ASSUME NEW k \in 1..(Len(q) - 1)  PROVE all[k] = IF k < i THEN q[k] ELSE q[k + 1]
    <3>1. CASE k < i
      BY <1>1, <2>1, <2>2, <3>1
    <3>2. CASE k >= i
      <4>1. k - (i - 1) \in 1..(Len(q) - i) /\ i + (k - (i - 1)) = k + 1
        BY <1>1, <3>2
      <4>2. all[k] = back[k - (i - 1)]
        BY <1>1, <2>2, <3>2
      <4>3. back[k - (i - 1)] = q[i + (k - (i - 1))]
        BY <2>1, <4>1
      <4> QED BY <1>1, <3>2, <4>1, <4>2, <4>3
    <3> QED BY <1>1, <3>1, <3>2
  <2>5. DOMAIN all = 1..(Len(q) - 1)
    BY <1>1, <2>2
  <2> QED BY <2>2, <2>3, <2>4, <2>5
<1> QED BY <1>2 DEF r

\* The queues, as sequences without repetitions.
LEMMA RemoveAtElements ==
  ASSUME NEW S, NEW q \in Seq(S), NEW i \in DOMAIN q, IsInjective(q)
  PROVE  /\ RemoveAt(q, i) \in Seq(S) /\ Len(RemoveAt(q, i)) = Len(q) - 1
         /\ ToSet(RemoveAt(q, i)) = ToSet(q) \ {q[i]}
         /\ IsInjective(RemoveAt(q, i))
<1> DEFINE r == RemoveAt(q, i)
<1>1. Len(q) \in Nat /\ DOMAIN q = 1..Len(q) /\ i \in 1..Len(q)
  OBVIOUS
<1>2. /\ r \in Seq(S) /\ Len(r) = Len(q) - 1 /\ DOMAIN r = 1..(Len(q) - 1)
      /\ \A k \in DOMAIN r : r[k] = IF k < i THEN q[k] ELSE q[k + 1]
  BY <1>1, RemoveAtIs
<1> HIDE DEF r
<1>3. ASSUME NEW k \in DOMAIN r
      PROVE  \E n \in DOMAIN q : n # i /\ r[k] = q[n] /\ n = IF k < i THEN k ELSE k + 1
  BY <1>1, <1>2, <1>3
<1>4. ASSUME NEW n \in DOMAIN q, n # i  PROVE \E k \in DOMAIN r : r[k] = q[n]
  <2>1. CASE n < i
    BY <1>1, <1>2, <2>1
  <2>2. CASE n > i
    <3>1. n - 1 \in DOMAIN r /\ r[n - 1] = q[n]
      BY <1>1, <1>2, <2>2
    <3> QED BY <3>1
  <2> QED BY <1>1, <1>4, <2>1, <2>2
<1>5. ToSet(r) = ToSet(q) \ {q[i]}
  BY <1>3, <1>4 DEF ToSet, IsInjective
<1>6. IsInjective(r)
  <2> SUFFICES ASSUME NEW k \in DOMAIN r, NEW m \in DOMAIN r, r[k] = r[m]  PROVE k = m
    BY DEF IsInjective
  <2>1. PICK n1 \in DOMAIN q : r[k] = q[n1] /\ n1 = IF k < i THEN k ELSE k + 1
    BY <1>3
  <2>2. PICK n2 \in DOMAIN q : r[m] = q[n2] /\ n2 = IF m < i THEN m ELSE m + 1
    BY <1>3
  <2>3. n1 = n2
    BY <2>1, <2>2 DEF IsInjective
  <2> QED BY <1>1, <1>2, <2>1, <2>2, <2>3
<1> QED BY <1>2, <1>5, <1>6 DEF r

LEMMA AppendElements ==
  ASSUME NEW S, NEW q \in Seq(S), NEW x \in S
  PROVE  /\ Append(q, x) \in Seq(S) /\ Len(Append(q, x)) = Len(q) + 1
         /\ DOMAIN Append(q, x) = DOMAIN q \cup {Len(q) + 1}
         /\ \A n \in DOMAIN q : Append(q, x)[n] = q[n]
         /\ Append(q, x)[Len(q) + 1] = x
         /\ ToSet(Append(q, x)) = ToSet(q) \cup {x}
         /\ IsInjective(q) /\ x \notin ToSet(q) => IsInjective(Append(q, x))
<1> DEFINE r == Append(q, x)
<1>1. /\ r \in Seq(S) /\ Len(r) = Len(q) + 1 /\ DOMAIN r = DOMAIN q \cup {Len(q) + 1}
      /\ \A n \in DOMAIN q : r[n] = q[n]
      /\ r[Len(q) + 1] = x
  OBVIOUS
<1> HIDE DEF r
<1>2. ToSet(r) = ToSet(q) \cup {x}
  BY <1>1 DEF ToSet
<1>3. IsInjective(q) /\ x \notin ToSet(q) => IsInjective(r)
  BY <1>1 DEF ToSet, IsInjective
<1> QED BY <1>1, <1>2, <1>3 DEF r

LEMMA TailElements ==
  ASSUME NEW S, NEW q \in Seq(S), q # << >>, IsInjective(q)
  PROVE  /\ Tail(q) \in Seq(S) /\ Len(Tail(q)) = Len(q) - 1
         /\ \A n \in DOMAIN Tail(q) : n + 1 \in DOMAIN q /\ Tail(q)[n] = q[n + 1]
         /\ 1 \in DOMAIN q /\ ToSet(Tail(q)) = ToSet(q) \ {q[1]}
         /\ IsInjective(Tail(q))
<1> DEFINE r == Tail(q)
<1>1. /\ r \in Seq(S) /\ Len(r) = Len(q) - 1 /\ DOMAIN r = 1..Len(q) - 1
      /\ \A n \in DOMAIN r : n + 1 \in DOMAIN q /\ r[n] = q[n + 1]
      /\ Len(q) \in Nat \ {0} /\ DOMAIN q = 1..Len(q) /\ 1 \in DOMAIN q
  OBVIOUS
<1> HIDE DEF r
<1>2. ASSUME NEW n \in DOMAIN q, n # 1  PROVE n - 1 \in DOMAIN r /\ r[n - 1] = q[n]
  BY <1>1, <1>2
<1>3. ToSet(r) = ToSet(q) \ {q[1]}
  <2>1. ASSUME NEW n \in DOMAIN r  PROVE r[n] \in ToSet(q) \ {q[1]}
    <3>1. n + 1 \in DOMAIN q /\ n + 1 # 1 /\ r[n] = q[n + 1]
      BY <1>1
    <3> QED BY <1>1, <3>1 DEF ToSet, IsInjective
  <2>2. ASSUME NEW n \in DOMAIN q, q[n] # q[1]  PROVE q[n] \in ToSet(r)
    BY <1>2, <2>2 DEF ToSet
  <2> QED BY <2>1, <2>2 DEF ToSet
<1>4. IsInjective(r)
  <2> SUFFICES ASSUME NEW k \in DOMAIN r, NEW m \in DOMAIN r, r[k] = r[m]  PROVE k = m
    BY DEF IsInjective
  <2>1. k + 1 = m + 1
    BY <1>1 DEF IsInjective
  <2> QED BY <1>1, <2>1
<1> QED BY <1>1, <1>3, <1>4 DEF r

LEMMA ConcatElements ==
  ASSUME NEW S, NEW p \in Seq(S), NEW q \in Seq(S)
  PROVE  /\ p \o q \in Seq(S) /\ ToSet(p \o q) = ToSet(p) \cup ToSet(q)
         /\ IsInjective(p) /\ IsInjective(q) /\ ToSet(p) \cap ToSet(q) = {} => IsInjective(p \o q)
<1> DEFINE r == p \o q
<1>1. /\ r \in Seq(S) /\ Len(r) = Len(p) + Len(q) /\ Len(p) \in Nat /\ Len(q) \in Nat
      /\ DOMAIN p = 1..Len(p) /\ DOMAIN q = 1..Len(q) /\ DOMAIN r = 1..Len(p) + Len(q)
      /\ \A n \in 1..Len(p) + Len(q) : r[n] = IF n <= Len(p) THEN p[n] ELSE q[n - Len(p)]
  OBVIOUS
<1> HIDE DEF r
<1>2. \A n \in DOMAIN r : \/ n \in DOMAIN p /\ r[n] = p[n]
                          \/ n - Len(p) \in DOMAIN q /\ r[n] = q[n - Len(p)]
  BY <1>1
<1>3. /\ \A n \in DOMAIN p : n \in DOMAIN r /\ r[n] = p[n]
      /\ \A n \in DOMAIN q : Len(p) + n \in DOMAIN r /\ r[Len(p) + n] = q[n]
  BY <1>1
<1>4. ToSet(r) = ToSet(p) \cup ToSet(q)
  <2>1. ToSet(r) \subseteq ToSet(p) \cup ToSet(q)
    BY <1>2 DEF ToSet
  <2>2. ToSet(p) \subseteq ToSet(r)
    BY <1>3 DEF ToSet
  <2>3. ASSUME NEW n \in DOMAIN q  PROVE q[n] \in ToSet(r)
    BY <1>3 DEF ToSet
  <2> QED BY <2>1, <2>2, <2>3 DEF ToSet
<1>5. ASSUME IsInjective(p), IsInjective(q), ToSet(p) \cap ToSet(q) = {}  PROVE IsInjective(r)
  <2> SUFFICES ASSUME NEW k \in DOMAIN r, NEW m \in DOMAIN r, r[k] = r[m]  PROVE k = m
    BY DEF IsInjective
  <2>1. CASE k \in DOMAIN p /\ r[k] = p[k] /\ m \in DOMAIN p /\ r[m] = p[m]
    BY <1>5, <2>1 DEF IsInjective
  <2>2. CASE k - Len(p) \in DOMAIN q /\ r[k] = q[k - Len(p)] /\ m - Len(p) \in DOMAIN q /\ r[m] = q[m - Len(p)]
    <3>1. k - Len(p) = m - Len(p)
      BY <1>5, <2>2 DEF IsInjective
    <3> QED BY <1>1, <3>1
  <2>3. CASE r[k] \in ToSet(p) /\ r[m] \in ToSet(q)
    BY <1>5, <2>3
  <2>4. CASE r[m] \in ToSet(p) /\ r[k] \in ToSet(q)
    BY <1>5, <2>4
  <2> QED BY <1>2, <2>1, <2>2, <2>3, <2>4 DEF ToSet
<1> QED BY <1>1, <1>4, <1>5 DEF r

\* What Walk of QueueList follows, of a list that begins at h.
WalkFrom(h, nx, i) == LET at[j \in 0..i] == IF j = 0 THEN h ELSE nx[at[j - 1]] IN at[i]

Follows(d, h, nx, n) == d[0] = h /\ \A j \in 1..n : d[j] = nx[d[j - 1]]

LEMMA WalkFollows ==
  ASSUME NEW h, NEW nx, NEW n \in Nat, NEW d, Follows(d, h, nx, n), NEW i \in 0..n
  PROVE  WalkFrom(h, nx, i) = d[i]
<1> DEFINE Eq(f) == f = [j \in 0..i |-> IF j = 0 THEN h ELSE nx[f[j - 1]]]
           w == [j \in 0..i |-> d[j]]
           at == CHOOSE f : Eq(f)
           J == {j \in 0..i : at[j] = d[j]}
<1>0. d[0] = h /\ \A j \in 1..n : d[j] = nx[d[j - 1]]
  BY DEF Follows
<1>1. Eq(w)
  <2>1. \A j \in 0..i : w[j] = d[j] /\ (j # 0 => j \in 1..n /\ j - 1 \in 0..i)
    OBVIOUS
  <2> HIDE DEF w
  <2>2. \A j \in 0..i : w[j] = IF j = 0 THEN h ELSE nx[w[j - 1]]
    BY <1>0, <2>1
  <2> QED BY <2>2 DEF w
<1>2. Eq(at)
  <2> HIDE DEF Eq
  <2> QED BY <1>1
<1> HIDE DEF at
<1>3. \A j \in 0..i : at[j] = IF j = 0 THEN h ELSE nx[at[j - 1]]
  BY <1>2
<1>4. 0 \in J
  BY <1>0, <1>3
<1>5. ASSUME NEW j \in 0..(i - 1), j \in J  PROVE j + 1 \in J
  <2>1. j + 1 \in 0..i /\ j + 1 \in 1..n /\ j + 1 # 0 /\ (j + 1) - 1 = j
    OBVIOUS
  <2>2. at[j + 1] = nx[at[j]]
    BY <1>3, <2>1
  <2>3. d[j + 1] = nx[d[j]]
    BY <1>0, <2>1
  <2> QED BY <1>5, <2>1, <2>2, <2>3
<1>6. 0..i \subseteq J
  <2> HIDE DEF J
  <2> QED BY <1>4, <1>5, InductionUpTo
<1>7. at[i] = d[i]
  BY <1>6
<1> QED BY <1>7 DEF WalkFrom, at

\* The nodes c, linked by nx from h to t.
Linked(c, N, null, h, t, nx) ==
  /\ c \in Seq(N) /\ IsInjective(c)
  /\ Len(c) = 0 => h = null
  /\ Len(c) # 0 => h = c[1] /\ t = c[Len(c)] /\ nx[c[Len(c)]] = null
  /\ \A i \in 1..Len(c) - 1 : nx[c[i]] = c[i + 1]
ItemsOf(c, it) == [i \in 1..Len(c) |-> it[c[i]]]

LEMMA WalkLinked ==
  ASSUME NEW N, NEW null,
         NEW c, NEW h, NEW t, NEW nx, Linked(c, N, null, h, t, nx)
  PROVE  /\ \A i \in 0..Len(c) - 1 : WalkFrom(h, nx, i) = c[i + 1]
         /\ WalkFrom(h, nx, Len(c)) = null
<1> DEFINE n == Len(c)
           d == [j \in 0..n |-> IF j < n THEN c[j + 1] ELSE null]
<1>1. n \in Nat
  BY DEF Linked
<1>2. d[0] = h
  BY <1>1 DEF Linked
<1>3. ASSUME NEW j \in 1..n  PROVE d[j] = nx[d[j - 1]]
  <2>1. d[j - 1] = c[j]
    BY <1>1
  <2>2. CASE j < n
    <3>1. j \in 1..Len(c) - 1 /\ d[j] = c[j + 1]
      BY <1>1, <2>2
    <3> QED BY <2>1, <3>1 DEF Linked
  <2>3. CASE j = n
    BY <1>1, <2>1, <2>3 DEF Linked
  <2> QED BY <1>1, <2>2, <2>3
<1>4. /\ \A j \in 0..n - 1 : d[j] = c[j + 1] /\ j \in 0..n
      /\ d[n] = null /\ n \in 0..n
  BY <1>1
<1> HIDE DEF d, n
<1>5. ASSUME NEW i \in 0..n  PROVE WalkFrom(h, nx, i) = d[i]
  <2>1. Follows(d, h, nx, n)
    BY <1>2, <1>3 DEF Follows
  <2> QED BY <1>1, <2>1, WalkFollows, Zenon
<1> QED BY <1>4, <1>5 DEF n

\* Two sequences with the same elements in the same places.
LEMMA SameSequence ==
  ASSUME NEW I,
         NEW S, NEW T, NEW p \in Seq(S), NEW q \in Seq(T), Len(p) = Len(q),
         \A i \in 1..Len(p) : p[i] = q[i]
  PROVE  p = q
OBVIOUS

AgreeOn(c, it, nit, I) == \A i \in 1..Len(c) : nit[c[i]] = it[c[i]] /\ it[c[i]] \in I

LEMMA ItemsAppend ==
  ASSUME NEW N, NEW I,
         NEW c \in Seq(N), NEW n \in N, NEW it, NEW nit, nit[n] \in I, AgreeOn(c, it, nit, I)
  PROVE  ItemsOf(Append(c, n), nit) = Append(ItemsOf(c, it), nit[n])
<1> USE DEF AgreeOn
<1>1. /\ ItemsOf(c, it) \in Seq(I) /\ Len(ItemsOf(c, it)) = Len(c)
      /\ \A i \in 1..Len(c) : ItemsOf(c, it)[i] = it[c[i]]
  BY DEF ItemsOf
<1> DEFINE d == Append(c, n)  p == ItemsOf(d, nit)  q == Append(ItemsOf(c, it), nit[n])
<1>2. /\ Len(d) = Len(c) + 1 /\ d[Len(c) + 1] = n /\ Len(c) \in Nat
      /\ \A i \in 1..Len(c) : d[i] = c[i]
  OBVIOUS
<1>3. /\ q \in Seq(I) /\ Len(q) = Len(c) + 1 /\ q[Len(c) + 1] = nit[n]
      /\ \A i \in 1..Len(c) : q[i] = it[c[i]]
  BY <1>1
<1> HIDE DEF d, q
<1>4. \A i \in 1..Len(c) + 1 : nit[d[i]] = q[i] /\ nit[d[i]] \in I
  BY <1>2, <1>3
<1>5. p \in Seq(I) /\ Len(p) = Len(c) + 1 /\ \A i \in 1..Len(c) + 1 : p[i] = q[i]
  BY <1>2, <1>4 DEF ItemsOf
<1> QED BY <1>3, <1>5, SameSequence DEF d, q

LEMMA ItemsRemove ==
  ASSUME NEW N, NEW I,
         NEW c \in Seq(N), NEW it, AgreeOn(c, it, it, I), NEW k \in 1..Len(c)
  PROVE  ItemsOf(RemoveAt(c, k), it) = RemoveAt(ItemsOf(c, it), k)
<1> DEFINE a == ItemsOf(c, it)  d == RemoveAt(c, k)  p == ItemsOf(d, it)  q == RemoveAt(a, k)
<1> USE DEF AgreeOn
<1>1. /\ a \in Seq(I) /\ Len(a) = Len(c) /\ DOMAIN a = 1..Len(c)
      /\ \A i \in 1..Len(c) : a[i] = it[c[i]]
  BY DEF ItemsOf
<1>2. /\ Len(d) = Len(c) - 1 /\ DOMAIN d = 1..(Len(c) - 1) /\ Len(c) \in Nat
      /\ \A i \in DOMAIN d : d[i] = IF i < k THEN c[i] ELSE c[i + 1]
  BY RemoveAtIs
<1> HIDE DEF a, d
<1>3. /\ q \in Seq(I) /\ Len(q) = Len(a) - 1 /\ DOMAIN q = 1..(Len(a) - 1)
      /\ \A i \in DOMAIN q : q[i] = IF i < k THEN a[i] ELSE a[i + 1]
  <2>1. k \in DOMAIN a
    BY <1>1
  <2> QED BY <1>1, <2>1, RemoveAtIs, Zenon
<1> HIDE DEF q
<1>4. ASSUME NEW i \in 1..(Len(c) - 1)  PROVE it[d[i]] = q[i] /\ it[d[i]] \in I
  <2>1. i \in 1..Len(c) /\ i + 1 \in 1..Len(c) /\ i \in DOMAIN d /\ i \in DOMAIN q
    BY <1>1, <1>2, <1>3
  <2>2. CASE i < k
    <3>1. d[i] = c[i] /\ q[i] = a[i]
      BY <1>2, <1>3, <2>1, <2>2
    <3> QED BY <1>1, <2>1, <3>1
  <2>3. CASE ~ (i < k)
    <3>1. d[i] = c[i + 1] /\ q[i] = a[i + 1]
      BY <1>2, <1>3, <2>1, <2>3
    <3> QED BY <1>1, <2>1, <3>1
  <2> QED BY <2>2, <2>3
<1>5. p \in Seq(I) /\ Len(p) = Len(c) - 1 /\ \A i \in 1..(Len(c) - 1) : p[i] = it[d[i]]
  BY <1>2, <1>4 DEF ItemsOf
<1> HIDE DEF p
<1>6. p = q
  BY <1>1, <1>3, <1>4, <1>5, SameSequence
<1> QED BY <1>6 DEF a, d, p, q

LEMMA LinkedAppend ==
  ASSUME NEW N, NEW null,
         NEW c, NEW h, NEW t, NEW nx \in [N -> N \cup {null}], Linked(c, N, null, h, t, nx),
         NEW n \in N, n \notin ToSet(c),
         NEW m, \A x \in N : m[x] = IF x = n THEN null ELSE IF Len(c) # 0 /\ x = t THEN n ELSE nx[x]
  PROVE  Linked(Append(c, n), N, null, IF Len(c) = 0 THEN n ELSE h, n, m)
<1> DEFINE d == Append(c, n)
<1>1. c \in Seq(N) /\ IsInjective(c) /\ Len(c) \in Nat /\ DOMAIN c = 1..Len(c)
  BY DEF Linked
<1>2. /\ d \in Seq(N) /\ IsInjective(d) /\ Len(d) = Len(c) + 1 /\ d[Len(c) + 1] = n
      /\ \A i \in 1..Len(c) : d[i] = c[i]
  BY <1>1, AppendElements
<1> HIDE DEF d
<1>3. m[n] = null
  OBVIOUS
<1>4. Len(d) # 0 /\ d[1] = IF Len(c) = 0 THEN n ELSE h
  BY <1>1, <1>2 DEF Linked
<1>5. ASSUME NEW i \in 1..Len(d) - 1  PROVE m[d[i]] = d[i + 1]
  <2>1. i \in 1..Len(c) /\ d[i] = c[i] /\ c[i] \in N /\ c[i] # n /\ Len(c) # 0
    BY <1>1, <1>2 DEF ToSet
  <2>2. CASE i = Len(c)
    <3>1. c[i] = t /\ d[i + 1] = n
      BY <1>2, <2>1, <2>2 DEF Linked
    <3> QED BY <2>1, <3>1
  <2>3. CASE i # Len(c)
    <3>1. t = c[Len(c)]
      BY <2>1 DEF Linked
    <3>4. i \in Nat /\ 1 <= i /\ i <= Len(c) /\ Len(c) \in Nat /\ Len(c) # 0
      BY <1>1, <2>1
    <3>5. i \in 1..Len(c) - 1 /\ i + 1 \in 1..Len(c) /\ Len(c) \in 1..Len(c)
      BY <2>3, <3>4
    <3>3. i \in 1..Len(c) - 1 /\ i + 1 \in 1..Len(c) /\ Len(c) \in DOMAIN c
      BY <1>1, <3>5
    <3>2. c[i] # t /\ d[i + 1] = c[i + 1] /\ nx[c[i]] = c[i + 1]
      BY <1>1, <1>2, <2>1, <2>3, <3>1, <3>3 DEF Linked, IsInjective
    <3> QED BY <2>1, <3>2
  <2> QED BY <2>2, <2>3
<1>6. d[Len(d)] = n
  BY <1>2
<1>7. Linked(d, N, null, IF Len(c) = 0 THEN n ELSE h, n, m)
  BY <1>2, <1>3, <1>4, <1>5, <1>6 DEF Linked
<1> QED BY <1>7 DEF d

LEMMA LinkedFirst ==
  ASSUME NEW N, NEW null,
         NEW c, NEW h, NEW t, NEW nx, Linked(c, N, null, h, t, nx), Len(c) # 0
  PROVE  /\ \A u : (Len(c) > 1 => u = t) => Linked(RemoveAt(c, 1), N, null, nx[h], u, nx)
         /\ nx[h] = IF Len(c) = 1 THEN null ELSE c[2]
<1> DEFINE d == RemoveAt(c, 1)
<1>1. /\ c \in Seq(N) /\ IsInjective(c) /\ Len(c) \in Nat /\ DOMAIN c = 1..Len(c) /\ h = c[1]
      /\ t = c[Len(c)] /\ nx[t] = null /\ 1 \in DOMAIN c
      /\ \A i \in 1..Len(c) - 1 : nx[c[i]] = c[i + 1]
  BY DEF Linked
<1>2. d \in Seq(N) /\ Len(d) = Len(c) - 1 /\ DOMAIN d = 1..(Len(c) - 1) /\ IsInjective(d)
  BY <1>1, RemoveAtIs, RemoveAtElements
<1>3. \A i \in DOMAIN d : d[i] = IF i < 1 THEN c[i] ELSE c[i + 1]
  BY <1>1, RemoveAtIs
<1> HIDE DEF d
<1>4. \A i \in 1..Len(c) - 1 : d[i] = c[i + 1]
  BY <1>2, <1>3
<1>5. nx[h] = IF Len(c) = 1 THEN null ELSE c[2]
  BY <1>1
<1>6. ASSUME Len(c) > 1  PROVE nx[h] = d[1] /\ t = d[Len(d)] /\ nx[d[Len(d)]] = null
  BY <1>1, <1>2, <1>4, <1>5, <1>6
<1>7. \A i \in 1..Len(d) - 1 : nx[d[i]] = d[i + 1]
  BY <1>1, <1>2, <1>4
<1>8. ASSUME NEW u, Len(c) > 1 => u = t  PROVE Linked(d, N, null, nx[h], u, nx)
  BY <1>1, <1>2, <1>5, <1>6, <1>7, <1>8 DEF Linked
<1> QED BY <1>5, <1>8 DEF d

LEMMA LinkedOther ==
  ASSUME NEW N, NEW null,
         NEW c, NEW h, NEW t, NEW nx \in [N -> N \cup {null}], Linked(c, N, null, h, t, nx),
         NEW k \in 2..Len(c), NEW m, m = [nx EXCEPT ![c[k - 1]] = nx[c[k]]]
  PROVE  Linked(RemoveAt(c, k), N, null, h, IF k = Len(c) THEN c[k - 1] ELSE t, m)
<1> DEFINE d == RemoveAt(c, k)  n == Len(c)
<1>1. /\ c \in Seq(N) /\ IsInjective(c) /\ n \in Nat /\ DOMAIN c = 1..n /\ h = c[1]
      /\ t = c[n] /\ nx[t] = null /\ k \in DOMAIN c
      /\ \A i \in 1..n - 1 : nx[c[i]] = c[i + 1]
  BY DEF Linked
<1>2. d \in Seq(N) /\ Len(d) = n - 1 /\ DOMAIN d = 1..(n - 1) /\ IsInjective(d)
  BY <1>1, RemoveAtIs, RemoveAtElements
<1>3. \A i \in DOMAIN d : d[i] = IF i < k THEN c[i] ELSE c[i + 1]
  BY <1>1, RemoveAtIs
<1>4. k \in Nat /\ 2 <= k /\ k <= n /\ 1 \in 1..n - 1
  BY <1>1
<1> HIDE DEF d, n
<1>5. \A i \in 1..n : i # k - 1 => m[c[i]] = nx[c[i]]
  <2>1. k - 1 \in 1..n
    BY <1>1, <1>4
  <2>2. \A i \in 1..n : c[i] \in N
    BY <1>1 DEF n
  <2>3. \A i, j \in 1..n : c[i] = c[j] => i = j
    BY <1>1 DEF IsInjective
  <2>4. \A x \in N : x # c[k - 1] => m[x] = nx[x]
    OBVIOUS
  <2> QED BY <2>1, <2>2, <2>3, <2>4
<1>6. m[c[k - 1]] = nx[c[k]]
  BY <1>1, <1>4
<1>11. \A i \in 1..n - 1 : (i < k => d[i] = c[i]) /\ (i >= k => d[i] = c[i + 1])
  BY <1>2, <1>3, <1>4
<1>7. ASSUME NEW i \in 1..n - 2  PROVE m[d[i]] = d[i + 1]
  <2>4. i \in 1..n - 1 /\ i + 1 \in 1..n - 1 /\ i \in Nat
    BY <1>1
  <2>1. CASE i < k - 1
    <3>1. d[i] = c[i] /\ d[i + 1] = c[i + 1] /\ i \in 1..n - 1 /\ i # k - 1
      BY <1>4, <1>11, <2>4, <2>1
    <3> QED BY <1>1, <1>5, <3>1
  <2>2. CASE i = k - 1
    <3>1. d[i] = c[k - 1] /\ d[i + 1] = c[k + 1] /\ k \in 1..n - 1
      BY <1>4, <1>11, <2>4, <2>2
    <3> QED BY <1>1, <1>6, <3>1
  <2>3. CASE i > k - 1
    <3>2. i >= k /\ i + 1 >= k /\ i + 1 # k - 1 /\ (i + 1) + 1 = i + 2
      BY <1>4, <2>4, <2>3
    <3>1. d[i] = c[i + 1] /\ d[i + 1] = c[i + 2]
      BY <1>11, <2>4, <3>2
    <3> QED BY <1>1, <1>5, <2>4, <3>1, <3>2
  <2> QED BY <1>1, <1>4, <2>1, <2>2, <2>3
<1>8. d[1] = h /\ Len(d) # 0
  BY <1>1, <1>2, <1>4, <1>11
<1>9. CASE k = n
  <2>1. d[Len(d)] = c[k - 1] /\ m[c[k - 1]] = null
    BY <1>1, <1>2, <1>3, <1>4, <1>6, <1>9
  <2> QED BY <1>2, <1>7, <1>8, <1>9, <2>1 DEF Linked, d, n
<1>10. CASE k # n
  <2>2. n - 1 \in 1..n - 1 /\ n - 1 >= k /\ n \in 1..n /\ n # k - 1 /\ (n - 1) + 1 = n
    BY <1>1, <1>4, <1>10
  <2>3. d[Len(d)] = c[n]
    BY <1>2, <1>11, <2>2
  <2>4. m[c[n]] = null
    BY <1>1, <1>5, <2>2
  <2>1. d[Len(d)] = c[n] /\ m[c[n]] = null
    BY <2>3, <2>4
  <2> QED BY <1>1, <1>2, <1>7, <1>8, <1>10, <2>1 DEF Linked, d, n
<1> QED BY <1>9, <1>10

NodesOf(h, nx, n) == [i \in 1..n |-> WalkFrom(h, nx, i - 1)]

LEMMA NodesLinked ==
  ASSUME NEW N, NEW null,
         NEW c, NEW h, NEW t, NEW nx, Linked(c, N, null, h, t, nx)
  PROVE  NodesOf(h, nx, Len(c)) = c
<1>1. c \in Seq(N) /\ Len(c) \in Nat
  BY DEF Linked
<1>2. \A i \in 1..Len(c) : WalkFrom(h, nx, i - 1) = c[i]
  <2> TAKE i \in 1..Len(c)
  <2>1. i - 1 \in 0..Len(c) - 1 /\ (i - 1) + 1 = i
    BY <1>1
  <2> QED BY <2>1, WalkLinked
<1>3. \A i \in 1..Len(c) : c[i] \in N
  BY <1>1
<1>4. /\ NodesOf(h, nx, Len(c)) \in Seq(N) /\ Len(NodesOf(h, nx, Len(c))) = Len(c)
      /\ \A i \in 1..Len(c) : NodesOf(h, nx, Len(c))[i] = c[i]
  BY <1>1, <1>2, <1>3 DEF NodesOf
<1> QED BY <1>1, <1>4, SameSequence


Cells(K, V) == [key : K, value : V]
\* No two cells have the same key.
KeysApart(e) == /\ DOMAIN e \subseteq Nat
                /\ \A i, j \in DOMAIN e : e[i].key = e[j].key => i = j
CellList(e, K, V) == e \in Seq(Cells(K, V)) /\ KeysApart(e)

\* What the list e stands for.
Lookup(e, k, null) == LET m == {i \in DOMAIN e : e[i].key = k}
                IN  IF m = {} THEN null ELSE e[Min(m)].value
MapOf(e, K, null) == [k \in K |-> Lookup(e, k, null)]

LEMMA LookupFinds ==
  ASSUME NEW e, KeysApart(e), NEW k, NEW null
  PROVE  /\ \A i \in DOMAIN e : e[i].key = k =>
              /\ {j \in DOMAIN e : e[j].key = k} = {i} /\ Min({i}) = i
              /\ Lookup(e, k, null) = e[i].value
         /\ (\A i \in DOMAIN e : e[i].key # k) => Lookup(e, k, null) = null
<1> DEFINE m == {j \in DOMAIN e : e[j].key = k}
<1>1. ASSUME NEW i \in DOMAIN e, e[i].key = k
      PROVE  m = {i} /\ Min({i}) = i /\ Lookup(e, k, null) = e[i].value
  <2>1. m = {i}
    BY <1>1 DEF KeysApart
  <2>2. Min({i}) = i
    BY DEF Min, KeysApart
  <2>3. Lookup(e, k, null) = e[i].value
    BY <2>1, <2>2 DEF Lookup
  <2> QED BY <2>1, <2>2, <2>3
<1>2. ASSUME \A i \in DOMAIN e : e[i].key # k  PROVE Lookup(e, k, null) = null
  BY <1>2 DEF Lookup
<1> QED BY <1>1, <1>2

LEMMA LookupIn ==
  ASSUME NEW e, KeysApart(e), NEW null
  PROVE  /\ \A i \in DOMAIN e : Lookup(e, e[i].key, null) = e[i].value
         /\ \A m : (\A i \in DOMAIN e : e[i].key # m) => Lookup(e, m, null) = null
<1>1. ASSUME NEW i \in DOMAIN e  PROVE Lookup(e, e[i].key, null) = e[i].value
  <2> DEFINE k == e[i].key
  <2>1. (\A j \in DOMAIN e : e[j].key = k => /\ {o \in DOMAIN e : e[o].key = k} = {j} /\ Min({j}) = j
                                          /\ Lookup(e, k, null) = e[j].value)
    BY LookupFinds
  <2> QED BY <2>1
<1>2. ASSUME NEW m, \A i \in DOMAIN e : e[i].key # m  PROVE Lookup(e, m, null) = null
  BY <1>2, LookupFinds
<1> QED BY <1>1, <1>2

\* A cell in front, with a key that no cell has.
LEMMA AddInFront ==
  ASSUME NEW K, NEW V, NEW null,
         NEW e, CellList(e, K, V), NEW k \in K, NEW v \in V,
         Lookup(e, k, null) = null, null \notin V
  PROVE  /\ CellList(<< [key |-> k, value |-> v] >> \o e, K, V)
         /\ MapOf(<< [key |-> k, value |-> v] >> \o e, K, null) = [MapOf(e, K, null) EXCEPT ![k] = v]
<1> DEFINE c == [key |-> k, value |-> v]
           f == << c >> \o e
<1>0. e \in Seq(Cells(K, V)) /\ KeysApart(e)
  BY DEF CellList
<1>7. /\ \A i \in DOMAIN e : Lookup(e, e[i].key, null) = e[i].value
      /\ \A m : (\A i \in DOMAIN e : e[i].key # m) => Lookup(e, m, null) = null
  BY <1>0, LookupIn
<1>1. c \in Cells(K, V) /\ c.key = k /\ c.value = v
  BY DEF Cells
<1> HIDE DEF c
<1>2. /\ f \in Seq(Cells(K, V)) /\ f[1] = c /\ Len(f) = Len(e) + 1
      /\ \A i \in DOMAIN e : i + 1 \in DOMAIN f /\ f[i + 1] = e[i]
      /\ \A i \in DOMAIN f : i = 1 \/ (i - 1 \in DOMAIN e /\ f[i] = e[i - 1])
  BY <1>0, <1>1
<1> HIDE DEF f
<1>3. \A i \in DOMAIN e : e[i].key # k
  <2> TAKE i \in DOMAIN e
  <2>1. e[i] \in Cells(K, V)
    BY <1>0
  <2> QED BY <1>7, <2>1 DEF Cells
<1>4. KeysApart(f)
  <2> SUFFICES ASSUME NEW i \in DOMAIN f, NEW j \in DOMAIN f, f[i].key = f[j].key  PROVE i = j
    BY <1>2 DEF KeysApart
  <2>1. CASE i = 1 \/ j = 1
    BY <1>1, <1>2, <1>3, <2>1
  <2>2. CASE i - 1 \in DOMAIN e /\ f[i] = e[i - 1] /\ j - 1 \in DOMAIN e /\ f[j] = e[j - 1]
    <3>1. i - 1 = j - 1
      BY <1>0, <2>2 DEF KeysApart
    <3> QED BY <1>2, <3>1
  <2> QED BY <1>2, <2>1, <2>2
<1>8. /\ \A i \in DOMAIN f : Lookup(f, f[i].key, null) = f[i].value
      /\ \A m : (\A i \in DOMAIN f : f[i].key # m) => Lookup(f, m, null) = null
  BY <1>4, LookupIn
<1>5. ASSUME NEW m \in K  PROVE Lookup(f, m, null) = IF m = k THEN v ELSE Lookup(e, m, null)
  <2>1. CASE m = k
    <3>1. 1 \in DOMAIN f /\ f[1].key = k /\ f[1].value = v
      BY <1>1, <1>2
    <3>3. Lookup(f, k, null) = f[1].value
      BY <1>8, <3>1
    <3> QED BY <2>1, <3>1, <3>3
  <2>2. CASE m # k /\ \E i \in DOMAIN e : e[i].key = m
    <3>1. PICK i \in DOMAIN e : e[i].key = m
      BY <2>2
    <3>2. Lookup(e, m, null) = e[i].value
      BY <1>7, <3>1
    <3>3. i + 1 \in DOMAIN f /\ f[i + 1] = e[i]
      BY <1>2
    <3>4. Lookup(f, m, null) = f[i + 1].value
      BY <1>8, <3>1, <3>3
    <3> QED BY <2>2, <3>2, <3>3, <3>4
  <2>3. CASE m # k /\ \A i \in DOMAIN e : e[i].key # m
    <3>1. \A i \in DOMAIN f : f[i].key # m
      BY <1>1, <1>2, <2>3
    <3> QED BY <1>7, <1>8, <2>3, <3>1
  <2> QED BY <2>1, <2>2, <2>3
<1>6. MapOf(f, K, null) = [MapOf(e, K, null) EXCEPT ![k] = v]
  BY <1>5 DEF MapOf
<1> QED BY <1>2, <1>4, <1>6 DEF f, c, CellList

\* The cell of a key taken out.
LEMMA TakeCellOut ==
  ASSUME NEW K, NEW V, NEW null,
         NEW e \in Seq(Cells(K, V)), KeysApart(e), NEW i \in DOMAIN e
  PROVE  /\ RemoveAt(e, i) \in Seq(Cells(K, V)) /\ KeysApart(RemoveAt(e, i))
         /\ MapOf(RemoveAt(e, i), K, null) = [MapOf(e, K, null) EXCEPT ![e[i].key] = null]
<1> DEFINE f == RemoveAt(e, i)  k == e[i].key
<1>7. /\ \A o \in DOMAIN e : Lookup(e, e[o].key, null) = e[o].value
      /\ \A m : (\A o \in DOMAIN e : e[o].key # m) => Lookup(e, m, null) = null
  BY LookupIn
<1>1. /\ f \in Seq(Cells(K, V)) /\ DOMAIN f = 1..(Len(e) - 1) /\ Len(e) \in Nat
      /\ \A n \in DOMAIN f : f[n] = IF n < i THEN e[n] ELSE e[n + 1]
      /\ DOMAIN e = 1..Len(e) /\ i \in 1..Len(e)
  BY RemoveAtIs
<1> HIDE DEF f
<1>2. ASSUME NEW n \in DOMAIN f
      PROVE  \E o \in DOMAIN e : o # i /\ f[n] = e[o] /\ o = IF n < i THEN n ELSE n + 1
  BY <1>1, <1>2
<1>3. ASSUME NEW o \in DOMAIN e, o # i  PROVE \E n \in DOMAIN f : f[n] = e[o]
  <2>1. CASE o < i
    BY <1>1, <2>1
  <2>2. CASE o > i
    <3>1. o - 1 \in DOMAIN f /\ f[o - 1] = e[o]
      BY <1>1, <2>2
    <3> QED BY <3>1
  <2> QED BY <1>1, <1>3, <2>1, <2>2
<1>4. KeysApart(f)
  <2> SUFFICES ASSUME NEW n \in DOMAIN f, NEW m \in DOMAIN f, f[n].key = f[m].key  PROVE n = m
    BY <1>1 DEF KeysApart
  <2>1. PICK n1 \in DOMAIN e : f[n] = e[n1] /\ n1 = IF n < i THEN n ELSE n + 1
    BY <1>2
  <2>2. PICK m1 \in DOMAIN e : f[m] = e[m1] /\ m1 = IF m < i THEN m ELSE m + 1
    BY <1>2
  <2>3. n1 = m1
    BY <2>1, <2>2 DEF KeysApart
  <2> QED BY <1>1, <2>1, <2>2, <2>3
<1>8. /\ \A o \in DOMAIN f : Lookup(f, f[o].key, null) = f[o].value
      /\ \A m : (\A o \in DOMAIN f : f[o].key # m) => Lookup(f, m, null) = null
  BY <1>4, LookupIn
<1>5. ASSUME NEW m \in K  PROVE Lookup(f, m, null) = IF m = k THEN null ELSE Lookup(e, m, null)
  <2>1. CASE m = k
    <3>1. \A n \in DOMAIN f : f[n].key # m
      BY <1>2, <2>1 DEF KeysApart
    <3> QED BY <1>8, <2>1, <3>1
  <2>2. CASE m # k /\ \E o \in DOMAIN e : e[o].key = m
    <3>1. PICK o \in DOMAIN e : e[o].key = m /\ o # i
      BY <2>2
    <3>2. PICK n \in DOMAIN f : f[n] = e[o]
      BY <1>3, <3>1
    <3>3. Lookup(e, m, null) = e[o].value
      BY <1>7, <3>1
    <3>4. Lookup(f, m, null) = f[n].value
      BY <1>8, <3>1, <3>2
    <3> QED BY <2>2, <3>2, <3>3, <3>4
  <2>3. CASE m # k /\ \A o \in DOMAIN e : e[o].key # m
    <3>1. \A n \in DOMAIN f : f[n].key # m
      BY <1>2, <2>3
    <3> QED BY <1>7, <1>8, <2>3, <3>1
  <2> QED BY <2>1, <2>2, <2>3
<1>6. MapOf(f, K, null) = [MapOf(e, K, null) EXCEPT ![k] = null]
  BY <1>5 DEF MapOf
<1> QED BY <1>1, <1>4, <1>6 DEF f


\* << x >> as the function that the refinement has for the answers.
LEMMA OneAnswer == \A x, y : << y >> = [<< x >> EXCEPT ![1] = y] /\ << y >> = [t \in {1} |-> y]
<1> TAKE x, y
<1>1. DOMAIN << y >> = {1} /\ << y >>[1] = y /\ DOMAIN << x >> = {1}
  OBVIOUS
<1>2. << y >> = [n \in 1..1 |-> y]
  OBVIOUS
<1> QED BY <1>1, <1>2
-----------------------------------------------------------------------------
LEMMA InsertAtElements ==
  ASSUME NEW S, NEW q \in Seq(S), NEW x \in S, NEW p \in 1..(Len(q) + 1)
  PROVE  /\ InsertAt(q, p, x) \in Seq(S)
         /\ Len(InsertAt(q, p, x)) = Len(q) + 1
         /\ DOMAIN InsertAt(q, p, x) = 1..(Len(q) + 1)
         /\ \A k \in 1..(Len(q) + 1) :
              InsertAt(q, p, x)[k] = IF k < p THEN q[k] ELSE IF k = p THEN x ELSE q[k - 1]
<1> DEFINE front == SubSeq(q, 1, p - 1)
           back  == SubSeq(q, p, Len(q))
           init  == front \o << x >>
           all   == init \o back
<1>1. /\ front \in Seq(S) /\ Len(front) = p - 1
      /\ \A k \in 1..(p - 1) : front[k] = q[k]
  OBVIOUS
<1>2. /\ back \in Seq(S) /\ Len(back) = Len(q) - p + 1
      /\ \A k \in 1..(Len(q) - p + 1) : back[k] = q[k + p - 1]
  OBVIOUS
<1> HIDE DEF front, back
<1>3. /\ init \in Seq(S) /\ Len(init) = p
      /\ \A k \in 1..p : init[k] = IF k < p THEN q[k] ELSE x
  BY <1>1
<1> HIDE DEF init
<1>4. /\ all \in Seq(S) /\ Len(all) = Len(q) + 1
      /\ \A k \in 1..(Len(q) + 1) : all[k] = IF k <= p THEN init[k] ELSE back[k - p]
  <2>1. /\ all \in Seq(S) /\ Len(all) = Len(init) + Len(back)
        /\ \A k \in 1..(Len(init) + Len(back)) :
             all[k] = IF k <= Len(init) THEN init[k] ELSE back[k - Len(init)]
    BY <1>2, <1>3, ConcatProperties
  <2>2. Len(init) = p /\ Len(init) + Len(back) = Len(q) + 1
    BY <1>2, <1>3
  <2> HIDE DEF all
  <2> QED BY <2>1, <2>2
<1>5. InsertAt(q, p, x) = all
  BY DEF InsertAt, front, back, init
<1> HIDE DEF all
<1>6. DOMAIN all = 1..(Len(q) + 1)
  BY <1>4
<1>7. ASSUME NEW k \in 1..(Len(q) + 1)
      PROVE  all[k] = IF k < p THEN q[k] ELSE IF k = p THEN x ELSE q[k - 1]
  <2>1. CASE k <= p
    BY <1>3, <1>4, <2>1
  <2>2. CASE k > p
    <3>1. all[k] = back[k - p] /\ k - p \in 1..(Len(q) - p + 1)
      BY <1>4, <2>2
    <3>2. back[k - p] = q[(k - p) + p - 1]
      BY <1>2, <3>1
    <3> QED BY <2>2, <3>1, <3>2
  <2> QED BY <2>1, <2>2
<1> QED BY <1>4, <1>5, <1>6, <1>7

\* The same sequence with x put in at place p, when it has no x.
LEMMA InsertAtApart ==
  ASSUME NEW S, NEW q \in Seq(S), IsInjective(q), NEW x \in S, x \notin ToSet(q), NEW p \in 1..(Len(q) + 1)
  PROVE  IsInjective(InsertAt(q, p, x)) /\ ToSet(InsertAt(q, p, x)) = ToSet(q) \cup {x}
<1> DEFINE r == InsertAt(q, p, x)
<1>1. /\ DOMAIN q = 1..Len(q) /\ Len(q) \in Nat /\ DOMAIN r = 1..(Len(q) + 1)
      /\ \A k \in 1..(Len(q) + 1) : r[k] = IF k < p THEN q[k] ELSE IF k = p THEN x ELSE q[k - 1]
  BY InsertAtElements
<1> HIDE DEF r
<1>2. r[p] = x
  BY <1>1
<1>3. ASSUME NEW k \in DOMAIN r, k # p
      PROVE  \E m \in DOMAIN q : r[k] = q[m] /\ m = IF k < p THEN k ELSE k - 1
  <2>1. CASE k < p
    BY <1>1, <2>1
  <2>2. CASE k > p
    <3>1. k - 1 \in DOMAIN q /\ r[k] = q[k - 1] /\ ~ (k < p)
      BY <1>1, <2>2
    <3> QED BY <3>1
  <2> QED BY <1>1, <1>3, <2>1, <2>2
<1>4. ASSUME NEW m \in DOMAIN q  PROVE \E k \in DOMAIN r : r[k] = q[m]
  <2>1. CASE m < p
    BY <1>1, <2>1
  <2>2. CASE m >= p
    <3>1. m + 1 \in DOMAIN r /\ r[m + 1] = q[m]
      BY <1>1, <2>2
    <3> QED BY <3>1
  <2> QED BY <1>1, <2>1, <2>2
<1>5. \A m \in DOMAIN q : q[m] # x
  BY DEF ToSet
<1>6. IsInjective(r)
  <2> SUFFICES ASSUME NEW k \in DOMAIN r, NEW m \in DOMAIN r, r[k] = r[m]  PROVE k = m
    BY DEF IsInjective
  <2>1. CASE k = p \/ m = p
    BY <1>2, <1>3, <1>5, <2>1
  <2>2. CASE k # p /\ m # p
    <3>1. PICK k1 \in DOMAIN q : r[k] = q[k1] /\ k1 = IF k < p THEN k ELSE k - 1
      BY <1>3, <2>2
    <3>2. PICK m1 \in DOMAIN q : r[m] = q[m1] /\ m1 = IF m < p THEN m ELSE m - 1
      BY <1>3, <2>2
    <3>3. k1 = m1
      BY <3>1, <3>2 DEF IsInjective
    <3> QED BY <1>1, <2>2, <3>1, <3>2, <3>3
  <2> QED BY <2>1, <2>2
<1>7. ToSet(r) = ToSet(q) \cup {x}
  <2>1. p \in DOMAIN r
    BY <1>1
  <2> QED BY <1>2, <1>3, <1>4, <2>1 DEF ToSet
<1> QED BY <1>6, <1>7 DEF r

\* The cells c of a doubly linked list that begins at h, forward by nx and
\* back by pv.
Forward(c, N, null, h, nx) ==
  /\ c \in Seq(N) /\ IsInjective(c)
  /\ h = IF Len(c) = 0 THEN null ELSE c[1]
  /\ \A i \in 1..Len(c) : nx[c[i]] = IF i = Len(c) THEN null ELSE c[i + 1]
Back(c, null, pv) == \A i \in 1..Len(c) : pv[c[i]] = IF i = 1 THEN null ELSE c[i - 1]

\* Two functions that have the same values at c.
Same(c, f, g) == \A i \in 1..Len(c) : f[c[i]] = g[c[i]]

LEMMA ForwardSame ==
  ASSUME NEW c, NEW N, NEW null, NEW h, NEW nx, Forward(c, N, null, h, nx), NEW m, Same(c, m, nx)
  PROVE  Forward(c, N, null, h, m)
BY DEF Forward, Same

LEMMA BackSame ==
  ASSUME NEW c, NEW null, NEW pv, Back(c, null, pv), NEW m, Same(c, m, pv)
  PROVE  Back(c, null, m)
BY DEF Back, Same

\* nx after n is linked in at place k of c.
NextIn(c, N, null, nx, n, k, m) == \A x \in N :
  m[x] = IF x = n THEN (IF k = Len(c) + 1 THEN null ELSE c[k])
         ELSE IF k > 1 /\ x = c[k - 1] THEN n ELSE nx[x]

LEMMA ForwardInsert ==
  ASSUME NEW N, NEW null, NEW c, NEW h, NEW nx, Forward(c, N, null, h, nx),
         NEW n \in N, n \notin ToSet(c), NEW k \in 1..(Len(c) + 1), NEW m, NextIn(c, N, null, nx, n, k, m)
  PROVE  Forward(InsertAt(c, k, n), N, null, IF k = 1 THEN n ELSE h, m)
<1> DEFINE d == InsertAt(c, k, n)  l == Len(c)
<1>1. /\ c \in Seq(N) /\ IsInjective(c) /\ l \in Nat /\ DOMAIN c = 1..l /\ \A i \in 1..l : c[i] \in N /\ c[i] # n
      /\ h = IF l = 0 THEN null ELSE c[1]
      /\ \A i \in 1..l : nx[c[i]] = IF i = l THEN null ELSE c[i + 1]
  BY DEF Forward, ToSet
<1>2. /\ d \in Seq(N) /\ Len(d) = l + 1 /\ IsInjective(d)
      /\ \A i \in 1..(l + 1) : d[i] = IF i < k THEN c[i] ELSE IF i = k THEN n ELSE c[i - 1]
  <2>1. c \in Seq(N) /\ IsInjective(c)
    BY <1>1
  <2> QED BY <2>1, InsertAtElements, InsertAtApart
<1>3. k \in Nat /\ 1 <= k /\ k <= l + 1
  <2>1. l \in Nat /\ k \in 1..(l + 1)
    BY <1>1
  <2> HIDE DEF l
  <2> QED BY <2>1
<1>11. /\ l \in Nat /\ (k > 1 => k - 1 \in 1..l)
       /\ \A i, j \in 1..l : c[i] = c[j] => i = j
  <2>1. l \in Nat /\ \A i, j \in 1..l : c[i] = c[j] => i = j
    BY <1>1 DEF IsInjective
  <2> HIDE DEF l
  <2> QED BY <1>3, <2>1
<1>4. m[n] = IF k = l + 1 THEN null ELSE c[k]
  BY DEF NextIn
<1>5. ASSUME NEW i \in 1..l, i # k - 1  PROVE m[c[i]] = nx[c[i]]
  <2>1. k > 1 => k - 1 \in 1..l /\ c[k - 1] # c[i]
    BY <1>5, <1>11
  <2> QED BY <1>1, <2>1 DEF NextIn
<1>6. k > 1 => m[c[k - 1]] = n
  <2>1. k > 1 => c[k - 1] \in N /\ c[k - 1] # n
    BY <1>1, <1>11
  <2> QED BY <2>1 DEF NextIn
<1> HIDE DEF d, l
<1>7. ASSUME NEW i \in 1..(l + 1)  PROVE m[d[i]] = IF i = l + 1 THEN null ELSE d[i + 1]
  <2>0. i \in Nat /\ 1 <= i /\ i <= l + 1
    BY <1>1
  <2>1. CASE i < k - 1
    <3>1. i \in 1..l /\ i + 1 \in 1..(l + 1) /\ i # k - 1 /\ i # l /\ i # l + 1 /\ i < k /\ i + 1 < k
      BY <1>1, <1>3, <2>0, <2>1
    <3>2. d[i] = c[i] /\ d[i + 1] = c[i + 1]
      BY <1>2, <3>1
    <3> QED BY <1>1, <1>5, <3>1, <3>2
  <2>2. CASE i = k - 1
    <3>1. i < k /\ k > 1 /\ i + 1 = k /\ k \in 1..(l + 1) /\ i # l + 1 /\ ~ (k < k)
      BY <1>3, <2>0, <2>2
    <3>2. d[i] = c[k - 1] /\ d[i + 1] = n
      BY <1>2, <2>2, <3>1
    <3> QED BY <1>6, <3>1, <3>2
  <2>3. CASE i = k
    <3>1. d[i] = n
      BY <1>2, <2>3
    <3>2. i # l + 1 => i + 1 \in 1..(l + 1) /\ ~ (i + 1 < k) /\ i + 1 # k /\ (i + 1) - 1 = k
      BY <1>1, <1>3, <2>0, <2>3
    <3>3. i # l + 1 => d[i + 1] = c[k]
      BY <1>2, <3>2
    <3> QED BY <1>4, <2>3, <3>1, <3>3
  <2>4. CASE i > k
    <3>1. /\ ~ (i < k) /\ i # k /\ i - 1 \in 1..l /\ i - 1 # k - 1 /\ (i - 1 = l <=> i = l + 1) /\ (i - 1) + 1 = i
          /\ (i # l + 1 => i + 1 \in 1..(l + 1) /\ ~ (i + 1 < k) /\ i + 1 # k /\ (i + 1) - 1 = i)
      BY <1>1, <1>3, <2>0, <2>4
    <3>2. d[i] = c[i - 1] /\ (i # l + 1 => d[i + 1] = c[i])
      BY <1>2, <3>1
    <3> QED BY <1>1, <1>5, <3>1, <3>2
  <2> QED BY <1>3, <2>0, <2>1, <2>2, <2>3, <2>4
<1>8. (IF k = 1 THEN n ELSE h) = d[1]
  <2>1. 1 \in 1..(l + 1) /\ (k # 1 => 1 < k /\ l # 0)
    BY <1>1, <1>3
  <2> QED BY <1>1, <1>2, <1>3, <2>1
<1>9. Len(d) # 0
  BY <1>1, <1>2
<1>10. Forward(d, N, null, IF k = 1 THEN n ELSE h, m)
  BY <1>2, <1>7, <1>8, <1>9 DEF Forward
<1> QED BY <1>10 DEF d

\* pv after n is linked in at place k of c.
PrevIn(c, N, null, pv, n, k, m) == \A x \in N :
  m[x] = IF x = n THEN (IF k = 1 THEN null ELSE c[k - 1])
         ELSE IF k <= Len(c) /\ x = c[k] THEN n ELSE pv[x]

LEMMA BackInsert ==
  ASSUME NEW N, NEW null, NEW c \in Seq(N), IsInjective(c), NEW pv, Back(c, null, pv),
         NEW n \in N, n \notin ToSet(c), NEW k \in 1..(Len(c) + 1), NEW m, PrevIn(c, N, null, pv, n, k, m)
  PROVE  Back(InsertAt(c, k, n), null, m)
<1> DEFINE d == InsertAt(c, k, n)  l == Len(c)
<1>1. /\ l \in Nat /\ DOMAIN c = 1..l /\ \A i \in 1..l : c[i] \in N /\ c[i] # n
      /\ \A i \in 1..l : pv[c[i]] = IF i = 1 THEN null ELSE c[i - 1]
  BY DEF Back, ToSet
<1>2. /\ Len(d) = l + 1
      /\ \A i \in 1..(l + 1) : d[i] = IF i < k THEN c[i] ELSE IF i = k THEN n ELSE c[i - 1]
  BY InsertAtElements
<1>3. k \in Nat /\ 1 <= k /\ k <= l + 1
  BY <1>1
<1>4. m[n] = IF k = 1 THEN null ELSE c[k - 1]
  BY DEF PrevIn
<1>5. ASSUME NEW i \in 1..l, i # k  PROVE m[c[i]] = pv[c[i]]
  <2>1. k <= l => k \in 1..l /\ c[k] # c[i]
    BY <1>1, <1>3, <1>5 DEF IsInjective
  <2> QED BY <1>1, <2>1 DEF PrevIn
<1>6. k <= l => m[c[k]] = n
  <2>1. k <= l => k \in 1..l
    BY <1>1, <1>3
  <2> QED BY <1>1, <2>1 DEF PrevIn
<1> HIDE DEF d, l
<1>7. ASSUME NEW i \in 1..(l + 1)  PROVE m[d[i]] = IF i = 1 THEN null ELSE d[i - 1]
  <2>0. i \in Nat /\ 1 <= i /\ i <= l + 1
    BY <1>1
  <2>1. CASE i < k
    <3>1. i \in 1..l /\ i # k /\ (i # 1 => i - 1 \in 1..(l + 1) /\ i - 1 < k)
      BY <1>1, <1>3, <2>0, <2>1
    <3>2. d[i] = c[i] /\ (i # 1 => d[i - 1] = c[i - 1])
      BY <1>2, <2>1, <3>1
    <3> QED BY <1>1, <1>5, <3>1, <3>2
  <2>2. CASE i = k
    <3>1. d[i] = n
      BY <1>2, <2>2
    <3>2. i # 1 => i - 1 \in 1..(l + 1) /\ i - 1 < k
      BY <1>1, <1>3, <2>0, <2>2
    <3>3. i # 1 => d[i - 1] = c[k - 1]
      BY <1>2, <2>2, <3>2
    <3> QED BY <1>4, <2>2, <3>1, <3>3
  <2>3. CASE i = k + 1
    <3>1. ~ (i < k) /\ i # k /\ i - 1 = k /\ k <= l /\ k \in 1..(l + 1) /\ i # 1 /\ ~ (k < k)
      BY <1>1, <1>3, <2>0, <2>3
    <3>2. d[i] = c[k] /\ d[i - 1] = n
      BY <1>2, <3>1
    <3> QED BY <1>6, <3>1, <3>2
  <2>4. CASE i > k + 1
    <3>1. /\ ~ (i < k) /\ i # k /\ i - 1 \in 1..l /\ i - 1 # k /\ i - 1 # 1 /\ i # 1
          /\ i - 1 \in 1..(l + 1) /\ ~ (i - 1 < k)
      BY <1>1, <1>3, <2>0, <2>4
    <3>2. d[i] = c[i - 1] /\ d[i - 1] = c[(i - 1) - 1]
      BY <1>2, <3>1
    <3> QED BY <1>1, <1>5, <3>1, <3>2
  <2> QED BY <1>3, <2>0, <2>1, <2>2, <2>3, <2>4
<1>8. Back(d, null, m)
  BY <1>2, <1>7 DEF Back
<1> QED BY <1>8 DEF d

\* The first cell of a list taken out.
LEMMA ForwardFirst ==
  ASSUME NEW N, NEW null, NEW c, NEW h, NEW nx, Forward(c, N, null, h, nx), Len(c) # 0
  PROVE  /\ Forward(RemoveAt(c, 1), N, null, nx[h], nx)
         /\ ToSet(RemoveAt(c, 1)) = ToSet(c) \ {h}
<1> DEFINE d == RemoveAt(c, 1)
<1>1. /\ c \in Seq(N) /\ IsInjective(c) /\ Len(c) \in Nat /\ DOMAIN c = 1..Len(c) /\ h = c[1] /\ 1 \in DOMAIN c
      /\ \A i \in 1..Len(c) : nx[c[i]] = IF i = Len(c) THEN null ELSE c[i + 1]
  BY DEF Forward
<1>2. d \in Seq(N) /\ Len(d) = Len(c) - 1 /\ IsInjective(d) /\ ToSet(d) = ToSet(c) \ {h}
  BY <1>1, RemoveAtElements
<1>3. DOMAIN d = 1..(Len(c) - 1) /\ \A i \in DOMAIN d : d[i] = IF i < 1 THEN c[i] ELSE c[i + 1]
  BY <1>1, RemoveAtIs
<1> HIDE DEF d
<1>4. \A i \in 1..(Len(c) - 1) : d[i] = c[i + 1]
  BY <1>3
<1>8. Len(c) \in Nat /\ Len(c) >= 1 /\ Len(d) = Len(c) - 1
  <2>1. c \in Seq(N)
    BY <1>1
  <2>2. Len(c) \in Nat /\ Len(c) >= 1
    BY <2>1
  <2> QED BY <1>2, <2>2
<1>5. nx[h] = IF Len(d) = 0 THEN null ELSE d[1]
  <2>1. 1 \in 1..Len(c) /\ (Len(d) = 0 <=> 1 = Len(c)) /\ (Len(d) # 0 => 1 \in 1..(Len(c) - 1))
    BY <1>8
  <2> QED BY <1>1, <1>4, <2>1
<1>6. ASSUME NEW i \in 1..Len(d)  PROVE nx[d[i]] = IF i = Len(d) THEN null ELSE d[i + 1]
  <2>1. /\ i \in 1..(Len(c) - 1) /\ i + 1 \in 1..Len(c) /\ (i + 1 = Len(c) <=> i = Len(d))
        /\ (i # Len(d) => i + 1 \in 1..(Len(c) - 1))
    BY <1>8
  <2> QED BY <1>1, <1>4, <2>1
<1>7. Forward(d, N, null, nx[h], nx)
  BY <1>2, <1>5, <1>6 DEF Forward
<1> QED BY <1>2, <1>7 DEF d

LEMMA BackFirst ==
  ASSUME NEW N, NEW null, NEW c \in Seq(N), Len(c) # 0, IsInjective(c), NEW pv, Back(c, null, pv),
         NEW m, \A x \in N : x # c[1] => m[x] = IF Len(c) > 1 /\ x = c[2] THEN null ELSE pv[x]
  PROVE  Back(RemoveAt(c, 1), null, m)
<1> DEFINE d == RemoveAt(c, 1)  l == Len(c)
<1>1. /\ l \in Nat /\ DOMAIN c = 1..l /\ \A i \in 1..l : c[i] \in N
      /\ \A i \in 1..l : pv[c[i]] = IF i = 1 THEN null ELSE c[i - 1]
  BY DEF Back
<1>2. /\ Len(d) = l - 1 /\ DOMAIN d = 1..(l - 1)
      /\ \A i \in DOMAIN d : d[i] = IF i < 1 THEN c[i] ELSE c[i + 1]
  <2>1. 1 \in DOMAIN c
    BY <1>1
  <2> QED BY <2>1, RemoveAtIs
<1>5. \A i \in 2..l : c[i] # c[1] /\ (l > 1 /\ i # 2 => c[i] # c[2])
  BY <1>1 DEF IsInjective
<1> HIDE DEF d, l
<1>4. \A i \in 1..(l - 1) : d[i] = c[i + 1]
  BY <1>2
<1>6. ASSUME NEW i \in 1..(l - 1)  PROVE m[d[i]] = IF i = 1 THEN null ELSE d[i - 1]
  <2>1. /\ i + 1 \in 2..l /\ i + 1 \in 1..l /\ l > 1 /\ (i + 1) - 1 = i /\ (i = 1 <=> i + 1 = 2) /\ i + 1 # 1
        /\ (i # 1 => i - 1 \in 1..(l - 1) /\ (i - 1) + 1 = i)
    BY <1>1
  <2>2. d[i] = c[i + 1] /\ c[i + 1] # c[1] /\ c[i + 1] \in N
    BY <1>1, <1>4, <1>5, <2>1
  <2>3. m[c[i + 1]] = IF c[i + 1] = c[2] THEN null ELSE pv[c[i + 1]]
    BY <2>1, <2>2 DEF l
  <2>4. CASE i = 1
    BY <2>1, <2>2, <2>3, <2>4
  <2>5. CASE i # 1
    <3>1. pv[c[i + 1]] = c[i] /\ d[i - 1] = c[i] /\ c[i + 1] # c[2]
      BY <1>1, <1>4, <1>5, <2>1, <2>5
    <3> QED BY <2>2, <2>3, <2>5, <3>1
  <2> QED BY <2>4, <2>5
<1>7. Back(d, null, m)
  BY <1>2, <1>6 DEF Back
<1> QED BY <1>7 DEF d

\* What the cells c hold.
DataOf(c, cell) == [i \in 1..Len(c) |-> cell[c[i]].data]
SameData(c, f, g, D) == \A i \in 1..Len(c) : f[c[i]].data = g[c[i]].data /\ g[c[i]].data \in D

LEMMA DataInsert ==
  ASSUME NEW N, NEW c \in Seq(N), NEW n \in N, NEW k \in 1..(Len(c) + 1),
         NEW D, NEW f, NEW g, SameData(c, f, g, D), f[n].data \in D
  PROVE  DataOf(InsertAt(c, k, n), f) = InsertAt(DataOf(c, g), k, f[n].data)
<1> DEFINE d == InsertAt(c, k, n)  l == Len(c)  a == DataOf(c, g)
           p == DataOf(d, f)  q == InsertAt(a, k, f[n].data)
<1>1. \A i \in 1..l : f[c[i]].data = g[c[i]].data /\ g[c[i]].data \in D
  BY DEF SameData
<1>2. a \in Seq(D) /\ Len(a) = l /\ \A i \in 1..l : a[i] = g[c[i]].data
  BY <1>1 DEF DataOf
<1>3. /\ l \in Nat /\ Len(d) = l + 1
      /\ \A i \in 1..(l + 1) : d[i] = IF i < k THEN c[i] ELSE IF i = k THEN n ELSE c[i - 1]
  <2>1. /\ Len(InsertAt(c, k, n)) = Len(c) + 1
        /\ \A i \in 1..(Len(c) + 1) : InsertAt(c, k, n)[i] = IF i < k THEN c[i] ELSE IF i = k THEN n ELSE c[i - 1]
    BY InsertAtElements
  <2>2. Len(c) \in Nat
    OBVIOUS
  <2> QED BY <2>1, <2>2
<1> HIDE DEF a
<1>4. /\ q \in Seq(D) /\ Len(q) = l + 1
      /\ \A i \in 1..(l + 1) : q[i] = IF i < k THEN a[i] ELSE IF i = k THEN f[n].data ELSE a[i - 1]
  <2>1. k \in 1..(Len(a) + 1)
    BY <1>2
  <2>2. /\ q \in Seq(D) /\ Len(q) = Len(a) + 1
        /\ \A i \in 1..(Len(a) + 1) : q[i] = IF i < k THEN a[i] ELSE IF i = k THEN f[n].data ELSE a[i - 1]
    <3>1. ASSUME NEW v \in D
          PROVE  /\ InsertAt(a, k, v) \in Seq(D) /\ Len(InsertAt(a, k, v)) = Len(a) + 1
                 /\ \A i \in 1..(Len(a) + 1) :
                      InsertAt(a, k, v)[i] = IF i < k THEN a[i] ELSE IF i = k THEN v ELSE a[i - 1]
      BY <1>2, <2>1, InsertAtElements
    <3> QED BY <3>1
  <2> HIDE DEF q
  <2> QED BY <1>2, <2>2
<1>5. k \in Nat /\ 1 <= k /\ k <= l + 1
  <2>1. k \in 1..(l + 1)
    OBVIOUS
  <2> HIDE DEF l
  <2> QED BY <1>3, <2>1
<1> HIDE DEF d, q, l
<1>6. ASSUME NEW i \in 1..(l + 1)  PROVE f[d[i]].data = q[i] /\ q[i] \in D
  <2>1. CASE i < k
    <3>1. i \in 1..l
      BY <1>3, <1>5, <2>1
    <3>2. d[i] = c[i] /\ q[i] = a[i]
      BY <1>3, <1>4, <2>1
    <3> QED BY <1>1, <1>2, <3>1, <3>2
  <2>2. CASE i = k
    <3>1. d[i] = n /\ q[i] = f[n].data
      BY <1>3, <1>4, <1>5, <2>2
    <3> QED BY <3>1
  <2>3. CASE i > k
    <3>1. i - 1 \in 1..l /\ ~ (i < k) /\ i # k
      BY <1>3, <1>5, <2>3
    <3>2. d[i] = c[i - 1] /\ q[i] = a[i - 1]
      BY <1>3, <1>4, <3>1
    <3> QED BY <1>1, <1>2, <3>1, <3>2
  <2> QED BY <1>3, <1>5, <2>1, <2>2, <2>3
<1>7. p \in Seq(D) /\ Len(p) = l + 1 /\ \A i \in 1..(l + 1) : p[i] = f[d[i]].data
  BY <1>3, <1>6 DEF DataOf
<1> HIDE DEF p
<1>8. p = q
  BY <1>4, <1>6, <1>7, SameSequence
<1> QED BY <1>8 DEF p, q, a, d

LEMMA DataFirst ==
  ASSUME NEW N, NEW c \in Seq(N), Len(c) # 0, NEW D, NEW f, NEW g, SameData(RemoveAt(c, 1), f, g, D),
         SameData(c, g, g, D)
  PROVE  /\ DataOf(c, g) # << >> /\ Head(DataOf(c, g)) = g[c[1]].data
         /\ DataOf(RemoveAt(c, 1), f) = Tail(DataOf(c, g))
<1> DEFINE d == RemoveAt(c, 1)  l == Len(c)  a == DataOf(c, g)  p == DataOf(d, f)  q == Tail(a)
<1>1. \A i \in 1..l : g[c[i]].data \in D
  BY DEF SameData
<1>2. /\ a \in Seq(D) /\ Len(a) = l /\ l \in Nat /\ l # 0 /\ \A i \in 1..l : a[i] = g[c[i]].data
  BY <1>1 DEF DataOf
<1>3. Len(d) = l - 1 /\ DOMAIN d = 1..(l - 1) /\ \A i \in DOMAIN d : d[i] = IF i < 1 THEN c[i] ELSE c[i + 1]
  BY RemoveAtIs
<1>4. \A i \in 1..(l - 1) : f[d[i]].data = g[d[i]].data
  BY <1>3 DEF SameData
<1> HIDE DEF a, d, l
<1>5. a # << >> /\ Head(a) = a[1] /\ 1 \in 1..l
  BY <1>2
<1>6. q \in Seq(D) /\ Len(q) = l - 1 /\ \A i \in 1..(l - 1) : q[i] = a[i + 1] /\ i + 1 \in 1..l
  BY <1>2, <1>5
<1> HIDE DEF q
<1>7. ASSUME NEW i \in 1..(l - 1)  PROVE f[d[i]].data = q[i] /\ q[i] \in D
  <2>0. i \in DOMAIN d /\ ~ (i < 1)
    BY <1>3
  <2>1. d[i] = c[i + 1] /\ i + 1 \in 1..l
    BY <1>3, <1>6, <2>0
  <2> QED BY <1>1, <1>2, <1>4, <1>6, <2>1
<1>8. p \in Seq(D) /\ Len(p) = l - 1 /\ \A i \in 1..(l - 1) : p[i] = f[d[i]].data
  <2>1. l - 1 \in Nat
    BY <1>2
  <2> QED BY <1>3, <1>7, <2>1 DEF DataOf
<1> HIDE DEF p
<1>9. p = q
  BY <1>6, <1>7, <1>8, SameSequence
<1> QED BY <1>2, <1>5, <1>9 DEF p, q, a, d

\* What Chain of PriQueueList follows.
ChainFrom(h, cell, n) ==
  LET at[i \in 1..n] == IF i = 1 THEN h ELSE cell[at[i - 1]].next IN [i \in 1..n |-> at[i]]

LEMMA ChainIs ==
  ASSUME NEW N, NEW null, NEW c, NEW h, NEW nx, Forward(c, N, null, h, nx),
         NEW cell, \A i \in 1..Len(c) : cell[c[i]].next = nx[c[i]]
  PROVE  ChainFrom(h, cell, Len(c)) = c
<1> DEFINE n == Len(c)
           Eq(f) == f = [i \in 1..n |-> IF i = 1 THEN h ELSE cell[f[i - 1]].next]
           at == CHOOSE f : Eq(f)
           J == {j \in 0..n : \A i \in 1..j : at[i] = c[i]}
<1>1. /\ c \in Seq(N) /\ n \in Nat /\ c = [i \in 1..n |-> c[i]]
      /\ h = IF n = 0 THEN null ELSE c[1]
      /\ \A i \in 1..n : nx[c[i]] = IF i = n THEN null ELSE c[i + 1]
  BY DEF Forward
<1>2. \A i \in 1..n : c[i] = IF i = 1 THEN h ELSE cell[c[i - 1]].next
  <2> TAKE i \in 1..n
  <2>1. i # 1 => i - 1 \in 1..n /\ i - 1 # n /\ (i - 1) + 1 = i
    BY <1>1
  <2> QED BY <1>1, <2>1
<1>3. Eq(c)
  <2> HIDE DEF n
  <2> QED BY <1>1, <1>2
<1>4. Eq(at)
  <2> HIDE DEF Eq
  <2> QED BY <1>3
<1> HIDE DEF at, n
<1>5. at = [i \in 1..n |-> IF i = 1 THEN h ELSE cell[at[i - 1]].next]
  BY <1>4
<1>6. \A i \in 1..n : at[i] = IF i = 1 THEN h ELSE cell[at[i - 1]].next
  BY <1>5
<1>7. 0 \in J
  BY <1>1
<1>8. ASSUME NEW j \in 0..(n - 1), j \in J  PROVE j + 1 \in J
  <2>1. j + 1 \in 0..n /\ j + 1 \in 1..n /\ (j + 1) - 1 = j /\ (j + 1 # 1 => j \in 1..j)
    BY <1>1
  <2>2. at[j + 1] = c[j + 1]
    BY <1>2, <1>6, <1>8, <2>1
  <2>3. \A i \in 1..(j + 1) : i \in 1..j \/ i = j + 1
    BY <2>1
  <2> QED BY <1>8, <2>1, <2>2, <2>3
<1>9. 0..n \subseteq J
  <2> HIDE DEF J
  <2> QED BY <1>1, <1>7, <1>8, InductionUpTo
<1>10. \A i \in 1..n : at[i] = c[i]
  <2>1. n \in 0..n
    BY <1>1
  <2> QED BY <1>9, <2>1
<1>11. ChainFrom(h, cell, n) = [i \in 1..n |-> at[i]]
  BY DEF ChainFrom, at
<1> QED BY <1>1, <1>10, <1>11 DEF n

\* Sequences that are cut and put together.
LEMMA ConcatIs ==
  ASSUME NEW S, NEW p \in Seq(S), NEW q \in Seq(S)
  PROVE  /\ p \o q \in Seq(S) /\ Len(p \o q) = Len(p) + Len(q) /\ Len(p) \in Nat /\ Len(q) \in Nat
         /\ DOMAIN (p \o q) = 1..(Len(p) + Len(q))
         /\ \A i \in 1..Len(p) : (p \o q)[i] = p[i]
         /\ \A i \in 1..Len(q) : (p \o q)[Len(p) + i] = q[i]
OBVIOUS

Assoc(p, q, r) == (p \o q) \o r = p \o (q \o r)
LEMMA ConcatAssoc ==
  ASSUME NEW S, NEW p \in Seq(S), NEW q \in Seq(S), NEW r \in Seq(S)
  PROVE  Assoc(p, q, r)
<1> DEFINE x == (p \o q) \o r  y == p \o (q \o r)  l == Len(p) + Len(q) + Len(r)
<1>1. /\ p \o q \in Seq(S) /\ Len(p \o q) = Len(p) + Len(q)
      /\ q \o r \in Seq(S) /\ Len(q \o r) = Len(q) + Len(r)
      /\ Len(p) \in Nat /\ Len(q) \in Nat /\ Len(r) \in Nat
  BY ConcatIs
<1>2. x \in Seq(S) /\ y \in Seq(S) /\ Len(x) = l /\ Len(y) = l
  BY <1>1, ConcatIs
<1>3. ASSUME NEW i \in 1..l PROVE x[i] = y[i]
  <2>1. CASE i <= Len(p)
    <3>1. i \in 1..Len(p) /\ i \in 1..Len(p \o q)
      BY <1>1, <2>1
    <3>2. x[i] = (p \o q)[i] /\ y[i] = p[i]
      BY <1>1, <3>1, ConcatIs
    <3>3. (p \o q)[i] = p[i]
      BY <3>1, ConcatIs
    <3> QED BY <3>2, <3>3
  <2>2. CASE Len(p) < i /\ i <= Len(p) + Len(q)
    <3> DEFINE j == i - Len(p)
    <3>1. j \in 1..Len(q) /\ i = Len(p) + j /\ i \in 1..Len(p \o q) /\ j \in 1..Len(q \o r)
      BY <1>1, <2>2
    <3> HIDE DEF j
    <3>2. x[i] = (p \o q)[i] /\ y[i] = (q \o r)[j]
      BY <1>1, <3>1, ConcatIs
    <3>3. (p \o q)[i] = q[j] /\ (q \o r)[j] = q[j]
      BY <3>1, ConcatIs
    <3> QED BY <3>2, <3>3
  <2>3. CASE Len(p) + Len(q) < i
    <3> DEFINE j == i - (Len(p) + Len(q))
    <3>1. j \in 1..Len(r) /\ i = Len(p \o q) + j /\ i = Len(p) + (Len(q) + j) /\ Len(q) + j \in 1..Len(q \o r)
      BY <1>1, <2>3
    <3> HIDE DEF j
    <3>2. x[i] = r[j] /\ y[i] = (q \o r)[Len(q) + j]
      BY <1>1, <3>1, ConcatIs
    <3>3. (q \o r)[Len(q) + j] = r[j]
      BY <3>1, ConcatIs
    <3> QED BY <3>2, <3>3
  <2> QED BY <1>1, <2>1, <2>2, <2>3
<1> HIDE DEF x, y
<1>4. x = y
  BY <1>2, <1>3, SameSequence
<1> QED BY <1>4 DEF x, y, Assoc

LEMMA ConcatEmpty == ASSUME NEW S, NEW q \in Seq(S) PROVE << >> \o q = q /\ q \o << >> = q
<1>1. << >> \in Seq(S) /\ Len(<< >>) = 0
  OBVIOUS
<1>2. /\ << >> \o q \in Seq(S) /\ Len(<< >> \o q) = Len(q) /\ \A i \in 1..Len(q) : (<< >> \o q)[i] = q[i]
      /\ q \o << >> \in Seq(S) /\ Len(q \o << >>) = Len(q) /\ \A i \in 1..Len(q) : (q \o << >>)[i] = q[i]
  BY <1>1
<1> QED BY <1>2, SameSequence

\* One unit goes from the sender to the wire.
LEMMA PassOn ==
  ASSUME NEW S, NEW w \in Seq(S), NEW u \in Seq(S), u # << >>
  PROVE  /\ Append(w, Head(u)) \in Seq(S) /\ Tail(u) \in Seq(S)
         /\ Append(w, Head(u)) \o Tail(u) = w \o u
<1>1. << Head(u) >> \in Seq(S) /\ Tail(u) \in Seq(S) /\ Append(w, Head(u)) \in Seq(S)
  OBVIOUS
<1>2. Append(w, Head(u)) = w \o << Head(u) >>
  OBVIOUS
<1>3. << Head(u) >> \o Tail(u) = u
  OBVIOUS
<1>4. Assoc(w, << Head(u) >>, Tail(u))
  BY <1>1, ConcatAssoc
<1> QED BY <1>1, <1>2, <1>3, <1>4 DEF Assoc

\* n units are read from the wire.
ReadsOn(m, w, u, n) == (m \o SubSeq(w, 1, n)) \o (SubSeq(w, n + 1, Len(w)) \o u) = m \o (w \o u)
LEMMA ReadOn ==
  ASSUME NEW S, NEW m \in Seq(S), NEW w \in Seq(S), NEW u \in Seq(S), NEW n \in 0..Len(w)
  PROVE  /\ m \o SubSeq(w, 1, n) \in Seq(S) /\ Len(m \o SubSeq(w, 1, n)) = Len(m) + n
         /\ SubSeq(w, n + 1, Len(w)) \in Seq(S)
         /\ ReadsOn(m, w, u, n)
<1> DEFINE a == SubSeq(w, 1, n)  b == SubSeq(w, n + 1, Len(w))
<1>1. a \in Seq(S) /\ b \in Seq(S) /\ Len(a) = n /\ Len(b) = Len(w) - n /\ Len(w) \in Nat
  OBVIOUS
<1>2. /\ \A i \in 1..Len(a) : a[i] = w[i]
      /\ \A i \in 1..Len(b) : b[i] = w[n + i]
  <2>1. \A i \in 1..n : a[i] = w[i]
    OBVIOUS
  <2>2. \A i \in 1..(Len(w) - n) : b[i] = w[n + i]
    OBVIOUS
  <2> QED BY <1>1, <2>1, <2>2
<1> HIDE DEF a, b
<1>0. a \in Seq(S) /\ b \in Seq(S)
  BY <1>1
<1>3. a \o b = w
  <2>1. a \o b \in Seq(S) /\ Len(a \o b) = Len(w)
    BY <1>1, ConcatIs
  <2>2. ASSUME NEW i \in 1..Len(w) PROVE (a \o b)[i] = w[i]
    <3>1. CASE i <= n
      BY <1>1, <1>2, <3>1, ConcatIs
    <3>2. CASE i > n
      <4> DEFINE j == i - n
      <4>1. j \in 1..Len(b) /\ i = Len(a) + j /\ i = n + j
        BY <1>1, <3>2
      <4> HIDE DEF j
      <4>2. (a \o b)[Len(a) + j] = b[j]
        BY <1>0, <4>1, ConcatIs
      <4> QED BY <1>2, <4>1, <4>2
    <3> QED BY <1>1, <3>1, <3>2
  <2> QED BY <2>1, <2>2, SameSequence
<1>4. (m \o a) \o (b \o u) = m \o (a \o (b \o u))
  <2>1. b \o u \in Seq(S)
    BY <1>0, ConcatIs
  <2>2. Assoc(m, a, b \o u)
    BY <1>0, <2>1, ConcatAssoc
  <2> QED BY <2>2 DEF Assoc
<1>5. a \o (b \o u) = (a \o b) \o u
  <2>1. Assoc(a, b, u)
    BY <1>0, ConcatAssoc
  <2> QED BY <2>1 DEF Assoc
<1>6. m \o a \in Seq(S) /\ Len(m \o a) = Len(m) + n
  BY <1>1, ConcatIs
<1> QED BY <1>1, <1>3, <1>4, <1>5, <1>6 DEF a, b, ReadsOn

LEMMA SplitSame ==
  ASSUME NEW S, NEW m \in Seq(S), NEW r \in Seq(S), NEW x \in Seq(S), NEW y \in Seq(S),
         m \o r = x \o y, Len(m) = Len(x)
  PROVE  m = x /\ r = y
<1>1. /\ Len(m) \in Nat /\ Len(r) \in Nat /\ Len(y) \in Nat /\ Len(r) = Len(y)
      /\ \A i \in 1..Len(m) : m[i] = x[i]
  BY ConcatIs
<1>2. \A i \in 1..Len(r) : r[i] = y[i]
  <2> TAKE i \in 1..Len(r)
  <2>1. (m \o r)[Len(m) + i] = r[i] /\ (x \o y)[Len(x) + i] = y[i]
    BY <1>1, ConcatIs
  <2> QED BY <2>1
<1> QED BY <1>1, <1>2, SameSequence

\* Of the line x and what follows it m has been read: when there is a newline
\* in m it is the one that ends x.
EndsOf(m, nl) == {i \in DOMAIN m : m[i] = nl}
LineFirst(m, r, x, nl, y) ==
  /\ m \o r = (x \o << nl >>) \o y
  /\ (\A i \in 1..Len(x) : x[i] # nl) /\ EndsOf(m, nl) # {}
LineRead(m, r, x, nl, y) ==
  /\ Min(EndsOf(m, nl)) = Len(x) + 1 /\ Len(x) + 1 <= Len(m)
  /\ m[Len(x) + 1] = nl /\ SubSeq(m, 1, Len(x)) = x
  /\ Len(m) = Len(x) + 1 => r = y
  /\ y = << >> => Len(m) = Len(x) + 1
LEMMA LineIsRead ==
  ASSUME NEW S, NEW m \in Seq(S), NEW r \in Seq(S), NEW x \in Seq(S), NEW nl \in S, NEW y \in Seq(S),
         LineFirst(m, r, x, nl, y)
  PROVE  LineRead(m, r, x, nl, y)
<1> DEFINE l == x \o << nl >>  e == Len(x) + 1
<1>1. << nl >> \in Seq(S) /\ Len(<< nl >>) = 1 /\ << nl >>[1] = nl
  OBVIOUS
<1>2. l \in Seq(S) /\ Len(l) = e /\ Len(x) \in Nat /\ (\A i \in 1..Len(x) : l[i] = x[i]) /\ l[e] = nl
  <2>1. l \in Seq(S) /\ Len(l) = e /\ Len(x) \in Nat /\ \A i \in 1..Len(x) : l[i] = x[i]
    BY <1>1, ConcatIs
  <2>2. (x \o << nl >>)[Len(x) + 1] = << nl >>[1]
    BY <1>1, ConcatIs
  <2> QED BY <1>1, <2>1, <2>2
<1>3. m \o r = l \o y /\ (\A i \in 1..Len(x) : x[i] # nl) /\ EndsOf(m, nl) # {}
  BY DEF LineFirst
<1> HIDE DEF l
<1>4. /\ Len(m) + Len(r) = e + Len(y) /\ Len(m) \in Nat /\ Len(r) \in Nat /\ Len(y) \in Nat
      /\ \A i \in 1..Len(m) : (m \o r)[i] = m[i]
      /\ \A i \in 1..e : (l \o y)[i] = l[i]
  <2>1. /\ Len(m \o r) = Len(m) + Len(r) /\ Len(m) \in Nat /\ Len(r) \in Nat
        /\ \A i \in 1..Len(m) : (m \o r)[i] = m[i]
    BY ConcatIs
  <2>2. Len(l \o y) = Len(l) + Len(y) /\ Len(y) \in Nat /\ \A i \in 1..Len(l) : (l \o y)[i] = l[i]
    <3>1. l \in Seq(S)
      BY <1>2
    <3> QED BY <3>1, ConcatIs
  <2> QED BY <1>2, <1>3, <2>1, <2>2
<1>5. \A i \in DOMAIN m : i \in 1..Len(m) /\ (i < e => m[i] # nl) /\ (i <= e => m[i] = l[i])
  <2> TAKE i \in DOMAIN m
  <2>1. i \in 1..Len(m) /\ (m \o r)[i] = m[i]
    BY <1>4
  <2>2. ASSUME i <= e PROVE m[i] = l[i]
    <3>1. i \in 1..e
      BY <1>4, <2>1, <2>2
    <3> QED BY <1>3, <1>4, <2>1, <3>1
  <2>3. ASSUME i < e PROVE m[i] # nl
    <3>1. i <= e /\ i \in 1..Len(x)
      BY <1>2, <1>4, <2>1, <2>3
    <3> QED BY <1>2, <1>3, <2>2, <3>1
  <2> QED BY <2>1, <2>2, <2>3
<1>6. PICK k \in EndsOf(m, nl) : TRUE
  BY <1>3
<1>7. k \in DOMAIN m /\ m[k] = nl
  BY <1>6 DEF EndsOf
<1>8. e <= k /\ k <= Len(m) /\ e \in DOMAIN m
  BY <1>2, <1>4, <1>5, <1>7
<1>9. m[e] = nl /\ e \in EndsOf(m, nl)
  BY <1>2, <1>5, <1>8 DEF EndsOf
<1>10. \A i \in EndsOf(m, nl) : i \in Int /\ e <= i
  BY <1>2, <1>5 DEF EndsOf
<1>11. Min(EndsOf(m, nl)) = e
  BY <1>2, <1>9, <1>10 DEF Min
<1>12. SubSeq(m, 1, Len(x)) = x
  <2>1. /\ SubSeq(m, 1, Len(x)) \in Seq(S) /\ Len(SubSeq(m, 1, Len(x))) = Len(x)
        /\ \A i \in 1..Len(x) : SubSeq(m, 1, Len(x))[i] = m[i]
    BY <1>2, <1>4, <1>8
  <2>2. \A i \in 1..Len(x) : m[i] = x[i]
    BY <1>2, <1>4, <1>5, <1>8
  <2> QED BY <1>2, <2>1, <2>2, SameSequence
<1>13. ASSUME Len(m) = e PROVE r = y
  BY <1>2, <1>3, <1>13, SplitSame
<1>14. ASSUME y = << >> PROVE Len(m) = e
  BY <1>2, <1>4, <1>8, <1>14
<1> QED BY <1>4, <1>8, <1>9, <1>11, <1>12, <1>13, <1>14 DEF LineRead
=============================================================================
