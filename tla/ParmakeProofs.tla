--------------------------- MODULE ParmakeProofs ----------------------------
(***************************************************************************)
(* What the parser announces, for any makefile and any targets; and what a *)
(* build with one thread does with it, for any disk: no rule is lost or    *)
(* run twice, dependencies come first, and what is there at the end is up  *)
(* to date.                                                                *)
(***************************************************************************)
EXTENDS Parmake, FoldProofs

Lists(R) == [valid : Seq(R), rules : Seq(R)]

\* The test of a scan, as a set of pairs of a rule and the set of the valid ones,
\* and what the scan does with a rule.
Matching(R) == {rw \in R \X SUBSET R : \E v \in rw[2] : rw[1].target \in ToSet(v.deps)}
Wanted(R, targets) == {rw \in R \X SUBSET R : rw[1].target \in ToSet(targets)}
Sorted(M, l, r) ==
  IF << r, ToSet(l.valid) >> \in M THEN [l EXCEPT !.valid = Append(@, r)]
                                   ELSE [l EXCEPT !.rules = Append(@, r)]

ScanWith(M, g, l) ==
  /\ g[0] = [valid |-> l.valid, rules |-> << >>]
  /\ \A k \in 1..Len(l.rules) :
       g[k] = Sorted(M, g[k - 1], l.rules[k])

LEMMA SortedType ==
  ASSUME NEW R, NEW l \in Lists(R), NEW r \in R, NEW M
  PROVE  Sorted(M, l, r) \in Lists(R)
<1>1. l = [valid |-> l.valid, rules |-> l.rules] /\ l.valid \in Seq(R) /\ l.rules \in Seq(R)
  BY DEF Lists
<1>2. Append(l.valid, r) \in Seq(R) /\ Append(l.rules, r) \in Seq(R)
  BY <1>1
<1> QED BY <1>1, <1>2 DEF Sorted, Lists

LEMMA SortedLength ==
  ASSUME NEW R, NEW l \in Lists(R), NEW r \in R, NEW M, NEW f, f = Sorted(M, l, r)
  PROVE  Len(f.valid) + Len(f.rules) = (Len(l.valid) + Len(l.rules)) + 1
<1>1. l = [valid |-> l.valid, rules |-> l.rules] /\ l.valid \in Seq(R) /\ l.rules \in Seq(R)
  BY DEF Lists
<1>2. \/ f.valid = Append(l.valid, r) /\ f.rules = l.rules
      \/ f.rules = Append(l.rules, r) /\ f.valid = l.valid
  BY <1>1 DEF Sorted
<1>3. Len(Append(l.valid, r)) = Len(l.valid) + 1 /\ Len(Append(l.rules, r)) = Len(l.rules) + 1
  BY <1>1
<1>4. Len(l.valid) \in Nat /\ Len(l.rules) \in Nat
  BY <1>1
<1>5. \A a, b \in Nat : (a + 1) + b = (a + b) + 1 /\ a + (b + 1) = (a + b) + 1
  OBVIOUS
<1> QED BY <1>2, <1>3, <1>4, <1>5, ZenonT(60)

LEMMA MatchScan ==
  ASSUME NEW R, NEW l \in Lists(R)
  PROVE  \E g \in [0..Len(l.rules) -> Lists(R)] :
           ScanWith(Matching(R), g, l) /\ Scan(l) = g[Len(l.rules)]
<1> DEFINE s == l.rules
           n == Len(s)
           V == Lists(R)
           M == Matching(R)
           base == [valid |-> l.valid, rules |-> << >>]
           h == [vk \in V \X (1..n) |-> Sorted(M, vk[1], s[vk[2]])]
           Moved(v, r) == IF findMatch(r, v.valid) THEN [v EXCEPT !.valid = Append(@, r)]
                                                   ELSE [v EXCEPT !.rules = Append(@, r)]
           It(f) == f = [S \in SUBSET DOMAIN s |->
                           IF S = {} THEN base
                           ELSE LET x == Max(S)
                                IN  IF findMatch(s[x], f[S \ {x}].valid)
                                    THEN [f[S \ {x}] EXCEPT !.valid = Append(@, s[x])]
                                    ELSE [f[S \ {x}] EXCEPT !.rules = Append(@, s[x])]]
           it == CHOOSE f : It(f)
<1>1. Scan(l) = it[DOMAIN s]
  BY Zenon DEF Scan, FoldLeft, MapThenFoldSet, Sort
<1>2. s \in Seq(R) /\ n \in Nat /\ DOMAIN s = 1..n /\ base \in V
  BY DEF Lists
<1>3. \A v \in V, k \in 1..n :
        /\ h[<< v, k >>] = Sorted(M, v, s[k])
        /\ h[<< v, k >>] \in V
  <2> TAKE v \in V, k \in 1..n
  <2>1. h[<< v, k >>] = Sorted(M, v, s[k])
    OBVIOUS
  <2> QED BY <1>2, <2>1, SortedType
<1>m. \A v \in V, r \in R : Moved(v, r) = Sorted(M, v, r)
  <2> TAKE v \in V, r \in R
  <2>1. ToSet(v.valid) \in SUBSET R
    BY DEF Lists, ToSet
  <2>2. findMatch(r, v.valid) <=> << r, ToSet(v.valid) >> \in M
    BY <2>1 DEF findMatch, Matching
  <2> QED BY <2>2 DEF Sorted
<1>s. \A k \in 1..n : s[k] \in R
  BY <1>2
<1>0. h \in [V \X (1..n) -> V]
  <2>1. h = [vk \in V \X (1..n) |-> h[vk]]
    OBVIOUS
  <2>2. \A vk \in V \X (1..n) : h[vk] \in V
    <3> HIDE DEF h
    <3> QED BY <1>3
  <2> HIDE DEF h
  <2> QED BY <2>1, <2>2
<1> HIDE DEF h, V, base, s, n, M, It, Moved
<1>4. PICK f \in [SUBSET (1..n) -> V] : IsIter(f, base, h, n)
  <2> HIDE DEF it
  <2> QED BY <1>0, <1>2, IterExists
<1>5. It(f)
  <2>1. f = [S \in SUBSET (1..n) |-> f[S]]
    OBVIOUS
  <2>2. ASSUME NEW S \in SUBSET (1..n), S # {}
        PROVE  f[S] = Moved(f[S \ {Max(S)}], s[Max(S)])
    <3>1. Max(S) \in 1..n /\ f[S \ {Max(S)}] \in V
      BY <1>2, <2>2, MaxOfSome
    <3> QED BY <1>3, <1>4, <1>m, <1>s, <2>2, <3>1, ZenonT(60) DEF IsIter
  <2>3. f = [S \in SUBSET (1..n) |-> IF S = {} THEN base ELSE Moved(f[S \ {Max(S)}], s[Max(S)])]
    BY <1>4, <2>1, <2>2 DEF IsIter
  <2> QED BY <1>2, <2>3, Zenon DEF Moved, It
<1>6. It(it)
  BY <1>5
<1>7. it[{}] = base
  BY <1>2, <1>6 DEF It
<1>8. ASSUME NEW S \in SUBSET (1..n), S # {}, it[S \ {Max(S)}] \in V
      PROVE  it[S] = h[<< it[S \ {Max(S)}], Max(S) >>]
  <2>1. Max(S) \in 1..n
    BY <1>2, <1>8, MaxOfSome
  <2>2. it = [T \in SUBSET (1..n) |-> IF T = {} THEN base ELSE Moved(it[T \ {Max(T)}], s[Max(T)])]
    <3> HIDE DEF it
    <3> QED BY <1>2, <1>6, Zenon DEF Moved, It
  <2>3. it[S] = Moved(it[S \ {Max(S)}], s[Max(S)])
    <3> HIDE DEF it
    <3> QED BY <1>8, <2>2
  <2> HIDE DEF it
  <2> QED BY <1>3, <1>8, <1>m, <1>s, <2>1, <2>3, ZenonT(60)
<1> HIDE DEF it
<1>9. PICK g \in [0..n -> V] : IsLoop(g, base, h, n) /\ it[1..n] = g[n]
  <2>1. IterOn(it, V, base, h, n)
    BY <1>7, <1>8 DEF IterOn
  <2>2. n \in Nat /\ base \in V
    BY <1>2
  <2>3. LoopResult(it[1..n], V, base, h, n)
    BY <1>0, <2>1, <2>2, IterSteps
  <2> QED BY <2>3 DEF LoopResult
<1>10. \A k \in 1..n : g[k] = Sorted(M, g[k - 1], s[k])
  <2> TAKE k \in 1..n
  <2>1. k - 1 \in 0..n /\ g[k - 1] \in V
    BY <1>2
  <2> QED BY <1>3, <1>9, <2>1 DEF IsLoop
<1>11. ScanWith(M, g, l)
  BY <1>9, <1>10 DEF ScanWith, IsLoop, base, s, n
<1> QED BY <1>1, <1>2, <1>9, <1>11 DEF V, M, s, n
Unsorted(rules) == [valid |-> << >>, rules |-> rules]

LEMMA WantedScan ==
  ASSUME NEW R, NEW rules \in Seq(R), NEW targets
  PROVE  \E g \in [0..Len(rules) -> Lists(R)] :
           ScanWith(Wanted(R, targets), g, Unsorted(rules)) /\ InitialLists(rules, targets) = g[Len(rules)]
<1> DEFINE l == Unsorted(rules)
           s == rules
           n == Len(s)
           V == Lists(R)
           M == Wanted(R, targets)
           base == [valid |-> l.valid, rules |-> << >>]
           h == [vk \in V \X (1..n) |-> Sorted(M, vk[1], s[vk[2]])]
           Moved(v, r) == IF r.target \in ToSet(targets) THEN [v EXCEPT !.valid = Append(@, r)]
                                                   ELSE [v EXCEPT !.rules = Append(@, r)]
           It(f) == f = [S \in SUBSET DOMAIN s |->
                           IF S = {} THEN base
                           ELSE LET x == Max(S)
                                IN  IF s[x].target \in ToSet(targets)
                                    THEN [f[S \ {x}] EXCEPT !.valid = Append(@, s[x])]
                                    ELSE [f[S \ {x}] EXCEPT !.rules = Append(@, s[x])]]
           it == CHOOSE f : It(f)
<1>1. InitialLists(rules, targets) = it[DOMAIN s]
  BY Zenon DEF Unsorted, InitialLists, FoldLeft, MapThenFoldSet, Sort
<1>2. s \in Seq(R) /\ n \in Nat /\ DOMAIN s = 1..n /\ base \in V /\ l \in Lists(R)
  BY DEF Lists, Unsorted
<1>3. \A v \in V, k \in 1..n :
        /\ h[<< v, k >>] = Sorted(M, v, s[k])
        /\ h[<< v, k >>] \in V
  <2> TAKE v \in V, k \in 1..n
  <2>1. h[<< v, k >>] = Sorted(M, v, s[k])
    OBVIOUS
  <2> QED BY <1>2, <2>1, SortedType
<1>m. \A v \in V, r \in R : Moved(v, r) = Sorted(M, v, r)
  <2> TAKE v \in V, r \in R
  <2>1. ToSet(v.valid) \in SUBSET R
    BY DEF Lists, ToSet
  <2>2. r.target \in ToSet(targets) <=> << r, ToSet(v.valid) >> \in M
    BY <2>1 DEF Wanted
  <2> QED BY <2>2 DEF Sorted
<1>s. \A k \in 1..n : s[k] \in R
  BY <1>2
<1>0. h \in [V \X (1..n) -> V]
  <2>1. h = [vk \in V \X (1..n) |-> h[vk]]
    OBVIOUS
  <2>2. \A vk \in V \X (1..n) : h[vk] \in V
    <3> HIDE DEF h
    <3> QED BY <1>3
  <2> HIDE DEF h
  <2> QED BY <2>1, <2>2
<1> HIDE DEF h, V, base, s, n, M, It, Moved
<1>4. PICK f \in [SUBSET (1..n) -> V] : IsIter(f, base, h, n)
  <2> HIDE DEF it
  <2> QED BY <1>0, <1>2, IterExists
<1>5. It(f)
  <2>1. f = [S \in SUBSET (1..n) |-> f[S]]
    OBVIOUS
  <2>2. ASSUME NEW S \in SUBSET (1..n), S # {}
        PROVE  f[S] = Moved(f[S \ {Max(S)}], s[Max(S)])
    <3>1. Max(S) \in 1..n /\ f[S \ {Max(S)}] \in V
      BY <1>2, <2>2, MaxOfSome
    <3> QED BY <1>3, <1>4, <1>m, <1>s, <2>2, <3>1, ZenonT(60) DEF IsIter
  <2>3. f = [S \in SUBSET (1..n) |-> IF S = {} THEN base ELSE Moved(f[S \ {Max(S)}], s[Max(S)])]
    BY <1>4, <2>1, <2>2 DEF IsIter
  <2> QED BY <1>2, <2>3, Zenon DEF Moved, It
<1>6. It(it)
  BY <1>5
<1>7. it[{}] = base
  BY <1>2, <1>6 DEF It
<1>8. ASSUME NEW S \in SUBSET (1..n), S # {}, it[S \ {Max(S)}] \in V
      PROVE  it[S] = h[<< it[S \ {Max(S)}], Max(S) >>]
  <2>1. Max(S) \in 1..n
    BY <1>2, <1>8, MaxOfSome
  <2>2. it = [T \in SUBSET (1..n) |-> IF T = {} THEN base ELSE Moved(it[T \ {Max(T)}], s[Max(T)])]
    <3> HIDE DEF it
    <3> QED BY <1>2, <1>6, Zenon DEF Moved, It
  <2>3. it[S] = Moved(it[S \ {Max(S)}], s[Max(S)])
    <3> HIDE DEF it
    <3> QED BY <1>8, <2>2
  <2> HIDE DEF it
  <2> QED BY <1>3, <1>8, <1>m, <1>s, <2>1, <2>3, ZenonT(60)
<1> HIDE DEF it
<1>9. PICK g \in [0..n -> V] : IsLoop(g, base, h, n) /\ it[1..n] = g[n]
  <2>1. IterOn(it, V, base, h, n)
    BY <1>7, <1>8 DEF IterOn
  <2>2. n \in Nat /\ base \in V
    BY <1>2
  <2>3. LoopResult(it[1..n], V, base, h, n)
    BY <1>0, <2>1, <2>2, IterSteps
  <2> QED BY <2>3 DEF LoopResult
<1>10. \A k \in 1..n : g[k] = Sorted(M, g[k - 1], s[k])
  <2> TAKE k \in 1..n
  <2>1. k - 1 \in 0..n /\ g[k - 1] \in V
    BY <1>2
  <2> QED BY <1>3, <1>9, <2>1 DEF IsLoop
<1>11. ScanWith(M, g, l)
  BY <1>9, <1>10 DEF ScanWith, IsLoop, base, s, n, Unsorted
<1> QED BY <1>1, <1>2, <1>9, <1>11 DEF V, M, s, n
-----------------------------------------------------------------------------
\* No rule is twice in the lists.
Apart(l) == IsInjective(l.valid) /\ IsInjective(l.rules) /\ ToSet(l.valid) \cap ToSet(l.rules) = {}

\* The lists e that the rules of s, in the order of a scan, make of the lists l.
Scanned(M, R, l, e, s) ==
  /\ Apart(e) /\ ToSet(l.valid) \subseteq ToSet(e.valid) /\ ToSet(e.rules) \subseteq s
  /\ ToSet(e.valid) \cup ToSet(e.rules) = ToSet(l.valid) \cup s
  /\ \A C \in SUBSET R :
       ToSet(l.valid) \subseteq C /\ (\A r \in R, W \in SUBSET C : << r, W >> \in M => r \in C)
         => ToSet(e.valid) \subseteq C
  /\ \A r \in ToSet(e.rules) : \E W \in SUBSET R : << r, W >> \notin M
  /\ \/ e.valid = l.valid /\ \A r \in s : << r, ToSet(l.valid) >> \notin M
     \/ Len(e.valid) > Len(l.valid) /\ \E r \in s : << r, ToSet(l.valid) >> \in M

LEMMA ScanStep ==
  ASSUME NEW R, NEW M, NEW l \in Lists(R), NEW e \in Lists(R), NEW s \in SUBSET R, NEW r \in R, NEW f,
         Scanned(M, R, l, e, s), r \notin s, r \notin ToSet(l.valid), f = Sorted(M, e, r)
  PROVE  Scanned(M, R, l, f, s \cup {r})
<1> DEFINE t == s \cup {r}
<1>1. /\ e = [valid |-> e.valid, rules |-> e.rules] /\ e.valid \in Seq(R) /\ e.rules \in Seq(R)
      /\ l.valid \in Seq(R) /\ {Len(e.valid), Len(e.rules), Len(l.valid)} \subseteq Nat
  BY DEF Lists
<1>2. r \notin ToSet(e.valid) /\ r \notin ToSet(e.rules)
  BY DEF Scanned
<1>3. CASE << r, ToSet(e.valid) >> \in M
  <2>1. f.valid = Append(e.valid, r) /\ f.rules = e.rules
    BY <1>1, <1>3 DEF Sorted
  <2>2. /\ Len(f.valid) = Len(e.valid) + 1 /\ ToSet(f.valid) = ToSet(e.valid) \cup {r}
        /\ IsInjective(f.valid)
    <3>1. IsInjective(e.valid)
      BY DEF Scanned, Apart
    <3> QED BY <1>1, <1>2, <2>1, <3>1, AppendElements
  <2>4. /\ Apart(f) /\ ToSet(l.valid) \subseteq ToSet(f.valid) /\ ToSet(f.rules) \subseteq t
        /\ ToSet(f.valid) \cup ToSet(f.rules) = ToSet(l.valid) \cup t
    BY <1>2, <2>1, <2>2 DEF Scanned, Apart
  <2>5. ASSUME NEW C \in SUBSET R, ToSet(l.valid) \subseteq C,
               \A q \in R, W \in SUBSET C : << q, W >> \in M => q \in C
        PROVE  ToSet(f.valid) \subseteq C
    <3>1. ToSet(e.valid) \subseteq C
      BY <2>5 DEF Scanned
    <3>2. r \in C
      BY <1>3, <2>5, <3>1
    <3> QED BY <2>2, <3>1, <3>2
  <2>6. \A q \in ToSet(f.rules) : \E W \in SUBSET R : << q, W >> \notin M
    BY <2>1 DEF Scanned
  <2>7. Len(f.valid) > Len(l.valid) /\ \E q \in t : << q, ToSet(l.valid) >> \in M
    <3>1. CASE e.valid = l.valid
      <4>1. Len(f.valid) > Len(l.valid)
        BY <1>1, <2>2, <3>1
      <4>2. << r, ToSet(l.valid) >> \in M
        BY <1>3, <3>1
      <4> QED BY <4>1, <4>2
    <3>2. CASE Len(e.valid) > Len(l.valid) /\ \E q \in s : << q, ToSet(l.valid) >> \in M
      <4>1. Len(f.valid) > Len(l.valid)
        BY <1>1, <2>2, <3>2
      <4> QED BY <3>2, <4>1
    <3> QED BY <3>1, <3>2 DEF Scanned
  <2> QED BY <2>4, <2>5, <2>6, <2>7 DEF Scanned
<1>4. CASE << r, ToSet(e.valid) >> \notin M
  <2>1. f.valid = e.valid /\ f.rules = Append(e.rules, r)
    BY <1>1, <1>4 DEF Sorted
  <2>2. /\ Len(f.rules) = Len(e.rules) + 1 /\ ToSet(f.rules) = ToSet(e.rules) \cup {r}
        /\ IsInjective(f.rules)
    <3>1. IsInjective(e.rules)
      BY DEF Scanned, Apart
    <3> QED BY <1>1, <1>2, <2>1, <3>1, AppendElements
  <2>4. /\ Apart(f) /\ ToSet(l.valid) \subseteq ToSet(f.valid) /\ ToSet(f.rules) \subseteq t
        /\ ToSet(f.valid) \cup ToSet(f.rules) = ToSet(l.valid) \cup t
    BY <1>2, <2>1, <2>2 DEF Scanned, Apart
  <2>5. \A C \in SUBSET R :
          ToSet(l.valid) \subseteq C /\ (\A q \in R, W \in SUBSET C : << q, W >> \in M => q \in C)
            => ToSet(f.valid) \subseteq C
    BY <2>1 DEF Scanned
  <2>6. \A q \in ToSet(f.rules) : \E W \in SUBSET R : << q, W >> \notin M
    <3>1. ToSet(e.valid) \in SUBSET R
      BY <1>1 DEF ToSet
    <3> QED BY <1>4, <2>2, <3>1 DEF Scanned
  <2>7. \/ f.valid = l.valid /\ \A q \in t : << q, ToSet(l.valid) >> \notin M
        \/ Len(f.valid) > Len(l.valid) /\ \E q \in t : << q, ToSet(l.valid) >> \in M
    BY <1>4, <2>1 DEF Scanned
  <2> QED BY <2>4, <2>5, <2>6, <2>7 DEF Scanned
<1> QED BY <1>3, <1>4

InScan(M, R, l, g, k) ==
  /\ Scanned(M, R, l, g[k], {l.rules[i] : i \in 1..k})
  /\ Len(g[k].valid) + Len(g[k].rules) = Len(l.valid) + k

LEMMA ScanFacts ==
  ASSUME NEW R, NEW M, NEW l \in Lists(R), Apart(l), NEW g \in [0..Len(l.rules) -> Lists(R)], ScanWith(M, g, l)
  PROVE  LET e == g[Len(l.rules)]
         IN  /\ e \in Lists(R) /\ Scanned(M, R, l, e, ToSet(l.rules))
             /\ Len(e.valid) + Len(e.rules) = Len(l.valid) + Len(l.rules)
<1> DEFINE n == Len(l.rules)
           Seen(k) == {l.rules[i] : i \in 1..k}
           I == {k \in 0..n : InScan(M, R, l, g, k)}
<1>1. l.valid \in Seq(R) /\ l.rules \in Seq(R) /\ n \in Nat /\ DOMAIN l.rules = 1..n /\ Len(l.valid) \in Nat
  BY DEF Lists
<1>2. 0 \in I
  <2>1. g[0].valid = l.valid /\ g[0].rules = << >> /\ ToSet(g[0].rules) = {} /\ Seen(0) = {}
    BY DEF ScanWith, ToSet
  <2>2. Apart(g[0])
    BY <2>1 DEF Apart, IsInjective
  <2>3. Scanned(M, R, l, g[0], {})
    BY <2>1, <2>2 DEF Scanned
  <2>4. Scanned(M, R, l, g[0], Seen(0))
    BY <2>1, <2>3, Zenon
  <2>5. Len(g[0].valid) + Len(g[0].rules) = Len(l.valid) + 0 /\ 0 \in 0..n
    BY <1>1, <2>1
  <2> QED BY <2>4, <2>5, Zenon DEF InScan
<1>3. ASSUME NEW k \in 0..(n - 1), k \in I  PROVE k + 1 \in I
  <2> DEFINE r == l.rules[k + 1]
  <2>1. k + 1 \in 1..n /\ r \in R /\ g[k] \in Lists(R) /\ (k + 1) - 1 = k /\ k \in 0..n /\ k + 1 \in 0..n
    BY <1>1
  <2>2. g[k + 1] = Sorted(M, g[k], r)
    BY <2>1 DEF ScanWith
  <2>3. Seen(k) \in SUBSET R /\ Seen(k + 1) = Seen(k) \cup {r} /\ r \notin Seen(k)
    <3>1. \A i \in 1..k : i \in 1..n /\ i # k + 1
      BY <1>1
    <3>2. IsInjective(l.rules)
      BY DEF Apart
    <3>3. \A i \in 1..k : l.rules[i] # r /\ l.rules[i] \in R
      <4> TAKE i \in 1..k
      <4>1. i \in DOMAIN l.rules /\ k + 1 \in DOMAIN l.rules /\ i # k + 1
        BY <1>1, <2>1, <3>1
      <4> QED BY <1>1, <3>2, <4>1 DEF IsInjective
    <3>5. r \notin Seen(k) /\ Seen(k) \in SUBSET R
      BY <3>3
    <3>4. 1..(k + 1) = (1..k) \cup {k + 1}
      OBVIOUS
    <3> QED BY <3>4, <3>5
  <2>4. r \notin ToSet(l.valid)
    BY <1>1, <2>1 DEF Apart, ToSet
  <2>5. InScan(M, R, l, g, k)
    BY <1>3
  <2>6. Scanned(M, R, l, g[k], Seen(k)) /\ Len(g[k].valid) + Len(g[k].rules) = Len(l.valid) + k
    BY <2>5 DEF InScan
  <2> HIDE DEF r, Seen, n, I
  <2>7. /\ Scanned(M, R, l, g[k + 1], Seen(k + 1))
        /\ Len(g[k + 1].valid) + Len(g[k + 1].rules) = (Len(g[k].valid) + Len(g[k].rules)) + 1
    <3>1. Seen(k) \in SUBSET R /\ r \in R /\ g[k] \in Lists(R) /\ r \notin Seen(k) /\ Scanned(M, R, l, g[k], Seen(k))
      BY <2>1, <2>3, <2>6
    <3>2. Scanned(M, R, l, g[k + 1], Seen(k) \cup {r})
      BY <2>2, <2>4, <3>1, ScanStep
    <3>3. Len(g[k + 1].valid) + Len(g[k + 1].rules) = (Len(g[k].valid) + Len(g[k].rules)) + 1
      BY <2>2, <3>1, SortedLength
    <3> QED BY <2>3, <3>2, <3>3
  <2>8. Len(g[k + 1].valid) + Len(g[k + 1].rules) = Len(l.valid) + (k + 1)
    <3>1. Len(g[k + 1].valid) + Len(g[k + 1].rules) = (Len(l.valid) + k) + 1
      BY <2>6, <2>7
    <3>2. (Len(l.valid) + k) + 1 = Len(l.valid) + (k + 1)
      <4>1. Len(l.valid) \in Nat /\ k \in Nat
        BY <1>1, <2>1
      <4>2. \A a, b \in Nat : (a + b) + 1 = a + (b + 1)
        OBVIOUS
      <4> QED BY <4>1, <4>2, Zenon
    <3> QED BY <3>1, <3>2
  <2>9. InScan(M, R, l, g, k + 1)
    BY <2>7, <2>8, Zenon DEF InScan, Seen
  <2> QED BY <2>1, <2>9 DEF I
<1>4. InScan(M, R, l, g, n)
  <2>1. 0..n \subseteq I
    <3> HIDE DEF I
    <3> QED BY <1>1, <1>2, <1>3, InductionUpTo
  <2> HIDE DEF n
  <2> QED BY <1>1, <2>1
<1>5. Seen(n) = ToSet(l.rules) /\ g[n] \in Lists(R)
  BY <1>1 DEF ToSet
<1> QED BY <1>4, <1>5, Zenon DEF InScan
-----------------------------------------------------------------------------
AfterScan(M, R, l, e) ==
  /\ e \in Lists(R) /\ Scanned(M, R, l, e, ToSet(l.rules))
  /\ Len(e.valid) + Len(e.rules) = Len(l.valid) + Len(l.rules)
Rescan(l) == Scan(l)

LEMMA MatchFacts ==
  ASSUME NEW R, NEW l \in Lists(R), Apart(l)
  PROVE  AfterScan(Matching(R), R, l, Rescan(l))
<1>1. PICK g \in [0..Len(l.rules) -> Lists(R)] :
        ScanWith(Matching(R), g, l) /\ Rescan(l) = g[Len(l.rules)]
  BY MatchScan, Zenon DEF Rescan
<1>2. /\ g[Len(l.rules)] \in Lists(R)
      /\ Scanned(Matching(R), R, l, g[Len(l.rules)], ToSet(l.rules))
      /\ Len(g[Len(l.rules)].valid) + Len(g[Len(l.rules)].rules) = Len(l.valid) + Len(l.rules)
  BY <1>1, ScanFacts, Zenon
<1> QED BY <1>1, <1>2, Zenon DEF AfterScan

LEMMA WantedFacts ==
  ASSUME NEW R, NEW rules \in Seq(R), NEW targets, IsInjective(rules)
  PROVE  AfterScan(Wanted(R, targets), R, Unsorted(rules), InitialLists(rules, targets))
<1> DEFINE l == Unsorted(rules)
<1>1. l \in Lists(R) /\ Apart(l) /\ l.rules = rules
  BY DEF Lists, Apart, IsInjective, ToSet, Unsorted
<1>2. PICK g \in [0..Len(rules) -> Lists(R)] :
        ScanWith(Wanted(R, targets), g, l) /\ InitialLists(rules, targets) = g[Len(rules)]
  BY WantedScan, Zenon
<1> HIDE DEF l
<1>3. g \in [0..Len(l.rules) -> Lists(R)]
  BY <1>1
<1>4. /\ g[Len(l.rules)] \in Lists(R)
      /\ Scanned(Wanted(R, targets), R, l, g[Len(l.rules)], ToSet(l.rules))
      /\ Len(g[Len(l.rules)].valid) + Len(g[Len(l.rules)].rules) = Len(l.valid) + Len(l.rules)
  BY <1>1, <1>2, <1>3, ScanFacts, ZenonT(60)
<1> QED BY <1>1, <1>2, <1>4, Zenon DEF AfterScan, l

\* The lists l after k scans of the rules of R, n in number.
Filtering(R, n, targets, l, k) ==
  /\ l \in Lists(R) /\ Apart(l) /\ ToSet(l.valid) \cup ToSet(l.rules) = R
  /\ Len(l.valid) + Len(l.rules) = n
  /\ \A r \in R : r.target \in ToSet(targets) => r \in ToSet(l.valid)
  /\ \A C \in SUBSET R :
       /\ \A r \in R : r.target \in ToSet(targets) => r \in C
       /\ \A r \in R, W \in SUBSET C : << r, W >> \in Matching(R) => r \in C
       => ToSet(l.valid) \subseteq C
  /\ (\A r \in ToSet(l.rules) : << r, ToSet(l.valid) >> \notin Matching(R)) \/ Len(l.valid) >= k

LEMMA FilteringStarts ==
  ASSUME NEW rules, NEW R, R = ToSet(rules), rules \in Seq(R), IsInjective(rules), NEW targets
  PROVE  Filtering(R, Len(rules), targets, InitialLists(rules, targets), 0)
<1> DEFINE e == InitialLists(rules, targets)
           l == Unsorted(rules)
           M == Wanted(R, targets)
<1>1. e \in Lists(R) /\ Scanned(M, R, l, e, ToSet(l.rules)) /\ Len(e.valid) + Len(e.rules) = Len(l.valid) + Len(l.rules)
  BY WantedFacts DEF AfterScan
<1>2. l.valid = << >> /\ ToSet(l.valid) = {} /\ l.rules = rules /\ Len(l.valid) = 0 /\ Len(rules) \in Nat
  BY DEF Unsorted, ToSet
<1>3. e.valid \in Seq(R) /\ Len(e.valid) \in Nat /\ ToSet(e.valid) \in SUBSET R
  BY <1>1 DEF Lists, ToSet
<1>4. \A r \in R, W \in SUBSET R : << r, W >> \in M <=> r.target \in ToSet(targets)
  BY DEF Wanted
<1> HIDE DEF e, l, M
<1>5. Apart(e) /\ ToSet(e.valid) \cup ToSet(e.rules) = R
  BY <1>1, <1>2 DEF Scanned
<1>6. ASSUME NEW r \in R, r.target \in ToSet(targets)  PROVE r \in ToSet(e.valid)
  BY <1>1, <1>4, <1>5, <1>6 DEF Scanned
<1>7. ASSUME NEW C \in SUBSET R, \A r \in R : r.target \in ToSet(targets) => r \in C
      PROVE  ToSet(e.valid) \subseteq C
  <2>1. \A r \in R, W \in SUBSET C : << r, W >> \in M => r \in C
    BY <1>4, <1>7
  <2> QED BY <1>1, <1>2, <2>1 DEF Scanned
<1>8. Len(e.valid) + Len(e.rules) = Len(rules)
  <2>1. \A a \in Nat : 0 + a = a
    OBVIOUS
  <2> QED BY <1>1, <1>2, <2>1, Zenon
<1>9. Len(e.valid) >= 0
  BY <1>3
<1> QED BY <1>1, <1>3, <1>5, <1>6, <1>7, <1>8, <1>9, Zenon DEF Filtering, e

LEMMA FilteringGoesOn ==
  ASSUME NEW R, NEW n, NEW targets, NEW l, NEW k \in Nat, Filtering(R, n, targets, l, k)
  PROVE  Filtering(R, n, targets, Rescan(l), k + 1)
<1> DEFINE e == Rescan(l)
           M == Matching(R)
<1>1. l \in Lists(R) /\ Apart(l)
  BY DEF Filtering
<1>2. e \in Lists(R) /\ Scanned(M, R, l, e, ToSet(l.rules)) /\ Len(e.valid) + Len(e.rules) = Len(l.valid) + Len(l.rules)
  BY <1>1, MatchFacts DEF AfterScan
<1> HIDE DEF e, M
<1>3. Apart(e) /\ ToSet(e.valid) \cup ToSet(e.rules) = R
  BY <1>2 DEF Scanned, Filtering
<1>4. Len(e.valid) + Len(e.rules) = n
  BY <1>2 DEF Filtering
<1>5. \A r \in R : r.target \in ToSet(targets) => r \in ToSet(e.valid)
  BY <1>2 DEF Scanned, Filtering
<1>6. ASSUME NEW C \in SUBSET R, \A r \in R : r.target \in ToSet(targets) => r \in C,
             \A r \in R, W \in SUBSET C : << r, W >> \in M => r \in C
      PROVE  ToSet(e.valid) \subseteq C
  <2>1. ToSet(l.valid) \subseteq C
    BY <1>6 DEF Filtering, M
  <2> QED BY <1>2, <1>6, <2>1 DEF Scanned
<1>7. (\A r \in ToSet(e.rules) : << r, ToSet(e.valid) >> \notin M) \/ Len(e.valid) >= k + 1
  <2>1. CASE e.valid = l.valid /\ \A r \in ToSet(l.rules) : << r, ToSet(l.valid) >> \notin M
    BY <1>2, <2>1 DEF Scanned
  <2>2. CASE Len(e.valid) > Len(l.valid) /\ \E r \in ToSet(l.rules) : << r, ToSet(l.valid) >> \in M
    <3>1. Len(l.valid) >= k
      BY <2>2 DEF Filtering, M
    <3>2. Len(l.valid) \in Nat /\ Len(e.valid) \in Nat
      BY <1>1, <1>2 DEF Lists
    <3> QED BY <2>2, <3>1, <3>2
  <2> QED BY <1>2, <2>1, <2>2 DEF Scanned
<1> QED BY <1>2, <1>3, <1>4, <1>5, <1>6, <1>7 DEF Filtering, e, M

LEMMA filterOnTargetsScans ==
  ASSUME NEW rules, NEW R, R = ToSet(rules), rules \in Seq(R), IsInjective(rules), NEW targets
  PROVE  \E l : Filtering(R, Len(rules), targets, l, Len(rules)) /\ filterOnTargets(rules, targets) = l.valid
<1> DEFINE n == Len(rules)
           V == {l \in Lists(R) : Apart(l)}
           base == InitialLists(rules, targets)
           h == [vk \in V \X (1..n) |-> Rescan(vk[1])]
           Rec(f) == f = [k \in 0..Len(rules) |-> IF k = 0 THEN InitialLists(rules, targets)
                                                          ELSE Scan(f[k - 1])]
           scans == CHOOSE f : Rec(f)
           I == {k \in 0..n : Filtering(R, n, targets, scans[k], k)}
<1>1. filterOnTargets(rules, targets) = scans[n].valid
  BY Zenon DEF filterOnTargets
<1>2. n \in Nat /\ Filtering(R, n, targets, base, 0) /\ base \in V
  <2>1. Filtering(R, n, targets, base, 0)
    BY FilteringStarts, Zenon
  <2>2. base \in V
    BY <2>1 DEF Filtering
  <2> QED BY <2>1, <2>2
<1>3. h \in [V \X (1..n) -> V]
  <2>1. \A l \in V : Rescan(l) \in V
    BY MatchFacts DEF AfterScan, Scanned
  <2> QED BY <2>1
<1>4. \A v \in V, k \in 1..n : h[<< v, k >>] = Rescan(v)
  OBVIOUS
<1> HIDE DEF n, V, base, h
<1>5. PICK g \in [0..n -> V] : IsLoop(g, base, h, n)
  <2> HIDE DEF scans, Rec
  <2> QED BY <1>2, <1>3, RecursionExists
<1>6. Rec(g)
  <2>1. \A k \in 0..n : g[k] = IF k = 0 THEN base ELSE Rescan(g[k - 1])
    <3> TAKE k \in 0..n
    <3>1. CASE k = 0
      BY <1>5, <3>1 DEF IsLoop
    <3>2. CASE k # 0
      <4>1. k \in 1..n /\ k - 1 \in 0..n /\ g[k - 1] \in V
        BY <1>2, <3>2
      <4> QED BY <1>4, <1>5, <3>2, <4>1 DEF IsLoop
    <3> QED BY <3>1, <3>2
  <2>2. g = [k \in 0..n |-> IF k = 0 THEN base ELSE Rescan(g[k - 1])]
    <3>1. g = [k \in 0..n |-> g[k]]
      OBVIOUS
    <3> QED BY <2>1, <3>1, Zenon
  <2> QED BY <2>2, Zenon DEF n, base, Rescan
<1>7. scans = [k \in 0..n |-> IF k = 0 THEN base ELSE Rescan(scans[k - 1])]
  <2>1. Rec(scans)
    <3> HIDE DEF Rec
    <3> QED BY <1>6, Zenon
  <2> HIDE DEF scans
  <2> QED BY <2>1, Zenon DEF n, base, Rescan
<1> HIDE DEF scans
<1>8. 0 \in I
  BY <1>2, <1>7
<1>9. ASSUME NEW k \in 0..(n - 1), k \in I  PROVE k + 1 \in I
  <2>1. k \in Nat /\ k + 1 \in 0..n /\ k + 1 # 0 /\ (k + 1) - 1 = k
    BY <1>2
  <2>2. scans[k + 1] = Rescan(scans[k])
    BY <1>7, <2>1
  <2>3. Filtering(R, n, targets, scans[k], k)
    BY <1>9
  <2> HIDE DEF I
  <2>4. Filtering(R, n, targets, Rescan(scans[k]), k + 1)
    BY <2>1, <2>3, FilteringGoesOn
  <2> QED BY <2>1, <2>2, <2>4 DEF I
<1>10. Filtering(R, n, targets, scans[n], n)
  <2>1. 0..n \subseteq I
    <3> HIDE DEF I
    <3> QED BY <1>2, <1>8, <1>9, InductionUpTo
  <2> QED BY <1>2, <2>1
<1> QED BY <1>1, <1>10, Zenon DEF n

\* What the filter keeps, v, of the rules of R: the wanted ones, those that any of
\* the kept ones depends on, and no others.
Keeps(R, targets, v) ==
  /\ v \in Seq(R) /\ IsInjective(v)
  /\ \A r \in R : r.target \in ToSet(targets) => r \in ToSet(v)
  /\ \A C \in SUBSET R :
       /\ \A r \in R : r.target \in ToSet(targets) => r \in C
       /\ \A r \in R, W \in SUBSET C : << r, W >> \in Matching(R) => r \in C
       => ToSet(v) \subseteq C
  /\ \A r \in R : r \in ToSet(v) \/ << r, ToSet(v) >> \notin Matching(R)

LEMMA FilterKeeps ==
  ASSUME NEW rules, NEW R, NEW targets, R = ToSet(rules), rules \in Seq(R), IsInjective(rules)
  PROVE  Keeps(R, targets, filterOnTargets(rules, targets))
<1> DEFINE v == filterOnTargets(rules, targets)
<1>1. PICK l : Filtering(R, Len(rules), targets, l, Len(rules)) /\ v = l.valid
  BY filterOnTargetsScans, Zenon
<1>2. l.valid \in Seq(R) /\ l.rules \in Seq(R) /\ IsInjective(l.valid) /\ Len(rules) \in Nat
  BY <1>1 DEF Filtering, Lists, Apart
<1>3. \A r \in ToSet(l.rules) : << r, ToSet(l.valid) >> \notin Matching(R)
  <2>1. CASE Len(l.valid) >= Len(rules)
    <3>1. Len(l.valid) \in Nat /\ Len(l.rules) \in Nat
      BY <1>2
    <3>s. Len(l.valid) + Len(l.rules) = Len(rules)
      BY <1>1, Zenon DEF Filtering
    <3>2. \A a, b, c \in Nat : a + b = c /\ a >= c => b = 0
      OBVIOUS
    <3>3. Len(l.rules) = 0
      BY <1>2, <2>1, <3>1, <3>s, <3>2, Zenon
    <3>4. DOMAIN l.rules = {}
      BY <1>2, <3>3
    <3> QED BY <3>4 DEF ToSet
  <2>2. CASE ~ Len(l.valid) >= Len(rules)
    BY <1>1, <2>2 DEF Filtering
  <2> QED BY <2>1, <2>2
<1>4. \A r \in R : r \in ToSet(v) \/ << r, ToSet(v) >> \notin Matching(R)
  BY <1>1, <1>3 DEF Filtering
<1> QED BY <1>1, <1>2, <1>4, Zenon DEF Filtering, Keeps

(* The parser announces the rules that the targets need, and no others: of *)
(* any makefile without two rules for a target, and for any targets.       *)
THEOREM ParserFindsNeeded ==
  ASSUME NEW S, NEW lines, NEW run_targets, Rules(lines) \in Seq(S),
         \A m, n \in DOMAIN Rules(lines) : Rules(lines)[m].target = Rules(lines)[n].target => m = n
  PROVE  /\ parser_parse_makefile(lines, run_targets) \in Seq(ToSet(Rules(lines)))
         /\ IsInjective(parser_parse_makefile(lines, run_targets))
         /\ {r.target : r \in ToSet(parser_parse_makefile(lines, run_targets))} = Needed(lines, run_targets)
<1> DEFINE rules == Rules(lines)
           R == ToSet(rules)
           targets == IF run_targets = << >> THEN lines[1].targets ELSE run_targets
           v == filterOnTargets(rules, targets)
           X == {r.target : r \in ToSet(v)}
           names == {r.target : r \in R}
           wanted == ToSet(targets) \cap names
           closed(T) == \A r \in R : r.target \in T => ToSet(r.deps) \cap names \subseteq T
           needed == {n \in names : \A T \in SUBSET names : wanted \subseteq T /\ closed(T) => n \in T}
<1>1. parser_parse_makefile(lines, run_targets) = v
  BY DEF parser_parse_makefile
<1>2. needed = Needed(lines, run_targets)
  BY Zenon DEF Needed
<1> HIDE DEF targets
<1>3. rules \in Seq(R) /\ IsInjective(rules)
  BY DEF ToSet, IsInjective
<1>4. \A r, u \in R : r.target = u.target => r = u
  BY DEF ToSet
<1> HIDE DEF rules
<1>k. Keeps(R, targets, v)
  BY <1>3, FilterKeeps, Zenon
<1>5. /\ v \in Seq(R) /\ IsInjective(v)
      /\ \A r \in R : r.target \in ToSet(targets) => r \in ToSet(v)
      /\ \A C \in SUBSET R :
           /\ \A r \in R : r.target \in ToSet(targets) => r \in C
           /\ \A r \in R, W \in SUBSET C : << r, W >> \in Matching(R) => r \in C
           => ToSet(v) \subseteq C
      /\ \A r \in R : r \in ToSet(v) \/ << r, ToSet(v) >> \notin Matching(R)
  BY <1>k, Zenon DEF Keeps
<1> HIDE DEF v, R
<1>6. ToSet(v) \in SUBSET R
  BY <1>5 DEF ToSet
<1>7. X \subseteq needed
  <2> SUFFICES ASSUME NEW r \in ToSet(v)  PROVE r.target \in needed
    OBVIOUS
  <2>1. r \in R /\ r.target \in names
    BY <1>6
  <2>2. ASSUME NEW T \in SUBSET names, wanted \subseteq T, closed(T)  PROVE r.target \in T
    <3> DEFINE C == {q \in R : q.target \in T}
    <3>1. \A q \in R : q.target \in ToSet(targets) => q \in C
      BY <2>2
    <3>2. ASSUME NEW q \in R, NEW W \in SUBSET C, << q, W >> \in Matching(R)  PROVE q \in C
      <4>1. PICK u \in W : q.target \in ToSet(u.deps)
        BY <3>2 DEF Matching
      <4>2. u \in R /\ u.target \in T /\ q.target \in names
        OBVIOUS
      <4>3. q.target \in T
        BY <2>2, <4>1, <4>2
      <4> QED BY <4>3
    <3>3. C \in SUBSET R
      OBVIOUS
    <3> HIDE DEF C
    <3>4. ToSet(v) \subseteq C
      BY <1>5, <3>1, <3>2, <3>3
    <3> QED BY <3>4 DEF C
  <2> QED BY <2>1, <2>2
<1>8. needed \subseteq X
  <2>1. X \in SUBSET names
    BY <1>6
  <2>2. wanted \subseteq X
    BY <1>5
  <2>3. closed(X)
    <3> SUFFICES ASSUME NEW r \in R, r.target \in X, NEW q \in R, q.target \in ToSet(r.deps)
                 PROVE  q \in ToSet(v)
      OBVIOUS
    <3>1. r \in ToSet(v)
      BY <1>4, <1>6
    <3>2. << q, ToSet(v) >> \in Matching(R)
      BY <1>6, <3>1 DEF Matching
    <3> QED BY <1>5, <3>2
  <2> HIDE DEF X, wanted, closed
  <2> QED BY <2>1, <2>2, <2>3
<1> QED BY <1>1, <1>2, <1>5, <1>7, <1>8 DEF R, rules
-----------------------------------------------------------------------------
(***************************************************************************)
(* A build with one thread.                                                *)
(***************************************************************************)
\* What is supposed of the builds, where a theorem says so.
OneThread == \E t \in Threads : Threads = {t}
OneRuleEach ==      \* no file is the target of two rules
  \A i \in Inputs : LET rules == Rules(i.lines) IN
    \A m, n \in DOMAIN rules : rules[m].target = rules[n].target => m = n
CleanDisks ==       \* nothing is there that one rule writes for another
  \A i \in Inputs : LET rules == ToSet(parser_parse_makefile(i.lines, i.targets)) IN
    \A r, s \in rules : s.target \in ToSet(r.deps) => i.disk[s.target] = Absent
NoFutureFiles ==
  \A i \in Inputs : \A f \in DOMAIN i.disk : i.disk[f] <= i.clock
-----------------------------------------------------------------------------
TheThread == CHOOSE t \in Threads : TRUE
me == thread[TheThread]

AllRules == ToSet(Parsed)
AllTargets == Targets(Parsed)

ParmakeTypeOK ==
  /\ input \in Inputs /\ num_rules = Len(Parsed)
  /\ {rule_q, run_q, finished_q} \subseteq Seq(AllRules)
  /\ disk \in [DOMAIN input.disk -> Nat \cup {Absent}] /\ clock \in Nat
  /\ thread = [t \in Threads |-> me]
  /\ me.at \in {"while", "for", "run_rule", "dequeue", "end"}
  /\ me.at = "for" => me = [at |-> "for", i |-> me.i] /\ me.i \in Nat \ {0}
  /\ me.at = "run_rule" => /\ me = [at |-> "run_rule", rule |-> me.rule, command |-> me.command]
                           /\ me.rule \in ToSet(run_q) /\ me.command \in Nat \ {0}

\* How many rules of run_q have been run in this pass.
Position == CHOOSE n \in DOMAIN run_q : run_q[n] = me.rule
Ran == CASE me.at = "run_rule" -> Position - 1
         [] me.at = "dequeue" -> Len(run_q)
         [] OTHER -> 0

Accounted ==
  /\ ToSet(rule_q) \cup ToSet(run_q) \cup ToSet(finished_q) = AllRules
  /\ IsInjective(rule_q) /\ IsInjective(run_q) /\ IsInjective(finished_q)
  /\ ToSet(rule_q) \cap (ToSet(run_q) \cup ToSet(finished_q)) = {}
  /\ \A n \in DOMAIN run_q : run_q[n] \in ToSet(finished_q) <=> n <= Ran
  /\ Len(rule_q) + (Len(run_q) - Ran) + Len(finished_q) = num_rules
  /\ me.at \in {"while", "end"} => run_q = << >>
  /\ me.at = "end" => Len(finished_q) >= num_rules

\* What a rule needs of other rules has finished.
Met(r) == \A d \in ToSet(r.deps) \cap AllTargets : is_dep_finished(d)
CommandsDone == me.at = "run_rule" /\ me.command > me.rule.commands

DependenciesFirst ==
  /\ \A r \in ToSet(finished_q) : Met(r)
  /\ \A n \in DOMAIN run_q : \A d \in ToSet(run_q[n].deps) \cap AllTargets :
       is_dep_finished(d) \/ \E k \in 1..n - 1 : run_q[k].target = d
  /\ \A r \in AllRules : \A d \in ToSet(r.deps) \cap AllTargets :
       is_file(d) => is_dep_finished(d) \/ (CommandsDone /\ me.rule.target = d)

\* The target of a rule is there and not older than what it is made from.
Fresh(r) == r.commands > 0 => is_file(r.target) /\ \A d \in ToSet(r.deps) : disk[r.target] >= disk[d]

UpToDate ==
  /\ \A f \in DOMAIN disk : disk[f] <= clock
  /\ \A r \in ToSet(finished_q) : Fresh(r)
  /\ CommandsDone => Fresh(me.rule)
-----------------------------------------------------------------------------
Rest == << input, num_rules, disk, clock, exited >>

LEMMA ParsedFacts ==
  ASSUME OneRuleEach, NEW i \in Inputs
  PROVE  LET p == parser_parse_makefile(i.lines, i.targets)
         IN  /\ p \in Seq([target : DOMAIN i.disk, deps : Seq(DOMAIN i.disk), commands : Nat])
             /\ IsInjective(p)
             /\ \A r, s \in ToSet(p) : r.target = s.target => r = s
<1> DEFINE p == parser_parse_makefile(i.lines, i.targets)
           rules == Rules(i.lines)
           S == [target : DOMAIN i.disk, deps : Seq(DOMAIN i.disk), commands : Nat]
<1>1. rules \in Seq(S)
  BY InputsAssumption
<1>2. \A m, n \in DOMAIN rules : rules[m].target = rules[n].target => m = n
  BY Zenon DEF OneRuleEach
<1> HIDE DEF S
<1>3. p \in Seq(ToSet(rules)) /\ IsInjective(p)
  BY <1>1, <1>2, ParserFindsNeeded, Zenon
<1> HIDE DEF p, rules
<1>4. ToSet(rules) \subseteq S /\ ToSet(p) \subseteq ToSet(rules)
  BY <1>1, <1>3 DEF ToSet
<1>5. p \in Seq(S)
  BY <1>3, <1>4
<1>6. \A r, s \in ToSet(rules) : r.target = s.target => r = s
  BY <1>2 DEF ToSet
<1>7. \A r, s \in ToSet(p) : r.target = s.target => r = s
  BY <1>4, <1>6
<1> QED BY <1>3, <1>5, <1>7 DEF p, S

LEMMA GotoMe ==
  ASSUME NEW t, Threads = {t}, thread = [u \in Threads |-> me]
  PROVE  /\ TheThread = t /\ thread[t] = me
         /\ \A x : Goto(t, x) => me' = x /\ thread' = [u \in Threads |-> me']
         /\ UNCHANGED thread => me' = me /\ thread' = [u \in Threads |-> me']
<1>1. TheThread = t
  BY DEF TheThread
<1> QED BY <1>1 DEF me, Goto

\* Where the rules of run_q are in a pass.
LEMMA RanFacts ==
  ASSUME ParmakeTypeOK, IsInjective(run_q)
  PROVE  /\ Ran \in 0..Len(run_q) /\ run_q \in Seq(AllRules)
         /\ me.at = "run_rule" => /\ Ran + 1 \in DOMAIN run_q /\ run_q[Ran + 1] = me.rule
                                  /\ Position = Ran + 1
         /\ me.at \in {"while", "for", "end"} => Ran = 0
         /\ me.at = "dequeue" => Ran = Len(run_q)
<1>1. run_q \in Seq(AllRules) /\ Len(run_q) \in Nat /\ DOMAIN run_q = 1..Len(run_q)
  BY DEF ParmakeTypeOK
<1>2. ASSUME me.at = "run_rule"  PROVE Position \in DOMAIN run_q /\ run_q[Position] = me.rule
  <2>1. \E n \in DOMAIN run_q : run_q[n] = me.rule
    BY <1>2 DEF ParmakeTypeOK, ToSet
  <2> QED BY <2>1 DEF Position
<1> QED BY <1>1, <1>2 DEF Ran, ParmakeTypeOK

LEMMA AccountedInit ==
  ASSUME NEW t, Threads = {t}, OneRuleEach, Init
  PROVE  ParmakeTypeOK /\ Accounted
<1>1. /\ input \in Inputs /\ Parsed \in Seq(AllRules) /\ IsInjective(Parsed)
      /\ disk \in [DOMAIN input.disk -> Nat \cup {Absent}] /\ clock \in Nat
  <2>1. /\ Parsed \in Seq([target : DOMAIN input.disk, deps : Seq(DOMAIN input.disk), commands : Nat])
        /\ IsInjective(Parsed)
    BY ParsedFacts DEF Init, Parsed
  <2>2. Parsed \in Seq(AllRules)
    BY <2>1 DEF AllRules, ToSet
  <2> QED BY <2>1, <2>2, InputsAssumption DEF Init
<1>2. thread = [u \in Threads |-> me] /\ me = [at |-> "while"]
  BY DEF Init, me, TheThread
<1>3. ParmakeTypeOK
  BY <1>1, <1>2 DEF ParmakeTypeOK, Init
<1>4. Ran = 0
  BY <1>2 DEF Ran
<1>5. /\ ToSet(rule_q) = AllRules /\ ToSet(run_q) = {} /\ ToSet(finished_q) = {}
      /\ IsInjective(run_q) /\ IsInjective(finished_q)
  BY DEF Init, AllRules, ToSet, IsInjective
<1> QED BY <1>1, <1>2, <1>3, <1>4, <1>5 DEF Accounted, Init

-----------------------------------------------------------------------------
\* One step of the loop over rule_q, and what it leaves of the queues.
LEMMA AccountedToRun ==
  ASSUME NEW t, Threads = {t}, ParmakeTypeOK, Accounted, ToRun(t)
  PROVE  ParmakeTypeOK' /\ Accounted'
<1> DEFINE r == Current(t)
<1>1. /\ me.at = "for" /\ me.i \in DOMAIN rule_q /\ r = rule_q[me.i]
      /\ thread' = [u \in Threads |-> me'] /\ me' = me
      /\ rule_q' = RemoveAt(rule_q, me.i) /\ run_q' = Append(run_q, r)
      /\ UNCHANGED << Rest, finished_q >> /\ AllRules' = AllRules /\ Parsed' = Parsed
  BY GotoMe DEF ToRun, AtRule, At, Current, RemoveCurrent, ParmakeTypeOK, settings, world, Rest, AllRules, Parsed
<1>2. r \in ToSet(rule_q) /\ r \in AllRules
  BY <1>1 DEF ToSet, Accounted
<1> HIDE DEF r
<1>3. /\ rule_q' \in Seq(AllRules) /\ Len(rule_q') = Len(rule_q) - 1
      /\ ToSet(rule_q') = ToSet(rule_q) \ {r} /\ IsInjective(rule_q')
  BY <1>1, RemoveAtElements DEF ParmakeTypeOK, Accounted
<1>4. /\ run_q' \in Seq(AllRules) /\ Len(run_q') = Len(run_q) + 1
      /\ DOMAIN run_q' = DOMAIN run_q \cup {Len(run_q) + 1}
      /\ \A n \in DOMAIN run_q : run_q'[n] = run_q[n]
      /\ run_q'[Len(run_q) + 1] = r
      /\ ToSet(run_q') = ToSet(run_q) \cup {r} /\ IsInjective(run_q')
  BY <1>1, <1>2, AppendElements DEF ParmakeTypeOK, Accounted
<1>5. ParmakeTypeOK'
  BY <1>1, <1>3, <1>4 DEF ParmakeTypeOK, Rest
<1>6. Ran = 0 /\ Ran' = 0
  BY <1>1 DEF Ran
<1>7. \A n \in DOMAIN run_q' : run_q'[n] \notin ToSet(finished_q)
  BY <1>2, <1>4, <1>6 DEF Accounted, ParmakeTypeOK
<1>8. /\ ToSet(rule_q') \cup ToSet(run_q') \cup ToSet(finished_q') = AllRules'
      /\ ToSet(rule_q') \cap (ToSet(run_q') \cup ToSet(finished_q')) = {}
      /\ IsInjective(rule_q') /\ IsInjective(run_q') /\ IsInjective(finished_q')
  BY <1>1, <1>2, <1>3, <1>4 DEF Accounted
<1>9. \A n \in DOMAIN run_q' : run_q'[n] \in ToSet(finished_q') <=> n <= Ran'
  <2> SUFFICES ASSUME NEW n \in DOMAIN run_q'  PROVE run_q'[n] \notin ToSet(finished_q') /\ ~ n <= 0
    BY <1>6
  <2>1. finished_q' = finished_q /\ n \in Nat \ {0}
    BY <1>1, <1>4
  <2> QED BY <1>7, <2>1
<1>10. Len(rule_q') + (Len(run_q') - Ran') + Len(finished_q') = num_rules'
  <2>1. {Len(rule_q), Len(run_q), Len(finished_q)} \subseteq Nat
    BY DEF ParmakeTypeOK
  <2> QED BY <1>1, <1>3, <1>4, <1>6, <2>1 DEF Accounted, Rest
<1> QED BY <1>1, <1>5, <1>8, <1>9, <1>10 DEF Accounted

LEMMA AccountedToFinished ==
  ASSUME NEW t, Threads = {t}, ParmakeTypeOK, Accounted, ToFinished(t)
  PROVE  ParmakeTypeOK' /\ Accounted'
<1> DEFINE r == Current(t)
<1>1. /\ me.at = "for" /\ me.i \in DOMAIN rule_q /\ r = rule_q[me.i]
      /\ thread' = [u \in Threads |-> me'] /\ me' = me
      /\ rule_q' = RemoveAt(rule_q, me.i) /\ finished_q' = Append(finished_q, r)
      /\ UNCHANGED << Rest, run_q >> /\ AllRules' = AllRules /\ Parsed' = Parsed
  BY GotoMe DEF ToFinished, AtRule, At, Current, RemoveCurrent, ParmakeTypeOK, settings, world, Rest, AllRules, Parsed
<1>2. r \in ToSet(rule_q) /\ r \in AllRules
  BY <1>1 DEF ToSet, Accounted
<1> HIDE DEF r
<1>3. /\ rule_q' \in Seq(AllRules) /\ Len(rule_q') = Len(rule_q) - 1
      /\ ToSet(rule_q') = ToSet(rule_q) \ {r} /\ IsInjective(rule_q')
  BY <1>1, RemoveAtElements DEF ParmakeTypeOK, Accounted
<1>4. /\ finished_q' \in Seq(AllRules) /\ Len(finished_q') = Len(finished_q) + 1
      /\ ToSet(finished_q') = ToSet(finished_q) \cup {r} /\ IsInjective(finished_q')
  BY <1>1, <1>2, AppendElements DEF ParmakeTypeOK, Accounted
<1>5. ParmakeTypeOK'
  BY <1>1, <1>3, <1>4 DEF ParmakeTypeOK, Rest
<1>6. Ran = 0 /\ Ran' = 0
  BY <1>1 DEF Ran
<1>7. \A n \in DOMAIN run_q : run_q[n] # r
  BY <1>2 DEF Accounted, ToSet
<1>8. /\ ToSet(rule_q') \cup ToSet(run_q') \cup ToSet(finished_q') = AllRules'
      /\ ToSet(rule_q') \cap (ToSet(run_q') \cup ToSet(finished_q')) = {}
      /\ IsInjective(rule_q') /\ IsInjective(run_q') /\ IsInjective(finished_q')
  BY <1>1, <1>2, <1>3, <1>4 DEF Accounted
<1>9. \A n \in DOMAIN run_q' : run_q'[n] \in ToSet(finished_q') <=> n <= Ran'
  BY <1>1, <1>4, <1>6, <1>7 DEF Accounted
<1>10. Len(rule_q') + (Len(run_q') - Ran') + Len(finished_q') = num_rules'
  <2>1. {Len(rule_q), Len(run_q), Len(finished_q)} \subseteq Nat
    BY DEF ParmakeTypeOK
  <2> QED BY <1>1, <1>3, <1>4, <1>6, <2>1 DEF Accounted, Rest
<1> QED BY <1>1, <1>5, <1>8, <1>9, <1>10 DEF Accounted

\* The steps that leave all queues alone, but for the one that starts a pass.
LEMMA AccountedSameQueues ==
  ASSUME NEW t, Threads = {t}, ParmakeTypeOK, Accounted,
         While(t) \/ NotYet(t) \/ RunCommand(t) \/ CommandFails(t) \/ UNCHANGED vars
  PROVE  ParmakeTypeOK' /\ Accounted'
<1>1. /\ UNCHANGED << input, num_rules, queues >> /\ AllRules' = AllRules /\ Parsed' = Parsed
      /\ thread' = [u \in Threads |-> me']
  <2>1. /\ UNCHANGED << input, num_rules, queues >>
        /\ UNCHANGED thread \/ \E x : Goto(t, x)
    BY DEF While, NotYet, RunCommand, CommandFails, vars, settings, queues
  <2>2. AllRules' = AllRules /\ Parsed' = Parsed
    BY <2>1 DEF AllRules, Parsed
  <2>3. thread' = [u \in Threads |-> me']
    BY <2>1, GotoMe DEF ParmakeTypeOK
  <2> QED BY <2>1, <2>2, <2>3
<1>2. disk' \in [DOMAIN input.disk -> Nat \cup {Absent}] /\ clock' \in Nat
  <2>1. CASE RunCommand(t)
    <3>1. clock' \in Nat
      BY <2>1 DEF RunCommand, ParmakeTypeOK
    <3>2. disk' = disk \/ \E f : disk' = [disk EXCEPT ![f] = clock']
      BY <2>1 DEF RunCommand
    <3> QED BY <3>1, <3>2 DEF ParmakeTypeOK
  <2> QED BY <2>1 DEF While, NotYet, CommandFails, vars, world, ParmakeTypeOK
<1>3. \/ me' = me
      \/ /\ me.at = "while" /\ me' = [at |-> "for", i |-> 1]
      \/ /\ me.at = "while" /\ me' = [at |-> "end"] /\ ~ Len(finished_q) < num_rules
      \/ /\ me.at = "for" /\ me' = [me EXCEPT !.i = @ + 1]
      \/ /\ me.at = "run_rule" /\ me' = [me EXCEPT !.command = @ + 1]
  BY GotoMe DEF While, NotYet, RunCommand, CommandFails, vars, At, AtRule, ParmakeTypeOK
<1>4. /\ me'.at \in {"while", "for", "run_rule", "dequeue", "end"}
      /\ me'.at = "for" => me' = [at |-> "for", i |-> me'.i] /\ me'.i \in Nat \ {0}
      /\ me'.at = "run_rule" => /\ me' = [at |-> "run_rule", rule |-> me'.rule, command |-> me'.command]
                                /\ me'.rule \in ToSet(run_q) /\ me'.command \in Nat \ {0}
                                /\ me.at = "run_rule" /\ me'.rule = me.rule
      /\ me'.at = "dequeue" <=> me.at = "dequeue"
      /\ me'.at = "run_rule" <=> me.at = "run_rule"
      /\ me'.at \in {"while", "end"} => me.at \in {"while", "end"}
      /\ me'.at = "end" => me.at = "end" \/ ~ Len(finished_q) < num_rules
  <2>1. CASE me.at = "while"
    BY <1>3, <2>1 DEF ParmakeTypeOK
  <2>2. CASE me.at = "for"
    <3>1. me = [at |-> "for", i |-> me.i] /\ me.i \in Nat \ {0}
      BY <2>2 DEF ParmakeTypeOK
    <3>2. me' = me \/ me' = [at |-> "for", i |-> me.i + 1]
      BY <1>3, <2>2, <3>1
    <3> QED BY <2>2, <3>1, <3>2
  <2>3. CASE me.at = "run_rule"
    <3>1. /\ me = [at |-> "run_rule", rule |-> me.rule, command |-> me.command]
          /\ me.rule \in ToSet(run_q) /\ me.command \in Nat \ {0}
      BY <2>3 DEF ParmakeTypeOK
    <3>2. me' = me \/ me' = [at |-> "run_rule", rule |-> me.rule, command |-> me.command + 1]
      BY <1>3, <2>3, <3>1
    <3> QED BY <2>3, <3>1, <3>2
  <2>4. CASE me.at \in {"dequeue", "end"}
    BY <1>3, <2>4
  <2> QED BY <2>1, <2>2, <2>3, <2>4 DEF ParmakeTypeOK
<1>5. ParmakeTypeOK'
  BY <1>1, <1>2, <1>4 DEF ParmakeTypeOK, queues
<1>6. Ran' = Ran
  BY <1>1, <1>4 DEF Ran, Position, queues
<1>7. me'.at = "end" => Len(finished_q) >= num_rules
  <2>1. Len(finished_q) \in Nat /\ num_rules \in Nat
    <3>1. Parsed = Parsed /\ rule_q \in Seq(AllRules) /\ run_q \in Seq(AllRules) /\ finished_q \in Seq(AllRules)
      BY DEF ParmakeTypeOK
    <3>2. Ran \in 0..Len(run_q)
      BY RanFacts DEF Accounted
    <3> QED BY <3>1, <3>2 DEF Accounted
  <2> QED BY <1>4, <2>1 DEF Accounted
<1> QED BY <1>1, <1>4, <1>5, <1>6, <1>7 DEF Accounted, queues

\* The loop over rule_q has ended: a pass over run_q begins.
LEMMA AccountedForEnds ==
  ASSUME NEW t, Threads = {t}, ParmakeTypeOK, Accounted, ForEnds(t)
  PROVE  ParmakeTypeOK' /\ Accounted'
<1>1. /\ me.at = "for" /\ UNCHANGED << Rest, queues >> /\ AllRules' = AllRules /\ Parsed' = Parsed
      /\ thread' = [u \in Threads |-> me']
      /\ me' = IF run_q = << >> THEN Draining ELSE Running(Head(run_q))
  BY GotoMe DEF ForEnds, At, ParmakeTypeOK, settings, world, Rest, AllRules, Parsed
<1>2. run_q \in Seq(AllRules) /\ Len(run_q) \in Nat /\ DOMAIN run_q = 1..Len(run_q)
  BY DEF ParmakeTypeOK
<1>3. CASE run_q = << >>
  <2>1. me'.at = "dequeue" /\ Ran' = 0 /\ Ran = 0
    BY <1>1, <1>3 DEF Ran, Draining, queues
  <2> QED BY <1>1, <1>3, <2>1 DEF ParmakeTypeOK, Accounted, Rest, queues
<1>4. CASE run_q # << >>
  <2>1. /\ me' = [at |-> "run_rule", rule |-> run_q[1], command |-> 1]
        /\ 1 \in DOMAIN run_q /\ run_q[1] \in ToSet(run_q)
    BY <1>1, <1>2, <1>4 DEF Running, ToSet
  <2>2. me'.at = "run_rule" /\ me'.rule = run_q[1] /\ me'.command = 1
    BY <2>1
  <2>3. ParmakeTypeOK'
    BY <1>1, <2>1, <2>2 DEF ParmakeTypeOK, Rest, queues
  <2>4. Position' = 1
    BY <1>1, <1>2, <2>1, <2>2 DEF Position, queues, Accounted, IsInjective
  <2>5. Ran' = 0 /\ Ran = 0
    BY <1>1, <2>2, <2>4 DEF Ran
  <2> QED BY <1>1, <2>2, <2>3, <2>5 DEF Accounted, Rest, queues
<1> QED BY <1>3, <1>4

\* A rule has run, and the pass goes on with the next one of run_q.
LEMMA AccountedRuleRan ==
  ASSUME NEW t, Threads = {t}, ParmakeTypeOK, Accounted, RuleRan(t)
  PROVE  ParmakeTypeOK' /\ Accounted'
<1> DEFINE r == me.rule
           p == Ran + 1
<1>1. /\ me.at = "run_rule" /\ UNCHANGED << Rest, rule_q, run_q >> /\ AllRules' = AllRules /\ Parsed' = Parsed
      /\ thread' = [u \in Threads |-> me'] /\ me' = NextNode(r)
      /\ finished_q' = Append(finished_q, r)
  BY GotoMe DEF RuleRan, At, ParmakeTypeOK, settings, world, Rest, AllRules, Parsed
<1>2. /\ run_q \in Seq(AllRules) /\ Len(run_q) \in Nat /\ DOMAIN run_q = 1..Len(run_q)
      /\ IsInjective(run_q)
  BY DEF ParmakeTypeOK, Accounted
<1>3. p \in DOMAIN run_q /\ run_q[p] = r /\ Position = p /\ Ran = p - 1 /\ p \in Nat \ {0}
  BY <1>1, <1>2, RanFacts
<1> HIDE DEF r, p
<1>4. r \in ToSet(run_q) /\ r \in AllRules /\ r \notin ToSet(finished_q)
  BY <1>2, <1>3 DEF Accounted, ToSet
<1>5. /\ finished_q' \in Seq(AllRules) /\ Len(finished_q') = Len(finished_q) + 1
      /\ ToSet(finished_q') = ToSet(finished_q) \cup {r} /\ IsInjective(finished_q')
  BY <1>1, <1>4, AppendElements DEF ParmakeTypeOK, Accounted
<1>6. \/ p = Len(run_q) /\ me' = [at |-> "dequeue"]
      \/ /\ p + 1 \in DOMAIN run_q
         /\ me' = [at |-> "run_rule", rule |-> run_q[p + 1], command |-> 1]
  <2>1. r = Last(run_q) <=> p = Len(run_q)
    BY <1>2, <1>3 DEF Last, IsInjective
  <2>2. (CHOOSE i \in DOMAIN run_q : run_q[i] = r) = p
    BY <1>3 DEF Position, r
  <2>3. me' = IF r = Last(run_q) THEN Draining ELSE Running(run_q[1 + p])
    <3> DEFINE next == run_q[1 + CHOOSE i \in DOMAIN run_q : run_q[i] = r]
    <3>1. r = Last(run_q) => NextNode(r) = Draining
      BY <1>4, Zenon DEF NextNode
    <3>2. r # Last(run_q) => NextNode(r) = Running(next)
      BY <1>4, Zenon DEF NextNode
    <3>3. next = run_q[1 + p]
      BY <2>2
    <3> HIDE DEF next
    <3> QED BY <1>1, <3>1, <3>2, <3>3
  <2>4. p # Len(run_q) => p + 1 \in DOMAIN run_q /\ 1 + p = p + 1
    BY <1>2, <1>3
  <2> QED BY <2>1, <2>3, <2>4 DEF Draining, Running
<1>7. /\ \/ me'.at = "dequeue"
         \/ /\ me' = [at |-> "run_rule", rule |-> me'.rule, command |-> me'.command]
            /\ me'.at = "run_rule" /\ me'.rule \in ToSet(run_q) /\ me'.command \in Nat \ {0}
      /\ Ran' = p
  <2>1. CASE p = Len(run_q) /\ me' = [at |-> "dequeue"]
    BY <1>1, <2>1 DEF Ran
  <2>2. CASE p + 1 \in DOMAIN run_q /\ me' = [at |-> "run_rule", rule |-> run_q[p + 1], command |-> 1]
    <3>1. me'.at = "run_rule" /\ me'.rule = run_q[p + 1] /\ me'.command = 1
      BY <2>2
    <3>2. Position' = p + 1
      BY <1>1, <1>2, <2>2, <3>1 DEF Position, IsInjective
    <3> QED BY <1>3, <2>2, <3>1, <3>2 DEF Ran, ToSet
  <2> QED BY <1>6, <2>1, <2>2
<1>8. ParmakeTypeOK'
  BY <1>1, <1>5, <1>7 DEF ParmakeTypeOK, Rest
<1>9. \A n \in DOMAIN run_q : run_q[n] \in ToSet(finished_q') <=> n <= p
  <2> TAKE n \in DOMAIN run_q
  <2>1. run_q[n] = r <=> n = p
    BY <1>2, <1>3 DEF IsInjective
  <2>2. run_q[n] \in ToSet(finished_q) <=> n <= p - 1
    BY <1>3 DEF Accounted
  <2> QED BY <1>2, <1>3, <1>5, <2>1, <2>2
<1>10. Len(rule_q) + (Len(run_q) - p) + Len(finished_q') = num_rules
  <2>1. {Len(rule_q), Len(run_q), Len(finished_q)} \subseteq Nat
    BY DEF ParmakeTypeOK
  <2>2. Len(rule_q) + (Len(run_q) - Ran) + Len(finished_q) = num_rules
    BY DEF Accounted
  <2>3. Len(rule_q) + (Len(run_q) - (p - 1)) + Len(finished_q) = num_rules
    BY <1>3, <2>2
  <2>4. p \in Nat /\ Len(finished_q') = Len(finished_q) + 1
    BY <1>3, <1>5
  <2> QED BY <2>1, <2>3, <2>4
<1>11. /\ ToSet(rule_q) \cup ToSet(run_q) \cup ToSet(finished_q') = AllRules
       /\ ToSet(rule_q) \cap (ToSet(run_q) \cup ToSet(finished_q')) = {}
  BY <1>4, <1>5 DEF Accounted
<1> QED BY <1>1, <1>5, <1>7, <1>8, <1>9, <1>10, <1>11 DEF Accounted, Rest

\* The rules of a pass leave run_q when all have run.
LEMMA AccountedDequeue ==
  ASSUME NEW t, Threads = {t}, ParmakeTypeOK, Accounted, Dequeue(t)
  PROVE  ParmakeTypeOK' /\ Accounted'
<1>1. /\ me.at = "dequeue" /\ UNCHANGED << Rest, rule_q, finished_q >> /\ AllRules' = AllRules /\ Parsed' = Parsed
      /\ \/ run_q = << >> /\ run_q' = run_q /\ me' = [at |-> "while"]
         \/ run_q # << >> /\ run_q' = Tail(run_q) /\ me' = me
      /\ thread' = [u \in Threads |-> me']
  BY GotoMe DEF Dequeue, At, ParmakeTypeOK, settings, world, Rest, AllRules, Parsed
<1>2. /\ run_q \in Seq(AllRules) /\ Len(run_q) \in Nat /\ DOMAIN run_q = 1..Len(run_q)
      /\ IsInjective(run_q) /\ Ran = Len(run_q)
  BY <1>1, RanFacts DEF ParmakeTypeOK, Accounted
<1>3. CASE run_q = << >>
  <2>1. me' = [at |-> "while"] /\ me'.at = "while" /\ run_q' = run_q
    BY <1>1, <1>3
  <2>2. Ran' = 0 /\ Ran = 0
    BY <1>2, <1>3, <2>1 DEF Ran
  <2>3. ParmakeTypeOK'
    BY <1>1, <2>1 DEF ParmakeTypeOK, Rest
  <2> QED BY <1>1, <1>3, <2>1, <2>2, <2>3 DEF Accounted, Rest
<1>4. CASE run_q # << >>
  <2>1. /\ run_q' \in Seq(AllRules) /\ Len(run_q') = Len(run_q) - 1
        /\ \A n \in DOMAIN run_q' : n + 1 \in DOMAIN run_q /\ run_q'[n] = run_q[n + 1]
        /\ 1 \in DOMAIN run_q /\ ToSet(run_q') = ToSet(run_q) \ {run_q[1]}
        /\ IsInjective(run_q')
    BY <1>1, <1>2, <1>4, TailElements, ZenonT(60)
  <2>2. run_q[1] \in ToSet(finished_q)
    BY <1>2, <2>1 DEF Accounted
  <2>3. me' = me /\ Ran' = Len(run_q')
    BY <1>1, <1>4 DEF Ran
  <2>4. ParmakeTypeOK'
    BY <1>1, <2>1, <2>3 DEF ParmakeTypeOK, Rest
  <2>5. \A n \in DOMAIN run_q' : run_q'[n] \in ToSet(finished_q) /\ n <= Len(run_q')
    BY <1>2, <2>1 DEF Accounted
  <2>6. Len(rule_q) + (Len(run_q') - Ran') + Len(finished_q) = num_rules
    <3>1. {Len(rule_q), Len(run_q), Len(finished_q)} \subseteq Nat
      BY DEF ParmakeTypeOK
    <3> QED BY <1>2, <2>1, <2>3, <3>1 DEF Accounted
  <2>7. /\ ToSet(rule_q) \cup ToSet(run_q') \cup ToSet(finished_q) = AllRules
        /\ ToSet(rule_q) \cap (ToSet(run_q') \cup ToSet(finished_q)) = {}
    BY <2>1, <2>2 DEF Accounted
  <2> QED BY <1>1, <2>1, <2>3, <2>4, <2>5, <2>6, <2>7 DEF Accounted, Rest
<1> QED BY <1>3, <1>4

LEMMA AccountedStep ==
  ASSUME NEW t, Threads = {t}, ParmakeTypeOK, Accounted, [Next]_vars
  PROVE  ParmakeTypeOK' /\ Accounted'
<1>1. \/ While(t) \/ NotYet(t) \/ RunCommand(t) \/ CommandFails(t) \/ UNCHANGED vars
      \/ ToRun(t) \/ ToFinished(t) \/ ForEnds(t) \/ RuleRan(t) \/ Dequeue(t)
  BY DEF Next, main_loop
<1> QED BY <1>1, AccountedSameQueues, AccountedToRun, AccountedToFinished, AccountedForEnds,
           AccountedRuleRan, AccountedDequeue
-----------------------------------------------------------------------------
\* What a rule that runs needs has finished: it is before it in run_q.
LEMMA RunningMet ==
  ASSUME ParmakeTypeOK, Accounted, DependenciesFirst, me.at = "run_rule"
  PROVE  Met(me.rule)
<1>1. /\ Ran + 1 \in DOMAIN run_q /\ run_q[Ran + 1] = me.rule /\ Ran \in 0..Len(run_q)
      /\ Len(run_q) \in Nat /\ DOMAIN run_q = 1..Len(run_q)
  BY RanFacts DEF Accounted, ParmakeTypeOK
<1> SUFFICES ASSUME NEW d \in ToSet(me.rule.deps) \cap AllTargets  PROVE is_dep_finished(d)
  BY DEF Met
<1>2. is_dep_finished(d) \/ \E k \in 1..Ran : run_q[k].target = d
  <2>1. is_dep_finished(d) \/ \E k \in 1..(Ran + 1) - 1 : run_q[k].target = d
    BY <1>1 DEF DependenciesFirst
  <2>2. (Ran + 1) - 1 = Ran
    BY <1>1
  <2> QED BY <2>1, <2>2
<1>3. ASSUME NEW k \in 1..Ran  PROVE run_q[k] \in ToSet(finished_q)
  <2>1. k \in DOMAIN run_q /\ k <= Ran
    BY <1>1
  <2> QED BY <2>1 DEF Accounted
<1> QED BY <1>2, <1>3 DEF is_dep_finished, Targets

\* What the answers of can_run say of a rule while no rule runs.
LEMMA CanRunMeans ==
  ASSUME NEW r
  PROVE  /\ can_run(r) = 1 => all_deps_files(r) \/ \A d \in ToSet(r.deps) : is_rule(d) => is_dep_finished(d)
         /\ can_run(r) = 2 => all_deps_files(r) /\ is_file(r.target) /\ ~OlderThanSome(r)
<1>1. CASE all_deps_files(r) /\ is_file(r.target) /\ ~OlderThanSome(r)
  <2>1. can_run(r) = 2
    BY <1>1, Zenon DEF can_run
  <2> QED BY <1>1, <2>1
<1>2. CASE all_deps_files(r) /\ (is_file(r.target) => OlderThanSome(r))
  <2>1. can_run(r) = 1
    BY <1>2, Zenon DEF can_run
  <2> QED BY <1>2, <2>1
<1>3. CASE ~ all_deps_files(r)
  <2>1. can_run(r) = IF \A d \in ToSet(r.deps) : is_rule(d) => is_dep_finished(d) THEN 1 ELSE 0
    BY <1>3, Zenon DEF can_run
  <2> QED BY <2>1
<1> QED BY <1>1, <1>2, <1>3

LEMMA FilesMet ==
  ASSUME DependenciesFirst, me.at = "for", NEW r \in AllRules, all_deps_files(r)
  PROVE  Met(r)
BY DEF DependenciesFirst, Met, all_deps_files, CommandsDone

LEMMA FirstInit ==
  ASSUME NEW t, Threads = {t}, CleanDisks, Init
  PROVE  DependenciesFirst
<1>1. /\ finished_q = << >> /\ run_q = << >> /\ input \in Inputs /\ disk = input.disk
      /\ AllRules = ToSet(parser_parse_makefile(input.lines, input.targets))
  BY DEF Init, AllRules, Parsed
<1>2. ToSet(finished_q) = {} /\ DOMAIN run_q = {}
  BY <1>1 DEF ToSet
<1>3. ASSUME NEW r \in AllRules, NEW d \in ToSet(r.deps) \cap AllTargets  PROVE ~ is_file(d)
  <2>1. PICK s \in AllRules : s.target = d
    BY DEF AllTargets, Targets, AllRules
  <2> QED BY <1>1, <1>3, <2>1 DEF CleanDisks, is_file
<1> QED BY <1>2, <1>3 DEF DependenciesFirst

\* The steps that move a rule from rule_q.
LEMMA FirstScan ==
  ASSUME NEW t, Threads = {t}, ParmakeTypeOK, Accounted, DependenciesFirst, ToRun(t) \/ ToFinished(t)
  PROVE  DependenciesFirst'
<1> DEFINE r == Current(t)
<1>1. /\ me.at = "for" /\ me.i \in DOMAIN rule_q /\ r = rule_q[me.i] /\ me' = me
      /\ UNCHANGED Rest /\ AllRules' = AllRules /\ AllTargets' = AllTargets
      /\ \/ /\ can_run(r) = 1 /\ run_q' = Append(run_q, r) /\ finished_q' = finished_q
         \/ /\ can_run(r) = 2 /\ finished_q' = Append(finished_q, r) /\ run_q' = run_q
  BY GotoMe DEF ToRun, ToFinished, AtRule, At, Current, ParmakeTypeOK, settings, world, Rest,
                AllRules, AllTargets, Parsed
<1>2. r \in ToSet(rule_q) /\ r \in AllRules
  BY <1>1 DEF ToSet, Accounted
<1> HIDE DEF r
<1>3. Len(run_q) \in Nat /\ DOMAIN run_q = 1..Len(run_q) /\ run_q \in Seq(AllRules) /\ finished_q \in Seq(AllRules)
  BY DEF ParmakeTypeOK
<1>4. CASE can_run(r) = 1 /\ run_q' = Append(run_q, r) /\ finished_q' = finished_q
  <2>1. /\ DOMAIN run_q' = DOMAIN run_q \cup {Len(run_q) + 1}
        /\ \A n \in DOMAIN run_q : run_q'[n] = run_q[n]
        /\ run_q'[Len(run_q) + 1] = r
    BY <1>2, <1>3, <1>4, AppendElements
  <2>2. ASSUME NEW d \in ToSet(r.deps) \cap AllTargets
        PROVE  is_dep_finished(d) \/ \E k \in 1..Len(run_q) : run_q[k].target = d
    <3>1. CASE all_deps_files(r)
      BY <1>1, <1>2, <2>2, <3>1, FilesMet DEF Met
    <3>2. CASE \A e \in ToSet(r.deps) : is_rule(e) => is_dep_finished(e)
      <4>1. PICK s \in AllRules : s.target = d
        BY <2>2 DEF AllTargets, Targets, AllRules
      <4>2. CASE s \in ToSet(rule_q) \/ s \in ToSet(finished_q)
        BY <2>2, <3>2, <4>1, <4>2 DEF is_rule, is_dep_finished, Targets
      <4>3. CASE s \in ToSet(run_q)
        BY <1>3, <4>1, <4>3 DEF ToSet
      <4> QED BY <4>2, <4>3 DEF Accounted
    <3> QED BY <1>4, <3>1, <3>2, CanRunMeans
  <2>3. ASSUME NEW n \in DOMAIN run_q', NEW d \in ToSet(run_q'[n].deps) \cap AllTargets
        PROVE  is_dep_finished(d)' \/ \E k \in 1..n - 1 : run_q'[k].target = d
    <3>0. is_dep_finished(d)' = is_dep_finished(d)
      BY <1>4 DEF is_dep_finished, Targets
    <3>1. CASE n \in DOMAIN run_q
      <4>1. is_dep_finished(d) \/ \E k \in 1..n - 1 : run_q[k].target = d
        BY <2>1, <2>3, <3>1 DEF DependenciesFirst
      <4>2. \A k \in 1..n - 1 : k \in DOMAIN run_q
        BY <1>3, <3>1
      <4> QED BY <2>1, <3>0, <4>1, <4>2
    <3>2. CASE n = Len(run_q) + 1
      <4>1. is_dep_finished(d) \/ \E k \in 1..Len(run_q) : run_q[k].target = d
        BY <2>1, <2>2, <2>3, <3>2
      <4>2. n - 1 = Len(run_q)
        BY <1>3, <3>2
      <4> QED BY <1>3, <2>1, <3>0, <4>1, <4>2
    <3> QED BY <2>1, <3>1, <3>2
  <2> QED BY <1>1, <1>4, <2>3 DEF DependenciesFirst, Met, is_dep_finished, Targets, is_file, CommandsDone, Rest
<1>5. CASE can_run(r) = 2 /\ finished_q' = Append(finished_q, r) /\ run_q' = run_q
  <2>1. ToSet(finished_q') = ToSet(finished_q) \cup {r}
    BY <1>2, <1>3, <1>5, AppendElements
  <2>2. \A d : is_dep_finished(d) => is_dep_finished(d)'
    BY <2>1 DEF is_dep_finished, Targets
  <2>3. Met(r)
    BY <1>1, <1>2, <1>5, CanRunMeans, FilesMet
  <2> QED BY <1>1, <1>5, <2>1, <2>2, <2>3 DEF DependenciesFirst, Met, is_file, CommandsDone, Rest
<1> QED BY <1>1, <1>4, <1>5

\* What the steps that move no rule do to the disk and to the thread.
GoodRules ==
  /\ AllRules \subseteq [target : DOMAIN input.disk, deps : Seq(DOMAIN input.disk), commands : Nat]
  /\ \A r, s \in AllRules : r.target = s.target => r = s

LEMMA RulesGood ==
  ASSUME OneRuleEach, input \in Inputs
  PROVE  GoodRules
<1> DEFINE R == [target : DOMAIN input.disk, deps : Seq(DOMAIN input.disk), commands : Nat]
<1>1. /\ Parsed \in Seq(R)
      /\ \A r, s \in AllRules : r.target = s.target => r = s
  BY ParsedFacts, Zenon DEF AllRules, Parsed
<1> HIDE DEF R
<1>2. AllRules \subseteq R
  BY <1>1 DEF AllRules, ToSet
<1> QED BY <1>1, <1>2 DEF GoodRules, R

QuietStep(t) == While(t) \/ NotYet(t) \/ ForEnds(t) \/ RunCommand(t) \/ CommandFails(t) \/ UNCHANGED vars

LEMMA QuietSteps ==
  ASSUME NEW t, Threads = {t}, ParmakeTypeOK, GoodRules, QuietStep(t)
  PROVE  /\ UNCHANGED << input, num_rules, queues >>
         /\ \/ UNCHANGED << disk, clock >> /\ me' = me
            \/ /\ ~ CommandsDone /\ UNCHANGED << disk, clock >>
               /\ CommandsDone' => ~ me'.rule.commands > 0
            \/ /\ me.at = "run_rule" /\ me.command < me.rule.commands
               /\ ~ CommandsDone /\ ~ CommandsDone' /\ disk' = disk /\ clock' \in {clock, clock + 1}
            \/ /\ me.at = "run_rule" /\ me.command = me.rule.commands
               /\ ~ CommandsDone /\ CommandsDone' /\ me'.rule = me.rule
               /\ clock' \in {clock, clock + 1} /\ disk' = [disk EXCEPT ![me.rule.target] = clock']
<1>1. UNCHANGED << input, num_rules, queues >>
  BY DEF QuietStep, While, NotYet, ForEnds, RunCommand, CommandFails, vars, settings, queues
<1>2. CASE While(t)
  <2>1. /\ UNCHANGED << disk, clock >> /\ me.at = "while"
        /\ me' = IF Len(finished_q) < num_rules THEN [at |-> "for", i |-> 1] ELSE [at |-> "end"]
    BY <1>2, GotoMe DEF While, At, world, ParmakeTypeOK
  <2> QED BY <1>1, <2>1 DEF CommandsDone
<1>3. CASE NotYet(t)
  <2>1. me.at = "for" /\ UNCHANGED << disk, clock >> /\ me' = [me EXCEPT !.i = @ + 1]
    BY <1>3, GotoMe DEF NotYet, AtRule, At, world, ParmakeTypeOK
  <2>2. me = [at |-> "for", i |-> me.i]
    BY <2>1 DEF ParmakeTypeOK
  <2>3. me'.at = "for"
    BY <2>1, <2>2
  <2> QED BY <1>1, <2>1, <2>3 DEF CommandsDone
<1>4. CASE ForEnds(t)
  <2>1. /\ UNCHANGED << disk, clock >> /\ me.at = "for"
        /\ me' = IF run_q = << >> THEN Draining ELSE Running(Head(run_q))
    BY <1>4, GotoMe DEF ForEnds, At, world, ParmakeTypeOK
  <2>2. CASE run_q = << >>
    BY <1>1, <2>1, <2>2 DEF CommandsDone, Draining
  <2>3. CASE run_q # << >>
    <3>1. Head(run_q) \in AllRules /\ Head(run_q).commands \in Nat
      BY <2>3 DEF ParmakeTypeOK, GoodRules
    <3>2. me'.rule = Head(run_q) /\ me'.command = 1
      BY <2>1, <2>3 DEF Running
    <3> QED BY <1>1, <2>1, <3>1, <3>2 DEF CommandsDone
  <2> QED BY <2>2, <2>3
<1>5. CASE RunCommand(t)
  <2>1. /\ me.at = "run_rule" /\ me.command <= me.rule.commands
        /\ clock' \in {clock, clock + 1} /\ me' = [me EXCEPT !.command = @ + 1]
        /\ disk' = IF me.command = me.rule.commands THEN [disk EXCEPT ![me.rule.target] = clock'] ELSE disk
    BY <1>5, GotoMe DEF RunCommand, At, ParmakeTypeOK
  <2>2. /\ me = [at |-> "run_rule", rule |-> me.rule, command |-> me.command]
        /\ me.command \in Nat /\ me.rule \in ToSet(run_q)
    BY <2>1 DEF ParmakeTypeOK
  <2>3. me.rule.commands \in Nat
    <3>1. run_q \in Seq(AllRules)
      BY DEF ParmakeTypeOK
    <3>2. me.rule \in AllRules
      BY <2>2, <3>1 DEF ToSet
    <3> QED BY <3>2 DEF GoodRules
  <2>4. me'.at = "run_rule" /\ me'.rule = me.rule /\ me'.command = me.command + 1
    BY <2>1, <2>2
  <2>5. CASE me.command < me.rule.commands
    <3>1. ~ CommandsDone /\ ~ CommandsDone' /\ me.command # me.rule.commands
      BY <2>2, <2>3, <2>4, <2>5 DEF CommandsDone
    <3> QED BY <1>1, <2>1, <2>5, <3>1
  <2>6. CASE me.command = me.rule.commands
    <3>1. ~ CommandsDone /\ CommandsDone'
      BY <2>2, <2>3, <2>4, <2>6 DEF CommandsDone
    <3> QED BY <1>1, <2>1, <2>4, <2>6, <3>1
  <2> QED BY <2>1, <2>2, <2>3, <2>5, <2>6
<1>6. CASE CommandFails(t) \/ UNCHANGED vars
  BY <1>1, <1>6 DEF CommandFails, vars, world, me
<1> QED BY <1>2, <1>3, <1>4, <1>5, <1>6 DEF QuietStep

LEMMA FirstQuiet ==
  ASSUME NEW t, Threads = {t}, ParmakeTypeOK, GoodRules, DependenciesFirst, QuietStep(t)
  PROVE  DependenciesFirst'
<1>1. UNCHANGED queues /\ AllRules' = AllRules /\ AllTargets' = AllTargets
  BY QuietSteps DEF AllRules, AllTargets, Parsed
<1>2. \A d : is_dep_finished(d)' = is_dep_finished(d)
  BY <1>1 DEF is_dep_finished, Targets, queues
<1>3. ASSUME NEW d \in DOMAIN disk, is_file(d)'  PROVE is_file(d) \/ (CommandsDone /\ me.rule.target = d)'
  BY <1>3, QuietSteps DEF is_file, ParmakeTypeOK
<1>4. ASSUME NEW d, CommandsDone, me.rule.target = d  PROVE (CommandsDone /\ me.rule.target = d)'
  BY <1>4, QuietSteps DEF CommandsDone
<1>5. ASSUME NEW r \in AllRules, NEW d \in ToSet(r.deps) \cap AllTargets, is_file(d)'
      PROVE  is_dep_finished(d)' \/ (CommandsDone /\ me.rule.target = d)'
  <2>1. d \in DOMAIN disk
    <3>1. PICK s \in AllRules : s.target = d
      BY <1>5 DEF AllTargets, Targets, AllRules
    <3> QED BY <3>1 DEF GoodRules, ParmakeTypeOK
  <2> QED BY <1>2, <1>3, <1>4, <1>5, <2>1 DEF DependenciesFirst
<1> QED BY <1>1, <1>2, <1>5 DEF DependenciesFirst, Met, queues

\* A rule has run: it is finished, and the next one of run_q starts.
LEMMA RuleRanFacts ==
  ASSUME NEW t, Threads = {t}, ParmakeTypeOK, Accounted, GoodRules, RuleRan(t)
  PROVE  /\ UNCHANGED << Rest, rule_q, run_q >>
         /\ me.at = "run_rule" /\ CommandsDone /\ me.rule \in AllRules
         /\ ToSet(finished_q') = ToSet(finished_q) \cup {me.rule}
         /\ CommandsDone' => ~ me'.rule.commands > 0
<1>1. /\ me.at = "run_rule" /\ CommandsDone /\ UNCHANGED << Rest, rule_q, run_q >>
      /\ finished_q' = Append(finished_q, me.rule) /\ me' = NextNode(me.rule)
  BY GotoMe DEF RuleRan, At, ParmakeTypeOK, settings, world, Rest, CommandsDone
<1>2. me.rule \in AllRules /\ me.rule \in ToSet(run_q) /\ finished_q \in Seq(AllRules) /\ run_q \in Seq(AllRules)
  BY <1>1 DEF ParmakeTypeOK, ToSet
<1>3. ToSet(finished_q') = ToSet(finished_q) \cup {me.rule}
  BY <1>1, <1>2, AppendElements
<1>4. ParmakeTypeOK' /\ Accounted' /\ AllRules' = AllRules
  BY <1>1, AccountedRuleRan DEF AllRules, Parsed, Rest
<1>5. me'.at = "run_rule" => me'.rule \in AllRules
  <2>1. me'.at = "run_rule" => me'.rule \in ToSet(run_q')
    BY <1>4 DEF ParmakeTypeOK
  <2> QED BY <1>1, <1>2, <2>1 DEF ToSet
<1>6. me'.at = "run_rule" => me'.command = 1
  <2> DEFINE next == run_q[1 + CHOOSE i \in DOMAIN run_q : run_q[i] = me.rule]
  <2>1. me.rule = Last(run_q) => NextNode(me.rule) = Draining
    BY <1>2, Zenon DEF NextNode
  <2>2. me.rule # Last(run_q) => NextNode(me.rule) = Running(next)
    BY <1>2, Zenon DEF NextNode
  <2> HIDE DEF next
  <2> QED BY <1>1, <2>1, <2>2 DEF Running, Draining
<1>7. CommandsDone' => ~ me'.rule.commands > 0
  BY <1>5, <1>6 DEF CommandsDone, GoodRules
<1> QED BY <1>1, <1>2, <1>3, <1>7

LEMMA FirstRuleRan ==
  ASSUME NEW t, Threads = {t}, ParmakeTypeOK, Accounted, GoodRules, DependenciesFirst, RuleRan(t)
  PROVE  DependenciesFirst'
<1>1. UNCHANGED Rest /\ AllRules' = AllRules /\ AllTargets' = AllTargets /\ run_q' = run_q
  BY RuleRanFacts DEF AllRules, AllTargets, Parsed, Rest
<1>2. \A d : is_dep_finished(d) \/ d = me.rule.target => is_dep_finished(d)'
  BY RuleRanFacts DEF is_dep_finished, Targets
<1>3. Met(me.rule)
  BY RuleRanFacts, RunningMet
<1>4. \A r \in ToSet(finished_q') : Met(r)'
  BY <1>1, <1>2, <1>3, RuleRanFacts DEF DependenciesFirst, Met
<1>5. \A d : is_file(d)' = is_file(d)
  BY <1>1 DEF is_file, Rest
<1> QED BY <1>1, <1>2, <1>4, <1>5 DEF DependenciesFirst

LEMMA FirstDequeue ==
  ASSUME NEW t, Threads = {t}, ParmakeTypeOK, Accounted, DependenciesFirst, Dequeue(t)
  PROVE  DependenciesFirst' /\ UNCHANGED << Rest, finished_q >> /\ ~ CommandsDone /\ ~ CommandsDone'
<1>1. /\ me.at = "dequeue" /\ UNCHANGED << Rest, finished_q >> /\ AllRules' = AllRules /\ AllTargets' = AllTargets
      /\ \/ run_q' = run_q /\ me' = [at |-> "while"]
         \/ run_q # << >> /\ run_q' = Tail(run_q) /\ me' = me
  BY GotoMe DEF Dequeue, At, ParmakeTypeOK, settings, world, Rest, AllRules, AllTargets, Parsed
<1>2. ~ CommandsDone /\ ~ CommandsDone'
  BY <1>1 DEF CommandsDone
<1>3. /\ run_q \in Seq(AllRules) /\ Len(run_q) \in Nat /\ DOMAIN run_q = 1..Len(run_q)
      /\ IsInjective(run_q) /\ Ran = Len(run_q)
  BY <1>1, RanFacts DEF ParmakeTypeOK, Accounted
<1>4. \A n \in DOMAIN run_q : Met(run_q[n])
  BY <1>3 DEF Accounted, DependenciesFirst
<1>5. \A d : is_dep_finished(d)' = is_dep_finished(d) /\ is_file(d)' = is_file(d)
  BY <1>1 DEF is_dep_finished, Targets, is_file, Rest
<1>6. \A n \in DOMAIN run_q' : Met(run_q'[n])
  <2>1. CASE run_q' = run_q
    BY <1>4, <2>1
  <2>2. CASE run_q # << >> /\ run_q' = Tail(run_q)
    <3>1. \A n \in DOMAIN run_q' : n + 1 \in DOMAIN run_q /\ run_q'[n] = run_q[n + 1]
      BY <1>3, <2>2, TailElements
    <3> QED BY <1>4, <3>1
  <2> QED BY <1>1, <2>1, <2>2
<1>7. DependenciesFirst'
  BY <1>1, <1>2, <1>5, <1>6 DEF DependenciesFirst, Met
<1> QED BY <1>1, <1>2, <1>7

LEMMA FirstStep ==
  ASSUME NEW t, Threads = {t}, ParmakeTypeOK, Accounted, GoodRules, DependenciesFirst, [Next]_vars
  PROVE  DependenciesFirst'
<1>1. QuietStep(t) \/ ToRun(t) \/ ToFinished(t) \/ RuleRan(t) \/ Dequeue(t)
  BY DEF Next, main_loop, QuietStep
<1> QED BY <1>1, FirstQuiet, FirstScan, FirstRuleRan, FirstDequeue
-----------------------------------------------------------------------------
\* No command writes a file that a finished rule writes or is made from.
LEMMA UpToDateStep ==
  ASSUME NEW t, Threads = {t}, ParmakeTypeOK, Accounted, GoodRules, DependenciesFirst, UpToDate, [Next]_vars
  PROVE  UpToDate'
<1>1. \A f \in DOMAIN disk : disk[f] \in Int
  BY DEF ParmakeTypeOK, Absent
<1>2. \A r \in AllRules : r.target \in DOMAIN disk /\ ToSet(r.deps) \subseteq DOMAIN disk
  <2>1. DOMAIN disk = DOMAIN input.disk
    BY DEF ParmakeTypeOK
  <2>2. \A r \in AllRules : r.target \in DOMAIN disk /\ r.deps \in Seq(DOMAIN disk)
    BY <2>1 DEF GoodRules
  <2> QED BY <2>2 DEF ToSet
<1>3. ToSet(finished_q) \subseteq AllRules
  BY DEF Accounted
<1>4. CASE QuietStep(t)
  <2>1. finished_q' = finished_q
    BY <1>4, QuietSteps DEF queues
  <2>2. CASE UNCHANGED << disk, clock >> /\ me' = me
    BY <2>1, <2>2 DEF UpToDate, Fresh, is_file, CommandsDone
  <2>3. CASE ~ CommandsDone /\ UNCHANGED << disk, clock >> /\ (CommandsDone' => ~ me'.rule.commands > 0)
    <3>1. CommandsDone' => Fresh(me.rule)'
      BY <2>3 DEF Fresh
    <3> QED BY <2>1, <2>3, <3>1 DEF UpToDate, Fresh, is_file
  <2>4. CASE ~ CommandsDone' /\ disk' = disk /\ clock' \in {clock, clock + 1}
    <3>1. \A f \in DOMAIN disk' : disk'[f] <= clock'
      BY <1>1, <2>4 DEF UpToDate, ParmakeTypeOK
    <3> QED BY <2>1, <2>4, <3>1 DEF UpToDate, Fresh, is_file
  <2>5. CASE /\ me.at = "run_rule" /\ CommandsDone' /\ me'.rule = me.rule
             /\ clock' \in {clock, clock + 1} /\ disk' = [disk EXCEPT ![me.rule.target] = clock']
    <3>1. me.rule \in AllRules /\ me.rule \notin ToSet(finished_q)
      <4>1. Ran + 1 \in DOMAIN run_q /\ run_q[Ran + 1] = me.rule /\ Ran \in Nat /\ run_q \in Seq(AllRules)
        BY <2>5, RanFacts DEF Accounted
      <4> QED BY <4>1 DEF Accounted
    <3>2. \A d : is_dep_finished(d) => d # me.rule.target
      BY <1>3, <3>1 DEF is_dep_finished, Targets, GoodRules
    <3>3. clock' \in Nat /\ me.rule.target \in DOMAIN disk /\ DOMAIN disk' = DOMAIN disk
      BY <1>2, <2>5, <3>1 DEF ParmakeTypeOK
    <3>4. \A f \in DOMAIN disk' : disk'[f] <= clock' /\ (f # me.rule.target => disk'[f] = disk[f])
      BY <1>1, <2>5, <3>3 DEF UpToDate, ParmakeTypeOK
    <3>5. ASSUME NEW r \in ToSet(finished_q')  PROVE Fresh(r)'
      <4>1. r \in AllRules /\ Fresh(r) /\ Met(r) /\ is_dep_finished(r.target)
        BY <1>3, <2>1, <3>5 DEF UpToDate, DependenciesFirst, is_dep_finished, Targets
      <4>2. me.rule.target \in AllTargets
        BY <3>1 DEF AllTargets, Targets, AllRules
      <4>3. \A d \in ToSet(r.deps) : d # me.rule.target
        BY <3>2, <4>1, <4>2 DEF Met
      <4>4. /\ disk'[r.target] = disk[r.target]
            /\ \A d \in ToSet(r.deps) : disk'[d] = disk[d]
        BY <1>2, <3>2, <3>3, <3>4, <4>1, <4>3
      <4> QED BY <4>1, <4>4 DEF Fresh, is_file
    <3>6. Fresh(me.rule)'
      <4>1. disk'[me.rule.target] = clock' /\ clock' # Absent
        BY <2>5, <3>3 DEF ParmakeTypeOK, Absent
      <4>2. \A d \in ToSet(me.rule.deps) : disk'[me.rule.target] >= disk'[d]
        <5>1. \A f \in DOMAIN disk' : disk'[f] \in Int
          BY <1>1, <2>5, <3>3
        <5> QED BY <1>2, <3>1, <3>3, <3>4, <4>1, <5>1
      <4> QED BY <2>5, <4>1, <4>2 DEF Fresh, is_file
    <3> QED BY <3>4, <3>5, <3>6 DEF UpToDate
  <2> QED BY <1>4, <2>2, <2>3, <2>4, <2>5, QuietSteps
<1>5. CASE ToRun(t)
  BY <1>5, GotoMe DEF ToRun, world, UpToDate, Fresh, is_file, CommandsDone, ParmakeTypeOK
<1>6. CASE ToFinished(t)
  <2> DEFINE r == Current(t)
  <2>1. /\ me.i \in DOMAIN rule_q /\ r = rule_q[me.i] /\ can_run(r) = 2
        /\ finished_q' = Append(finished_q, r) /\ me' = me /\ UNCHANGED << disk, clock >> /\ ~ CommandsDone
    BY <1>6, GotoMe DEF ToFinished, AtRule, At, Current, world, ParmakeTypeOK, CommandsDone
  <2> HIDE DEF r
  <2>2. r \in AllRules /\ finished_q \in Seq(AllRules)
    BY <2>1 DEF ToSet, Accounted, ParmakeTypeOK
  <2>3. ToSet(finished_q') = ToSet(finished_q) \cup {r}
    BY <2>1, <2>2, AppendElements
  <2>4. is_file(r.target) /\ \A d \in ToSet(r.deps) : ~ disk[r.target] <= disk[d]
    BY <2>1, CanRunMeans DEF OlderThanSome
  <2>5. \A d \in ToSet(r.deps) : disk[r.target] >= disk[d]
    BY <1>1, <1>2, <2>2, <2>4
  <2> QED BY <2>1, <2>3, <2>4, <2>5 DEF UpToDate, Fresh, is_file, CommandsDone
<1>7. CASE RuleRan(t)
  <2>1. CommandsDone' => Fresh(me.rule)'
    BY <1>7, RuleRanFacts DEF Fresh
  <2> QED BY <1>7, <2>1, RuleRanFacts DEF UpToDate, Fresh, is_file, Rest
<1>8. CASE Dequeue(t)
  BY <1>8, FirstDequeue DEF UpToDate, Fresh, is_file, Rest
<1> QED BY <1>4, <1>5, <1>6, <1>7, <1>8 DEF Next, main_loop, QuietStep

LEMMA UpToDateInit ==
  ASSUME NEW t, Threads = {t}, NoFutureFiles, Init
  PROVE  UpToDate
<1>1. disk = input.disk /\ clock = input.clock /\ input \in Inputs /\ ToSet(finished_q) = {}
  BY DEF Init, ToSet
<1>2. ~ CommandsDone
  BY DEF CommandsDone, Init, me, TheThread
<1> QED BY <1>1, <1>2 DEF UpToDate, NoFutureFiles
-----------------------------------------------------------------------------
LEMMA AccountedAlways ==
  ASSUME OneThread, OneRuleEach
  PROVE  Spec => [](ParmakeTypeOK /\ Accounted)
<1>1. PICK t \in Threads : Threads = {t}
  BY DEF OneThread
<1>2. Init => ParmakeTypeOK /\ Accounted
  BY <1>1, AccountedInit
<1>3. ParmakeTypeOK /\ Accounted /\ [Next]_vars => (ParmakeTypeOK /\ Accounted)'
  BY <1>1, AccountedStep
<1> QED BY <1>2, <1>3, PTL DEF Spec

LEMMA FirstAlways ==
  ASSUME OneThread, OneRuleEach, CleanDisks
  PROVE  Spec => [](ParmakeTypeOK /\ Accounted /\ DependenciesFirst)
<1>1. PICK t \in Threads : Threads = {t}
  BY DEF OneThread
<1>2. Init => DependenciesFirst
  BY <1>1, FirstInit
<1>3. ParmakeTypeOK /\ Accounted /\ DependenciesFirst /\ [Next]_vars => DependenciesFirst'
  <2> SUFFICES ASSUME ParmakeTypeOK, Accounted, DependenciesFirst, [Next]_vars
               PROVE  DependenciesFirst'
    OBVIOUS
  <2>1. GoodRules
    BY RulesGood DEF ParmakeTypeOK
  <2> QED BY <1>1, <2>1, FirstStep
<1> QED BY <1>2, <1>3, AccountedAlways, PTL DEF Spec

(* With one thread, whatever the makefile, the targets and the times of    *)
(* the files: a rule runs once those of its dependencies that are rules    *)
(* have finished, if no file that one rule writes for another was there.   *)
THEOREM DependenciesComeFirst ==
  ASSUME OneThread, OneRuleEach, CleanDisks
  PROVE  Spec => []DependenciesMet
<1>1. PICK t \in Threads : Threads = {t}
  BY DEF OneThread
<1>2. ParmakeTypeOK /\ Accounted /\ DependenciesFirst => DependenciesMet
  <2> SUFFICES ASSUME ParmakeTypeOK, Accounted, DependenciesFirst, me.at = "run_rule"
               PROVE  \A d \in ToSet(me.rule.deps) \cap Targets(Parsed) : is_dep_finished(d)
    BY <1>1, GotoMe DEF DependenciesMet, ParmakeTypeOK
  <2> QED BY RunningMet DEF Met, AllTargets
<1> QED BY <1>2, FirstAlways, PTL

(* With one thread, and if in addition no file is from the future: what a  *)
(* build leaves is up to date, also when rules were skipped.               *)
THEOREM BuildsUpToDate ==
  ASSUME OneThread, OneRuleEach, CleanDisks, NoFutureFiles
  PROVE  Spec => []BuiltUpToDate
<1>1. PICK t \in Threads : Threads = {t}
  BY DEF OneThread
<1> DEFINE Inv == ParmakeTypeOK /\ Accounted /\ DependenciesFirst /\ UpToDate
<1>2. Init => UpToDate
  BY <1>1, UpToDateInit
<1>3. Inv /\ [Next]_vars => UpToDate'
  <2> SUFFICES ASSUME ParmakeTypeOK, Accounted, DependenciesFirst, UpToDate, [Next]_vars
               PROVE  UpToDate'
    OBVIOUS
  <2>1. GoodRules
    BY RulesGood DEF ParmakeTypeOK
  <2> QED BY <1>1, <2>1, UpToDateStep
<1>4. Inv => BuiltUpToDate
  <2> SUFFICES ASSUME ParmakeTypeOK, Accounted, UpToDate, me.at = "end", NEW r \in AllRules
               PROVE  Fresh(r)
    BY <1>1, GotoMe DEF BuiltUpToDate, ParmakeTypeOK, AllRules, Fresh
  <2>1. /\ run_q = << >> /\ Ran = 0 /\ Len(finished_q) >= num_rules
        /\ Len(rule_q) + (Len(run_q) - Ran) + Len(finished_q) = num_rules
        /\ ToSet(rule_q) \cup ToSet(run_q) \cup ToSet(finished_q) = AllRules
    BY RanFacts DEF Accounted
  <2>2. /\ rule_q \in Seq(AllRules) /\ finished_q \in Seq(AllRules)
        /\ Len(rule_q) \in Nat /\ Len(finished_q) \in Nat /\ num_rules \in Nat
    BY <2>1 DEF ParmakeTypeOK, Accounted
  <2>3. Len(rule_q) = 0
    BY <2>1, <2>2
  <2>4. ToSet(rule_q) = {} /\ ToSet(run_q) = {}
    BY <2>1, <2>2, <2>3 DEF ToSet
  <2> QED BY <2>1, <2>4 DEF UpToDate
<1> QED BY <1>2, <1>3, <1>4, FirstAlways, PTL DEF Spec

(* With one thread: each rule that the targets need, and no other, waits,  *)
(* is in run_q or has finished, and is never twice in what is to be run.   *)
THEOREM RulesAreConserved ==
  ASSUME OneThread, OneRuleEach
  PROVE  Spec => []RulesConserved
<1>1. ParmakeTypeOK /\ Accounted => RulesConserved
  <2> SUFFICES ASSUME ParmakeTypeOK, Accounted
               PROVE  RulesConserved
    OBVIOUS
  <2>1. input \in Inputs /\ rule_q \in Seq(AllRules) /\ run_q \in Seq(AllRules) /\ finished_q \in Seq(AllRules)
    BY DEF ParmakeTypeOK
  <2>2. Targets(Parsed) = Needed(input.lines, input.targets)
    <3> DEFINE rules == Rules(input.lines)
               S == [target : DOMAIN input.disk, deps : Seq(DOMAIN input.disk), commands : Nat]
    <3>1. rules \in Seq(S)
      BY <2>1, InputsAssumption
    <3>2. \A m, n \in DOMAIN rules : rules[m].target = rules[n].target => m = n
      BY <2>1, Zenon DEF OneRuleEach
    <3> HIDE DEF S
    <3>3. {r.target : r \in ToSet(Parsed)} = Needed(input.lines, input.targets)
      BY <3>1, <3>2, ParserFindsNeeded, Zenon DEF Parsed
    <3> QED BY <3>3, Zenon DEF Targets
  <2>3. ToSet(rule_q \o run_q \o finished_q) = AllRules
    <3> DEFINE q == rule_q \o run_q
    <3>1. q \in Seq(AllRules) /\ ToSet(q) = ToSet(rule_q) \cup ToSet(run_q)
      BY <2>1, ConcatElements
    <3> HIDE DEF q
    <3>2. ToSet(q \o finished_q) = ToSet(q) \cup ToSet(finished_q)
      BY <2>1, <3>1, ConcatElements
    <3> QED BY <3>1, <3>2, Zenon DEF Accounted, q
  <2>4. IsInjective(rule_q \o run_q) /\ IsInjective(rule_q \o finished_q)
    BY <2>1, ConcatElements DEF Accounted
  <2> QED BY <2>2, <2>3, <2>4 DEF RulesConserved, Targets, AllRules
<1> QED BY <1>1, AccountedAlways, PTL
=============================================================================
