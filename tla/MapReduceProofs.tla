-------------------------- MODULE MapReduceProofs ---------------------------
(***************************************************************************)
(* libmapreduce, for any number of map processes with any lines, any pipes *)
(* and buffers, and forks that fail at any time: what the reads cut is put *)
(* together again, and every pair is reduced exactly once.                 *)
(***************************************************************************)
EXTENDS MapReduce, FoldProofs, FiniteSetTheorems

\* What is supposed of the lines, where a theorem says so.
LinesFit == \A t \in Tasks : \A i \in DOMAIN Lines[t] : Lines[t][i].len <= BUFFER_SIZE

Byte == [task : Tasks, line : Nat, place : Nat]
Prefix(t, n) == FlattenSeq([i \in 1..n |-> Line(t, i)])
Rest(t, n) == SubSeq(Output(t), Len(Prefix(t, n)) + 1, Len(Output(t)))
FirstLines(t, n) == {Line(t, i) : i \in 1..n}
HasLine(buffer) == \E n \in DOMAIN buffer : IsNewline(buffer[n])

MapReduceTypeOK ==
  /\ failed \subseteq forked /\ watched \subseteq forked
  /\ output \in [Tasks -> Seq(Byte)] /\ pipe \in [Tasks -> Seq(Byte)] /\ buffs \in [Tasks -> Seq(Byte)]
  /\ writers \in [Tasks -> SUBSET (Tasks \cup {Parent})]
  /\ counter \in Nat
  /\ main \in {"map_all", "mapped", "reduced"}

\* map_all comes to the tasks in their order, and starts the worker after them.
Forking ==
  /\ \E m \in 0..Len(Lines) : forked = 1..m
  /\ main = "map_all" <=> worker = NotStarted
  /\ main # "map_all" => forked = Tasks
  /\ main = "reduced" => worker = [pc |-> "ended"]

\* Who holds the write end of a pipe, and what there is before and after the process.
EndsSound(t) ==
  /\ writers[t] \subseteq {Parent} \cup (forked \ failed)
  /\ t \notin forked \/ t \in failed => Parent \in writers[t] /\ pipe[t] = << >> /\ buffs[t] = << >>
  /\ t \in failed => output[t] = << >> /\ t \in watched
  /\ t \in forked \ failed => t \in writers[t] \/ output[t] = << >>

\* The store has the first lines, and the rest is on its way.
StreamSound(t) ==
  t \notin failed =>
    \E n \in 0..Len(Lines[t]) :
      /\ Stored(t) = FirstLines(t, n)
      /\ buffs[t] \o (pipe[t] \o output[t]) = Rest(t, n)

\* The worker has a pair of task t, and what it has read of the store still holds.
InHand(t) ==
  LET key == KeyOf(FirstLine(buffs[t])) IN
  \/ worker = [pc |-> "put", task |-> t]
  \/ worker = [pc |-> "get", task |-> t] /\ Holds(DS, key)
  \/ /\ worker.pc = "update" /\ worker = [pc |-> "update", task |-> t, seen |-> worker.seen]
     /\ Holds(DS, key) /\ worker.seen = DS[key]

WorkerSound ==
  /\ worker \in {NotStarted, Waiting, [pc |-> "ended"]} \/ \E t \in Tasks : InHand(t)
  /\ \A t \in Tasks : HasLine(buffs[t]) <=> InHand(t)

StoreSound ==
  /\ DS = [k \in DOMAIN DS |-> DS[k]] /\ DOMAIN DS \subseteq AllKeys
  /\ \A k \in DOMAIN DS : DS[k].value \subseteq {line \in AllLines : KeyOf(line) = k}

\* Pipes are counted as they close, which they do when they have been read.
ClosingSound ==
  /\ counter = Len(Lines) - Cardinality(forked \ watched)
  /\ worker = [pc |-> "ended"] => counter = 0
  /\ LinesFit => \A t \in forked \ watched : Stored(t) = FirstLines(t, Len(Lines[t])) /\ buffs[t] = << >>

MapReduceInv ==
  /\ MapReduceTypeOK /\ Forking /\ WorkerSound /\ StoreSound /\ ClosingSound
  /\ \A t \in Tasks : EndsSound(t) /\ StreamSound(t)
-----------------------------------------------------------------------------
\* Sequences that are joined, cut and joined again.
LEMMA Cut ==
  ASSUME NEW S, NEW p \in Seq(S), NEW k \in 0..Len(p)
  PROVE  /\ SubSeq(p, 1, k) \in Seq(S) /\ SubSeq(p, k + 1, Len(p)) \in Seq(S)
         /\ Len(SubSeq(p, 1, k)) = k
         /\ SubSeq(p, 1, k) \o SubSeq(p, k + 1, Len(p)) = p
<1>1. Len(p) \in Nat /\ 1 \in 1..Len(p) + 1 /\ k \in 1 - 1..Len(p) /\ Len(p) \in k..Len(p)
  OBVIOUS
<1>2. SubSeq(p, 1, k) \o SubSeq(p, k + 1, Len(p)) = SubSeq(p, 1, Len(p))
  BY <1>1, ConcatAdjacentSubSeq
<1>3. SubSeq(p, 1, Len(p)) = p
  BY SubSeqFull
<1>4. SubSeq(p, 1, k) \in Seq(S) /\ SubSeq(p, k + 1, Len(p)) \in Seq(S) /\ Len(SubSeq(p, 1, k)) = k
  BY <1>1
<1> QED BY <1>2, <1>3, <1>4

LEMMA AfterPrefix ==
  ASSUME NEW S, NEW p \in Seq(S), NEW q \in Seq(S)
  PROVE  SubSeq(p \o q, Len(p) + 1, Len(p \o q)) = q
<1> DEFINE r == p \o q
<1>1. /\ r \in Seq(S) /\ Len(r) = Len(p) + Len(q) /\ Len(p) \in Nat /\ Len(q) \in Nat
      /\ \A i \in 1..Len(p) + Len(q) : r[i] = IF i <= Len(p) THEN p[i] ELSE q[i - Len(p)]
  BY ConcatProperties, LenProperties
<1> HIDE DEF r
<1>2. Len(p) \in 0..Len(r)
  BY <1>1
<1>3. SubSeq(r, 1, Len(p)) \o SubSeq(r, Len(p) + 1, Len(r)) = r /\ SubSeq(r, Len(p) + 1, Len(r)) \in Seq(S)
  BY <1>1, <1>2, Cut
<1>4. SubSeq(r, 1, Len(p)) = p
  <2>1. /\ SubSeq(r, 1, Len(p)) \in Seq(S) /\ Len(SubSeq(r, 1, Len(p))) = Len(p)
        /\ \A i \in 1..Len(p) : SubSeq(r, 1, Len(p))[i] = r[i]
    BY <1>1
  <2>2. \A i \in 1..Len(p) : r[i] = p[i]
    BY <1>1
  <2> QED BY <2>1, <2>2, SeqEqual
<1>5. p \o SubSeq(r, Len(p) + 1, Len(r)) = p \o q
  BY <1>3, <1>4 DEF r
<1> QED BY <1>3, <1>5, ConcatSimplifications, Zenon DEF r

LEMMA Rejoin ==
  ASSUME NEW S, NEW p \in Seq(S), NEW q \in Seq(S), q # << >>
  PROVE  /\ Append(p, Head(q)) \in Seq(S) /\ Tail(q) \in Seq(S) /\ Append(p, Head(q)) # << >>
         /\ Append(p, Head(q)) \o Tail(q) = p \o q
<1>1. Head(q) \in S /\ Tail(q) \in Seq(S) /\ << Head(q) >> \in Seq(S) /\ << Head(q) >> \o Tail(q) = q
  OBVIOUS
<1>2. Append(p, Head(q)) = p \o << Head(q) >> /\ Append(p, Head(q)) \in Seq(S) /\ Append(p, Head(q)) # << >>
  BY <1>1
<1>3. (p \o << Head(q) >>) \o Tail(q) = p \o (<< Head(q) >> \o Tail(q))
  BY <1>1, ConcatAssociative
<1> QED BY <1>1, <1>2, <1>3
-----------------------------------------------------------------------------
\* What FlattenSeq computes, step by step.

LEMMA Flattening ==
  ASSUME NEW S, NEW s \in Seq(Seq(S))
  PROVE  \E g \in [0..Len(s) -> Seq(S)] : g[0] = << >> /\ \A k \in 1..Len(s) : g[k] = g[k - 1] \o s[k]
<1> DEFINE h == [x \in Seq(S) \X (1..Len(s)) |-> x[1] \o s[x[2]]]
<1>1. h \in [Seq(S) \X (1..Len(s)) -> Seq(S)]
  <2> SUFFICES ASSUME NEW v \in Seq(S), NEW k \in 1..Len(s)  PROVE v \o s[k] \in Seq(S)
    OBVIOUS
  <2>1. s[k] \in Seq(S)
    OBVIOUS
  <2> QED BY <2>1, ConcatProperties
<1>2. << >> \in Seq(S) /\ Len(s) \in Nat
  OBVIOUS
<1>3. \A v \in Seq(S), k \in 1..Len(s) : h[<< v, k >>] = v \o s[k]
  OBVIOUS
<1> HIDE DEF h
<1>4. PICK g \in [0..Len(s) -> Seq(S)] : IsLoop(g, << >>, h, Len(s))
  BY <1>1, <1>2, RecursionExists
<1>5. \A k \in 1..Len(s) : k - 1 \in 0..Len(s)
  BY <1>2
<1> QED BY <1>3, <1>4, <1>5 DEF IsLoop

LEMMA FlattenIs ==
  ASSUME NEW S, NEW s \in Seq(Seq(S)), s # << >>,
         NEW g \in [0..Len(s) -> Seq(S)], g[0] = << >>, \A k \in 1..Len(s) : g[k] = g[k - 1] \o s[k]
  PROVE  FlattenSeq(s) = g[Len(s)]
<1> DEFINE n == Len(s)
           Eq(f) == f = [i \in 1..n |-> IF i = 1 THEN s[i] ELSE f[i - 1] \o s[i]]
           e == [i \in 1..n |-> g[i]]
           flatten[i \in 1..Len(s)] == IF i = 1 THEN s[i] ELSE flatten[i - 1] \o s[i]
<1>1. n \in Nat \ {0}
  OBVIOUS
<1> HIDE DEF n
<1>2. Eq(e)
  <2> SUFFICES ASSUME NEW i \in 1..n  PROVE g[i] = IF i = 1 THEN s[i] ELSE e[i - 1] \o s[i]
    BY Zenon
  <2>1. g[i] = g[i - 1] \o s[i]
    BY DEF n
  <2>2. CASE i = 1
    <3>1. s[1] \in Seq(S)
      BY <1>1 DEF n
    <3>4. i - 1 = 0
      BY <2>2
    <3>2. g[1] = << >> \o s[1]
      BY <2>1, <2>2, <3>4, Zenon
    <3>3. << >> \o s[1] = s[1]
      BY <3>1, ConcatEmptySeq
    <3> QED BY <2>2, <3>2, <3>3
  <2>3. CASE i # 1
    <3>1. i - 1 \in 1..n
      BY <2>3, <1>1
    <3> QED BY <2>1, <2>3, <3>1, Zenon
  <2> QED BY <2>2, <2>3
<1>3. ASSUME NEW f, Eq(f)  PROVE f[n] = e[n]
  <2> DEFINE I == {k \in 0..n : k = 0 \/ f[k] = e[k]}
  <2>1. 0 \in I
    BY <1>1
  <2>2. ASSUME NEW k \in 0..(n - 1), k \in I  PROVE k + 1 \in I
    <3>1. k + 1 \in 1..n /\ k + 1 \in 0..n
      BY <1>1
    <3>2. /\ f[k + 1] = IF k + 1 = 1 THEN s[k + 1] ELSE f[(k + 1) - 1] \o s[k + 1]
          /\ e[k + 1] = IF k + 1 = 1 THEN s[k + 1] ELSE e[(k + 1) - 1] \o s[k + 1]
      BY <1>2, <1>3, <3>1, Zenon
    <3>3. (k + 1) - 1 = k /\ (k + 1 = 1 <=> k = 0)
      BY <1>1
    <3> HIDE DEF e
    <3> QED BY <2>2, <3>1, <3>2, <3>3
  <2> HIDE DEF I, e
  <2>3. 0..n \subseteq I
    BY <1>1, <2>1, <2>2, InductionUpTo
  <2>4. n \in 0..n /\ n # 0
    BY <1>1
  <2> QED BY <2>3, <2>4 DEF I
<1>4. flatten = CHOOSE f : Eq(f)
  BY Zenon DEF n
<1> HIDE DEF Eq, flatten
<1>5. Eq(flatten)
  BY <1>2, <1>4, Zenon
<1>6. FlattenSeq(s) = flatten[n]
  <2>1. Len(s) # 0
    BY <1>1 DEF n
  <2> QED BY <2>1, Zenon DEF FlattenSeq, flatten, n
<1>7. e[n] = g[n]
  BY <1>1
<1> QED BY <1>3, <1>5, <1>6, <1>7 DEF n
-----------------------------------------------------------------------------
\* The bytes of a line, and of the lines of a task.
LEMMA LineBytes ==
  ASSUME NEW t \in Tasks, NEW i \in 1..Len(Lines[t])
  PROVE  /\ Lines[t][i].len \in Nat \ {0}
         /\ Line(t, i) \in Seq(Byte) /\ Len(Line(t, i)) = Lines[t][i].len
         /\ \A j \in 1..Lines[t][i].len : IsNewline(Line(t, i)[j]) <=> j = Lines[t][i].len
         /\ Line(t, i)[1].task = t /\ Line(t, i)[1].line = i
         /\ KeyOf(Line(t, i)) = Lines[t][i].key
<1> DEFINE R == [key : Keys, len : Nat \ {0}]
           len == Lines[t][i].len
<1>1. Lines[t][i] \in R
  <2>1. Lines \in Seq(Seq(R))
    BY LinesAssumption
  <2> HIDE DEF R
  <2>2. Lines[t] \in Seq(R)
    BY <2>1 DEF Tasks
  <2> QED BY <2>2
<1>2. len \in Nat \ {0} /\ i \in Nat
  BY <1>1
<1> HIDE DEF R, len
<1>3. \A j \in 1..len : [task |-> t, line |-> i, place |-> j] \in Byte
  BY <1>2 DEF Byte
<1>4. Line(t, i) = [j \in 1..len |-> [task |-> t, line |-> i, place |-> j]]
  BY DEF Line, len
<1>5. Line(t, i) \in Seq(Byte) /\ Len(Line(t, i)) = len
  BY <1>2, <1>3, <1>4
<1>6. \A j \in 1..len : /\ Line(t, i)[j].task = t /\ Line(t, i)[j].line = i
                         /\ Line(t, i)[j].place = j
  <2> TAKE j \in 1..len
  <2>1. Line(t, i)[j] = [task |-> t, line |-> i, place |-> j]
    BY <1>4, Zenon
  <2> QED BY <2>1
<1>7. 1 \in 1..len
  BY <1>2
<1>8. \A j \in 1..len : IsNewline(Line(t, i)[j]) <=> j = len
  BY <1>6 DEF IsNewline, len
<1>9. Line(t, i)[1].task = t /\ Line(t, i)[1].line = i
  BY <1>6, <1>7
<1>10. KeyOf(Line(t, i)) = Lines[t][i].key
  BY <1>9 DEF KeyOf
<1> QED BY <1>2, <1>5, <1>8, <1>9, <1>10 DEF len

LEMMA PrefixSteps ==
  ASSUME NEW t \in Tasks
  PROVE  /\ Len(Lines[t]) \in Nat /\ DOMAIN Lines[t] = 1..Len(Lines[t])
         /\ Output(t) = Prefix(t, Len(Lines[t]))
         /\ Prefix(t, 0) = << >>
         /\ \A n \in 0..Len(Lines[t]) : Prefix(t, n) \in Seq(Byte)
         /\ \A n \in 0..(Len(Lines[t]) - 1) : Prefix(t, n + 1) = Prefix(t, n) \o Line(t, n + 1)
<1> DEFINE L == Len(Lines[t])
           s(n) == [i \in 1..n |-> Line(t, i)]
<1>1. L \in Nat /\ DOMAIN Lines[t] = 1..L
  <2> DEFINE R == [key : Keys, len : Nat \ {0}]
  <2>1. Lines \in Seq(Seq(R))
    BY LinesAssumption
  <2> HIDE DEF R
  <2>2. Lines[t] \in Seq(R)
    BY <2>1 DEF Tasks
  <2> QED BY <2>2
<1>2. \A i \in 1..L : Line(t, i) \in Seq(Byte)
  BY LineBytes
<1> HIDE DEF L
<1>3. \A n \in 0..L : s(n) \in Seq(Seq(Byte)) /\ Len(s(n)) = n /\ \A i \in 1..n : s(n)[i] = Line(t, i)
  BY <1>1, <1>2
<1>4. Output(t) = Prefix(t, L)
  BY <1>1, Zenon DEF Output, Prefix
<1>11. \A n : Prefix(t, n) = FlattenSeq(s(n))
  BY DEF Prefix
<1> HIDE DEF s
<1>5. Prefix(t, 0) = << >>
  <2>1. s(0) \in Seq(Seq(Byte)) /\ Len(s(0)) = 0
    BY <1>1, <1>3
  <2>2. FlattenSeq(s(0)) = s(0)
    BY <2>1, Zenon DEF FlattenSeq
  <2>3. s(0) = << >>
    BY <2>1, EmptySeq
  <2> QED BY <1>11, <2>2, <2>3
<1>6. PICK g \in [0..L -> Seq(Byte)] : g[0] = << >> /\ \A k \in 1..L : g[k] = g[k - 1] \o s(L)[k]
  <2>1. s(L) \in Seq(Seq(Byte)) /\ Len(s(L)) = L
    BY <1>1, <1>3
  <2> DEFINE q == s(L)
  <2> HIDE DEF q
  <2>2. q \in Seq(Seq(Byte)) /\ Len(q) = L
    BY <2>1 DEF q
  <2>3. \E g \in [0..Len(q) -> Seq(Byte)] : g[0] = << >> /\ \A k \in 1..Len(q) : g[k] = g[k - 1] \o q[k]
    BY <2>2, Flattening, Zenon
  <2> QED BY <2>2, <2>3, Zenon DEF q
<1>7. \A k \in 1..L : g[k] = g[k - 1] \o Line(t, k)
  <2>1. L \in 0..L
    BY <1>1
  <2> QED BY <1>3, <1>6, <2>1, Zenon
<1>8. ASSUME NEW n \in 1..L  PROVE Prefix(t, n) = g[n]
  <2> DEFINE gn == [k \in 0..n |-> g[k]]
             q == s(n)
  <2>1. q \in Seq(Seq(Byte)) /\ Len(q) = n /\ \A i \in 1..n : q[i] = Line(t, i)
    <3>1. n \in 0..L
      BY <1>1
    <3> QED BY <1>3, <3>1, Zenon
  <2>2. gn \in [0..n -> Seq(Byte)] /\ gn[0] = << >> /\ gn[n] = g[n]
    BY <1>1, <1>6
  <2>3. ASSUME NEW k \in 1..n  PROVE gn[k] = gn[k - 1] \o q[k]
    <3>1. k \in 0..n /\ k - 1 \in 0..n /\ k \in 1..L
      BY <1>1
    <3>2. gn[k] = g[k] /\ gn[k - 1] = g[k - 1]
      BY <3>1, Zenon
    <3> QED BY <1>7, <2>1, <3>1, <3>2, Zenon
  <2>4. q # << >>
    BY <2>1
  <2>5. Prefix(t, n) = FlattenSeq(q)
    BY <1>11
  <2> HIDE DEF gn, q
  <2>6. FlattenSeq(q) = gn[Len(q)]
    BY <2>1, <2>2, <2>3, <2>4, FlattenIs
  <2> QED BY <2>1, <2>2, <2>5, <2>6
<1>9. \A n \in 0..L : Prefix(t, n) = g[n]
  BY <1>1, <1>5, <1>6, <1>8
<1>10. ASSUME NEW n \in 0..(L - 1)  PROVE Prefix(t, n + 1) = Prefix(t, n) \o Line(t, n + 1)
  <2>1. n \in 0..L /\ n + 1 \in 1..L /\ n + 1 \in 0..L /\ (n + 1) - 1 = n
    BY <1>1
  <2> QED BY <1>7, <1>9, <2>1
<1> QED BY <1>1, <1>4, <1>5, <1>6, <1>9, <1>10 DEF L

LEMMA RestSteps ==
  ASSUME NEW t \in Tasks
  PROVE  /\ Rest(t, 0) = Output(t) /\ Rest(t, Len(Lines[t])) = << >>
         /\ \A n \in 0..Len(Lines[t]) : Rest(t, n) \in Seq(Byte) /\ Prefix(t, n) \o Rest(t, n) = Output(t)
         /\ \A n \in 0..(Len(Lines[t]) - 1) :
              Line(t, n + 1) \in Seq(Byte) /\ Rest(t, n) = Line(t, n + 1) \o Rest(t, n + 1)
<1> DEFINE L == Len(Lines[t])
           I == {k \in 0..L : \E r \in Seq(Byte) : Prefix(t, L - k) \o r = Output(t)}
<1>1. /\ L \in Nat /\ Output(t) = Prefix(t, L) /\ Prefix(t, 0) = << >>
      /\ \A n \in 0..L : Prefix(t, n) \in Seq(Byte)
      /\ \A n \in 0..(L - 1) : Prefix(t, n + 1) = Prefix(t, n) \o Line(t, n + 1)
  BY PrefixSteps
<1>2. \A n \in 0..(L - 1) : Line(t, n + 1) \in Seq(Byte)
  <2>1. \A n \in 0..(L - 1) : n + 1 \in 1..L
    BY <1>1
  <2> QED BY <2>1, LineBytes
<1> HIDE DEF L
<1>3. ASSUME NEW n \in 0..L, NEW r \in Seq(Byte), Prefix(t, n) \o r = Output(t)
      PROVE  Rest(t, n) = r
  BY <1>1, <1>3, AfterPrefix DEF Rest
<1>4. ASSUME NEW n \in 0..(L - 1), NEW r \in Seq(Byte), Prefix(t, n + 1) \o r = Output(t)
      PROVE  Prefix(t, n) \o (Line(t, n + 1) \o r) = Output(t) /\ Line(t, n + 1) \o r \in Seq(Byte)
  <2>1. n \in 0..L
    BY <1>1
  <2>2. Prefix(t, n) \in Seq(Byte) /\ Line(t, n + 1) \in Seq(Byte)
    BY <1>1, <1>2, <2>1
  <2>3. (Prefix(t, n) \o Line(t, n + 1)) \o r = Prefix(t, n) \o (Line(t, n + 1) \o r)
    BY <2>2, ConcatAssociative
  <2>4. Line(t, n + 1) \o r \in Seq(Byte)
    BY <2>2, ConcatProperties
  <2> QED BY <1>1, <1>4, <2>3, <2>4
<1>5. 0 \in I
  <2>1. L - 0 = L /\ 0 \in 0..L /\ << >> \in Seq(Byte)
    BY <1>1
  <2>2. Prefix(t, L) \o << >> = Output(t)
    <3>1. Prefix(t, L) \in Seq(Byte)
      BY <1>1
    <3> QED BY <1>1, <3>1, ConcatEmptySeq
  <2> QED BY <2>1, <2>2
<1>6. ASSUME NEW k \in 0..(L - 1), k \in I  PROVE k + 1 \in I
  <2> DEFINE n == L - (k + 1)
  <2>1. n \in 0..(L - 1) /\ n + 1 = L - k /\ k + 1 \in 0..L
    BY <1>1
  <2>2. PICK r \in Seq(Byte) : Prefix(t, L - k) \o r = Output(t)
    BY <1>6
  <2> HIDE DEF n
  <2>3. Prefix(t, n) \o (Line(t, n + 1) \o r) = Output(t) /\ Line(t, n + 1) \o r \in Seq(Byte)
    BY <1>4, <2>1, <2>2
  <2> QED BY <2>1, <2>3 DEF n
<1> HIDE DEF I
<1>7. 0..L \subseteq I
  BY <1>1, <1>5, <1>6, InductionUpTo
<1>8. ASSUME NEW n \in 0..L  PROVE Rest(t, n) \in Seq(Byte) /\ Prefix(t, n) \o Rest(t, n) = Output(t)
  <2>1. L - n \in 0..L /\ L - (L - n) = n
    BY <1>1
  <2>2. PICK r \in Seq(Byte) : Prefix(t, L - (L - n)) \o r = Output(t)
    BY <1>7, <2>1 DEF I
  <2> QED BY <1>3, <2>1, <2>2
<1>9. ASSUME NEW n \in 0..(L - 1)  PROVE Rest(t, n) = Line(t, n + 1) \o Rest(t, n + 1)
  <2>1. n \in 0..L /\ n + 1 \in 0..L
    BY <1>1
  <2> QED BY <1>3, <1>4, <1>8, <2>1
<1>10. Rest(t, 0) = Output(t) /\ Rest(t, L) = << >>
  <2>1. 0 \in 0..L /\ L \in 0..L /\ << >> \in Seq(Byte)
    BY <1>1
  <2>2. Output(t) \in Seq(Byte)
    BY <1>1, <2>1
  <2>3. Prefix(t, L) \o << >> = Output(t) /\ Prefix(t, 0) \o Output(t) = Output(t)
    BY <1>1, <2>2, ConcatEmptySeq
  <2> QED BY <1>3, <2>1, <2>2, <2>3
<1> QED BY <1>2, <1>8, <1>9, <1>10 DEF L

LEMMA Regroup ==
  \A x, y, z \in Seq(Byte) : (x \o y) \o z = x \o (y \o z) /\ x \o y \in Seq(Byte)
BY ConcatAssociative, ConcatProperties

LEMMA RegroupFour ==
  \A x, y, z, w \in Seq(Byte) : ((x \o y) \o z) \o w = x \o (y \o (z \o w))
<1> TAKE x, y, z, w \in Seq(Byte)
<1> DEFINE xy == x \o y
           zw == z \o w
<1>1. xy \in Seq(Byte) /\ zw \in Seq(Byte)
  BY Regroup
<1>2. xy \o zw = x \o (y \o zw)
  <2> HIDE DEF zw
  <2> QED BY <1>1, Regroup
<1>3. (xy \o z) \o w = xy \o zw
  <2> HIDE DEF xy
  <2> QED BY <1>1, Regroup, SMTT(40)
<1> QED BY <1>2, <1>3

\* A buffer with which a line of the stream begins.
Begins(b, r, t, i, q) ==
  /\ HasLine(b) => /\ FirstLine(b) = Line(t, i)
                   /\ SubSeq(b, LineLength(b) + 1, Len(b)) \in Seq(Byte)
                   /\ SubSeq(b, LineLength(b) + 1, Len(b)) \o r = q
  /\ ~HasLine(b) => Len(b) < Lines[t][i].len

LEMMA FirstOfStream ==
  ASSUME NEW t \in Tasks, NEW i \in 1..Len(Lines[t]), NEW b \in Seq(Byte), NEW r \in Seq(Byte),
         NEW q \in Seq(Byte), b \o r = Line(t, i) \o q
  PROVE  Begins(b, r, t, i, q)
<1> DEFINE l == Line(t, i)
           len == Lines[t][i].len
           all == l \o q
<1>1. /\ len \in Nat \ {0} /\ l \in Seq(Byte) /\ Len(l) = len
      /\ \A j \in 1..len : IsNewline(l[j]) <=> j = len
  BY LineBytes
<1>2. Len(b) \in Nat /\ Len(r) \in Nat /\ Len(q) \in Nat /\ DOMAIN b = 1..Len(b)
  OBVIOUS
<1> HIDE DEF l, len
<1>3. /\ all \in Seq(Byte) /\ Len(all) = len + Len(q)
      /\ \A j \in 1..len + Len(q) : all[j] = IF j <= len THEN l[j] ELSE q[j - len]
  BY <1>1, ConcatProperties
<1>4. /\ all = b \o r /\ Len(all) = Len(b) + Len(r)
      /\ \A j \in 1..Len(b) + Len(r) : all[j] = IF j <= Len(b) THEN b[j] ELSE r[j - Len(b)]
  <2>1. all = b \o r
    BY DEF l
  <2> HIDE DEF all
  <2> QED BY <2>1, ConcatProperties
<1> HIDE DEF all
<1>5. \A j \in 1..Len(b) : j <= len => b[j] = l[j]
  BY <1>1, <1>2, <1>3, <1>4
<1>6. ASSUME HasLine(b)  PROVE len <= Len(b)
  <2>1. PICK m \in 1..Len(b) : IsNewline(b[m])
    BY <1>2, <1>6 DEF HasLine
  <2> SUFFICES ASSUME Len(b) < len  PROVE FALSE
    BY <1>1, <1>2
  <2>2. m \in 1..len /\ m # len /\ m <= len
    BY <1>1, <1>2
  <2>3. b[m] = l[m]
    BY <1>5, <2>2
  <2> QED BY <1>1, <2>1, <2>2, <2>3
<1>7. ASSUME len <= Len(b)  PROVE HasLine(b) /\ LineLength(b) = len
  <2>1. len \in 1..Len(b) /\ len \in 1..len
    BY <1>1, <1>2, <1>7
  <2>2. b[len] = l[len] /\ IsNewline(b[len])
    BY <1>1, <1>5, <2>1
  <2>3. ASSUME NEW m \in 1..(len - 1)  PROVE ~ IsNewline(b[m])
    <3>1. m \in 1..Len(b) /\ m \in 1..len /\ m # len /\ m <= len
      BY <1>1, <1>2, <1>7
    <3> QED BY <1>1, <1>5, <3>1
  <2>4. ASSUME NEW n \in DOMAIN b, IsNewline(b[n]), \A m \in 1..(n - 1) : ~ IsNewline(b[m])
        PROVE  n = len
    <3>1. n \in Nat /\ 1 <= n
      BY <1>2
    <3>2. CASE n < len
      BY <1>1, <2>3, <2>4, <3>1, <3>2
    <3>3. CASE len < n
      BY <1>1, <2>2, <2>4, <3>1, <3>3
    <3> QED BY <1>1, <3>1, <3>2, <3>3
  <2>5. LineLength(b) = len
    BY <1>2, <2>1, <2>2, <2>3, <2>4 DEF LineLength
  <2> QED BY <1>2, <2>1, <2>2, <2>5 DEF HasLine
<1>8. ASSUME HasLine(b)
      PROVE  /\ FirstLine(b) = l /\ SubSeq(b, len + 1, Len(b)) \in Seq(Byte)
             /\ SubSeq(b, len + 1, Len(b)) \o r = q /\ LineLength(b) = len
  <2>1. len <= Len(b) /\ LineLength(b) = len /\ len \in 0..Len(b)
    BY <1>1, <1>2, <1>6, <1>7, <1>8
  <2> DEFINE front == SubSeq(b, 1, len)
             back == SubSeq(b, len + 1, Len(b))
  <2>2. front \in Seq(Byte) /\ back \in Seq(Byte) /\ Len(front) = len /\ front \o back = b
    BY <2>1, Cut, ZenonT(60)
  <2>3. front = l
    <3>1. \A j \in 1..len : front[j] = b[j] /\ b[j] = l[j]
      BY <1>1, <1>2, <1>5, <2>1
    <3> HIDE DEF front
    <3> QED BY <1>1, <2>2, <3>1, SeqEqual
  <2> HIDE DEF front, back
  <2>4. l \o (back \o r) = l \o q
    <3>1. (front \o back) \o r = front \o (back \o r)
      <4>1. front \in Seq(Byte)
        BY <2>2
      <4>2. back \in Seq(Byte)
        BY <2>2
      <4>3. r \in Seq(Byte)
        OBVIOUS
      <4> QED BY <4>1, <4>2, <4>3, Regroup, ZenonT(60)
    <3> QED BY <1>4, <2>2, <2>3, <3>1 DEF all
  <2>5. back \o r \in Seq(Byte)
    BY <2>2, ConcatProperties
  <2>6. back \o r = q
    BY <1>1, <2>4, <2>5, ConcatSimplifications, Zenon
  <2> QED BY <2>1, <2>2, <2>3, <2>6 DEF FirstLine, front, back
<1>9. ASSUME ~HasLine(b)  PROVE Len(b) < len
  BY <1>1, <1>2, <1>7, <1>9
<1> QED BY <1>8, <1>9 DEF Begins, l, len
-----------------------------------------------------------------------------
\* The line joins the value of its key.
Entered(line) ==
  LET key == KeyOf(line) IN
  /\ DS' = [k \in DOMAIN DS \cup {key} |-> DS'[k]]
  /\ DS'[key].value = {line} \cup (IF Holds(DS, key) THEN DS[key].value ELSE {})
  /\ \A k \in DOMAIN DS \ {key} : DS'[k] = DS[k]

LEMMA LinesDiffer ==
  ASSUME NEW t \in Tasks, NEW i \in DOMAIN Lines[t]
  PROVE  /\ Line(t, i) \in AllLines /\ KeyOf(Line(t, i)) \in AllKeys
         /\ Line(t, i)[1].task = t /\ Line(t, i)[1].line = i
<1>1. Line(t, i) \in AllLines
  BY DEF AllLines
<1>2. i \in 1..Len(Lines[t])
  BY PrefixSteps
<1> QED BY <1>1, <1>2, LineBytes DEF AllKeys

LEMMA StoreLine ==
  ASSUME StoreSound, NEW t \in Tasks, NEW i \in DOMAIN Lines[t], Entered(Line(t, i))
  PROVE  /\ StoreSound' /\ Stored(t)' = Stored(t) \cup {Line(t, i)}
         /\ \A u \in Tasks \ {t} : Stored(u)' = Stored(u)
<1> DEFINE line == Line(t, i)
           key == KeyOf(line)
           All(store) == UNION {store[k].value : k \in DOMAIN store}
<1>1. line \in AllLines /\ key \in AllKeys /\ line[1].task = t
  BY LinesDiffer
<1>2. /\ DS' = [k \in DOMAIN DS \cup {key} |-> DS'[k]]
      /\ DS'[key].value = {line} \cup (IF key \in DOMAIN DS THEN DS[key].value ELSE {})
      /\ \A k \in DOMAIN DS \ {key} : DS'[k] = DS[k]
  BY DEF Entered, Holds
<1> HIDE DEF line, key
<1>3. DOMAIN DS' = DOMAIN DS \cup {key}
  BY <1>2
<1>4. StoreSound'
  <2>1. DS' = [k \in DOMAIN DS' |-> DS'[k]] /\ DOMAIN DS' \subseteq AllKeys
    BY <1>1, <1>2, <1>3 DEF StoreSound
  <2>2. ASSUME NEW k \in DOMAIN DS'  PROVE DS'[k].value \subseteq {l \in AllLines : KeyOf(l) = k}
    BY <1>1, <1>2, <1>3 DEF StoreSound, key
  <2> QED BY <2>1, <2>2 DEF StoreSound
<1>5. All(DS') = All(DS) \cup {line}
  <2>1. ASSUME NEW x \in All(DS')  PROVE x \in All(DS) \cup {line}
    BY <1>2, <1>3
  <2>2. ASSUME NEW x \in All(DS)  PROVE x \in All(DS')
    <3>1. PICK k \in DOMAIN DS : x \in DS[k].value
      OBVIOUS
    <3>2. x \in DS'[k].value /\ k \in DOMAIN DS'
      BY <1>2, <1>3, <3>1
    <3> QED BY <3>2
  <2>3. line \in All(DS')
    BY <1>2, <1>3
  <2> QED BY <2>1, <2>2, <2>3
<1>6. \A u \in Tasks : Stored(u) = {l \in All(DS) : l[1].task = u}
  BY DEF Stored
<1>7. \A u \in Tasks : Stored(u)' = {l \in All(DS') : l[1].task = u}
  BY DEF Stored
<1> HIDE DEF All
<1>8. Stored(t)' = Stored(t) \cup {line}
  BY <1>1, <1>5, <1>6, <1>7
<1>9. ASSUME NEW u \in Tasks, u # t  PROVE Stored(u)' = Stored(u)
  <2>1. Stored(u) = {l \in All(DS) : l[1].task = u} /\ Stored(u)' = {l \in All(DS') : l[1].task = u}
    BY <1>6, <1>7
  <2>2. \A l : l \in All(DS') /\ l[1].task = u <=> l \in All(DS) /\ l[1].task = u
    BY <1>1, <1>5, <1>9
  <2> QED BY <2>1, <2>2
<1> QED BY <1>4, <1>8, <1>9 DEF line

LEMMA KeepStore ==
  ASSUME DS' = DS
  PROVE  /\ StoreSound => StoreSound'
         /\ \A t \in Tasks : Stored(t)' = Stored(t)
BY DEF StoreSound, Stored

LEMMA KeepHand ==
  ASSUME DS' = DS, worker' = worker, buffs' = buffs, WorkerSound
  PROVE  WorkerSound'
BY DEF WorkerSound, InHand

LEMMA KeepStream ==
  ASSUME NEW t \in Tasks, StreamSound(t), Stored(t)' = Stored(t), t \in failed' <=> t \in failed,
         (buffs[t] \o (pipe[t] \o output[t]))' = buffs[t] \o (pipe[t] \o output[t])
  PROVE  StreamSound(t)'
BY DEF StreamSound

LEMMA InHandOf ==
  ASSUME NEW t \in Tasks, InHand(t)
  PROVE  worker.pc \in {"put", "get", "update"} /\ worker.task = t
BY DEF InHand

LEMMA HeadOfStream ==
  ASSUME MapReduceInv, NEW t \in Tasks, HasLine(buffs[t])
  PROVE  /\ t \notin failed
         /\ \E n \in 0..(Len(Lines[t]) - 1) :
              /\ Stored(t) = FirstLines(t, n)
              /\ FirstLine(buffs[t]) = Line(t, n + 1)
              /\ SubSeq(buffs[t], LineLength(buffs[t]) + 1, Len(buffs[t])) \in Seq(Byte)
              /\ SubSeq(buffs[t], LineLength(buffs[t]) + 1, Len(buffs[t])) \o (pipe[t] \o output[t])
                   = Rest(t, n + 1)
<1> DEFINE b == buffs[t]
           r == pipe[t] \o output[t]
           L == Len(Lines[t])
<1>1. b \in Seq(Byte) /\ pipe[t] \in Seq(Byte) /\ output[t] \in Seq(Byte) /\ HasLine(b)
  BY DEF MapReduceInv, MapReduceTypeOK
<1>2. r \in Seq(Byte)
  BY <1>1, Regroup
<1>3. b # << >>
  <2>1. Len(b) # 0
    BY <1>1 DEF HasLine
  <2> QED BY <1>1, <2>1
<1>4. t \notin failed
  BY <1>3 DEF MapReduceInv, EndsSound
<1>5. PICK n \in 0..L : Stored(t) = FirstLines(t, n) /\ b \o r = Rest(t, n)
  BY <1>4 DEF MapReduceInv, StreamSound
<1>6. L \in Nat
  BY PrefixSteps
<1> HIDE DEF b, r, L
<1>7. n # L
  <2> SUFFICES ASSUME n = L  PROVE FALSE
    OBVIOUS
  <2>1. b \o r = << >>
    BY <1>5, RestSteps DEF L
  <2> QED BY <1>1, <1>2, <1>3, <2>1, ConcatEqualIffEmpty
<1>8. n \in 0..(L - 1) /\ n + 1 \in 0..L /\ n + 1 \in 1..L
  BY <1>6, <1>7
<1>9. Rest(t, n + 1) \in Seq(Byte) /\ b \o r = Line(t, n + 1) \o Rest(t, n + 1)
  BY <1>5, <1>8, RestSteps DEF L
<1>10. /\ FirstLine(b) = Line(t, n + 1)
       /\ SubSeq(b, LineLength(b) + 1, Len(b)) \in Seq(Byte)
       /\ SubSeq(b, LineLength(b) + 1, Len(b)) \o r = Rest(t, n + 1)
  <2> DEFINE i == n + 1
             q == Rest(t, i)
  <2>1. i \in 1..Len(Lines[t]) /\ q \in Seq(Byte) /\ b \o r = Line(t, i) \o q
    BY <1>8, <1>9 DEF L
  <2> HIDE DEF i, q
  <2>2. /\ FirstLine(b) = Line(t, i)
        /\ SubSeq(b, LineLength(b) + 1, Len(b)) \in Seq(Byte)
        /\ SubSeq(b, LineLength(b) + 1, Len(b)) \o r = q
    <3>1. Begins(b, r, t, i, q)
      BY <1>1, <1>2, <2>1, FirstOfStream
    <3> QED BY <1>1, <3>1 DEF Begins
  <2> QED BY <2>2 DEF i, q
<1> QED BY <1>4, <1>5, <1>8, <1>10 DEF b, r, L
-----------------------------------------------------------------------------
\* The worker is done with a line: the store has it, the buffer no longer.
LEMMA LineDone ==
  ASSUME MapReduceInv, NEW t \in Tasks, InHand(t), Entered(FirstLine(buffs[t])), Shift(t),
         UNCHANGED << mapVars, pipe, watched, counter, main >>
  PROVE  MapReduceInv'
<1> DEFINE rest == SubSeq(buffs[t], LineLength(buffs[t]) + 1, Len(buffs[t]))
<1>1. HasLine(buffs[t])
  BY DEF MapReduceInv, WorkerSound
<1>2. t \notin failed /\ buffs[t] # << >> /\ t \in forked
  <2>1. Len(buffs[t]) # 0
    BY <1>1 DEF HasLine, MapReduceInv, MapReduceTypeOK
  <2>2. buffs[t] # << >>
    BY <2>1
  <2> QED BY <2>2 DEF MapReduceInv, EndsSound
<1>3. PICK n \in 0..(Len(Lines[t]) - 1) :
        /\ Stored(t) = FirstLines(t, n) /\ FirstLine(buffs[t]) = Line(t, n + 1)
        /\ rest \in Seq(Byte) /\ rest \o (pipe[t] \o output[t]) = Rest(t, n + 1)
  BY <1>1, HeadOfStream
<1>4. buffs' = [buffs EXCEPT ![t] = rest] /\ worker' = Processing(t, rest)
  BY DEF Shift
<1> HIDE DEF rest
<1>5. n + 1 \in 0..Len(Lines[t]) /\ n + 1 \in DOMAIN Lines[t] /\ FirstLines(t, n + 1) = FirstLines(t, n) \cup {Line(t, n + 1)}
  <2>1. Len(Lines[t]) \in Nat /\ DOMAIN Lines[t] = 1..Len(Lines[t])
    BY PrefixSteps
  <2>2. 1..n + 1 = (1..n) \cup {n + 1}
    BY <2>1
  <2> QED BY <2>1, <2>2 DEF FirstLines
<1>6. /\ StoreSound' /\ Stored(t)' = FirstLines(t, n + 1)
      /\ \A u \in Tasks \ {t} : Stored(u)' = Stored(u)
  <2>1. Entered(Line(t, n + 1)) /\ StoreSound
    BY <1>3 DEF MapReduceInv
  <2> DEFINE i == n + 1
  <2>2. i \in DOMAIN Lines[t] /\ Entered(Line(t, i))
    BY <1>5, <2>1
  <2> HIDE DEF i
  <2>3. /\ StoreSound' /\ Stored(t)' = Stored(t) \cup {Line(t, i)}
        /\ \A u \in Tasks \ {t} : Stored(u)' = Stored(u)
    BY <2>1, <2>2, StoreLine
  <2> QED BY <1>3, <1>5, <2>3 DEF i
<1>7. MapReduceTypeOK'
  BY <1>3, <1>4 DEF MapReduceInv, MapReduceTypeOK, mapVars
<1>8. worker.pc \in {"put", "get", "update"} /\ worker.task = t
  BY InHandOf
<1>9. /\ HasLine(rest) => worker' = [pc |-> "put", task |-> t]
      /\ ~ HasLine(rest) => worker' = Waiting
  BY <1>4 DEF Processing, HasLine
<1>10. Forking'
  <2>1. worker' # NotStarted /\ worker # NotStarted /\ worker # [pc |-> "ended"]
    <3>1. worker'.pc \in {"put", "epoll_wait"}
      BY <1>9 DEF Waiting
    <3>2. NotStarted.pc = "not started" /\ [pc |-> "ended"].pc = "ended"
      BY DEF NotStarted
    <3> QED BY <1>8, <3>1, <3>2
  <2> QED BY <2>1 DEF MapReduceInv, Forking, mapVars
<1>11. WorkerSound'
  <2>1. ASSUME NEW u \in Tasks, u # t  PROVE ~ HasLine(buffs[u])' /\ ~ InHand(u)'
    <3>1. ~ InHand(u)
      BY <1>8, <2>1, InHandOf
    <3>2. ~ HasLine(buffs[u])
      BY <3>1 DEF MapReduceInv, WorkerSound
    <3>3. buffs[u]' = buffs[u]
      BY <1>4, <2>1 DEF MapReduceInv, MapReduceTypeOK
    <3>4. ~ InHand(u)'
      BY <1>9, <2>1 DEF InHand, Waiting
    <3> QED BY <3>2, <3>3, <3>4 DEF HasLine
  <2>2. buffs[t]' = rest
    BY <1>4 DEF MapReduceInv, MapReduceTypeOK
  <2>3. HasLine(rest) => InHand(t)'
    BY <1>9 DEF InHand
  <2>4. ~ HasLine(rest) => ~ InHand(t)'
    BY <1>9 DEF InHand, Waiting
  <2>5. HasLine(buffs[t])' <=> HasLine(rest)
    BY <2>2 DEF HasLine
  <2>6. worker' \in {NotStarted, Waiting, [pc |-> "ended"]} \/ \E u \in Tasks : InHand(u)'
    BY <1>9, <2>3
  <2> QED BY <2>1, <2>3, <2>4, <2>5, <2>6 DEF WorkerSound
<1>12. ClosingSound'
  <2>1. worker' # [pc |-> "ended"]
    BY <1>9 DEF Waiting
  <2>2. ASSUME LinesFit, NEW u \in forked \ watched
        PROVE  Stored(u)' = FirstLines(u, Len(Lines[u])) /\ buffs[u]' = << >>
    <3>1. Stored(u) = FirstLines(u, Len(Lines[u])) /\ buffs[u] = << >> /\ u \in Tasks /\ u # t
      BY <1>2, <2>2 DEF MapReduceInv, ClosingSound, Forking, Tasks
    <3>2. Stored(u)' = Stored(u) /\ buffs[u]' = buffs[u]
      BY <1>4, <1>6, <3>1 DEF MapReduceInv, MapReduceTypeOK
    <3> QED BY <3>1, <3>2
  <2> QED BY <2>1, <2>2 DEF ClosingSound, MapReduceInv, mapVars
<1>13. ASSUME NEW u \in Tasks  PROVE EndsSound(u)' /\ StreamSound(u)'
  <2>1. CASE u = t
    <3>1. (buffs[t] \o (pipe[t] \o output[t]))' = rest \o (pipe[t] \o output[t])
      BY <1>4 DEF MapReduceInv, MapReduceTypeOK, mapVars
    <3>2. StreamSound(t)'
      BY <1>3, <1>5, <1>6, <3>1 DEF StreamSound
    <3>3. EndsSound(t)'
      BY <1>2 DEF EndsSound, MapReduceInv, mapVars
    <3> QED BY <2>1, <3>2, <3>3
  <2>2. CASE u # t
    <3>1. buffs[u]' = buffs[u] /\ Stored(u)' = Stored(u)
      BY <1>4, <1>6, <2>2 DEF MapReduceInv, MapReduceTypeOK
    <3>2. StreamSound(u) /\ EndsSound(u)
      BY DEF MapReduceInv
    <3>3. StreamSound(u)'
      BY <3>1, <3>2 DEF StreamSound, mapVars
    <3>4. EndsSound(u)'
      BY <3>1, <3>2 DEF EndsSound, mapVars
    <3> QED BY <3>3, <3>4
  <2> QED BY <2>1, <2>2
<1> QED BY <1>6, <1>7, <1>10, <1>11, <1>12, <1>13 DEF MapReduceInv
-----------------------------------------------------------------------------
\* The worker goes on with the line it has.
LEMMA WorkerMoves ==
  ASSUME MapReduceInv, NEW t \in Tasks, InHand(t), InHand(t)',
         UNCHANGED << mapVars, pipe, watched, counter, buffs, DS, main >>
  PROVE  MapReduceInv'
<1>1. MapReduceTypeOK'
  BY DEF MapReduceInv, MapReduceTypeOK, mapVars
<1>2. worker.pc \in {"put", "get", "update"} /\ worker.task = t
  BY InHandOf
<1>3. worker'.pc \in {"put", "get", "update"} /\ worker'.task = t
  BY DEF InHand
<1>4. /\ worker # NotStarted /\ worker # [pc |-> "ended"]
      /\ worker' # NotStarted /\ worker' # [pc |-> "ended"]
  <2>1. NotStarted.pc = "not started" /\ [pc |-> "ended"].pc = "ended"
    BY DEF NotStarted
  <2> QED BY <1>2, <1>3, <2>1
<1>5. Forking'
  BY <1>4 DEF MapReduceInv, Forking, mapVars
<1>6. WorkerSound'
  <2>1. ASSUME NEW u \in Tasks  PROVE HasLine(buffs[u])' <=> InHand(u)'
    <3>1. HasLine(buffs[u])' <=> HasLine(buffs[u])
      BY DEF HasLine
    <3>2. HasLine(buffs[u]) <=> InHand(u)
      BY DEF MapReduceInv, WorkerSound
    <3>3. u # t => ~ InHand(u)
      BY <1>2, InHandOf
    <3>4. u # t => ~ InHand(u)'
      BY <1>3 DEF InHand
    <3> QED BY <3>1, <3>2, <3>3, <3>4
  <2>2. \E u \in Tasks : InHand(u)'
    OBVIOUS
  <2> QED BY <2>1, <2>2 DEF WorkerSound
<1>7. StoreSound' /\ \A u \in Tasks : Stored(u)' = Stored(u)
  BY KeepStore DEF MapReduceInv
<1>8. ClosingSound'
  <2>1. forked \subseteq Tasks
    BY DEF MapReduceInv, Forking, Tasks
  <2> QED BY <1>4, <1>7, <2>1 DEF MapReduceInv, ClosingSound, mapVars
<1>9. ASSUME NEW u \in Tasks  PROVE EndsSound(u)' /\ StreamSound(u)'
  <2>1. EndsSound(u) /\ StreamSound(u)
    BY DEF MapReduceInv
  <2> QED BY <1>7, <2>1 DEF EndsSound, StreamSound, mapVars
<1> QED BY <1>1, <1>5, <1>6, <1>7, <1>8, <1>9 DEF MapReduceInv

LEMMA HandOf ==
  ASSUME MapReduceInv, worker.pc \in {"put", "get", "update"}
  PROVE  worker.task \in Tasks /\ InHand(worker.task)
<1>1. worker \notin {NotStarted, Waiting, [pc |-> "ended"]}
  <2>1. NotStarted.pc = "not started" /\ Waiting.pc = "epoll_wait" /\ [pc |-> "ended"].pc = "ended"
    BY DEF NotStarted, Waiting
  <2> QED BY <2>1
<1>2. PICK t \in Tasks : InHand(t)
  BY <1>1 DEF MapReduceInv, WorkerSound
<1> QED BY <1>2, InHandOf

LEMMA PutStep ==
  ASSUME MapReduceInv, Put
  PROVE  MapReduceInv'
<1> DEFINE t == worker.task
           line == FirstLine(buffs[t])
           key == KeyOf(line)
<1>1. t \in Tasks /\ InHand(t)
  BY HandOf DEF Put
<1>2. worker = [pc |-> "put", task |-> t]
  BY <1>1 DEF Put, InHand
<1>3. CASE Holds(DS, key)
  <2>1. DS' = DS /\ worker' = [worker EXCEPT !.pc = "get"] /\ UNCHANGED << mapVars, pipe, watched, counter, buffs, main >>
    BY <1>3 DEF Put, WithPut
  <2> SUFFICES ASSUME NEW x \in Tasks, x = t  PROVE MapReduceInv'
    BY <1>1
  <2>2. worker' = [pc |-> "get", task |-> x]
    BY <1>2, <2>1
  <2>3. InHand(x)'
    BY <1>3, <2>1, <2>2 DEF InHand
  <2> QED BY <1>1, <2>1, <2>3, WorkerMoves
<1>4. CASE ~ Holds(DS, key)
  <2>1. DS' = WithPut(DS, key, {line}) /\ Shift(t) /\ UNCHANGED << mapVars, pipe, watched, counter, main >>
    BY <1>4 DEF Put
  <2>2. DS' = [k \in DOMAIN DS \cup {key} |-> IF k = key THEN malloc_entry_t({line}) ELSE DS[k]]
    BY <1>4, <2>1 DEF WithPut
  <2>3. Entered(line)
    BY <1>4, <2>2 DEF Entered, malloc_entry_t, Holds
  <2> QED BY <1>1, <2>1, <2>3, LineDone
<1> QED BY <1>3, <1>4

LEMMA GetStep ==
  ASSUME MapReduceInv, Get
  PROVE  MapReduceInv'
<1>1. worker.task \in Tasks /\ InHand(worker.task)
  BY HandOf DEF Get
<1> SUFFICES ASSUME NEW t \in Tasks, t = worker.task  PROVE MapReduceInv'
  BY <1>1
<1> DEFINE key == KeyOf(FirstLine(buffs[t]))
<1>2. Holds(DS, key)
  BY <1>1 DEF Get, InHand
<1>3. /\ worker' = [pc |-> "update", task |-> t, seen |-> DS[key]]
      /\ UNCHANGED << mapVars, pipe, watched, counter, buffs, DS, main >>
  BY DEF Get
<1>4. InHand(t)'
  BY <1>2, <1>3 DEF InHand
<1> QED BY <1>1, <1>3, <1>4, WorkerMoves

LEMMA UpdateEnters ==
  ASSUME MapReduceInv, Update
  PROVE  Entered(FirstLine(buffs[worker.task]))
<1> DEFINE t == worker.task
           line == FirstLine(buffs[t])
           key == KeyOf(line)
<1>1. t \in Tasks /\ InHand(t)
  BY HandOf DEF Update
<1>2. Holds(DS, key) /\ worker.seen = DS[key]
  BY <1>1 DEF Update, InHand
<1>3. DS' = WithUpdate(DS, key, my_reduce({line}, worker.seen.value), worker.seen.rev)
  BY DEF Update
<1>4. Matches(DS, key, worker.seen.rev)
  BY <1>2 DEF Matches
<1>5. DS' = [DS EXCEPT ![key] = [value |-> {line} \cup DS[key].value, rev |-> @.rev + 1]]
  BY <1>2, <1>3, <1>4 DEF WithUpdate, my_reduce
<1>6. DS = [k \in DOMAIN DS |-> DS[k]]
  BY DEF MapReduceInv, StoreSound
<1> HIDE DEF key, line
<1>7. Entered(line)
  BY <1>2, <1>5, <1>6 DEF Entered, Holds, key
<1> QED BY <1>7 DEF line

LEMMA UpdateStep ==
  ASSUME MapReduceInv, Update
  PROVE  MapReduceInv'
<1>1. worker.task \in Tasks /\ InHand(worker.task)
  BY HandOf DEF Update
<1>2. Shift(worker.task) /\ UNCHANGED << mapVars, pipe, watched, counter, main >>
  BY DEF Update
<1> QED BY <1>1, <1>2, UpdateEnters, LineDone
-----------------------------------------------------------------------------
\* The map processes.
LEMMA WriteStep ==
  ASSUME MapReduceInv, NEW t \in Tasks, Write(t)
  PROVE  MapReduceInv'
<1>1. /\ output[t] \in Seq(Byte) /\ pipe[t] \in Seq(Byte) /\ buffs[t] \in Seq(Byte)
      /\ output[t] # << >> /\ t \in writers[t] /\ t \in Tasks
      /\ pipe' = [pipe EXCEPT ![t] = Append(pipe[t], Head(output[t]))]
      /\ output' = [output EXCEPT ![t] = Tail(output[t])]
      /\ UNCHANGED << forked, failed, writers, watched, counter, buffs, worker, DS, main >>
  BY DEF Write, Runs, MapReduceInv, MapReduceTypeOK, workVars
<1>2. /\ Append(pipe[t], Head(output[t])) \in Seq(Byte) /\ Tail(output[t]) \in Seq(Byte)
      /\ Append(pipe[t], Head(output[t])) \o Tail(output[t]) = pipe[t] \o output[t]
  BY <1>1, Rejoin
<1>3. t \in forked \ failed
  <2>1. Parent \notin Tasks
    BY DEF Parent, Tasks
  <2> QED BY <1>1, <2>1 DEF MapReduceInv, EndsSound
<1>4. MapReduceTypeOK'
  BY <1>1, <1>2 DEF MapReduceInv, MapReduceTypeOK
<1>5. Forking' /\ WorkerSound' /\ StoreSound' /\ \A u \in Tasks : Stored(u)' = Stored(u)
  BY <1>1, KeepHand, KeepStore DEF MapReduceInv, Forking
<1>6. ClosingSound'
  <2>1. forked \subseteq Tasks
    BY DEF MapReduceInv, Forking, Tasks
  <2> QED BY <1>1, <1>5, <2>1 DEF MapReduceInv, ClosingSound
<1>7. ASSUME NEW u \in Tasks  PROVE EndsSound(u)' /\ StreamSound(u)'
  <2>1. EndsSound(u) /\ StreamSound(u)
    BY DEF MapReduceInv
  <2>2. pipe[u]' \o output[u]' = pipe[u] \o output[u] /\ (u # t => pipe[u]' = pipe[u] /\ output[u]' = output[u])
    BY <1>1, <1>2 DEF MapReduceInv, MapReduceTypeOK
  <2>3. StreamSound(u)'
    BY <1>1, <1>5, <2>1, <2>2 DEF StreamSound
  <2>4. EndsSound(u)'
    BY <1>1, <1>3, <2>1, <2>2 DEF EndsSound
  <2> QED BY <2>3, <2>4
<1> QED BY <1>4, <1>5, <1>6, <1>7 DEF MapReduceInv

LEMMA ExitStep ==
  ASSUME MapReduceInv, NEW t \in Tasks, Exit(t)
  PROVE  MapReduceInv'
<1>1. /\ output[t] = << >> /\ t \in writers[t]
      /\ writers' = [p \in Tasks |-> writers[p] \ {t}]
      /\ UNCHANGED << forked, failed, output, pipe, watched, counter, buffs, worker, DS, main >>
  BY DEF Exit, Runs, workVars
<1>2. t # Parent
  BY DEF Parent, Tasks
<1>3. MapReduceTypeOK'
  BY <1>1 DEF MapReduceInv, MapReduceTypeOK
<1>4. Forking' /\ WorkerSound' /\ StoreSound' /\ \A u \in Tasks : Stored(u)' = Stored(u)
  BY <1>1, KeepHand, KeepStore DEF MapReduceInv, Forking
<1>5. ClosingSound'
  <2>1. forked \subseteq Tasks
    BY DEF MapReduceInv, Forking, Tasks
  <2> QED BY <1>1, <1>4, <2>1 DEF MapReduceInv, ClosingSound
<1>6. ASSUME NEW u \in Tasks  PROVE EndsSound(u)' /\ StreamSound(u)'
  <2>1. EndsSound(u) /\ StreamSound(u)
    BY DEF MapReduceInv
  <2>2. StreamSound(u)'
    BY <1>1, <1>4, <2>1 DEF StreamSound
  <2>3. EndsSound(u)'
    BY <1>1, <1>2, <2>1 DEF EndsSound
  <2> QED BY <2>2, <2>3
<1> QED BY <1>3, <1>4, <1>5, <1>6 DEF MapReduceInv

LEMMA NextTaskIs ==
  ASSUME MapReduceInv, main = "map_all", NEW t \in Tasks, t = NextTask
  PROVE  /\ t \notin forked /\ forked \subseteq Tasks
         /\ \E m \in 0..Len(Lines) : forked \cup {t} = 1..m
         /\ (forked \cup {t}) \ (watched \cup {t}) = forked \ watched
         /\ worker = NotStarted /\ ~ \E u \in Tasks : HasLine(buffs[u])
<1>1. PICK m \in 0..Len(Lines) : forked = 1..m
  BY DEF MapReduceInv, Forking
<1>2. Cardinality(forked) = m
  <2>1. m \in Nat /\ 1 \in Int /\ m \in Int
    OBVIOUS
  <2>2. Cardinality(1..m) = IF 1 > m THEN 0 ELSE m - 1 + 1
    BY <2>1, FS_Interval
  <2> QED BY <1>1, <2>1, <2>2
<1>3. t = m + 1
  BY <1>2 DEF NextTask
<1>4. m + 1 \in 0..Len(Lines) /\ forked \cup {t} = 1..m + 1 /\ t \notin forked /\ forked \subseteq Tasks
  BY <1>1, <1>3 DEF Tasks
<1>5. worker = NotStarted
  BY DEF MapReduceInv, Forking
<1>6. ASSUME NEW u \in Tasks  PROVE ~ HasLine(buffs[u])
  <2>1. ~ InHand(u)
    BY <1>5, InHandOf DEF NotStarted
  <2> QED BY <2>1 DEF MapReduceInv, WorkerSound
<1> QED BY <1>3, <1>4, <1>5, <1>6 DEF MapReduceInv, MapReduceTypeOK

\* A fork, whether it fails or not.
LEMMA ForkedStep ==
  ASSUME MapReduceInv, NEW t \in Tasks, main = "map_all", t = NextTask,
         forked' = forked \cup {t}, watched' = watched \cup {t}, failed' \in {failed, failed \cup {t}},
         output' = [output EXCEPT ![t] = IF t \in failed' THEN << >> ELSE @],
         writers' \in [Tasks -> SUBSET (Tasks \cup {Parent})],
         \A p \in Tasks : /\ writers'[p] \subseteq writers[p] \cup (IF t \in failed' THEN {} ELSE {t})
                          /\ writers[p] \subseteq writers'[p] \cup {Parent}
                          /\ p # t \/ t \in failed' => writers'[p] \cap {Parent} = writers[p] \cap {Parent},
         t \in failed' \/ t \in writers'[t],
         UNCHANGED << pipe, counter, buffs, worker, DS, main >>
  PROVE  MapReduceInv'
<1>1. /\ t \notin forked /\ forked \subseteq Tasks
      /\ \E m \in 0..Len(Lines) : forked \cup {t} = 1..m
      /\ (forked \cup {t}) \ (watched \cup {t}) = forked \ watched
      /\ worker = NotStarted /\ ~ \E u \in Tasks : HasLine(buffs[u])
  BY NextTaskIs
<1>2. t \notin failed /\ failed \subseteq forked /\ t # Parent
  BY <1>1 DEF MapReduceInv, MapReduceTypeOK, Parent, Tasks
<1>3. MapReduceTypeOK'
  <2>1. output' \in [Tasks -> Seq(Byte)]
    <3>1. << >> \in Seq(Byte) /\ output \in [Tasks -> Seq(Byte)]
      BY DEF MapReduceInv, MapReduceTypeOK
    <3>2. (IF t \in failed' THEN << >> ELSE output[t]) \in Seq(Byte)
      BY <3>1
    <3> QED BY <3>1, <3>2
  <2>2. failed' \subseteq forked' /\ watched' \subseteq forked'
    BY <1>2 DEF MapReduceInv, MapReduceTypeOK
  <2> QED BY <2>1, <2>2 DEF MapReduceInv, MapReduceTypeOK
<1>4. Forking'
  BY <1>1 DEF MapReduceInv, Forking
<1>5. WorkerSound' /\ StoreSound' /\ \A u \in Tasks : Stored(u)' = Stored(u)
  BY KeepHand, KeepStore DEF MapReduceInv
<1>6. ClosingSound'
  BY <1>1, <1>5 DEF MapReduceInv, ClosingSound
<1>7. ASSUME NEW u \in Tasks  PROVE EndsSound(u)' /\ StreamSound(u)'
  <2>1. EndsSound(u) /\ StreamSound(u)
    BY DEF MapReduceInv
  <2>2. output[u]' = IF u = t /\ t \in failed' THEN << >> ELSE output[u]
    BY DEF MapReduceInv, MapReduceTypeOK
  <2>3. StreamSound(u)'
    <3> SUFFICES ASSUME u \notin failed'
                 PROVE  \E n \in 0..Len(Lines[u]) :
                          /\ Stored(u)' = FirstLines(u, n)
                          /\ (buffs[u] \o (pipe[u] \o output[u]))' = Rest(u, n)
      BY DEF StreamSound
    <3>1. u \notin failed /\ output[u]' = output[u]
      BY <2>2
    <3> QED BY <1>5, <2>1, <3>1 DEF StreamSound
  <2>4. EndsSound(u)'
    <3>1. writers'[u] \subseteq {Parent} \cup (forked' \ failed')
      BY <1>1, <1>2, <2>1 DEF EndsSound
    <3>2. u \notin forked' \/ u \in failed' => Parent \in writers'[u] /\ pipe'[u] = << >> /\ buffs'[u] = << >>
      BY <1>1, <1>2, <2>1 DEF EndsSound
    <3>3. u \in failed' => output'[u] = << >> /\ u \in watched'
      BY <1>1, <1>2, <2>1, <2>2 DEF EndsSound
    <3>4. u \in forked' \ failed' => u \in writers'[u] \/ output'[u] = << >>
      BY <1>1, <1>2, <2>1, <2>2 DEF EndsSound
    <3> QED BY <3>1, <3>2, <3>3, <3>4 DEF EndsSound
  <2> QED BY <2>3, <2>4
<1> QED BY <1>3, <1>4, <1>5, <1>6, <1>7 DEF MapReduceInv

LEMMA ForkStep ==
  ASSUME MapReduceInv, NEW t \in Tasks, Fork(t)
  PROVE  MapReduceInv'
<1>1. /\ main = "map_all" /\ t = NextTask
      /\ forked' = forked \cup {t} /\ watched' = watched \cup {t} /\ failed' = failed
      /\ writers' = [p \in Tasks |-> IF Parent \in writers[p]
                                       THEN (writers[p] \cup {t}) \ (IF p = t THEN {Parent} ELSE {})
                                       ELSE writers[p]]
      /\ UNCHANGED << output, pipe, counter, buffs, worker, DS, main >>
  BY DEF Fork
<1>2. t \notin forked /\ forked \subseteq Tasks
  BY <1>1, NextTaskIs
<1>3. t \notin failed /\ Parent \in writers[t] /\ t # Parent
  BY <1>2 DEF MapReduceInv, MapReduceTypeOK, EndsSound, Parent, Tasks
<1>4. output' = [output EXCEPT ![t] = IF t \in failed' THEN << >> ELSE @]
  BY <1>1, <1>3 DEF MapReduceInv, MapReduceTypeOK
<1>5. writers' \in [Tasks -> SUBSET (Tasks \cup {Parent})]
  BY <1>1 DEF MapReduceInv, MapReduceTypeOK
<1>6. \A p \in Tasks : /\ writers'[p] \subseteq writers[p] \cup (IF t \in failed' THEN {} ELSE {t})
                       /\ writers[p] \subseteq writers'[p] \cup {Parent}
                       /\ p # t \/ t \in failed' => writers'[p] \cap {Parent} = writers[p] \cap {Parent}
  BY <1>1, <1>3
<1>7. t \in writers'[t]
  BY <1>1, <1>3
<1> QED BY <1>1, <1>4, <1>5, <1>6, <1>7, ForkedStep

LEMMA ForkFailsStep ==
  ASSUME MapReduceInv, NEW t \in Tasks, ForkFails(t)
  PROVE  MapReduceInv'
<1>1. /\ main = "map_all" /\ t = NextTask
      /\ forked' = forked \cup {t} /\ watched' = watched \cup {t} /\ failed' = failed \cup {t}
      /\ output' = [output EXCEPT ![t] = << >>] /\ writers' = writers
      /\ UNCHANGED << pipe, counter, buffs, worker, DS, main >>
  BY DEF ForkFails
<1>2. output' = [output EXCEPT ![t] = IF t \in failed' THEN << >> ELSE @]
  BY <1>1
<1>3. writers' \in [Tasks -> SUBSET (Tasks \cup {Parent})]
  BY <1>1 DEF MapReduceInv, MapReduceTypeOK
<1>4. \A p \in Tasks : /\ writers'[p] \subseteq writers[p] \cup (IF t \in failed' THEN {} ELSE {t})
                       /\ writers[p] \subseteq writers'[p] \cup {Parent}
                       /\ p # t \/ t \in failed' => writers'[p] \cap {Parent} = writers[p] \cap {Parent}
  BY <1>1
<1>5. t \in failed' /\ failed' \in {failed, failed \cup {t}}
  BY <1>1
<1> QED BY <1>1, <1>2, <1>3, <1>4, <1>5, ForkedStep

LEMMA StartWorkerStep ==
  ASSUME MapReduceInv, StartWorker
  PROVE  MapReduceInv'
<1>1. /\ main = "map_all" /\ forked = Tasks /\ main' = "mapped" /\ worker' = Waiting
      /\ UNCHANGED << mapVars, pipe, watched, counter, buffs, DS >>
  BY DEF StartWorker
<1>2. worker = NotStarted /\ Waiting.pc = "epoll_wait" /\ NotStarted.pc = "not started" /\ [pc |-> "ended"].pc = "ended"
  BY <1>1 DEF MapReduceInv, Forking, Waiting, NotStarted
<1>3. MapReduceTypeOK'
  BY <1>1 DEF MapReduceInv, MapReduceTypeOK, mapVars
<1>4. Forking'
  BY <1>1, <1>2 DEF MapReduceInv, Forking, mapVars
<1>5. WorkerSound'
  <2>1. ASSUME NEW u \in Tasks  PROVE ~ HasLine(buffs[u])' /\ ~ InHand(u)'
    <3>1. ~ InHand(u)
      BY <1>2, InHandOf
    <3>2. ~ HasLine(buffs[u])
      BY <3>1 DEF MapReduceInv, WorkerSound
    <3>3. ~ InHand(u)'
      <4>1. worker'.pc = "epoll_wait"
        BY <1>1, <1>2
      <4> QED BY <4>1 DEF InHand
    <3> QED BY <1>1, <3>2, <3>3 DEF HasLine
  <2> QED BY <1>1, <2>1 DEF WorkerSound
<1>6. StoreSound' /\ \A u \in Tasks : Stored(u)' = Stored(u)
  BY <1>1, KeepStore DEF MapReduceInv
<1>7. ClosingSound'
  BY <1>1, <1>2, <1>6 DEF MapReduceInv, ClosingSound, mapVars
<1>8. ASSUME NEW u \in Tasks  PROVE EndsSound(u)' /\ StreamSound(u)'
  BY <1>1, <1>6 DEF MapReduceInv, EndsSound, StreamSound, mapVars
<1> QED BY <1>3, <1>4, <1>5, <1>6, <1>7, <1>8 DEF MapReduceInv
-----------------------------------------------------------------------------
\* What read returns: some of the pipe's first bytes, none when the pipe is empty
\* or the buffer full.
LEMMA ReadReturns ==
  ASSUME MapReduceInv, NEW t \in Tasks
  PROVE  \/ /\ ReadOf(t) = << >>
            /\ pipe[t] = << >> \/ Len(buffs[t]) >= BUFFER_SIZE
         \/ /\ ReadOf(t) \in Seq(Byte) /\ ReadOf(t) # << >> /\ pipe[t] # << >>
            /\ SubSeq(pipe[t], Len(ReadOf(t)) + 1, Len(pipe[t])) \in Seq(Byte)
            /\ ReadOf(t) \o SubSeq(pipe[t], Len(ReadOf(t)) + 1, Len(pipe[t])) = pipe[t]
<1> DEFINE p == pipe[t]
           space == BUFFER_SIZE - Len(buffs[t])
           k == Min({Len(p), space})
<1>1. p \in Seq(Byte) /\ buffs[t] \in Seq(Byte)
  BY DEF MapReduceInv, MapReduceTypeOK
<1>2. Len(p) \in Nat /\ Len(buffs[t]) \in Nat /\ space \in Int /\ BUFFER_SIZE \in Nat
  BY <1>1, SizesAssumption
<1> HIDE DEF p
<1>3. space <= 0 <=> Len(buffs[t]) >= BUFFER_SIZE
  BY <1>2
<1> HIDE DEF space
<1>4. k = IF Len(p) <= space THEN Len(p) ELSE space
  <2>1. CASE Len(p) <= space
    BY <1>2, <2>1 DEF Min
  <2>2. CASE ~ Len(p) <= space
    BY <1>2, <2>2 DEF Min
  <2> QED BY <2>1, <2>2
<1>5. ReadOf(t) = SubSeq(p, 1, k)
  BY Zenon DEF ReadOf, p, space
<1> HIDE DEF k
<1>6. CASE k <= 0
  <2>1. SubSeq(p, 1, k) = << >>
    BY <1>2, <1>4, <1>6, SubSeqEmpty
  <2>2. Len(p) = 0 \/ space <= 0
    BY <1>2, <1>4, <1>6
  <2>3. Len(p) = 0 => p = << >>
    BY <1>1
  <2> QED BY <1>3, <1>5, <2>1, <2>2, <2>3 DEF p
<1>7. CASE ~ k <= 0
  <2>1. k \in 0..Len(p) /\ k # 0 /\ k \in Nat /\ Len(p) # 0
    BY <1>2, <1>4, <1>7
  <2>2. /\ SubSeq(p, 1, k) \in Seq(Byte) /\ SubSeq(p, k + 1, Len(p)) \in Seq(Byte)
        /\ Len(SubSeq(p, 1, k)) = k
        /\ SubSeq(p, 1, k) \o SubSeq(p, k + 1, Len(p)) = p
    BY <1>1, <2>1, Cut
  <2>3. SubSeq(p, 1, k) # << >> /\ p # << >>
    BY <2>1, <2>2, EmptySeq
  <2> QED BY <1>5, <2>2, <2>3 DEF p
<1> QED BY <1>6, <1>7

LEMMA ReadStep ==
  ASSUME MapReduceInv, NEW t \in Tasks, Read(t)
  PROVE  MapReduceInv'
<1> DEFINE bytes == ReadOf(t)
           rest == SubSeq(pipe[t], Len(bytes) + 1, Len(pipe[t]))
           buffer == buffs[t] \o bytes
<1>1. /\ worker = Waiting /\ t \in watched /\ bytes # << >>
      /\ pipe' = [pipe EXCEPT ![t] = rest] /\ buffs' = [buffs EXCEPT ![t] = buffer]
      /\ worker' = Processing(t, buffer)
      /\ UNCHANGED << mapVars, watched, counter, DS, main >>
  BY DEF Read, Ready
<1>2. bytes \in Seq(Byte) /\ rest \in Seq(Byte) /\ bytes \o rest = pipe[t] /\ pipe[t] # << >>
  BY <1>1, ReadReturns
<1>3. /\ output[t] \in Seq(Byte) /\ pipe[t] \in Seq(Byte) /\ buffs[t] \in Seq(Byte)
      /\ pipe \in [Tasks -> Seq(Byte)] /\ buffs \in [Tasks -> Seq(Byte)]
  BY DEF MapReduceInv, MapReduceTypeOK
<1> HIDE DEF bytes, rest
<1>4. buffer \in Seq(Byte)
  BY <1>2, <1>3, Regroup
<1>5. buffer \o (rest \o output[t]) = buffs[t] \o (pipe[t] \o output[t])
  <2>0. bytes \in Seq(Byte) /\ rest \in Seq(Byte) /\ buffs[t] \in Seq(Byte) /\ output[t] \in Seq(Byte)
    BY <1>2, <1>3
  <2>1. rest \o output[t] \in Seq(Byte)
    BY <2>0, Regroup
  <2>2. (buffs[t] \o bytes) \o (rest \o output[t]) = buffs[t] \o (bytes \o (rest \o output[t]))
    BY <2>0, <2>1, Regroup, ZenonT(60)
  <2>3. (bytes \o rest) \o output[t] = bytes \o (rest \o output[t])
    <3>1. \A x \in Seq(Byte) : (bytes \o rest) \o x = bytes \o (rest \o x)
      BY <2>0, Regroup
    <3> QED BY <2>0, <3>1
  <2> QED BY <1>2, <2>2, <2>3
<1> HIDE DEF buffer
<1>6. t \in forked \ failed
  BY <1>1, <1>2 DEF MapReduceInv, MapReduceTypeOK, EndsSound
<1>7. MapReduceTypeOK'
  BY <1>1, <1>2, <1>4 DEF MapReduceInv, MapReduceTypeOK, mapVars
<1>8. /\ HasLine(buffer) => worker' = [pc |-> "put", task |-> t]
      /\ ~ HasLine(buffer) => worker' = Waiting
  BY <1>1 DEF Processing, HasLine
<1>9. /\ worker # NotStarted /\ worker' # NotStarted /\ worker # [pc |-> "ended"] /\ worker' # [pc |-> "ended"]
      /\ worker.pc = "epoll_wait" /\ (~ HasLine(buffer) => worker'.pc = "epoll_wait")
  <2>1. worker.pc = "epoll_wait" /\ worker'.pc \in {"put", "epoll_wait"}
    BY <1>1, <1>8 DEF Waiting
  <2>2. NotStarted.pc = "not started" /\ [pc |-> "ended"].pc = "ended" /\ Waiting.pc = "epoll_wait"
    BY DEF NotStarted, Waiting
  <2> QED BY <1>8, <2>1, <2>2
<1>10. Forking'
  BY <1>1, <1>9 DEF MapReduceInv, Forking, mapVars
<1>11. WorkerSound'
  <2>1. ASSUME NEW u \in Tasks, u # t  PROVE ~ HasLine(buffs[u])' /\ ~ InHand(u)'
    <3>1. ~ InHand(u)
      BY <1>9, InHandOf
    <3>2. ~ HasLine(buffs[u])
      BY <3>1 DEF MapReduceInv, WorkerSound
    <3>3. buffs[u]' = buffs[u]
      BY <1>1, <2>1 DEF MapReduceInv, MapReduceTypeOK
    <3>4. ~ InHand(u)'
      BY <1>8, <2>1 DEF InHand, Waiting
    <3> QED BY <3>2, <3>3, <3>4 DEF HasLine
  <2>2. HasLine(buffs[t])' <=> HasLine(buffer)
    BY <1>1, <1>3 DEF HasLine
  <2>3. HasLine(buffer) => InHand(t)'
    BY <1>8 DEF InHand
  <2>4. ~ HasLine(buffer) => ~ InHand(t)'
    BY <1>9 DEF InHand
  <2>5. worker' \in {NotStarted, Waiting, [pc |-> "ended"]} \/ \E u \in Tasks : InHand(u)'
    BY <1>8, <2>3
  <2> QED BY <2>1, <2>2, <2>3, <2>4, <2>5 DEF WorkerSound
<1>12. StoreSound' /\ \A u \in Tasks : Stored(u)' = Stored(u)
  BY <1>1, KeepStore DEF MapReduceInv
<1>13. ClosingSound'
  <2>1. ASSUME LinesFit, NEW u \in forked \ watched
        PROVE  Stored(u)' = FirstLines(u, Len(Lines[u])) /\ buffs[u]' = << >>
    <3>1. Stored(u) = FirstLines(u, Len(Lines[u])) /\ buffs[u] = << >> /\ u \in Tasks /\ u # t
      BY <1>1, <2>1 DEF MapReduceInv, ClosingSound, Forking, Tasks
    <3> QED BY <1>1, <1>12, <3>1 DEF MapReduceInv, MapReduceTypeOK
  <2> QED BY <1>1, <1>9, <2>1 DEF MapReduceInv, ClosingSound, mapVars
<1>14. ASSUME NEW u \in Tasks  PROVE EndsSound(u)' /\ StreamSound(u)'
  <2>1. EndsSound(u) /\ StreamSound(u)
    BY DEF MapReduceInv
  <2>2. u # t => buffs[u]' = buffs[u] /\ pipe[u]' = pipe[u]
    BY <1>1, <1>3
  <2>3. buffs[u]' \o (pipe[u]' \o output[u]') = buffs[u] \o (pipe[u] \o output[u])
    BY <1>1, <1>3, <1>5, <2>2 DEF mapVars
  <2>4. StreamSound(u)'
    BY <1>1, <1>12, <2>1, <2>3 DEF StreamSound, mapVars
  <2>5. EndsSound(u)'
    BY <1>1, <1>6, <2>1, <2>2 DEF EndsSound, mapVars
  <2> QED BY <2>4, <2>5
<1> QED BY <1>7, <1>10, <1>11, <1>12, <1>13, <1>14 DEF MapReduceInv

\* A pipe of which nothing comes any more, when every line fits into the buffer.
LEMMA StreamEnds ==
  ASSUME MapReduceInv, LinesFit, NEW t \in Tasks, Closed(t)
  PROVE  Stored(t) = FirstLines(t, Len(Lines[t])) /\ buffs[t] = << >>
<1> DEFINE b == buffs[t]
           r == pipe[t] \o output[t]
           L == Len(Lines[t])
<1>1. b \in Seq(Byte) /\ pipe[t] \in Seq(Byte) /\ output[t] \in Seq(Byte) /\ << >> \in Seq(Byte)
  BY DEF MapReduceInv, MapReduceTypeOK
<1>2. r \in Seq(Byte)
  BY <1>1, Regroup
<1>3. worker = Waiting /\ t \in watched /\ (pipe[t] = << >> => writers[t] = {}) /\ ReadOf(t) = << >>
  BY DEF Closed, Ready
<1>4. t \in forked \ failed
  BY <1>3 DEF MapReduceInv, MapReduceTypeOK, EndsSound
<1>5. ~ HasLine(b)
  <2>1. worker.pc = "epoll_wait"
    BY <1>3 DEF Waiting
  <2>2. ~ InHand(t)
    BY <2>1, InHandOf
  <2> QED BY <2>2 DEF MapReduceInv, WorkerSound
<1>6. PICK n \in 0..L : Stored(t) = FirstLines(t, n) /\ b \o r = Rest(t, n)
  BY <1>4 DEF MapReduceInv, StreamSound
<1>7. L \in Nat /\ DOMAIN Lines[t] = 1..L
  BY PrefixSteps
<1>8. pipe[t] = << >> => r = << >>
  BY <1>1, <1>3, <1>4, ConcatEmptySeq DEF MapReduceInv, EndsSound
<1>9. pipe[t] = << >> \/ Len(b) >= BUFFER_SIZE
  BY <1>3, ReadReturns
<1> HIDE DEF b, r, L
<1>10. n = L
  <2> SUFFICES ASSUME n # L  PROVE FALSE
    OBVIOUS
  <2> DEFINE i == n + 1
             q == Rest(t, i)
  <2>1. n \in 0..(L - 1) /\ i \in 1..L /\ i \in 0..L
    BY <1>7
  <2>2. q \in Seq(Byte) /\ Line(t, i) \in Seq(Byte) /\ b \o r = Line(t, i) \o q
    BY <1>6, <2>1, RestSteps DEF L
  <2>3. /\ Lines[t][i].len <= BUFFER_SIZE /\ Len(Line(t, i)) = Lines[t][i].len
        /\ Lines[t][i].len \in Nat
    BY <1>7, <2>1, LineBytes DEF LinesFit, L
  <2> HIDE DEF i, q
  <2>4. i \in 1..Len(Lines[t])
    BY <2>1 DEF L
  <2>5. Begins(b, r, t, i, q)
    BY <1>1, <1>2, <2>2, <2>4, FirstOfStream
  <2>6. Len(b) < Lines[t][i].len
    BY <1>5, <2>5 DEF Begins
  <2>7. pipe[t] = << >> /\ r = << >>
    <3>1. Len(b) \in Nat /\ BUFFER_SIZE \in Nat
      BY <1>1, SizesAssumption
    <3> QED BY <1>8, <1>9, <2>3, <2>6, <3>1
  <2>8. b = Line(t, i) \o q
    BY <1>1, <2>2, <2>7, ConcatEmptySeq
  <2>9. Len(b) = Len(Line(t, i)) + Len(q) /\ Len(q) \in Nat
    BY <2>2, <2>8, ConcatProperties
  <2> QED BY <2>3, <2>6, <2>9
<1>11. b = << >>
  <2>1. b \o r = << >>
    BY <1>6, <1>10, RestSteps DEF L
  <2> QED BY <1>1, <1>2, <2>1, ConcatEqualIffEmpty
<1> QED BY <1>6, <1>10, <1>11 DEF b, L

LEMMA ClosedStep ==
  ASSUME MapReduceInv, NEW t \in Tasks, Closed(t)
  PROVE  MapReduceInv'
<1>1. /\ worker = Waiting /\ counter # 0 /\ t \in watched
      /\ (pipe[t] = << >> => writers[t] = {})
      /\ counter' = counter - 1 /\ watched' = watched \ {t}
      /\ UNCHANGED << mapVars, pipe, buffs, worker, DS, main >>
  BY DEF Closed, Ready
<1>2. t \in forked \ failed
  BY <1>1 DEF MapReduceInv, MapReduceTypeOK, EndsSound
<1>3. MapReduceTypeOK'
  BY <1>1 DEF MapReduceInv, MapReduceTypeOK, mapVars
<1>4. Forking' /\ WorkerSound' /\ StoreSound' /\ \A u \in Tasks : Stored(u)' = Stored(u)
  BY <1>1, KeepHand, KeepStore DEF MapReduceInv, Forking, mapVars
<1>5. ClosingSound'
  <2> DEFINE done == forked \ watched
  <2>1. IsFiniteSet(done)
    <3>1. PICK m \in 0..Len(Lines) : forked = 1..m
      BY DEF MapReduceInv, Forking
    <3>2. IsFiniteSet(1..m)
      BY FS_Interval
    <3> QED BY <3>1, <3>2, FS_Subset
  <2>2. forked \ (watched \ {t}) = done \cup {t} /\ t \notin done
    BY <1>1, <1>2
  <2>3. counter = Len(Lines) - Cardinality(done) /\ counter \in Nat
    BY DEF MapReduceInv, MapReduceTypeOK, ClosingSound
  <2>d. done = forked \ watched
    OBVIOUS
  <2> HIDE DEF done
  <2>4. Cardinality(done \cup {t}) = Cardinality(done) + 1 /\ Cardinality(done) \in Nat
    BY <2>1, <2>2, FS_AddElement, FS_CardinalityType
  <2>5. Len(Lines) \in Nat
    BY LinesAssumption
  <2>6. counter' = Len(Lines) - Cardinality(forked' \ watched')
    <3>1. forked' \ watched' = done \cup {t}
      BY <1>1, <2>2 DEF mapVars
    <3>2. Cardinality(forked' \ watched') = Cardinality(done) + 1
      BY <2>4, <3>1
    <3>3. counter' = counter - 1
      BY <1>1
    <3>4. \A a, b, c, d, e \in Int : a = b - c /\ d = c + 1 /\ e = a - 1 => e = b - d
      OBVIOUS
    <3>6. counter \in Int /\ Cardinality(done) \in Int /\ Len(Lines) \in Int
      BY <2>3, <2>4, <2>5
    <3>5. counter' \in Int /\ Cardinality(forked' \ watched') \in Int
      BY <2>3, <2>4, <3>2, <3>3
    <3> QED BY <2>3, <2>4, <2>5, <3>2, <3>3, <3>4, <3>5, <3>6, Zenon
  <2>7. worker' # [pc |-> "ended"]
    <3>1. worker'.pc = "epoll_wait" /\ [pc |-> "ended"].pc = "ended"
      BY <1>1 DEF Waiting
    <3> QED BY <3>1
  <2>8. ASSUME LinesFit, NEW u \in forked' \ watched'
        PROVE  Stored(u)' = FirstLines(u, Len(Lines[u])) /\ buffs[u]' = << >>
    <3>1. u \in Tasks /\ (u = t \/ u \in forked \ watched)
      BY <1>1, <2>8 DEF MapReduceInv, Forking, Tasks, mapVars
    <3>2. Stored(u) = FirstLines(u, Len(Lines[u])) /\ buffs[u] = << >>
      BY <2>8, <3>1, StreamEnds DEF MapReduceInv, ClosingSound
    <3> QED BY <1>1, <1>4, <3>1, <3>2
  <2> QED BY <2>6, <2>7, <2>8 DEF ClosingSound
<1>6. ASSUME NEW u \in Tasks  PROVE EndsSound(u)' /\ StreamSound(u)'
  <2>1. EndsSound(u) /\ StreamSound(u)
    BY DEF MapReduceInv
  <2>2. StreamSound(u)'
    BY <1>1, <1>4, <2>1 DEF StreamSound, mapVars
  <2>3. EndsSound(u)'
    BY <1>1, <1>2, <2>1 DEF EndsSound, mapVars
  <2> QED BY <2>2, <2>3
<1> QED BY <1>3, <1>4, <1>5, <1>6 DEF MapReduceInv

LEMMA WorkerEndsStep ==
  ASSUME MapReduceInv, WorkerEnds
  PROVE  MapReduceInv'
<1>1. /\ worker = Waiting /\ counter = 0 /\ worker' = [pc |-> "ended"]
      /\ UNCHANGED << mapVars, pipe, watched, counter, buffs, DS, main >>
  BY DEF WorkerEnds
<1>2. worker.pc = "epoll_wait" /\ worker'.pc = "ended" /\ NotStarted.pc = "not started"
  BY <1>1 DEF Waiting, NotStarted
<1>3. MapReduceTypeOK'
  BY <1>1 DEF MapReduceInv, MapReduceTypeOK, mapVars
<1>4. Forking'
  <2>1. worker # NotStarted /\ worker' # NotStarted /\ worker # [pc |-> "ended"]
    <3>1. [pc |-> "ended"].pc = "ended"
      OBVIOUS
    <3> QED BY <1>2, <3>1
  <2> QED BY <1>1, <2>1 DEF MapReduceInv, Forking, mapVars
<1>5. WorkerSound'
  <2>1. ASSUME NEW u \in Tasks  PROVE ~ HasLine(buffs[u])' /\ ~ InHand(u)'
    <3>1. ~ InHand(u)
      BY <1>2, InHandOf
    <3>2. ~ HasLine(buffs[u])
      BY <3>1 DEF MapReduceInv, WorkerSound
    <3>3. ~ InHand(u)'
      <4>1. worker'.pc = "ended"
        BY <1>2
      <4> QED BY <4>1 DEF InHand
    <3> QED BY <1>1, <3>2, <3>3 DEF HasLine
  <2> QED BY <1>1, <2>1 DEF WorkerSound
<1>6. StoreSound' /\ \A u \in Tasks : Stored(u)' = Stored(u)
  BY <1>1, KeepStore DEF MapReduceInv
<1>7. ClosingSound'
  <2>1. forked \subseteq Tasks
    BY DEF MapReduceInv, Forking, Tasks
  <2> QED BY <1>1, <1>6, <2>1 DEF MapReduceInv, ClosingSound, mapVars
<1>8. ASSUME NEW u \in Tasks  PROVE EndsSound(u)' /\ StreamSound(u)'
  <2>1. EndsSound(u) /\ StreamSound(u)
    BY DEF MapReduceInv
  <2> QED BY <1>1, <1>6, <2>1 DEF EndsSound, StreamSound, mapVars
<1> QED BY <1>3, <1>4, <1>5, <1>6, <1>7, <1>8 DEF MapReduceInv

\* A step of the main thread, or none.
LEMMA MainStep ==
  ASSUME MapReduceInv, mapreduce_reduce_all \/ UNCHANGED vars
  PROVE  MapReduceInv'
<1>1. /\ UNCHANGED << forked, failed, output, writers, pipe, watched, counter, buffs, worker, DS >>
      /\ main' = main \/ (main = "mapped" /\ worker.pc = "ended" /\ main' = "reduced")
  BY DEF mapreduce_reduce_all, mapVars, workVars, vars
<1>2. MapReduceTypeOK' /\ WorkerSound' /\ StoreSound' /\ \A u \in Tasks : Stored(u)' = Stored(u)
  BY <1>1, KeepHand, KeepStore DEF MapReduceInv, MapReduceTypeOK
<1>3. Forking'
  <2>1. CASE main' = main
    BY <1>1, <2>1 DEF MapReduceInv, Forking
  <2>2. CASE main = "mapped" /\ worker.pc = "ended" /\ main' = "reduced"
    <3>1. worker = [pc |-> "ended"]
      <4>1. NotStarted.pc = "not started" /\ Waiting.pc = "epoll_wait"
        BY DEF NotStarted, Waiting
      <4>2. \A t \in Tasks : ~ InHand(t)
        BY <2>2, InHandOf
      <4> QED BY <2>2, <4>1, <4>2 DEF MapReduceInv, WorkerSound
    <3> QED BY <1>1, <2>2, <3>1 DEF MapReduceInv, Forking
  <2> QED BY <1>1, <2>1, <2>2
<1>4. ClosingSound'
  <2>1. forked \subseteq Tasks
    BY DEF MapReduceInv, Forking, Tasks
  <2> QED BY <1>1, <1>2, <2>1 DEF MapReduceInv, ClosingSound
<1>5. ASSUME NEW u \in Tasks  PROVE EndsSound(u)' /\ StreamSound(u)'
  <2>1. EndsSound(u) /\ StreamSound(u)
    BY DEF MapReduceInv
  <2> QED BY <1>1, <1>2, <2>1 DEF EndsSound, StreamSound
<1> QED BY <1>2, <1>3, <1>4, <1>5 DEF MapReduceInv

LEMMA MapReduceInit == Init => MapReduceInv
<1> SUFFICES ASSUME Init  PROVE MapReduceInv
  OBVIOUS
<1>1. /\ forked = {} /\ failed = {} /\ watched = {} /\ main = "map_all" /\ worker = NotStarted
      /\ output = [t \in Tasks |-> Output(t)] /\ pipe = [t \in Tasks |-> << >>]
      /\ buffs = [t \in Tasks |-> << >>] /\ writers = [t \in Tasks |-> {Parent}]
      /\ counter = Len(Lines) /\ DS = << >>
  BY DEF Init, EmptyStore
<1>2. DOMAIN DS = {}
  BY <1>1
<1>3. \A t \in Tasks : Output(t) \in Seq(Byte) /\ << >> \in Seq(Byte) /\ Len(Lines[t]) \in Nat
  <2> TAKE t \in Tasks
  <2>1. Len(Lines[t]) \in Nat /\ 0 \in 0..Len(Lines[t])
    BY PrefixSteps
  <2> QED BY <2>1, RestSteps
<1>4. Len(Lines) \in Nat
  BY LinesAssumption
<1>5. MapReduceTypeOK
  BY <1>1, <1>3, <1>4 DEF MapReduceTypeOK
<1>6. Forking
  <2>1. 0 \in 0..Len(Lines) /\ 1..0 = {}
    BY <1>4
  <2> QED BY <1>1, <2>1 DEF Forking
<1>7. WorkerSound
  <2>1. worker.pc = "not started"
    BY <1>1 DEF NotStarted
  <2>2. ASSUME NEW t \in Tasks  PROVE ~ InHand(t) /\ ~ HasLine(buffs[t])
    <3>1. ~ InHand(t)
      BY <2>1, InHandOf
    <3>2. buffs[t] = << >> /\ DOMAIN << >> = {}
      BY <1>1
    <3> QED BY <3>1, <3>2 DEF HasLine
  <2> QED BY <1>1, <2>2 DEF WorkerSound
<1>8. StoreSound
  BY <1>1, <1>2 DEF StoreSound
<1>9. ClosingSound
  <2>1. forked \ watched = {} /\ Cardinality({}) = 0
    BY <1>1, FS_EmptySet
  <2>2. worker # [pc |-> "ended"]
    <3>1. worker.pc = "not started" /\ [pc |-> "ended"].pc = "ended"
      BY <1>1 DEF NotStarted
    <3> QED BY <3>1
  <2> QED BY <1>1, <1>4, <2>1, <2>2 DEF ClosingSound
<1>10. ASSUME NEW t \in Tasks  PROVE EndsSound(t) /\ StreamSound(t)
  <2>1. EndsSound(t)
    BY <1>1 DEF EndsSound
  <2>2. Stored(t) = {} /\ FirstLines(t, 0) = {}
    BY <1>2 DEF Stored, FirstLines
  <2>3. << >> \o (<< >> \o Output(t)) = Output(t)
    <3>1. Output(t) \in Seq(Byte)
      BY <1>3
    <3> QED BY <3>1, ConcatEmptySeq
  <2>4. buffs[t] \o (pipe[t] \o output[t]) = Rest(t, 0)
    BY <1>1, <2>3, RestSteps
  <2>5. 0 \in 0..Len(Lines[t])
    BY <1>3
  <2> QED BY <2>1, <2>2, <2>4, <2>5 DEF StreamSound
<1> QED BY <1>5, <1>6, <1>7, <1>8, <1>9, <1>10 DEF MapReduceInv

LEMMA MapReduceStep == MapReduceInv /\ [Next]_vars => MapReduceInv'
<1> SUFFICES ASSUME MapReduceInv, [Next]_vars  PROVE MapReduceInv'
  OBVIOUS
<1> QED BY ForkStep, ForkFailsStep, StartWorkerStep, MainStep, WriteStep, ExitStep, ReadStep, ClosedStep,
           PutStep, GetStep, UpdateStep, WorkerEndsStep DEF Next, MapAll, Finished, Work
-----------------------------------------------------------------------------
(* The bytes on their way, the worker and the store fit together, for any  *)
(* map processes and any interleaving.                                     *)
THEOREM MapReduceInvariant == Spec => []MapReduceInv
BY MapReduceInit, MapReduceStep, PTL DEF Spec

(* However read_from_fd cuts the lines of a map process, none of its bytes *)
(* is lost, repeated or out of order on the way to the store.              *)
THEOREM NoByteIsLost == Spec => []StreamIntact
<1>1. MapReduceInv => StreamIntact
  <2> SUFFICES ASSUME MapReduceInv, NEW t \in Tasks, t \notin failed
               PROVE  \E n \in 0..Len(Lines[t]) :
                        /\ {Line(t, i) : i \in 1..n} = Stored(t)
                        /\ FlattenSeq([i \in 1..n |-> Line(t, i)]) \o buffs[t] \o pipe[t] \o output[t] = Output(t)
    BY DEF StreamIntact
  <2>1. PICK n \in 0..Len(Lines[t]) :
          Stored(t) = FirstLines(t, n) /\ buffs[t] \o (pipe[t] \o output[t]) = Rest(t, n)
    BY DEF MapReduceInv, StreamSound
  <2> DEFINE p == Prefix(t, n)
             b == buffs[t]
  <2>2. p \in Seq(Byte) /\ b \in Seq(Byte) /\ pipe[t] \in Seq(Byte) /\ output[t] \in Seq(Byte)
    BY PrefixSteps DEF MapReduceInv, MapReduceTypeOK
  <2>3. p \o Rest(t, n) = Output(t)
    BY RestSteps
  <2> HIDE DEF p, b
  <2>4. ((p \o b) \o pipe[t]) \o output[t] = p \o (b \o (pipe[t] \o output[t]))
    <3>1. p \in Seq(Byte)
      BY <2>2
    <3>2. b \in Seq(Byte)
      BY <2>2
    <3>3. \A x, y \in Seq(Byte) : ((p \o b) \o x) \o y = p \o (b \o (x \o y))
      BY <3>1, <3>2, RegroupFour
    <3> QED BY <2>2, <3>3
  <2>5. p \o b \o pipe[t] \o output[t] = Output(t)
    BY <2>1, <2>3, <2>4 DEF b
  <2> QED BY <2>1, <2>5 DEF p, b, Prefix, FirstLines
<1> QED BY <1>1, MapReduceInvariant, PTL

(* The worker gives up a pipe only when all lines of its process are in    *)
(* the store: read never returns 0 earlier, if every line fits the buffer. *)
THEOREM ClosedWhenRead ==
  ASSUME LinesFit
  PROVE  Spec => []ClosedMeansAllRead
<1>1. MapReduceInv => ClosedMeansAllRead
  <2> SUFFICES ASSUME MapReduceInv, NEW t \in forked \ watched
               PROVE  Stored(t) = {Line(t, i) : i \in DOMAIN Lines[t]}
    BY DEF ClosedMeansAllRead
  <2>1. t \in Tasks
    BY DEF MapReduceInv, Forking, Tasks
  <2>2. Stored(t) = FirstLines(t, Len(Lines[t]))
    BY DEF MapReduceInv, ClosingSound
  <2> QED BY <2>1, <2>2, PrefixSteps DEF FirstLines
<1> QED BY <1>1, MapReduceInvariant, PTL
-----------------------------------------------------------------------------
\* The result that the steps of the abstract reduction lead to.
Result == [k \in AllKeys |-> mapreduce_get_value(k)]

LEMMA ReductionInit == Init => Abstract!Init
<1> SUFFICES ASSUME Init  PROVE Abstract!Init
  OBVIOUS
<1>1. DOMAIN DS = {} /\ main # "reduced"
  BY DEF Init, EmptyStore
<1>2. [k \in AllKeys |-> mapreduce_get_value(k)] = [k \in {KeyOf(p) : p \in AllLines} |-> {}]
  BY <1>1 DEF AllKeys, mapreduce_get_value, Holds
<1> QED BY <1>1, <1>2 DEF Abstract!Init

\* A line that leaves its buffer is reduced, and was not before.
LEMMA LineReduced ==
  ASSUME MapReduceInv, NEW t \in Tasks, InHand(t), Entered(FirstLine(buffs[t])), main' = main
  PROVE  Abstract!Next
<1>1. HasLine(buffs[t])
  BY DEF MapReduceInv, WorkerSound
<1>2. PICK n \in 0..(Len(Lines[t]) - 1) :
        Stored(t) = FirstLines(t, n) /\ FirstLine(buffs[t]) = Line(t, n + 1)
  BY <1>1, HeadOfStream
<1> DEFINE line == Line(t, n + 1)
           key == KeyOf(line)
<1>3. n + 1 \in DOMAIN Lines[t] /\ n \in Nat /\ \A i \in 1..n : i \in DOMAIN Lines[t] /\ i # n + 1
  <2>1. Len(Lines[t]) \in Nat /\ DOMAIN Lines[t] = 1..Len(Lines[t])
    BY PrefixSteps
  <2> QED BY <2>1
<1>4. line \in AllLines /\ key \in AllKeys /\ line[1].task = t /\ line[1].line = n + 1
  BY <1>3, LinesDiffer
<1>5. line \notin Stored(t)
  <2>1. \A i \in 1..n : Line(t, i)[1].line = i
    BY <1>3, LinesDiffer
  <2> QED BY <1>2, <1>3, <1>4, <2>1 DEF FirstLines
<1>6. line \notin mapreduce_get_value(key)
  BY <1>4, <1>5 DEF Stored, mapreduce_get_value, Holds
<1>7. Entered(line)
  BY <1>2
<1>8. /\ DS' = [k \in DOMAIN DS \cup {key} |-> DS'[k]]
      /\ DS'[key].value = {line} \cup mapreduce_get_value(key)
      /\ \A k \in DOMAIN DS \ {key} : DS'[k] = DS[k]
  BY <1>7 DEF Entered, mapreduce_get_value
<1> HIDE DEF line, key
<1>9. \A k \in AllKeys : mapreduce_get_value(k)' = IF k = key THEN mapreduce_get_value(key) \cup {line}
                                                   ELSE mapreduce_get_value(k)
  <2>1. DOMAIN DS' = DOMAIN DS \cup {key}
    BY <1>8
  <2>2. mapreduce_get_value(key)' = {line} \cup mapreduce_get_value(key)
    BY <1>8, <2>1 DEF mapreduce_get_value, Holds
  <2>3. ASSUME NEW k \in AllKeys, k # key  PROVE mapreduce_get_value(k)' = mapreduce_get_value(k)
    BY <1>8, <2>1, <2>3 DEF mapreduce_get_value, Holds
  <2> QED BY <2>2, <2>3
<1>10. Result' = [Result EXCEPT ![key] = @ \cup {line}] /\ line \notin Result[key]
  BY <1>4, <1>6, <1>9 DEF Result
<1>11. Abstract!Reduce(line)
  BY <1>10 DEF Abstract!Reduce, Result, key
<1> QED BY <1>4, <1>11 DEF Abstract!Next

\* When the worker has ended, everything is in the store.
LEMMA AllReduced ==
  ASSUME MapReduceInv, LinesFit, worker.pc = "ended", NEW p \in AllLines
  PROVE  p \in mapreduce_get_value(KeyOf(p))
<1>1. worker = [pc |-> "ended"]
  <2>1. NotStarted.pc = "not started" /\ Waiting.pc = "epoll_wait"
    BY DEF NotStarted, Waiting
  <2>2. \A t \in Tasks : ~ InHand(t)
    BY InHandOf
  <2> QED BY <2>1, <2>2 DEF MapReduceInv, WorkerSound
<1>2. forked \ watched = Tasks
  <2> DEFINE done == forked \ watched
  <2>1. Len(Lines) \in Nat /\ IsFiniteSet(Tasks) /\ Cardinality(Tasks) = Len(Lines)
    <3>1. Len(Lines) \in Nat
      BY LinesAssumption
    <3>2. IsFiniteSet(1..Len(Lines)) /\ Cardinality(1..Len(Lines)) = IF 1 > Len(Lines) THEN 0 ELSE Len(Lines) - 1 + 1
      BY <3>1, FS_Interval
    <3> QED BY <3>1, <3>2 DEF Tasks
  <2>2. done \in SUBSET Tasks
    BY DEF MapReduceInv, Forking, Tasks
  <2>3. 0 = Len(Lines) - Cardinality(done)
    BY <1>1 DEF MapReduceInv, ClosingSound
  <2> HIDE DEF done
  <2>4. IsFiniteSet(done) /\ Cardinality(done) \in Nat
    BY <2>1, <2>2, FS_Subset, FS_CardinalityType
  <2>5. Cardinality(done) = Cardinality(Tasks)
    BY <2>1, <2>3, <2>4
  <2>6. done = Tasks
    BY <2>1, <2>2, <2>5, FS_Subset
  <2> QED BY <2>6 DEF done
<1>3. PICK t \in Tasks : \E i \in DOMAIN Lines[t] : p = Line(t, i)
  BY DEF AllLines
<1>4. p \in Stored(t)
  <2>1. Stored(t) = FirstLines(t, Len(Lines[t]))
    BY <1>2 DEF MapReduceInv, ClosingSound
  <2> QED BY <1>3, <2>1, PrefixSteps DEF FirstLines
<1>5. PICK k \in DOMAIN DS : p \in DS[k].value
  BY <1>4 DEF Stored
<1>6. KeyOf(p) = k
  BY <1>5 DEF MapReduceInv, StoreSound
<1> QED BY <1>5, <1>6 DEF mapreduce_get_value, Holds

LEMMA ReductionStep ==
  ASSUME MapReduceInv, LinesFit, [Next]_vars
  PROVE  [Abstract!Next]_(Abstract!vars)
<1> USE DEF Abstract!vars
<1>0. DS' = DS /\ (main' = main \/ (main' # "reduced" /\ main # "reduced"))
      => UNCHANGED << Result, main = "reduced" >>
  BY DEF Result, mapreduce_get_value, Holds
<1>1. CASE UNCHANGED vars
  BY <1>0, <1>1 DEF vars, Result
<1>2. CASE MapAll
  BY <1>0, <1>2 DEF MapAll, Fork, ForkFails, Result
<1>3. CASE StartWorker
  BY <1>0, <1>3 DEF StartWorker, Result
<1>4. ASSUME NEW t \in Tasks, Write(t) \/ Exit(t)  PROVE UNCHANGED << Result, main = "reduced" >>
  BY <1>0, <1>4 DEF Write, Exit, workVars
<1>5. ASSUME NEW t \in Tasks, Read(t) \/ Closed(t)  PROVE UNCHANGED << Result, main = "reduced" >>
  BY <1>0, <1>5 DEF Read, Closed
<1>6. CASE Get \/ WorkerEnds
  BY <1>0, <1>6 DEF Get, WorkerEnds, Result
<1>7. CASE Put
  <2> DEFINE t == worker.task
             line == FirstLine(buffs[t])
             key == KeyOf(line)
  <2>1. t \in Tasks /\ InHand(t)
    BY <1>7, HandOf DEF Put
  <2>2. DS' = WithPut(DS, key, {line}) /\ main' = main
    BY <1>7 DEF Put
  <2>3. CASE Holds(DS, key)
    BY <1>0, <2>2, <2>3 DEF WithPut, Result
  <2>4. CASE ~ Holds(DS, key)
    <3>1. DS' = [k \in DOMAIN DS \cup {key} |-> IF k = key THEN malloc_entry_t({line}) ELSE DS[k]]
      BY <2>2, <2>4 DEF WithPut
    <3>2. Entered(line)
      BY <2>4, <3>1 DEF Entered, malloc_entry_t, Holds
    <3> QED BY <2>1, <2>2, <3>2, LineReduced
  <2> QED BY <2>3, <2>4
<1>8. CASE Update
  <2>1. Entered(FirstLine(buffs[worker.task])) /\ main' = main
    BY <1>8, UpdateEnters DEF Update
  <2>2. worker.task \in Tasks /\ InHand(worker.task)
    BY <1>8, HandOf DEF Update
  <2> QED BY <2>1, <2>2, LineReduced
<1>9. CASE mapreduce_reduce_all
  <2>1. worker.pc = "ended" /\ DS' = DS /\ main' = "reduced"
    BY <1>9 DEF mapreduce_reduce_all, workVars
  <2>2. \A p \in AllLines : p \in mapreduce_get_value(KeyOf(p)) /\ KeyOf(p) \in AllKeys
    BY <2>1, AllReduced DEF AllKeys
  <2>3. Result' = Result
    BY <2>1 DEF Result, mapreduce_get_value, Holds
  <2>4. Abstract!ReduceAllReturns
    BY <2>1, <2>2, <2>3 DEF Abstract!ReduceAllReturns, Result
  <2> QED BY <2>4 DEF Abstract!Next
<1> QED BY <1>1, <1>2, <1>3, <1>4, <1>5, <1>6, <1>7, <1>8, <1>9 DEF Next, Work, Finished, Result

(* Every pair goes into its key exactly once, in one step, and reduce_all  *)
(* returns after all of them: the library implements the reduction.        *)
THEOREM LibraryImplementsReduction ==
  ASSUME LinesFit
  PROVE  Spec => ImplementsReduction
<1>1. MapReduceInv /\ [Next]_vars => [Abstract!Next]_(Abstract!vars)
  BY ReductionStep
<1> QED BY <1>1, ReductionInit, MapReduceInvariant, PTL DEF Spec, ImplementsReduction, Abstract!Spec
=============================================================================
