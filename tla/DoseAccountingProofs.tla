------------------------ MODULE DoseAccountingProofs ------------------------
(***************************************************************************)
(* The dose tables, for any lines in any order, and the books of a doser,  *)
(* for any table, rate, cap, tank, maximum and default time.               *)
(***************************************************************************)
EXTENDS DoseAccounting, WellFoundedInduction, FiniteSetTheorems, SequenceTheorems, TLAPS

(***************************************************************************)
(* Numbers, positions and sequences, what the tables need of them.         *)
(***************************************************************************)

\* A set of numbers that is not empty has a least one.
LEMMA NatLeast ==
  ASSUME NEW T \in SUBSET Nat, T # {} PROVE \E n \in T : \A m \in T : n <= m
<1>1. \E R : IsWellFoundedOn(R, Nat) /\ \A m, n \in Nat : m < n => <<m, n>> \in R
  <2> DEFINE R == OpToRel(<, Nat)
  <2>1. IsWellFoundedOn(R, Nat)
    BY NatLessThanWellFounded
  <2>2. \A m, n \in Nat : m < n => <<m, n>> \in R
    BY DEF OpToRel
  <2> HIDE DEF R
  <2> QED
    BY <2>1, <2>2, Zenon
<1>2. PICK R : IsWellFoundedOn(R, Nat) /\ \A m, n \in Nat : m < n => <<m, n>> \in R
  BY <1>1, Zenon
<1>3. \E n \in T : \A m \in T : ~(<<m, n>> \in R)
  <2>1. T \subseteq Nat /\ IsWellFoundedOn(R, Nat)
    BY <1>2
  <2> QED
    BY <2>1, WFMin, Zenon
<1>4. PICK n \in T : \A m \in T : ~(<<m, n>> \in R)
  BY <1>3
<1>5. \A m \in T : ~(m < n)
  BY <1>2, <1>4
<1> QED
  BY <1>5

\* Induction, said so that no operator is a parameter: what fails for some
\* number up to n, and not for 0, fails somewhere for the first time.
LEMMA FirstFailure ==
  ASSUME NEW n \in Nat, NEW T \in SUBSET (0..n), 0 \notin T, T # {}
  PROVE  \E k \in 1..n : k \in T /\ k - 1 \in 0..n /\ k - 1 \notin T
<1>1. PICK k \in T : \A m \in T : k <= m
  BY NatLeast
<1>2. k \in 1..n /\ k - 1 \in 0..n /\ ~(k <= k - 1)
  BY <1>1
<1> QED
  BY <1>1, <1>2

\* Max and Min are what they are called.
LEMMA GreatestOf ==
  ASSUME NEW n \in Nat, NEW S \in SUBSET (1..n), S # {}
  PROVE  Max(S) \in S /\ \A m \in S : m <= Max(S)
<1>1. PICK u \in {m \in Nat : \A s \in S : s <= m} :
         \A m \in {m \in Nat : \A s \in S : s <= m} : u <= m
  <2>1. n \in {m \in Nat : \A s \in S : s <= m}
    OBVIOUS
  <2> QED
    BY <2>1, NatLeast
<1>2. u \in S
  <2>1. SUFFICES ASSUME u \notin S PROVE FALSE
    OBVIOUS
  <2>2. \A s \in S : s <= u - 1 /\ 1 <= s
    BY <1>1, <2>1
  <2>3. u - 1 \in Nat
    <3>1. PICK s \in S : TRUE
      OBVIOUS
    <3> QED
      BY <2>2, <3>1, <1>1
  <2>4. u <= u - 1
    BY <1>1, <2>2, <2>3
  <2> QED
    BY <1>1, <2>4
<1>3. \E x \in S : \A y \in S : x >= y
  BY <1>1, <1>2
<1>4. Max(S) \in S /\ \A y \in S : Max(S) >= y
  BY <1>3 DEF Max
<1> QED
  BY <1>4

LEMMA LeastOf ==
  ASSUME NEW S \in SUBSET Nat, S # {}
  PROVE  Min(S) \in S /\ \A m \in S : Min(S) <= m
<1>1. \E x \in S : \A y \in S : x =< y
  BY NatLeast
<1> QED
  BY <1>1 DEF Min

\* A set of positions with all those before each of its own is a prefix.
LEMMA CountUpTo ==
  ASSUME NEW n \in Nat, NEW S \in SUBSET (1..n), \A i \in S : \A j \in 1..n : j < i => j \in S
  PROVE  Cardinality(S) \in 0..n /\ S = 1..Cardinality(S)
<1>1. \E p \in 0..n : S = 1..p
  <2>1. CASE S = {}
    BY <2>1
  <2>2. CASE S # {}
    <3>1. Max(S) \in S /\ \A m \in S : m <= Max(S)
      BY <2>2, GreatestOf, Zenon
    <3>2. PICK m \in 1..n : m \in S /\ \A i \in S : i <= m
      BY <3>1
    <3>3. \A j \in 1..m : j \in S
      <4> TAKE j \in 1..m
      <4>1. j = m \/ (j < m /\ j \in 1..n)
        OBVIOUS
      <4> QED
        BY <3>2, <4>1
    <3>4. \A j \in S : j \in 1..m
      BY <3>2
    <3>5. S = 1..m
      BY <3>3, <3>4, Zenon
    <3> QED
      BY <3>5
  <2> QED
    BY <2>1, <2>2
<1>2. PICK p \in 0..n : S = 1..p
  BY <1>1
<1>3. Cardinality(1..p) = IF 1 > p THEN 0 ELSE p - 1 + 1
  BY FS_Interval
<1> QED
  BY <1>2, <1>3

\* InsertAt puts e at q and moves the rest up by one.
LEMMA InsertAtFacts ==
  ASSUME NEW S, NEW s \in Seq(S), NEW e \in S, NEW q \in 1..(Len(s) + 1)
  PROVE  /\ InsertAt(s, q, e) \in Seq(S) /\ Len(InsertAt(s, q, e)) = Len(s) + 1
         /\ \A i \in 1..(Len(s) + 1) :
              InsertAt(s, q, e)[i] = IF i < q THEN s[i] ELSE IF i = q THEN e ELSE s[i - 1]
<1> DEFINE front == SubSeq(s, 1, q - 1)
           rest == SubSeq(s, q, Len(s))
<1>1. Len(s) \in Nat /\ \A i \in 1..Len(s) : s[i] \in S
  BY LenProperties, ElementOfSeq
<1>2. InsertAt(s, q, e) = (front \o <<e>>) \o rest
  BY DEF InsertAt
<1>3. front \in Seq(S) /\ Len(front) = q - 1 /\ \A i \in 1..(q - 1) : front[i] = s[i]
  <2>1. \A i \in 1..(q - 1) : s[i] \in S
    BY <1>1
  <2>2. front \in Seq(S) /\ Len(front) = (IF 1 <= q - 1 THEN q - 1 - 1 + 1 ELSE 0)
    BY <2>1, SubSeqProperties
  <2>3. \A i \in 1..(q - 1 - 1 + 1) : front[i] = s[1 + i - 1]
    BY <2>1, SubSeqProperties
  <2> HIDE DEF front
  <2> QED
    BY <1>1, <2>2, <2>3
<1>4. /\ rest \in Seq(S) /\ Len(rest) = Len(s) + 1 - q
      /\ \A i \in 1..(Len(s) + 1 - q) : rest[i] = s[q + i - 1]
  <2>1. \A i \in q..Len(s) : s[i] \in S
    BY <1>1
  <2>2. rest \in Seq(S) /\ Len(rest) = (IF q <= Len(s) THEN Len(s) - q + 1 ELSE 0)
    BY <1>1, <2>1, SubSeqProperties
  <2>3. \A i \in 1..(Len(s) - q + 1) : rest[i] = s[q + i - 1]
    BY <1>1, <2>1, SubSeqProperties
  <2> HIDE DEF rest
  <2> QED
    BY <1>1, <2>2, <2>3
<1> HIDE DEF front, rest
<1>5. PICK one \in Seq(S) : one = <<e>> /\ Len(one) = 1 /\ one[1] = e
  <2>1. <<e>> \in Seq(S) /\ Len(<<e>>) = 1 /\ <<e>>[1] = e
    OBVIOUS
  <2> QED
    BY <2>1, Zenon
<1>6. PICK both \in Seq(S) :
        /\ both = front \o one /\ Len(both) = q
        /\ \A i \in 1..q : both[i] = IF i < q THEN s[i] ELSE e
  <2>1. /\ front \o one \in Seq(S) /\ Len(front \o one) = Len(front) + Len(one)
        /\ \A i \in 1..(Len(front) + Len(one)) :
             (front \o one)[i] = IF i <= Len(front) THEN front[i] ELSE one[i - Len(front)]
    BY <1>3, <1>5, ConcatProperties
  <2>2. \A i \in 1..q : (front \o one)[i] = IF i < q THEN s[i] ELSE e
    BY <1>3, <1>5, <2>1
  <2>3. front \o one \in Seq(S) /\ Len(front \o one) = q
    BY <1>3, <1>5, <2>1
  <2> QED
    BY <2>2, <2>3, Zenon
<1>7. PICK new \in Seq(S) :
        /\ new = both \o rest /\ Len(new) = Len(s) + 1
        /\ \A i \in 1..(Len(s) + 1) : new[i] = IF i <= q THEN both[i] ELSE rest[i - q]
  <2>1. /\ both \o rest \in Seq(S) /\ Len(both \o rest) = Len(both) + Len(rest)
        /\ \A i \in 1..(Len(both) + Len(rest)) :
             (both \o rest)[i] = IF i <= Len(both) THEN both[i] ELSE rest[i - Len(both)]
    BY <1>4, <1>6, ConcatProperties
  <2>2. both \o rest \in Seq(S) /\ Len(both \o rest) = Len(s) + 1
    BY <1>1, <1>4, <1>6, <2>1
  <2>3. \A i \in 1..(Len(s) + 1) : (both \o rest)[i] = IF i <= q THEN both[i] ELSE rest[i - q]
    BY <1>1, <1>4, <1>6, <2>1
  <2> QED
    BY <2>2, <2>3, Zenon
<1>8. ASSUME NEW i \in 1..(Len(s) + 1)
      PROVE  new[i] = IF i < q THEN s[i] ELSE IF i = q THEN e ELSE s[i - 1]
  <2>1. CASE i <= q
    BY <1>1, <1>6, <1>7, <2>1
  <2>2. CASE i > q
    <3>1. i - q \in 1..(Len(s) + 1 - q) /\ q + (i - q) - 1 = i - 1
      BY <1>1, <2>2
    <3>2. new[i] = rest[i - q]
      BY <1>1, <1>7, <2>2
    <3>3. rest[i - q] = s[i - 1]
      BY <1>4, <3>1
    <3> QED
      BY <1>1, <2>2, <3>2, <3>3
  <2> QED
    BY <1>1, <2>1, <2>2
<1>9. InsertAt(s, q, e) = new
  BY <1>2, <1>5, <1>6, <1>7, Zenon
<1> QED
  BY <1>7, <1>8, <1>9

-----------------------------------------------------------------------------
(***************************************************************************)
(* The table that DoseTableOf folds out of the configured lines.           *)
(***************************************************************************)

\* g folds the lines of ls, last position first, as MapThenFoldSet does.
IsTableFold(g, ls, n, descending) ==
  g = [s \in SUBSET (1..n) |->
         IF s = {} THEN <<>> ELSE ParseDoseRange(g[s \ {Max(s)}], ls[Max(s)], descending)]

LEMMA FoldExists ==
  ASSUME NEW ls, NEW descending, NEW n \in Nat
  PROVE  \E g : IsTableFold(g, ls, n, descending)
<1> DEFINE Step(i, steps) == ParseDoseRange(steps, ls[i], descending)
           Rec(k, g) == g = [s \in SUBSET (1..k) |->
                               IF s = {} THEN <<>> ELSE Step(Max(s), g[s \ {Max(s)}])]
           T == {k \in 0..n : ~\E g : Rec(k, g)}
<1>1. SUFFICES T = {}
  <2>1. n \in 0..n
    OBVIOUS
  <2>2. n \notin T => \E g : Rec(n, g)
    BY <2>1, Zenon
  <2> QED
    BY <2>2, Zenon DEF IsTableFold, Step
<1>2. 0 \notin T
  <2>1. Rec(0, [s \in SUBSET (1..0) |-> <<>>])
    <3>1. SUBSET (1..0) = {{}}
      OBVIOUS
    <3> QED
      BY <3>1
  <2> QED
    BY <2>1, Zenon
<1> HIDE DEF Step
<1>3. ASSUME NEW k \in 1..n, NEW h, Rec(k - 1, h) PROVE \E g : Rec(k, g)
  <2> DEFINE g == [s \in SUBSET (1..k) |->
                     IF k \in s THEN Step(k, h[s \ {k}]) ELSE h[s]]
  <2>1. ASSUME NEW s \in SUBSET (1..k), k \in s PROVE Max(s) = k
    <3>1. k \in Nat /\ s # {}
      BY <2>1
    <3>2. Max(s) \in s /\ \A m \in s : m <= Max(s)
      BY <3>1, GreatestOf, Zenon
    <3>3. k <= Max(s) /\ Max(s) \in 1..k
      BY <2>1, <3>2
    <3> QED
      BY <3>1, <3>3
  <2>2. ASSUME NEW s \in SUBSET (1..k)
        PROVE  g[s] = IF s = {} THEN <<>> ELSE Step(Max(s), g[s \ {Max(s)}])
    <3>1. CASE k \in s
      <4>1. Max(s) = k /\ s # {} /\ k \notin s \ {k} /\ s \ {k} \in SUBSET (1..k)
        BY <2>1, <3>1
      <4>2. g[s] = Step(k, h[s \ {k}]) /\ g[s \ {k}] = h[s \ {k}]
        BY <3>1, <4>1
      <4> HIDE DEF g
      <4> QED
        BY <4>1, <4>2
    <3>2. CASE k \notin s
      <4>1. s \in SUBSET (1..(k-1))
        BY <3>2
      <4>2. g[s] = h[s] /\ h[s] = IF s = {} THEN <<>> ELSE Step(Max(s), h[s \ {Max(s)}])
        BY <1>3, <3>2, <4>1
      <4>3. s \ {Max(s)} \in SUBSET (1..k) /\ k \notin s \ {Max(s)}
        BY <3>2
      <4>4. g[s \ {Max(s)}] = h[s \ {Max(s)}]
        BY <4>3
      <4> HIDE DEF g
      <4> QED
        BY <4>2, <4>4
    <3> QED
      BY <3>1, <3>2
  <2>3. Rec(k, g)
    BY <2>2
  <2> QED
    BY <2>3, Zenon
<1>4. \A k \in 1..n : k - 1 \in 0..n /\ k - 1 \notin T => k \notin T
  BY <1>3
<1> HIDE DEF T
<1>5. T \in SUBSET (0..n)
  BY DEF T
<1> QED
  BY <1>2, <1>4, <1>5, FirstFailure

TableFold(ls, n, descending) == CHOOSE g : IsTableFold(g, ls, n, descending)

\* The table after the first k lines.
TableAfter(ls, k, descending) == TableFold(ls, Len(ls), descending)[1..k]

\* It is empty at first, and each line is one parse_dose_range().
LEMMA TableByLines ==
  ASSUME NEW ls \in Seq(DoseLine), NEW descending
  PROVE  /\ TableAfter(ls, 0, descending) = <<>>
         /\ \A k \in 1..Len(ls) :
              TableAfter(ls, k, descending)
                = ParseDoseRange(TableAfter(ls, k - 1, descending), ls[k], descending)
         /\ DoseTableOf(ls, descending) = TableAfter(ls, Len(ls), descending)
<1> DEFINE n == Len(ls)
           g == TableFold(ls, n, descending)
<1>1. n \in Nat /\ DOMAIN ls = 1..n
  OBVIOUS
<1>2. DoseTableOf(ls, descending) = g[DOMAIN ls]
  BY <1>1, Zenon DEF DoseTableOf, FoldLeft, MapThenFoldSet, TableFold, IsTableFold
<1>3. g = [s \in SUBSET (1..n) |->
            IF s = {} THEN <<>> ELSE ParseDoseRange(g[s \ {Max(s)}], ls[Max(s)], descending)]
  <2>1. \E h : IsTableFold(h, ls, n, descending)
    BY <1>1, FoldExists
  <2>2. IsTableFold(g, ls, n, descending)
    BY <2>1, Zenon DEF TableFold
  <2> QED
    BY <2>2 DEF IsTableFold
<1> HIDE DEF n, g
<1>4. {} \in SUBSET (1..n) /\ 1..0 = {}
  OBVIOUS
<1>5. g[1..0] = <<>>
  BY <1>3, <1>4
<1>6. ASSUME NEW k \in 1..n
      PROVE  g[1..k] = ParseDoseRange(g[1..(k - 1)], ls[k], descending)
  <2>1. k \in Nat /\ 1..k # {} /\ 1..k \in SUBSET (1..k) /\ 1..k \in SUBSET (1..n)
    BY <1>1
  <2>2. Max(1..k) \in 1..k /\ \A m \in 1..k : m <= Max(1..k)
    BY <2>1, GreatestOf, Zenon
  <2>3. Max(1..k) = k
    BY <2>1, <2>2
  <2>4. (1..k) \ {k} = 1..(k - 1)
    BY <2>1
  <2>5. g[1..k] = ParseDoseRange(g[(1..k) \ {Max(1..k)}], ls[Max(1..k)], descending)
    BY <1>3, <2>1, Zenon
  <2> QED
    BY <2>3, <2>4, <2>5
<1> QED
  BY <1>1, <1>2, <1>5, <1>6 DEF TableAfter, n, g

\* No line of the table comes before one ahead of it.
SortedTable(steps, descending) ==
  \A i, j \in 1..Len(steps) :
    i < j => ~Before(steps[j].threshold, steps[i].threshold, descending)

\* new has the line, what steps has, and nothing else.
Inserted(new, steps, line) ==
  /\ new \in Seq(DoseLine) /\ Len(new) = Len(steps) + 1
  /\ \A i \in 1..Len(steps) : \E j \in 1..Len(new) : new[j] = steps[i]
  /\ \E j \in 1..Len(new) : new[j] = line
  /\ \A j \in 1..Len(new) : new[j] = line \/ \E i \in 1..Len(steps) : new[j] = steps[i]

\* A line bubbles up to its place: the table stays sorted and loses nothing.
LEMMA InsertedLine ==
  ASSUME NEW steps \in Seq(DoseLine), NEW line \in DoseLine, NEW descending \in BOOLEAN,
         SortedTable(steps, descending)
  PROVE  /\ Inserted(InsertLine(steps, line, descending), steps, line)
         /\ SortedTable(InsertLine(steps, line, descending), descending)
<1> DEFINE n == Len(steps)
           S == {i \in DOMAIN steps : ~Before(line.threshold, steps[i].threshold, descending)}
           p == Cardinality(S)
           new == InsertLine(steps, line, descending)
<1>1. n \in Nat /\ DOMAIN steps = 1..n
  OBVIOUS
<1>2. line.threshold \in Nat /\ \A i \in 1..n : steps[i] \in DoseLine /\ steps[i].threshold \in Nat
  <2>1. \A l \in DoseLine : l.threshold \in Nat
    BY DEF DoseLine
  <2>2. \A i \in 1..n : steps[i] \in DoseLine
    BY ElementOfSeq
  <2> QED
    BY <2>1, <2>2
<1>3. p \in 0..n /\ S = 1..p
  <2>1. ASSUME NEW i \in S, NEW j \in 1..n, j < i PROVE j \in S
    <3>1. i \in 1..n /\ ~Before(line.threshold, steps[i].threshold, descending)
      BY <1>1
    <3>2. ~Before(steps[i].threshold, steps[j].threshold, descending)
      BY <1>1, <2>1, <3>1 DEF SortedTable
    <3>3. ~Before(line.threshold, steps[j].threshold, descending)
      BY <1>2, <3>1, <3>2 DEF Before
    <3> QED
      BY <1>1, <3>3
  <2>2. S \in SUBSET (1..n)
    BY <1>1
  <2> HIDE DEF S
  <2> QED
    BY <1>1, <2>1, <2>2, CountUpTo
<1>4. new = InsertAt(steps, p + 1, line)
  BY DEF InsertLine
<1>5. /\ \A i \in 1..p : ~Before(line.threshold, steps[i].threshold, descending)
      /\ \A i \in (p + 1)..n : Before(line.threshold, steps[i].threshold, descending)
  <2>1. \A i \in 1..n : i \in S <=> ~Before(line.threshold, steps[i].threshold, descending)
    BY <1>1
  <2> HIDE DEF S, p
  <2> QED
    BY <1>1, <1>3, <2>1
<1> HIDE DEF S, p, new
<1>6. /\ new \in Seq(DoseLine) /\ Len(new) = n + 1
      /\ \A i \in 1..(n + 1) :
           new[i] = IF i <= p THEN steps[i] ELSE IF i = p + 1 THEN line ELSE steps[i - 1]
  <2>1. PICK q \in 1..(n + 1) : q = p + 1
    BY <1>1, <1>3
  <2>2. /\ InsertAt(steps, q, line) \in Seq(DoseLine) /\ Len(InsertAt(steps, q, line)) = n + 1
        /\ \A i \in 1..(n + 1) :
             InsertAt(steps, q, line)[i] = IF i < q THEN steps[i] ELSE IF i = q THEN line ELSE steps[i - 1]
    BY InsertAtFacts
  <2>3. new = InsertAt(steps, q, line)
    BY <1>4, <2>1, Zenon
  <2> QED
    BY <1>1, <1>3, <2>1, <2>2, <2>3
<1>7. \A i \in 1..n : \E j \in 1..(n + 1) : new[j] = steps[i]
  <2> TAKE i \in 1..n
  <2>1. CASE i <= p
    BY <1>6, <2>1
  <2>2. CASE i > p
    <3>1. i + 1 \in 1..(n + 1) /\ new[i + 1] = steps[i]
      BY <1>1, <1>3, <1>6, <2>2
    <3> QED
      BY <3>1
  <2> QED
    BY <1>3, <2>1, <2>2
<1>8. p + 1 \in 1..(n + 1) /\ new[p + 1] = line
  BY <1>1, <1>3, <1>6
<1>9. \A j \in 1..(n + 1) : new[j] = line \/ \E i \in 1..n : new[j] = steps[i]
  <2> TAKE j \in 1..(n + 1)
  <2>1. CASE j <= p
    BY <1>3, <1>6, <2>1
  <2>2. CASE j > p + 1
    <3>1. j - 1 \in 1..n /\ new[j] = steps[j - 1]
      BY <1>1, <1>3, <1>6, <2>2
    <3> QED
      BY <3>1
  <2> QED
    BY <1>3, <1>8, <2>1, <2>2
<1>10. SortedTable(new, descending)
  <2>1. SUFFICES ASSUME NEW i \in 1..(n + 1), NEW j \in 1..(n + 1), i < j
                 PROVE  ~Before(new[j].threshold, new[i].threshold, descending)
    BY <1>6 DEF SortedTable
  <2>2. \A a, b \in 1..n : a < b => ~Before(steps[b].threshold, steps[a].threshold, descending)
    BY DEF SortedTable
  <2>3. CASE j <= p
    <3>1. i \in 1..n /\ j \in 1..n /\ new[i] = steps[i] /\ new[j] = steps[j]
      BY <1>1, <1>3, <1>6, <2>1, <2>3
    <3> QED
      BY <2>1, <2>2, <3>1
  <2>4. CASE j = p + 1
    <3>1. i \in 1..p /\ new[i] = steps[i] /\ new[j] = line
      BY <1>1, <1>3, <1>6, <2>1, <2>4
    <3> QED
      BY <1>5, <3>1
  <2>5. CASE j > p + 1 /\ i <= p
    <3>1. i \in 1..n /\ j - 1 \in 1..n /\ i < j - 1 /\ new[i] = steps[i] /\ new[j] = steps[j - 1]
      BY <1>1, <1>3, <1>6, <2>1, <2>5
    <3> QED
      BY <2>2, <3>1
  <2>6. CASE j > p + 1 /\ i = p + 1
    <3>1. j - 1 \in (p + 1)..n /\ j - 1 \in 1..n /\ new[i] = line /\ new[j] = steps[j - 1]
      BY <1>1, <1>3, <1>6, <2>1, <2>6
    <3>2. Before(line.threshold, steps[j - 1].threshold, descending)
      BY <1>5, <3>1
    <3> QED
      BY <1>2, <3>1, <3>2 DEF Before
  <2>7. CASE i > p + 1
    <3>1. i - 1 \in 1..n /\ j - 1 \in 1..n /\ i - 1 < j - 1
          /\ new[i] = steps[i - 1] /\ new[j] = steps[j - 1]
      BY <1>1, <1>3, <1>6, <2>1, <2>7
    <3> QED
      BY <2>2, <3>1
  <2> QED
    BY <1>3, <2>1, <2>3, <2>4, <2>5, <2>6, <2>7
<1> QED
  BY <1>6, <1>7, <1>8, <1>9, <1>10 DEF new, Inserted

\* steps is sorted and has the first lines of ls, as many as it is long.
TableOfFirst(steps, ls, descending) ==
  /\ steps \in Seq(DoseLine) /\ SortedTable(steps, descending)
  /\ \A i \in 1..Len(steps) : \E j \in 1..Len(steps) : steps[j] = ls[i]
  /\ \A j \in 1..Len(steps) : \E i \in 1..Len(steps) : steps[j] = ls[i]

LEMMA TableFacts ==
  ASSUME NEW ls \in Seq(DoseLine), NEW descending \in BOOLEAN
  PROVE  TableOfFirst(DoseTableOf(ls, descending), ls, descending)
<1> DEFINE n == Len(ls)
           T(k) == TableAfter(ls, k, descending)
           Good(k) == /\ TableOfFirst(T(k), ls, descending)
                      /\ Len(T(k)) <= k /\ (Len(T(k)) < MaxRanges => Len(T(k)) = k)
           Bad == {k \in 0..n : ~Good(k)}
<1>1. n \in Nat /\ \A k \in 1..n : ls[k] \in DoseLine
  BY LenProperties, ElementOfSeq
<1>2. /\ T(0) = <<>> /\ DoseTableOf(ls, descending) = T(n)
      /\ \A k \in 1..n : T(k) = ParseDoseRange(T(k - 1), ls[k], descending)
  BY TableByLines
<1> HIDE DEF T
<1>3. Good(0)
  <2>1. <<>> \in Seq(DoseLine) /\ Len(<<>>) = 0
    BY EmptySeq
  <2>2. TableOfFirst(<<>>, ls, descending)
    BY <2>1 DEF TableOfFirst, SortedTable
  <2> QED
    BY <1>2, <2>1, <2>2
<1>4. ASSUME NEW k \in 1..n, Good(k - 1) PROVE Good(k)
  <2>1. PICK s \in Seq(DoseLine) :
          /\ s = T(k - 1) /\ TableOfFirst(s, ls, descending) /\ Len(s) \in Nat
          /\ Len(s) <= k - 1 /\ (Len(s) < MaxRanges => Len(s) = k - 1)
    BY <1>4, LenProperties DEF TableOfFirst
  <2>2. T(k) = IF Len(s) >= MaxRanges THEN s ELSE InsertLine(s, ls[k], descending)
    BY <1>2, <2>1 DEF ParseDoseRange
  <2>3. CASE Len(s) >= MaxRanges
    BY <2>1, <2>2, <2>3, MaxRangesAssumption
  <2>4. CASE ~(Len(s) >= MaxRanges)
    <3>1. Len(s) = k - 1
      BY <2>1, <2>4, MaxRangesAssumption
    <3>2. PICK t : t = InsertLine(s, ls[k], descending)
      OBVIOUS
    <3>3. Inserted(t, s, ls[k]) /\ SortedTable(t, descending)
      <4>1. SortedTable(s, descending) /\ ls[k] \in DoseLine
        BY <1>1, <2>1 DEF TableOfFirst
      <4> QED
        BY <3>2, <4>1, InsertedLine
    <3>4. /\ \A i \in 1..(k - 1) : \E j \in 1..(k - 1) : s[j] = ls[i]
          /\ \A j \in 1..(k - 1) : \E i \in 1..(k - 1) : s[j] = ls[i]
      BY <2>1, <3>1 DEF TableOfFirst
    <3>5. /\ t \in Seq(DoseLine) /\ Len(t) = k
          /\ \A i \in 1..(k - 1) : \E j \in 1..k : t[j] = s[i]
          /\ \E j \in 1..k : t[j] = ls[k]
          /\ \A j \in 1..k : t[j] = ls[k] \/ \E i \in 1..(k - 1) : t[j] = s[i]
      <4>1. Len(t) = k
        BY <3>1, <3>3 DEF Inserted
      <4> QED
        BY <3>1, <3>3, <4>1 DEF Inserted
    <3>6. \A i \in 1..k : \E j \in 1..k : t[j] = ls[i]
      <4> TAKE i \in 1..k
      <4>1. CASE i = k
        BY <3>5, <4>1
      <4>2. CASE i # k
        <5>1. PICK j \in 1..(k - 1) : s[j] = ls[i]
          BY <3>4, <4>2
        <5> QED
          BY <3>5, <5>1
      <4> QED
        BY <4>1, <4>2
    <3>7. \A j \in 1..k : \E i \in 1..k : t[j] = ls[i]
      <4> TAKE j \in 1..k
      <4>1. t[j] = ls[k] \/ \E i \in 1..(k - 1) : t[j] = s[i]
        BY <3>5
      <4>2. CASE \E i \in 1..(k - 1) : t[j] = s[i]
        <5>1. PICK i \in 1..(k - 1) : t[j] = s[i]
          BY <4>2
        <5>2. PICK h \in 1..(k - 1) : s[i] = ls[h]
          BY <3>4
        <5> QED
          BY <5>1, <5>2
      <4> QED
        BY <4>1, <4>2
    <3>8. T(k) = t
      BY <2>2, <2>4, <3>2
    <3> QED
      <4>1. TableOfFirst(t, ls, descending)
        BY <3>3, <3>5, <3>6, <3>7 DEF TableOfFirst
      <4> QED
        BY <3>5, <3>8, <4>1
  <2> QED
    BY <2>3, <2>4
<1> HIDE DEF Good
<1>5. Bad = {}
  <2>1. Bad \in SUBSET (0..n) /\ 0 \notin Bad
    BY <1>3
  <2>2. \A k \in 1..n : k - 1 \in 0..n /\ k - 1 \notin Bad => k \notin Bad
    BY <1>4
  <2> HIDE DEF Bad
  <2> QED
    BY <1>1, <2>1, <2>2, FirstFailure
<1>6. Good(n)
  BY <1>1, <1>5
<1> QED
  BY <1>2, <1>6 DEF Good

HasReached(reading, step, descending) ==
  IF descending THEN reading >= step.threshold ELSE reading <= step.threshold

\* The step found is the first one the reading has reached, or the last.
LEMMA StepReachedFacts ==
  ASSUME NEW steps \in Seq(DoseLine), steps # <<>>, NEW reading, NEW descending
  PROVE  \E i \in 1..Len(steps) :
           /\ StepReached(steps, reading, descending) = steps[i].seconds
           /\ \/ /\ HasReached(reading, steps[i], descending)
                 /\ \A k \in 1..Len(steps) : HasReached(reading, steps[k], descending) => i <= k
              \/ i = Len(steps) /\ \A k \in 1..Len(steps) : ~HasReached(reading, steps[k], descending)
<1> DEFINE Reach(k) == HasReached(reading, steps[k], descending)
           I == {k \in 1..Len(steps) : Reach(k)}
           first == IF I # {} THEN Min(I) ELSE 0
<1>1. Len(steps) \in Nat /\ Len(steps) \in 1..Len(steps)
  BY EmptySeq
<1>2. StepReached(steps, reading, descending)
        = IF first = 0 THEN steps[Len(steps)].seconds ELSE steps[first].seconds
  BY Zenon DEF StepReached, SelectInSeq, Last, HasReached
<1>3. CASE I = {}
  <2>1. first = 0 /\ \A k \in 1..Len(steps) : ~Reach(k)
    BY <1>3
  <2> HIDE DEF first, I, Reach
  <2> QED
    BY <1>1, <1>2, <2>1 DEF Reach
<1>4. CASE I # {}
  <2>1. I \in SUBSET Nat /\ first = Min(I)
    BY <1>4
  <2> HIDE DEF I, first
  <2>2. first \in I /\ \A k \in I : first <= k
    BY <1>4, <2>1, LeastOf
  <2>3. first \in 1..Len(steps) /\ Reach(first) /\ \A k \in 1..Len(steps) : Reach(k) => first <= k
    BY <2>2 DEF I
  <2> HIDE DEF Reach
  <2>4. StepReached(steps, reading, descending) = steps[first].seconds
    BY <1>2, <2>3
  <2> QED
    BY <2>3, <2>4 DEF Reach
<1> QED
  BY <1>3, <1>4

\* The run time found is that of a line which brackets the reading.
TimeIsBracketed(ls, steps, reading, descending, default) ==
  \E l \in Bracket({ls[i] : i \in 1..Len(steps)}, reading, descending) :
    GetDoseTime(steps, reading, descending, default) = l.seconds

LEMMA TimeOfTable ==
  ASSUME NEW ls \in Seq(DoseLine), NEW reading \in Nat, NEW descending \in BOOLEAN, NEW default,
         DoseTableOf(ls, descending) # <<>>
  PROVE  TimeIsBracketed(ls, DoseTableOf(ls, descending), reading, descending, default)
<1>1. PICK steps : steps = DoseTableOf(ls, descending)
  OBVIOUS
<1> DEFINE n == Len(steps)
           kept == {ls[i] : i \in 1..n}
           Reach(l) == HasReached(reading, l, descending)
<1>2. /\ steps \in Seq(DoseLine) /\ SortedTable(steps, descending) /\ n \in Nat
      /\ \A i \in 1..n : \E j \in 1..n : steps[j] = ls[i]
      /\ \A j \in 1..n : \E i \in 1..n : steps[j] = ls[i]
  BY <1>1, TableFacts, LenProperties DEF TableOfFirst
<1>3. /\ \A l : l \in kept <=> \E j \in 1..n : l = steps[j]
      /\ \A j \in 1..n : steps[j] \in DoseLine /\ steps[j].threshold \in Nat
  <2>1. \A l \in DoseLine : l.threshold \in Nat
    BY DEF DoseLine
  <2>2. \A j \in 1..n : steps[j] \in DoseLine
    BY <1>2, ElementOfSeq
  <2>3. \A l : l \in kept <=> \E j \in 1..n : l = steps[j]
    BY <1>2
  <2> QED
    BY <2>1, <2>2, <2>3
<1>4. PICK i \in 1..n :
        /\ StepReached(steps, reading, descending) = steps[i].seconds
        /\ \/ Reach(steps[i]) /\ \A k \in 1..n : Reach(steps[k]) => i <= k
           \/ i = n /\ \A k \in 1..n : ~Reach(steps[k])
  BY <1>1, <1>2, StepReachedFacts
<1>5. \A a, b \in 1..n : a <= b => ~Before(steps[b].threshold, steps[a].threshold, descending)
  <2> TAKE a, b \in 1..n
  <2>1. CASE a < b
    BY <1>2, <2>1 DEF SortedTable
  <2>2. CASE a = b
    BY <1>3, <2>2 DEF Before
  <2> QED
    BY <2>1, <2>2
<1>6. GetDoseTime(steps, reading, descending, default) = steps[i].seconds
  BY <1>1, <1>4 DEF GetDoseTime
<1>7. steps[i] \in Bracket(kept, reading, descending)
  <2> HIDE DEF kept, Reach
  <2>1. \A l : l \in Reached(kept, reading, descending) <=> l \in kept /\ Reach(l)
    BY DEF Reached, Reach, HasReached
  <2>2. CASE Reach(steps[i]) /\ \A k \in 1..n : Reach(steps[k]) => i <= k
    <3>1. steps[i] \in Reached(kept, reading, descending)
      BY <1>3, <2>1, <2>2
    <3>2. \A l \in Reached(kept, reading, descending) : ~Before(l.threshold, steps[i].threshold, descending)
      BY <1>3, <1>5, <2>1, <2>2
    <3> QED
      BY <3>1, <3>2 DEF Bracket, Furthest
  <2>3. CASE i = n /\ \A k \in 1..n : ~Reach(steps[k])
    <3>1. Reached(kept, reading, descending) = {}
      BY <1>3, <2>1, <2>3
    <3>2. \A l \in kept : ~Before(l.threshold, steps[i].threshold, ~descending)
      <4> TAKE l \in kept
      <4>1. PICK j \in 1..n : l = steps[j]
        BY <1>3
      <4>2. j <= i
        BY <1>2, <2>3
      <4>3. ~Before(steps[i].threshold, l.threshold, descending)
        BY <1>5, <4>1, <4>2
      <4> QED
        BY <1>3, <4>1, <4>3 DEF Before
    <3>3. steps[i] \in kept
      BY <1>3
    <3> QED
      BY <3>1, <3>2, <3>3 DEF Bracket, Nearest, Furthest
  <2> QED
    BY <1>4, <2>2, <2>3
<1> QED
  BY <1>1, <1>6, <1>7 DEF TimeIsBracketed
-----------------------------------------------------------------------------
(***************************************************************************)
(* The books.                                                              *)
(***************************************************************************)
USE AccountingAssumption

BooksTypeOK ==
  /\ level \in Nat /\ since \in Nat /\ pumped \in Nat /\ tank \in Nat
  /\ TotalMax > 0 /\ ~missed => total \in Nat

\* The journal has the level, or nothing while the level is the one assumed.
JournalHasLevel == (journal = {} /\ level = Volume \div 2) \/ journal = {level}

(***************************************************************************)
(* A pump that runs is ON and has a timer that knows when it began; if it  *)
(* does not, the books have been disturbed.                                *)
(***************************************************************************)
TimedOrDisturbed ==
  /\ timed => relay
  /\ state = "ON" => relay
  /\ relay /\ (state # "ON" \/ ~timed) => missed /\ drifted

BooksInv ==
  /\ BooksTypeOK /\ JournalHasLevel /\ TimedOrDisturbed
  /\ TotalIsPumped /\ LevelIsTank

\* Rates and times are natural, and so is what they come to.
LEMMA DoseIsNat == ASSUME since \in Nat PROVE DoseMl \in Nat
  BY DEF DoseMl

LEMMA NextSecond == \A s \in Nat : (s + 1) * FlowRate = s * FlowRate + FlowRate
  OBVIOUS

\* What is drawn is counted off down to zero, a dose at once or by seconds.
LEMMA DrawnFacts ==
  ASSUME NEW l \in Nat, NEW ml \in Nat
  PROVE  /\ Drawn(l, ml) \in Nat /\ Drawn(l, 0) = l
         /\ Drawn(l, ml + FlowRate) = Drawn(Drawn(l, ml), FlowRate)
  BY DEF Drawn

LEMMA CountedFacts ==
  ASSUME NEW ml \in Nat
  PROVE  Counted(ml) \in Nat /\ Counted(Counted(ml) + FlowRate) = Counted(ml + FlowRate)
  BY DEF Counted

\* The level found by a restart is the one there was.
LEMMA StartLevelIsLevel == ASSUME BooksInv PROVE StartLevel = level
<1>1. CASE journal = {} /\ level = Volume \div 2
  BY <1>1 DEF StartLevel
<1>2. CASE journal = {level}
  BY <1>2 DEF StartLevel
<1> QED
  BY <1>1, <1>2 DEF BooksInv, JournalHasLevel

LEMMA InitBooks == Init => BooksInv
<1> SUFFICES ASSUME Init PROVE BooksInv
  OBVIOUS
<1> USE DEF Init
<1>1. level = Volume \div 2 /\ level \in Nat
  BY DEF StartLevel
<1>2. BooksTypeOK
  BY <1>1 DEF BooksTypeOK
<1>3. JournalHasLevel
  BY <1>1 DEF JournalHasLevel
<1>4. TimedOrDisturbed
  BY DEF TimedOrDisturbed
<1>5. TotalIsPumped /\ LevelIsTank
  BY DEF TotalIsPumped, LevelIsTank
<1> QED
  BY <1>2, <1>3, <1>4, <1>5 DEF BooksInv

\* A dose begins with nothing owed, or leaves the books disturbed.
LEMMA StartKeepsBooks ==
  ASSUME BooksInv, NEW d \in RunTimes, NEW r \in Readings, RequestOn(d, r) PROVE BooksInv'
<1> USE DEF BooksInv
<1>1. UNCHANGED <<total, level, journal, pumped, tank>> /\ since' = 0 /\ (missed => missed')
  BY DEF RequestOn, TurnPumpOn, bookVars
<1>2. BooksTypeOK' /\ JournalHasLevel'
  BY <1>1 DEF BooksTypeOK, JournalHasLevel
<1>3. CASE timed /\ state = "ON"
  <2>1. missed' /\ drifted' /\ UNCHANGED <<state, relay>>
    BY <1>3, Zenon DEF RequestOn, TurnPumpOn
  <2>2. relay'
    BY <1>3, <2>1 DEF TimedOrDisturbed
  <2> QED
    BY <1>2, <2>1, <2>2 DEF TimedOrDisturbed, TotalIsPumped, LevelIsTank
<1>4. CASE ~(timed /\ state = "ON")
  <2>1. state' = "ON" /\ relay' /\ timed' /\ UNCHANGED <<missed, drifted>>
    BY <1>4, Zenon DEF RequestOn, TurnPumpOn
  <2>2. TimedOrDisturbed'
    BY <2>1 DEF TimedOrDisturbed
  <2>3. DoseMl' = 0
    BY <1>1 DEF DoseMl
  <2>4. ~timed \/ (missed /\ drifted)
    BY <1>4 DEF TimedOrDisturbed
  <2>5. ~timed => DoseMl = 0
    BY DEF DoseMl
  <2> QED
    BY <1>1, <1>2, <2>1, <2>2, <2>3, <2>4, <2>5 DEF TotalIsPumped, LevelIsTank
<1> QED
  BY <1>3, <1>4

\* A dose that ends is in the total, off the level and in the journal.
LEMMA StopKeepsBooks ==
  ASSUME BooksInv, NEW desired, desired # "ON", TurnPumpOff(desired), UNCHANGED realVars
  PROVE  BooksInv'
<1> USE DEF BooksInv, TurnPumpOff, Book, StopPump, realVars
<1>1. DoseMl \in Nat
  BY DoseIsNat DEF BooksTypeOK
<1>2. ~relay' /\ ~timed' /\ since' = 0 /\ state' # "ON"
  OBVIOUS
<1>3. level' = Drawn(level, DoseMl) /\ level' \in Nat
  BY <1>1, DrawnFacts DEF BooksTypeOK
<1>4. TotalMax > 0 /\ ~missed => total' \in Nat /\ total' = total + DoseMl /\ total \in Nat
  BY <1>1 DEF BooksTypeOK, Plus
<1>5. BooksTypeOK'
  BY <1>2, <1>3, <1>4 DEF BooksTypeOK
<1>6. JournalHasLevel'
  <2>1. CASE DoseMl > 0
    BY <2>1 DEF JournalHasLevel
  <2>2. CASE DoseMl = 0
    BY <2>2, <1>3, DrawnFacts DEF JournalHasLevel, BooksTypeOK
  <2> QED
    BY <1>1, <2>1, <2>2
<1>7. TimedOrDisturbed'
  BY <1>2 DEF TimedOrDisturbed
<1>8. DoseMl' = 0
  BY <1>2 DEF DoseMl
<1>9. TotalIsPumped'
  BY <1>1, <1>4, <1>8 DEF TotalIsPumped, BooksTypeOK
<1>10. LevelIsTank'
  BY <1>3, <1>8, DrawnFacts DEF LevelIsTank
<1> QED
  BY <1>5, <1>6, <1>7, <1>9, <1>10

\* A handler that touches neither pump nor books may put a resting doser to another rest.
LEMMA RestKeepsBooks ==
  ASSUME BooksInv, UNCHANGED <<relay, timed, since, total, level, journal, pumped, tank, missed, drifted>>,
         state' = state \/ (state # "ON" /\ state' # "ON")
  PROVE  BooksInv'
<1> USE DEF BooksInv
<1>1. BooksTypeOK' /\ JournalHasLevel' /\ TimedOrDisturbed'
  BY DEF BooksTypeOK, JournalHasLevel, TimedOrDisturbed
<1>2. DoseMl' = DoseMl
  BY DEF DoseMl
<1> QED
  BY <1>1, <1>2 DEF TotalIsPumped, LevelIsTank

LEMMA RequestOffKeepsBooks ==
  ASSUME BooksInv, NEW s \in {"OFF", "ENABLED"}, RequestOff(s) PROVE BooksInv'
<1>1. CASE state = "ON" /\ TurnPumpOff("ENABLED")
  BY <1>1, StopKeepsBooks DEF RequestOff
<1>2. CASE state # "ON" /\ state' = s /\ UNCHANGED <<relay, timed, left, since, bookVars>>
  BY <1>2, RestKeepsBooks DEF RequestOff, bookVars, realVars
<1> QED
  BY <1>1, <1>2 DEF RequestOff

LEMMA TimerKeepsBooks == ASSUME BooksInv, TimerExpires PROVE BooksInv'
<1>1. CASE state = "ON" /\ TurnPumpOff("ENABLED")
  BY <1>1, StopKeepsBooks DEF TimerExpires
<1>2. CASE state # "ON"
  <2> USE <1>2 DEF TimerExpires, bookVars, realVars, BooksInv
  <2>1. /\ UNCHANGED <<relay, total, level, journal, pumped, tank, missed, drifted>>
        /\ ~timed' /\ since' = 0 /\ state' # "ON"
    OBVIOUS
  <2>2. missed /\ drifted
    BY DEF TimedOrDisturbed
  <2>3. BooksTypeOK' /\ JournalHasLevel' /\ TimedOrDisturbed'
    BY <2>1, <2>2 DEF BooksTypeOK, JournalHasLevel, TimedOrDisturbed
  <2> QED
    BY <2>1, <2>2, <2>3 DEF TotalIsPumped, LevelIsTank
<1> QED
  BY <1>1, <1>2 DEF TimerExpires

LEMMA InterlockKeepsBooks == ASSUME BooksInv, Block \/ Unblock PROVE BooksInv'
<1>1. CASE Block /\ state = "ON" /\ TurnPumpOff("DISABLED")
  BY <1>1, StopKeepsBooks DEF Block
<1>2. CASE Block /\ state # "ON"
  BY <1>2, RestKeepsBooks DEF Block, bookVars, realVars
<1>3. CASE Unblock
  BY <1>3, RestKeepsBooks DEF Unblock, bookVars, realVars
<1> QED
  BY <1>1, <1>2, <1>3 DEF Block

\* A level set while the pump runs disturbs the books; else it is the tank's.
LEMMA LevelKeepsBooks ==
  ASSUME BooksInv, NEW v \in 0..Volume, SetTankVolume(v) PROVE BooksInv'
<1> USE DEF BooksInv
<1> DEFINE stop == MinVolume > 0 /\ TankIsEmpty(v) /\ state = "ON"
           dose == IF stop THEN DoseMl ELSE 0
<1>1. /\ level' = Drawn(v, dose) /\ journal' = {level'}
      /\ total' = IF TotalMax > 0 THEN Plus(total, dose) ELSE total
      /\ tank' = v /\ pumped' = pumped
  BY DEF SetTankVolume, Book
<1>2. /\ drifted' <=> relay
      /\ missed' <=> missed \/ (relay' /\ state' # "ON")
  BY Zenon DEF SetTankVolume
<1>3. \/ /\ relay' <=> relay /\ ~stop
         /\ timed' <=> timed /\ ~stop
         /\ since' = IF stop THEN 0 ELSE since
         /\ state' = "OFF"
      \/ /\ UNCHANGED <<relay, timed, since>> /\ ~stop
         /\ state' = "ON" => state = "ON"
  <2>1. CASE MinVolume > 0 /\ TankIsEmpty(v) /\ state \in {"ENABLED", "ON"}
    BY <2>1, Zenon DEF SetTankVolume
  <2>2. CASE ~(MinVolume > 0 /\ TankIsEmpty(v) /\ state \in {"ENABLED", "ON"})
    <3>1. ~stop
      BY <2>2
    <3>2. UNCHANGED <<relay, timed, since>>
      BY <2>2, Zenon DEF SetTankVolume
    <3>3. state' \in {state, "ENABLED", "DISABLED"}
      BY <2>2 DEF SetTankVolume
    <3> QED
      BY <3>1, <3>2, <3>3
  <2> QED
    BY <2>1, <2>2
<1> HIDE DEF stop
<1>4. DoseMl \in Nat /\ dose \in Nat /\ v \in Nat
  BY DoseIsNat DEF BooksTypeOK
<1>5. /\ level' \in Nat /\ since' \in Nat
      /\ TotalMax > 0 /\ ~missed => total' \in Nat /\ total' = total + dose /\ total \in Nat
  <2>1. since' = since \/ since' = 0
    BY <1>3
  <2>2. Drawn(v, dose) \in Nat
    BY <1>4, DrawnFacts
  <2> HIDE DEF dose
  <2> QED
    BY <1>1, <1>4, <2>1, <2>2 DEF BooksTypeOK, Plus
<1>6. BooksTypeOK' /\ JournalHasLevel'
  BY <1>1, <1>2, <1>4, <1>5 DEF BooksTypeOK, JournalHasLevel
<1>7. TimedOrDisturbed'
  BY <1>2, <1>3 DEF TimedOrDisturbed
<1>8. CASE stop
  <2>1. ~relay' /\ ~timed' /\ DoseMl' = 0 /\ relay /\ dose = DoseMl
    BY <1>3, <1>8 DEF DoseMl, TimedOrDisturbed, stop
  <2>2. TotalIsPumped'
    BY <1>1, <1>2, <1>4, <1>5, <2>1 DEF TotalIsPumped, BooksTypeOK
  <2>3. LevelIsTank'
    BY <1>2, <2>1 DEF LevelIsTank
  <2> QED
    BY <1>6, <1>7, <2>2, <2>3
<1>9. CASE ~stop
  <2>1. DoseMl' = DoseMl /\ dose = 0
    <3>1. (timed' <=> timed) /\ since' = since
      BY <1>3, <1>9
    <3> QED
      BY <1>9, <3>1 DEF DoseMl
  <2>2. TotalIsPumped'
    BY <1>1, <1>2, <1>5, <2>1 DEF TotalIsPumped, BooksTypeOK
  <2>3. ~relay => DoseMl = 0
    BY DEF DoseMl, TimedOrDisturbed
  <2>4. LevelIsTank'
    BY <1>1, <1>2, <1>4, <2>1, <2>3, DrawnFacts DEF LevelIsTank
  <2> QED
    BY <1>6, <1>7, <2>2, <2>4
<1> QED
  BY <1>8, <1>9

\* A new period counts from what the running dose has moved so far.
LEMMA ResetKeepsBooks == ASSUME BooksInv, ResetDoseTotal PROVE BooksInv'
<1> USE DEF BooksInv, ResetDoseTotal, doseVars
<1>1. missed' <=> relay /\ missed
  BY Zenon
<1>2. DoseMl' = DoseMl /\ DoseMl \in Nat
  BY DoseIsNat DEF DoseMl, BooksTypeOK
<1>3. BooksTypeOK' /\ JournalHasLevel'
  BY <1>2, CountedFacts DEF BooksTypeOK, JournalHasLevel
<1>4. TimedOrDisturbed'
  BY <1>1 DEF TimedOrDisturbed
<1>5. TotalIsPumped' /\ LevelIsTank'
  BY <1>2 DEF TotalIsPumped, LevelIsTank
<1> QED
  BY <1>3, <1>4, <1>5

\* A restart finds the level it left and a dose, if there was one, lost.
LEMMA RestartKeepsBooks == ASSUME BooksInv, Restart PROVE BooksInv'
<1> USE DEF BooksInv, Restart
<1>1. level' = level
  BY StartLevelIsLevel
<1>2. /\ ~relay' /\ ~timed' /\ missed' /\ since' = 0 /\ state' # "ON"
      /\ drifted' <=> drifted \/ relay
  BY Zenon
<1>3. BooksTypeOK' /\ JournalHasLevel' /\ TimedOrDisturbed' /\ TotalIsPumped'
  BY <1>1, <1>2 DEF BooksTypeOK, JournalHasLevel, TimedOrDisturbed, TotalIsPumped
<1>4. DoseMl' = 0 /\ (~relay => DoseMl = 0)
  BY <1>2 DEF DoseMl, TimedOrDisturbed
<1>5. LevelIsTank'
  BY <1>1, <1>2, <1>4 DEF LevelIsTank
<1> QED
  BY <1>3, <1>5

\* What a second moves is in the dose in flight.
LEMMA SecondKeepsBooks == ASSUME BooksInv, Second PROVE BooksInv'
<1> USE DEF BooksInv, Second, bookVars
<1>1. pumped' = Counted(pumped + FlowRate) /\ tank' = Drawn(tank, FlowRate)
  BY DEF Drawn, BooksTypeOK
<1>2. BooksTypeOK' /\ JournalHasLevel'
  <2>1. since' = since + 1 \/ since' = 0
    OBVIOUS
  <2>2. tank' \in Nat /\ pumped + FlowRate \in Nat
    BY DEF BooksTypeOK
  <2> QED
    BY <2>1, <2>2, CountedFacts DEF BooksTypeOK, JournalHasLevel
<1>3. TimedOrDisturbed'
  BY DEF TimedOrDisturbed
<1>4. DoseMl \in Nat /\ (timed => DoseMl' = DoseMl + FlowRate)
  BY DoseIsNat, NextSecond DEF DoseMl, BooksTypeOK
<1>5. ~missed \/ ~drifted => timed
  BY DEF TimedOrDisturbed
<1>6. TotalIsPumped'
  <2>1. TotalMax > 0 /\ ~missed =>
          total + DoseMl \in Nat /\ total + (DoseMl + FlowRate) = (total + DoseMl) + FlowRate
    BY <1>4 DEF BooksTypeOK
  <2> QED
    BY <1>1, <1>4, <1>5, <2>1, CountedFacts DEF TotalIsPumped
<1>7. LevelIsTank'
  <2>1. Drawn(level, DoseMl + FlowRate) = Drawn(Drawn(level, DoseMl), FlowRate)
    BY <1>4, DrawnFacts DEF BooksTypeOK
  <2> QED
    BY <1>1, <1>4, <1>5, <2>1 DEF LevelIsTank
<1> QED
  BY <1>2, <1>3, <1>6, <1>7

LEMMA BooksInvariant == Spec => []BooksInv
<1>1. ASSUME BooksInv, [Next]_vars PROVE BooksInv'
  <2>1. CASE Next
    BY <1>1, <2>1, StartKeepsBooks, RequestOffKeepsBooks, TimerKeepsBooks, InterlockKeepsBooks,
       LevelKeepsBooks, ResetKeepsBooks, RestartKeepsBooks, SecondKeepsBooks
    DEF Next
  <2>2. CASE UNCHANGED vars
    BY <1>1, <2>2, RestKeepsBooks DEF vars, doseVars, bookVars, realVars
  <2> QED
    BY <1>1, <2>1, <2>2
<1> QED
  BY InitBooks, <1>1, PTL DEF Spec

(***************************************************************************)
(* Whatever the table, the rate and the cap, the total of a period is what *)
(* the pump has moved in it, the dose in flight apart, until a running     *)
(* dose is disturbed (turn_pump_off() books every dose, once).             *)
(***************************************************************************)
THEOREM TotalAlwaysPumped == Spec => []TotalIsPumped
<1>1. BooksInv => TotalIsPumped
  BY DEF BooksInv
<1> QED
  BY BooksInvariant, <1>1, PTL

(***************************************************************************)
(* Whatever the tank, the tracked level less the dose in flight is what it *)
(* holds, until a running dose is disturbed.                               *)
(***************************************************************************)
THEOREM LevelAlwaysTank == Spec => []LevelIsTank
<1>1. BooksInv => LevelIsTank
  BY DEF BooksInv
<1> QED
  BY BooksInvariant, <1>1, PTL

(***************************************************************************)
(* A restart at any moment, with any tank, finds the level the daemon had: *)
(* every change of the level is in the journal before the handler ends.    *)
(***************************************************************************)
THEOREM RestartAlwaysKeepsLevel == Spec => RestartKeepsLevel
<1>1. BooksInv /\ [Next]_vars => [Restart => level' = level]_vars
  BY StartLevelIsLevel DEF Restart
<1> QED
  BY BooksInvariant, <1>1, PTL DEF Spec, RestartKeepsLevel
-----------------------------------------------------------------------------
(***************************************************************************)
(* The cap.  What a timer has run and has left is within the longest run,  *)
(* and while there is a timer the total is under the cap, or no number: it *)
(* was when the dose began, and it only grows when a dose ends.            *)
(***************************************************************************)
TimeBounded ==
  /\ since \in Nat /\ left \in Nat
  /\ timed => since + left <= LongestRun

TotalBounded ==
  /\ total \in Int \cup {NaN}
  /\ TotalMax > 0 => /\ timed => total = NaN \/ total < TotalMax
                     /\ total = found \/ (total # NaN /\ total < TotalMax + LongestRun * FlowRate)

CapInv == lines \in DoseLines /\ TimeBounded /\ TotalBounded

\* A table of natural run times has a longest one.
LEMMA LongestOfSteps ==
  ASSUME NEW steps \in Seq(DoseLine), NEW a \in Nat, NEW b \in Nat
  PROVE  \E t \in {a, b} \cup {steps[i].seconds : i \in DOMAIN steps} :
           t \in Nat /\ \A u \in {a, b} \cup {steps[i].seconds : i \in DOMAIN steps} : t >= u
<1> DEFINE n == Len(steps)
           times == {a, b} \cup {steps[i].seconds : i \in DOMAIN steps}
           Tops(k) == {t \in times : t >= a /\ t >= b /\ \A i \in 1..k : t >= steps[i].seconds}
           T == {k \in 0..n : Tops(k) = {}}
<1>1. n \in Nat /\ DOMAIN steps = 1..n
  BY LenProperties
<1>2. \A i \in 1..n : steps[i].seconds \in Nat /\ steps[i].seconds \in times
  <2>1. \A l \in DoseLine : l.seconds \in Nat
    BY DEF DoseLine
  <2>2. \A i \in 1..n : steps[i] \in DoseLine
    BY ElementOfSeq
  <2> QED
    BY <1>1, <2>1, <2>2
<1>3. a \in times /\ b \in times /\ \A t \in times : t \in Nat
  BY <1>1, <1>2
<1>4. \A t \in times : t = a \/ t = b \/ \E i \in 1..n : t = steps[i].seconds
  BY <1>1
<1> HIDE DEF times
<1>5. 0 \notin T
  <2>1. a \in Tops(0) \/ b \in Tops(0)
    BY <1>3
  <2> QED
    BY <2>1
<1>6. ASSUME NEW k \in 1..n, k - 1 \notin T PROVE k \notin T
  <2>1. k - 1 \in 0..n
    BY <1>1
  <2>2. PICK t \in times : t >= a /\ t >= b /\ \A i \in 1..(k - 1) : t >= steps[i].seconds
    BY <1>6, <2>1
  <2>3. CASE t >= steps[k].seconds
    <3>1. \A i \in 1..k : t >= steps[i].seconds
      BY <2>2, <2>3
    <3> QED
      BY <2>2, <3>1
  <2>4. CASE ~(t >= steps[k].seconds)
    <3>1. PICK s \in times : s = steps[k].seconds
      BY <1>2
    <3>2. s \in Nat /\ t \in Nat /\ s > t
      BY <1>3, <2>4, <3>1
    <3>3. \A i \in 1..k : s >= steps[i].seconds
      BY <1>1, <1>2, <2>2, <3>1, <3>2
    <3>4. s \in Tops(k)
      BY <2>2, <3>2, <3>3
    <3> QED
      BY <3>4
  <2> QED
    BY <2>3, <2>4
<1>7. T = {}
  <2>1. T \in SUBSET (0..n)
    OBVIOUS
  <2>2. \A k \in 1..n : k - 1 \notin T => k \notin T
    BY <1>6
  <2> HIDE DEF T
  <2> QED
    BY <1>1, <1>5, <2>1, <2>2, FirstFailure
<1>8. PICK t \in times : t >= a /\ t >= b /\ \A i \in 1..n : t >= steps[i].seconds
  BY <1>1, <1>7
<1>9. \A u \in times : t >= u
  BY <1>4, <1>8
<1> QED
  BY <1>3, <1>8, <1>9 DEF times

\* The run times a dose can get are within the longest.
LEMMA LongestRunFacts ==
  ASSUME lines \in DoseLines
  PROVE  /\ LongestRun \in Nat /\ LongestRun >= MaxDoseTime
         /\ \A reading : PumpRunTime(reading) \in Nat /\ PumpRunTime(reading) <= LongestRun
<1>1. PICK steps \in Seq(DoseLine) : steps = Steps
  <2>1. lines \in Seq(DoseLine) /\ TRUE \in BOOLEAN
    BY LinesAssumption
  <2> QED
    BY <2>1, TableFacts DEF Steps, TableOfFirst
<1> DEFINE times == {MaxDoseTime, DefaultTime} \cup {steps[i].seconds : i \in DOMAIN steps}
<1>2. LongestRun = CHOOSE t \in times : \A u \in times : t >= u
  BY <1>1 DEF LongestRun
<1>3. \E t \in times : t \in Nat /\ \A u \in times : t >= u
  BY LongestOfSteps
<1>4. MaxDoseTime \in times /\ DefaultTime \in times
  OBVIOUS
<1>5. \A i \in 1..Len(steps) : steps[i].seconds \in times
  BY LenProperties
<1> HIDE DEF times
<1>6. LongestRun \in times /\ \A u \in times : LongestRun >= u
  BY <1>2, <1>3
<1>7. \A t \in times : t \in Nat
  <2>1. \A i \in DOMAIN steps : steps[i].seconds \in Nat
    <3>1. \A l \in DoseLine : l.seconds \in Nat
      BY DEF DoseLine
    <3>2. \A i \in DOMAIN steps : steps[i] \in DoseLine
      BY ElementOfSeq, LenProperties
    <3> QED
      BY <3>1, <3>2
  <2> QED
    BY <2>1 DEF times
<1>8. ASSUME NEW reading PROVE PumpRunTime(reading) \in times
  <2>1. CASE steps = <<>>
    BY <1>1, <1>4, <2>1 DEF PumpRunTime, GetDoseTime
  <2>2. CASE steps # <<>>
    <3>1. \E i \in 1..Len(steps) : StepReached(steps, reading, TRUE) = steps[i].seconds
      BY <2>2, StepReachedFacts
    <3> QED
      BY <1>1, <1>5, <2>2, <3>1 DEF PumpRunTime, GetDoseTime
  <2> QED
    BY <2>1, <2>2
<1> QED
  BY <1>4, <1>6, <1>7, <1>8

LEMMA LongestRunIsFixed == ASSUME lines' = lines PROVE LongestRun' = LongestRun
  BY DEF LongestRun, Steps

\* A dose in flight is within the longest run.
LEMMA DoseWithinLongest ==
  ASSUME CapInv
  PROVE  /\ DoseMl \in Nat /\ LongestRun * FlowRate \in Nat
         /\ DoseMl <= LongestRun * FlowRate /\ (~timed => DoseMl = 0)
<1>1. LongestRun \in Nat
  BY LongestRunFacts DEF CapInv
<1>2. \A s, l \in Nat : s <= l => s * FlowRate <= l * FlowRate /\ s * FlowRate \in Nat
  OBVIOUS
<1>3. timed => since <= LongestRun
  BY <1>1 DEF CapInv, TimeBounded
<1>4. LongestRun * FlowRate \in Nat
  BY <1>1
<1> QED
  <2>1. CASE timed
    <3>1. DoseMl = since * FlowRate /\ since \in Nat
      BY <2>1 DEF CapInv, TimeBounded, DoseMl
    <3> QED
      BY <1>1, <1>2, <1>3, <1>4, <2>1, <3>1
  <2>2. CASE ~timed
    <3>1. DoseMl = 0
      BY <2>2 DEF DoseMl
    <3> QED
      BY <1>4, <2>2, <3>1
  <2> QED
    BY <2>1, <2>2

\* A total that has a dose added to it, and its timer gone, is under the bound.
LEMMA BookedWithinBound ==
  ASSUME CapInv, total' = (IF TotalMax > 0 THEN Plus(total, DoseMl) ELSE total), ~timed',
         UNCHANGED <<lines, found>>
  PROVE  TotalBounded'
<1>1. LongestRun' = LongestRun
  BY LongestRunIsFixed
<1>2. /\ DoseMl \in Nat /\ LongestRun * FlowRate \in Nat
      /\ DoseMl <= LongestRun * FlowRate /\ (~timed => DoseMl = 0)
  BY DoseWithinLongest
<1>3. CASE TotalMax = 0 \/ total = NaN
  BY <1>1, <1>3 DEF CapInv, TotalBounded, Plus
<1>4. CASE TotalMax > 0 /\ total \in Int /\ timed
  <2>1. total' = total + DoseMl /\ total' \in Int /\ total' # NaN
    BY <1>2, <1>4 DEF Plus
  <2>2. total < TotalMax
    BY <1>4 DEF CapInv, TotalBounded
  <2>3. total' < TotalMax + LongestRun * FlowRate
    BY <1>2, <1>4, <2>1, <2>2
  <2> QED
    BY <1>1, <2>1, <2>3 DEF TotalBounded
<1>5. CASE TotalMax > 0 /\ total \in Int /\ ~timed
  <2>1. total' = total
    BY <1>2, <1>5 DEF Plus
  <2> QED
    BY <1>1, <2>1 DEF CapInv, TotalBounded
<1> QED
  BY <1>3, <1>4, <1>5 DEF CapInv, TotalBounded

\* A handler that adds no dose to the total and starts no timer keeps the bound.
LEMMA QuietKeepsCap ==
  ASSUME CapInv, UNCHANGED <<lines, found>>, total' = total, timed' => timed,
         UNCHANGED <<since, left>> \/ (since' = 0 /\ left' \in {0, left})
  PROVE  CapInv'
<1>1. LongestRun' = LongestRun /\ LongestRun \in Nat
  BY LongestRunIsFixed, LongestRunFacts DEF CapInv
<1>2. TimeBounded'
  BY <1>1 DEF CapInv, TimeBounded
<1>3. TotalBounded'
  BY <1>1 DEF CapInv, TotalBounded
<1> QED
  BY <1>2, <1>3 DEF CapInv

LEMMA StopKeepsCap ==
  ASSUME CapInv, NEW desired, TurnPumpOff(desired), UNCHANGED <<lines, found>> PROVE CapInv'
<1>1. /\ ~timed' /\ left' = 0 /\ since' = 0
      /\ total' = (IF TotalMax > 0 THEN Plus(total, DoseMl) ELSE total)
  BY DEF TurnPumpOff, StopPump, Book
<1>2. TotalBounded'
  BY <1>1, BookedWithinBound
<1> QED
  BY <1>1, <1>2 DEF CapInv, TimeBounded

\* A dose starts under the cap, with a run time within the longest.
LEMMA StartKeepsCap ==
  ASSUME CapInv, MaxDoseTime > 0, NEW d \in RunTimes, NEW r \in Readings, RequestOn(d, r)
  PROVE  CapInv'
<1>1. /\ LongestRun' = LongestRun /\ LongestRun \in Nat /\ LongestRun >= MaxDoseTime
      /\ PumpRunTime(r) \in Nat /\ PumpRunTime(r) <= LongestRun
  BY LongestRunIsFixed, LongestRunFacts DEF CapInv, RequestOn
<1>2. d \in Nat /\ Capped(d) \in Nat /\ Capped(d) <= MaxDoseTime /\ (Capped(d) = 0 => d = 0)
  BY DEF RunTimes, Capped
<1>3. since' = 0 /\ total' = total /\ UNCHANGED <<lines, found>> /\ ~CapReached
  BY DEF RequestOn, TurnPumpOn, bookVars
<1>4. left' = Capped(d) \/ (Capped(d) = 0 /\ left' = IF d = 0 THEN PumpRunTime(r) ELSE d)
  BY Zenon DEF RequestOn, TurnPumpOn
<1>5. left' \in Nat /\ left' <= LongestRun
  BY <1>1, <1>2, <1>4
<1>6. TimeBounded'
  <2>1. since' \in Nat /\ left' \in Nat /\ since' + left' <= LongestRun'
    <3>1. \A l \in Nat : l <= LongestRun => 0 + l <= LongestRun
      BY <1>1
    <3>2. left' \in Nat /\ left' <= LongestRun
      BY <1>5
    <3>3. since' = 0 /\ 0 \in Nat
      BY <1>3
    <3>4. LongestRun' = LongestRun
      BY <1>1
    <3> QED
      BY <3>1, <3>2, <3>3, <3>4
  <2> QED
    BY <2>1, Zenon DEF TimeBounded
<1>7. TotalBounded'
  BY <1>1, <1>3 DEF CapInv, TotalBounded, CapReached
<1> QED
  BY <1>3, <1>6, <1>7 DEF CapInv

LEMMA RestingKeepsCap ==
  ASSUME CapInv,
         (\E s \in {"OFF", "ENABLED"} : RequestOff(s)) \/ TimerExpires \/ Block \/ Unblock
  PROVE  CapInv'
<1>1. ASSUME NEW s \in {"OFF", "ENABLED"}, RequestOff(s) PROVE CapInv'
  <2>1. CASE state = "ON" /\ TurnPumpOff("ENABLED")
    BY <1>1, <2>1, StopKeepsCap DEF RequestOff
  <2>2. CASE state # "ON" /\ state' = s /\ UNCHANGED <<relay, timed, left, since, bookVars>>
    BY <1>1, <2>2, QuietKeepsCap DEF RequestOff, bookVars
  <2> QED
    BY <1>1, <2>1, <2>2 DEF RequestOff
<1>2. CASE TimerExpires
  <2>1. CASE state = "ON" /\ TurnPumpOff("ENABLED")
    BY <1>2, <2>1, StopKeepsCap DEF TimerExpires
  <2>2. CASE state # "ON"
    BY <1>2, <2>2, QuietKeepsCap DEF TimerExpires, bookVars
  <2> QED
    BY <1>2, <2>1, <2>2 DEF TimerExpires
<1>3. CASE Block
  <2>1. CASE state = "ON" /\ TurnPumpOff("DISABLED")
    BY <1>3, <2>1, StopKeepsCap DEF Block
  <2>2. CASE state # "ON"
    BY <1>3, <2>2, QuietKeepsCap DEF Block, bookVars
  <2> QED
    BY <1>3, <2>1, <2>2 DEF Block
<1>4. CASE Unblock
  BY <1>4, QuietKeepsCap DEF Unblock, bookVars
<1> QED
  BY <1>1, <1>2, <1>3, <1>4

LEMMA LevelKeepsCap == ASSUME CapInv, NEW v \in 0..Volume, SetTankVolume(v) PROVE CapInv'
<1> DEFINE stop == MinVolume > 0 /\ TankIsEmpty(v) /\ state = "ON"
<1>1. /\ UNCHANGED <<lines, found>>
      /\ total' = IF TotalMax > 0 THEN Plus(total, IF stop THEN DoseMl ELSE 0) ELSE total
  BY DEF SetTankVolume, Book
<1>2. \/ /\ timed' <=> timed /\ ~stop
         /\ left' = (IF stop THEN 0 ELSE left)
         /\ since' = (IF stop THEN 0 ELSE since)
      \/ ~stop /\ UNCHANGED <<timed, left, since>>
  <2>1. CASE MinVolume > 0 /\ TankIsEmpty(v) /\ state \in {"ENABLED", "ON"}
    BY <2>1, Zenon DEF SetTankVolume
  <2>2. CASE ~(MinVolume > 0 /\ TankIsEmpty(v) /\ state \in {"ENABLED", "ON"})
    BY <2>2, Zenon DEF SetTankVolume
  <2> QED
    BY <2>1, <2>2
<1> HIDE DEF stop
<1>3. CASE stop
  <2>1. /\ ~timed' /\ left' = 0 /\ since' = 0
        /\ total' = (IF TotalMax > 0 THEN Plus(total, DoseMl) ELSE total)
    BY <1>1, <1>2, <1>3
  <2>2. TotalBounded'
    BY <1>1, <2>1, BookedWithinBound
  <2> QED
    BY <1>1, <2>1, <2>2 DEF CapInv, TimeBounded
<1>4. CASE ~stop
  <2>1. (timed' => timed) /\ UNCHANGED <<left, since>>
    BY <1>2, <1>4
  <2>2. total' = total
    BY <1>1, <1>4 DEF CapInv, TotalBounded, Plus
  <2> QED
    BY <1>1, <2>1, <2>2, QuietKeepsCap
<1> QED
  BY <1>3, <1>4

LEMMA PassingKeepsCap ==
  ASSUME CapInv, MaxDoseTime > 0, ResetDoseTotal \/ Restart \/ Second PROVE CapInv'
<1>1. /\ lines' = lines /\ LongestRun' = LongestRun /\ LongestRun \in Nat
      /\ LongestRun * FlowRate \in Nat /\ LongestRun * FlowRate > 0
  <2>1. lines' = lines
    BY DEF ResetDoseTotal, Restart, Second
  <2>2. LongestRun \in Nat /\ LongestRun > 0
    BY LongestRunFacts DEF CapInv
  <2>3. \A l, f \in Nat : l > 0 /\ f > 0 => l * f \in Nat /\ l * f > 0
    OBVIOUS
  <2> QED
    BY <2>1, <2>2, <2>3, LongestRunIsFixed
<1>2. CASE ResetDoseTotal
  <2>1. /\ UNCHANGED <<timed, left, since>> /\ found' = total'
        /\ total' = IF TotalMax > 0 THEN 0 ELSE total
    BY <1>2 DEF ResetDoseTotal, doseVars
  <2> QED
    BY <1>1, <2>1 DEF CapInv, TimeBounded, TotalBounded
<1>3. CASE Restart
  <2>1. ~timed' /\ left' = 0 /\ since' = 0 /\ total' \in StartTotals /\ found' = total'
    BY <1>3 DEF Restart
  <2> QED
    BY <1>1, <2>1 DEF CapInv, TimeBounded, TotalBounded
<1>4. CASE Second
  <2>1. /\ (timed' <=> timed) /\ total' = total /\ found' = found
        /\ timed => left > 0 /\ left' = left - 1 /\ since' = since + 1
        /\ ~timed => left' = 0 /\ since' = 0
    BY <1>4 DEF Second, bookVars
  <2> QED
    BY <1>1, <2>1 DEF CapInv, TimeBounded, TotalBounded
<1> QED
  BY <1>2, <1>3, <1>4

LEMMA CapInvariant == MaxDoseTime > 0 => (Spec => []CapInv)
<1> SUFFICES ASSUME MaxDoseTime > 0 PROVE Spec => []CapInv
  OBVIOUS
<1>1. Init => CapInv
  <2> SUFFICES ASSUME Init PROVE CapInv
    OBVIOUS
  <2>1. lines \in DoseLines /\ ~timed /\ left = 0 /\ since = 0 /\ total \in StartTotals /\ found = total
    BY DEF Init
  <2>2. LongestRun \in Nat /\ LongestRun > 0
    BY <2>1, LongestRunFacts
  <2>3. LongestRun * FlowRate \in Nat /\ LongestRun * FlowRate > 0
    <3>1. \A l, f \in Nat : l > 0 /\ f > 0 => l * f \in Nat /\ l * f > 0
      OBVIOUS
    <3> QED
      BY <2>2, <3>1
  <2> QED
    BY <2>1, <2>2, <2>3 DEF CapInv, TimeBounded, TotalBounded
<1>2. ASSUME CapInv, [Next]_vars PROVE CapInv'
  <2>1. CASE Next
    BY <1>2, <2>1, StartKeepsCap, RestingKeepsCap, LevelKeepsCap, PassingKeepsCap DEF Next
  <2>2. CASE UNCHANGED vars
    BY <1>2, <2>2, QuietKeepsCap DEF vars, doseVars, bookVars
  <2> QED
    BY <1>2, <2>1, <2>2
<1> QED
  BY <1>1, <1>2, PTL DEF Spec

(***************************************************************************)
(* If there is a maximum dose time, the total, with any table, cap, rate,  *)
(* requests, restarts and refills, and whatever a start finds in the       *)
(* unwritten field, is what was found, or goes over its cap by less than   *)
(* one run of the pump (turn_pump_on() looks at it when a dose starts).  A *)
(* maximum of 0 is none: a request is then not cut at all.                 *)
(***************************************************************************)
THEOREM OvershootAlwaysOneDose == MaxDoseTime > 0 => (Spec => []OvershootIsOneDose)
<1>1. CapInv => OvershootIsOneDose
  BY DEF CapInv, TotalBounded, OvershootIsOneDose
<1> QED
  BY CapInvariant, <1>1, PTL

(***************************************************************************)
(* Every table, built by parse_dose_range() from any lines in any order,   *)
(* gives every reading a run time of a line that brackets it, for both     *)
(* chemicals: the sort is right, nothing is lost, no search runs off it.   *)
(* A reading that reaches no threshold gets the last line, as              *)
(* get_ph_dose_time() has it and unlike the program's README (line 226).   *)
(***************************************************************************)
THEOREM TablesAlwaysMeanTheirLines == Spec => []TableMeansItsLines
<1>1. Init => lines \in DoseLines
  BY DEF Init
<1>2. lines \in DoseLines /\ [Next]_vars => (lines \in DoseLines)'
  BY DEF Next, vars, RequestOn, RequestOff, TimerExpires, Block, Unblock, SetTankVolume,
         ResetDoseTotal, Restart, Second
<1>3. lines \in DoseLines => TableMeansItsLines
  <2> SUFFICES ASSUME lines \in DoseLines, NEW descending \in BOOLEAN, NEW reading \in Readings,
                      DoseTableOf(lines, descending) # <<>>
               PROVE  TimeIsBracketed(lines, DoseTableOf(lines, descending),
                                      reading, descending, DefaultTime)
    BY Zenon DEF TableMeansItsLines, TimeIsBracketed
  <2>1. lines \in Seq(DoseLine) /\ reading \in Nat
    BY LinesAssumption
  <2> QED
    BY <2>1, TimeOfTable
<1> QED
  BY <1>1, <1>2, <1>3, PTL DEF Spec
=============================================================================
