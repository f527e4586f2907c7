--------------------------- MODULE InsightsProofs ---------------------------
(***************************************************************************)
(* Proofs about MasterInsights, for tables of any length: first what the   *)
(* loops of MasterFigures compute, by induction on the rows they have      *)
(* passed, then that the parts of an answer fit together however the       *)
(* queries interleave with the writes they do not overlap.                 *)
(***************************************************************************)
EXTENDS MasterInsights, SequenceTheorems, FiniteSetTheorems, WellFoundedInduction, TLAPS

----------------------------------------------------------------------------
(* Induction and loops.  The theorems of the library take a predicate or a *)
(* step as an operator; sets and functions in their place say the same of  *)
(* finitely many numbers.                                                  *)

LEMMA Least ==
  ASSUME NEW T, T \subseteq Nat, T # {}
  PROVE  \E n \in T : \A m \in T : n <= m
<1>1. IsWellFoundedOn(OpToRel(<, Nat), Nat)  BY NatLessThanWellFounded
<1>2. \E n \in T : \A m \in T : <<m, n>> \notin OpToRel(<, Nat)  BY <1>1, WFMin, Zenon
<1>3. \E n \in T : \A m \in T : ~(m < n)  BY <1>2, Zenon DEF OpToRel
<1> QED  BY <1>3

LEMMA Induct ==
  ASSUME NEW n \in Nat, NEW T, 0 \in T, \A i \in 1 .. n : i - 1 \in T => i \in T
  PROVE  0 .. n \subseteq T
<1> SUFFICES ASSUME (0 .. n) \ T # {} PROVE FALSE  OBVIOUS
<1> DEFINE left == (0 .. n) \ T
<1>0. left \subseteq Nat /\ left # {}  OBVIOUS
<1> HIDE DEF left
<1>1. PICK k \in left : \A m \in left : k <= m  BY <1>0, Least
<1> USE DEF left
<1>2. k \in 1 .. n /\ k - 1 \in 0 .. n  BY <1>1
<1> QED  BY <1>1, <1>2

\* A loop over n elements: what it does to its state at each, and the states it passes.
Body(step, n, S) == \A i \in 1 .. n : \A s \in S : step[i][s] \in S
RunOf(f, step, n, S, s0) ==
    f \in [0 .. n -> S] /\ f[0] = s0 /\ \A i \in 1 .. n : f[i] = step[i][f[i - 1]]

\* A loop runs to its end.
LEMMA LoopRuns ==
  ASSUME NEW S, NEW n \in Nat, NEW s0 \in S, NEW step, Body(step, n, S)
  PROVE  \E f : RunOf(f, step, n, S, s0)
<1> DEFINE T == {k \in 0 .. n : \E f : RunOf(f, step, k, S, s0)}
<1>1. 0 \in T
  <2> DEFINE g == [i \in 0 .. 0 |-> s0]
  <2>1. g \in [0 .. 0 -> S] /\ g[0] = s0  OBVIOUS
  <2> HIDE DEF g
  <2>2. RunOf(g, step, 0, S, s0)  BY <2>1 DEF RunOf
  <2> QED  BY <2>2
<1>2. ASSUME NEW k \in 1 .. n, k - 1 \in T PROVE k \in T
  <2>1. PICK f : RunOf(f, step, k - 1, S, s0)  BY <1>2
  <2> DEFINE g == [i \in 0 .. k |-> IF i = k THEN step[k][f[k - 1]] ELSE f[i]]
  <2>2. f[k - 1] \in S  BY <2>1 DEF RunOf
  <2>3. step[k][f[k - 1]] \in S  BY <2>2 DEF Body
  <2>4. g \in [0 .. k -> S]  BY <2>1, <2>3 DEF RunOf
  <2>5. \A i \in 1 .. k : g[i] = step[i][g[i - 1]]
    <3> SUFFICES ASSUME NEW i \in 1 .. k PROVE g[i] = step[i][g[i - 1]]  OBVIOUS
    <3>1. g[i - 1] = f[i - 1]  OBVIOUS
    <3>2. CASE i = k  BY <3>1, <3>2
    <3>3. CASE i # k  BY <2>1, <3>1, <3>3 DEF RunOf
    <3> QED  BY <3>2, <3>3
  <2>6. g[0] = s0  BY <2>1 DEF RunOf
  <2> HIDE DEF g
  <2>7. RunOf(g, step, k, S, s0)  BY <2>4, <2>5, <2>6 DEF RunOf
  <2> QED  BY <2>7
<1>3. n \in T
  <2> HIDE DEF T
  <2>1. 0 .. n \subseteq T  BY <1>1, <1>2, Induct
  <2> QED  BY <2>1
<1> QED  BY <1>3

\* What steps as the loop does is a run of it.
LEMMA LoopTyped ==
  ASSUME NEW S, NEW n \in Nat, NEW s0 \in S, NEW step, Body(step, n, S),
         NEW f, f = [i \in 0 .. n |-> f[i]], f[0] = s0,
         \A i \in 1 .. n : f[i - 1] \in S => f[i] = step[i][f[i - 1]]
  PROVE  RunOf(f, step, n, S, s0)
<1> DEFINE T == {i \in 0 .. n : f[i] \in S}
<1>1. 0 \in T  OBVIOUS
<1>2. \A i \in 1 .. n : i - 1 \in T => i \in T
  <2> SUFFICES ASSUME NEW i \in 1 .. n, f[i - 1] \in S PROVE f[i] \in S  OBVIOUS
  <2>1. step[i][f[i - 1]] \in S  BY DEF Body
  <2> QED  BY <2>1
<1> HIDE DEF T
<1>3. 0 .. n \subseteq T  BY <1>1, <1>2, Induct
<1>4. \A i \in 0 .. n : f[i] \in S  BY <1>3 DEF T
<1>5. f \in [0 .. n -> S]  BY <1>4
<1>6. \A i \in 1 .. n : f[i - 1] \in S  BY <1>4
<1> QED  BY <1>5, <1>6 DEF RunOf

----------------------------------------------------------------------------
(* Sums *)

Summable == [status : {"OPEN", "CLOSED"}, pnl : Int, at : Nat]

LEMMA RowsSummable == Rows \subseteq Summable  BY DEF Rows, Summable, OpenRow

LEMMA RowTyped ==
  ASSUME NEW rows \in Seq(Summable), NEW i \in 1 .. Len(rows)
  PROVE  rows[i] \in Summable /\ rows[i].pnl \in Int /\ rows[i].at \in Nat
<1>1. rows[i] \in Summable  BY ElementOfSeq
<1> QED  BY <1>1 DEF Summable

LEMMA SumsLoop ==
  ASSUME NEW rows \in Seq(Summable)
  PROVE  /\ Sums(rows) \in [0 .. Len(rows) -> Int]
         /\ Sums(rows)[0] = 0
         /\ \A i \in 1 .. Len(rows) : Sums(rows)[i] = Sums(rows)[i - 1] + rows[i].pnl
<1> DEFINE n == Len(rows)
           step == [i \in 1 .. n |-> [c \in Int |-> c + rows[i].pnl]]
           Eq(f) == f = [i \in 0 .. n |-> IF i = 0 THEN 0 ELSE f[i - 1] + rows[i].pnl]
<1>0. n \in Nat /\ 0 \in Int  OBVIOUS
<1>1. \A i \in 1 .. n : rows[i].pnl \in Int  BY RowTyped
<1>2. \A i \in 1 .. n, c \in Int : step[i][c] = c + rows[i].pnl  OBVIOUS
<1>3. Sums(rows) = CHOOSE g : Eq(g)  BY Zenon DEF Sums
<1> HIDE DEF step, n
<1>4. Body(step, n, Int)
  <2> SUFFICES ASSUME NEW i \in 1 .. n, NEW c \in Int PROVE step[i][c] \in Int  BY DEF Body
  <2>1. rows[i].pnl \in Int  BY <1>1
  <2>2. step[i][c] = c + rows[i].pnl  BY <1>2
  <2> QED  BY <2>1, <2>2
<1>5. PICK f : RunOf(f, step, n, Int, 0)  BY <1>0, <1>4, LoopRuns
<1>6. Eq(f)
  <2>1. \A i \in 1 .. n : f[i - 1] \in Int  BY <1>0, <1>5 DEF RunOf
  <2>2. \A i \in 1 .. n : f[i] = f[i - 1] + rows[i].pnl  BY <1>2, <1>5, <2>1 DEF RunOf
  <2>3. \A i \in 0 .. n : f[i] = IF i = 0 THEN 0 ELSE f[i - 1] + rows[i].pnl
    BY <1>0, <1>5, <2>2 DEF RunOf
  <2> QED  BY <1>5, <2>3 DEF RunOf
<1>7. Eq(Sums(rows))  BY <1>3, <1>6
<1> DEFINE sum == Sums(rows)
<1> HIDE DEF sum
<1>8. sum = [i \in 0 .. n |-> IF i = 0 THEN 0 ELSE sum[i - 1] + rows[i].pnl]
  BY <1>7 DEF sum
<1>9. sum[0] = 0 /\ \A i \in 1 .. n : sum[i] = sum[i - 1] + rows[i].pnl  BY <1>0, <1>8
<1>10. sum = [i \in 0 .. n |-> sum[i]]  BY <1>8
<1>11. \A i \in 1 .. n : sum[i - 1] \in Int => sum[i] = step[i][sum[i - 1]]  BY <1>2, <1>9
<1>12. RunOf(sum, step, n, Int, 0)  BY <1>0, <1>4, <1>9, <1>10, <1>11, LoopTyped
<1> QED  BY <1>9, <1>12 DEF RunOf, sum, n

LEMMA PnlTyped ==
  ASSUME NEW rows \in Seq(Summable)
  PROVE  PnlOf(rows) \in Int
  BY SumsLoop DEF PnlOf

\* The sums of two sequences agree as far as their profits do.
LEMMA SumsAgree ==
  ASSUME NEW rows \in Seq(Summable), NEW other \in Seq(Summable), NEW m \in Nat,
         m <= Len(rows), m <= Len(other), \A i \in 1 .. m : rows[i].pnl = other[i].pnl
  PROVE  \A i \in 0 .. m : Sums(rows)[i] = Sums(other)[i]
<1> DEFINE T == {i \in 0 .. m : Sums(rows)[i] = Sums(other)[i]}
<1>1. 0 \in T  BY SumsLoop
<1>2. \A i \in 1 .. m : i - 1 \in T => i \in T
  <2> SUFFICES ASSUME NEW i \in 1 .. m, i - 1 \in T PROVE i \in T  OBVIOUS
  <2>1. Sums(rows)[i] = Sums(rows)[i - 1] + rows[i].pnl  BY SumsLoop
  <2>2. Sums(other)[i] = Sums(other)[i - 1] + other[i].pnl  BY SumsLoop
  <2> QED  BY <2>1, <2>2
<1> HIDE DEF T
<1>3. 0 .. m \subseteq T  BY <1>1, <1>2, Induct
<1> QED  BY <1>3 DEF T

LEMMA PnlAppend ==
  ASSUME NEW rows \in Seq(Summable), NEW r \in Summable
  PROVE  PnlOf(Append(rows, r)) = PnlOf(rows) + r.pnl
<1> DEFINE more == Append(rows, r)
<1>1. /\ more \in Seq(Summable) /\ Len(more) = Len(rows) + 1
      /\ \A i \in 1 .. Len(rows) : more[i] = rows[i]
      /\ more[Len(rows) + 1] = r
  BY AppendProperties
<1> HIDE DEF more
<1>2. Sums(more)[Len(rows)] = Sums(rows)[Len(rows)]  BY <1>1, SumsAgree
<1>3. Sums(more)[Len(rows) + 1] = Sums(more)[Len(rows)] + r.pnl  BY <1>1, SumsLoop
<1>4. PnlOf(more) = PnlOf(rows) + r.pnl  BY <1>1, <1>2, <1>3 DEF PnlOf
<1> QED  BY <1>4 DEF more

LEMMA PnlEmpty == PnlOf(<<>>) = 0
<1>1. <<>> \in Seq(Summable) /\ Len(<<>>) = 0  OBVIOUS
<1> QED  BY <1>1, SumsLoop DEF PnlOf

LEMMA SumToIsSums ==
  ASSUME NEW rows \in Seq(Summable), NEW j \in 0 .. Len(rows)
  PROVE  SumTo(rows, j) = Sums(rows)[j]
<1> DEFINE front == SubSeq(rows, 1, j)
<1>1. front \in Seq(Summable) /\ Len(front) = j /\ \A i \in 1 .. j : front[i] = rows[i]
  BY SubSeqProperties
<1> HIDE DEF front
<1>2. Sums(front)[j] = Sums(rows)[j]  BY <1>1, SumsAgree
<1> QED  BY <1>1, <1>2 DEF SumTo, PnlOf, front

----------------------------------------------------------------------------
(* Filters *)

\* p[i] is what the loop has kept of the first i rows.
Filters(p, rows, S, R) ==
    /\ p \in [0 .. Len(rows) -> Seq(R)]
    /\ p[0] = <<>>
    /\ \A i \in 1 .. Len(rows) : p[i] = IF i \in S THEN Append(p[i - 1], rows[i]) ELSE p[i - 1]

LEMMA SelectLoop ==
  ASSUME NEW R, NEW rows \in Seq(R), NEW S
  PROVE  \E p : Filters(p, rows, S, R) /\ Select(rows, S) = p[Len(rows)]
<1> DEFINE n == Len(rows)
           Q == Seq(R)
           step == [i \in 1 .. n |-> [q \in Q |-> IF i \in S THEN Append(q, rows[i]) ELSE q]]
           Eq(f) == f = [i \in 0 .. n |->
                            IF i = 0 THEN <<>>
                            ELSE IF i \in S THEN Append(f[i - 1], rows[i]) ELSE f[i - 1]]
<1>0. n \in Nat /\ <<>> \in Q  OBVIOUS
<1>1. \A i \in 1 .. n, q \in Q : step[i][q] = IF i \in S THEN Append(q, rows[i]) ELSE q
  OBVIOUS
<1>2. \A i \in 1 .. n, q \in Q : Append(q, rows[i]) \in Q  BY ElementOfSeq, AppendProperties
<1>3. Select(rows, S) = (CHOOSE f : Eq(f))[n]  BY Zenon DEF Select
<1> HIDE DEF step, n, Q
<1>4. Body(step, n, Q)
  <2> SUFFICES ASSUME NEW i \in 1 .. n, NEW q \in Q PROVE step[i][q] \in Q  BY DEF Body
  <2>1. step[i][q] = IF i \in S THEN Append(q, rows[i]) ELSE q  BY <1>1
  <2>2. Append(q, rows[i]) \in Q  BY <1>2
  <2> QED  BY <2>1, <2>2
<1>5. PICK f : RunOf(f, step, n, Q, <<>>)  BY <1>0, <1>4, LoopRuns
<1>6. Eq(f)
  <2>1. \A i \in 1 .. n : f[i - 1] \in Q  BY <1>0, <1>5 DEF RunOf
  <2>2. \A i \in 1 .. n : f[i] = IF i \in S THEN Append(f[i - 1], rows[i]) ELSE f[i - 1]
    BY <1>1, <1>5, <2>1 DEF RunOf
  <2>3. \A i \in 0 .. n : f[i] = IF i = 0 THEN <<>>
                                 ELSE IF i \in S THEN Append(f[i - 1], rows[i]) ELSE f[i - 1]
    <3> SUFFICES ASSUME NEW i \in 0 .. n
                 PROVE  f[i] = IF i = 0 THEN <<>>
                               ELSE IF i \in S THEN Append(f[i - 1], rows[i]) ELSE f[i - 1]
      OBVIOUS
    <3>1. CASE i = 0  BY <1>5, <3>1 DEF RunOf
    <3>2. CASE i # 0  BY <1>0, <2>2, <3>2
    <3> QED  BY <3>1, <3>2
  <2> QED  BY <1>5, <2>3 DEF RunOf
<1>7. PICK p : Select(rows, S) = p[n] /\ Eq(p)
  <2> HIDE DEF Eq
  <2>1. Eq(CHOOSE g : Eq(g))  BY <1>6, Zenon
  <2> QED  BY <1>3, <2>1, Zenon
<1>8. p = [i \in 0 .. n |-> p[i]]  BY <1>7
<1>9. p[0] = <<>>  BY <1>0, <1>7
<1>10. \A i \in 1 .. n : p[i] = IF i \in S THEN Append(p[i - 1], rows[i]) ELSE p[i - 1]
  <2> SUFFICES ASSUME NEW i \in 1 .. n
               PROVE  p[i] = IF i \in S THEN Append(p[i - 1], rows[i]) ELSE p[i - 1]
    OBVIOUS
  <2>1. i \in 0 .. n /\ i # 0  BY <1>0
  <2> QED  BY <1>7, <2>1
<1>11. \A i \in 1 .. n : p[i - 1] \in Q => p[i] = step[i][p[i - 1]]  BY <1>1, <1>10
<1>12. RunOf(p, step, n, Q, <<>>)  BY <1>0, <1>4, <1>8, <1>9, <1>11, LoopTyped
<1>13. Filters(p, rows, S, R)  BY <1>9, <1>10, <1>12 DEF RunOf, Filters, n, Q
<1> QED  BY <1>7, <1>13 DEF n

\* The rows of q are those of `rows` at the indices I, in order: e tells which.
Picks(e, q, rows, I) ==
    /\ Len(q) \in Nat /\ IsFiniteSet(I) /\ I \subseteq Int
    /\ e \in [1 .. Len(q) -> I]
    /\ \A k \in 1 .. Len(q) : q[k] = rows[e[k]]
    /\ \A k, l \in 1 .. Len(q) : k < l => e[k] < e[l]
    /\ \A i \in I : \E k \in 1 .. Len(q) : e[k] = i

LEMMA SelectPicks ==
  ASSUME NEW R, NEW rows \in Seq(R), NEW S
  PROVE  /\ Select(rows, S) \in Seq(R)
         /\ \E e : Picks(e, Select(rows, S), rows, S \cap (1 .. Len(rows)))
<1> DEFINE n == Len(rows)
<1>0. n \in Nat  OBVIOUS
<1>p. PICK p : Filters(p, rows, S, R) /\ Select(rows, S) = p[n]  BY SelectLoop
<1>1. /\ p \in [0 .. n -> Seq(R)] /\ p[0] = <<>> /\ Select(rows, S) = p[n]
      /\ \A i \in 1 .. n : p[i] = IF i \in S THEN Append(p[i - 1], rows[i]) ELSE p[i - 1]
  BY <1>p DEF Filters
<1> DEFINE T == {i \in 0 .. n : \E e : Picks(e, p[i], rows, S \cap (1 .. i))}
<1> HIDE DEF n
<1>2. 0 \in T
  <2>1. Picks(<<>>, <<>>, rows, {})  BY FS_EmptySet DEF Picks
  <2>2. S \cap (1 .. 0) = {}  OBVIOUS
  <2> QED  BY <1>0, <1>1, <2>1, <2>2
<1>3. ASSUME NEW i \in 1 .. n, i - 1 \in T PROVE i \in T
  <2>1. PICK e : Picks(e, p[i - 1], rows, S \cap (1 .. i - 1))  BY <1>3
  <2>q. p[i - 1] \in Seq(R) /\ rows[i] \in R  BY <1>0, <1>1, ElementOfSeq DEF n
  <2> DEFINE q == p[i - 1]
             m == Len(q)
  <2>m. m \in Nat  BY <2>q
  <2>2. CASE i \notin S
    <3>1. p[i] = q  BY <1>1, <2>2
    <3>2. S \cap (1 .. i) = S \cap (1 .. i - 1)  BY <1>0, <2>2
    <3>3. Picks(e, p[i], rows, S \cap (1 .. i))  BY <2>1, <3>1, <3>2
    <3> QED  BY <1>0, <3>3
  <2>3. CASE i \in S
    <3> DEFINE r == Append(q, rows[i])
               g == [k \in 1 .. m + 1 |-> IF k = m + 1 THEN i ELSE e[k]]
               I == S \cap (1 .. i - 1)
               J == S \cap (1 .. i)
    <3>1. p[i] = r  BY <1>1, <2>3
    <3>2. Len(r) = m + 1 /\ (\A k \in 1 .. m : r[k] = q[k]) /\ r[m + 1] = rows[i]
      BY <2>q, AppendProperties
    <3>3. J = I \cup {i} /\ \A j \in I : j \in Nat /\ j < i  BY <1>0, <2>3
    <3>f. IsFiniteSet(J) /\ J \subseteq Int
      <4>1. IsFiniteSet(I) /\ I \subseteq Int  BY <2>1 DEF Picks
      <4>2. IsFiniteSet(I \cup {i})  BY <4>1, FS_AddElement
      <4>3. IsFiniteSet(J)  BY <3>3, <4>2
      <4>4. i \in Int  BY <1>0
      <4> QED  BY <3>3, <4>1, <4>3, <4>4
    <3>4. /\ e \in [1 .. m -> I]
          /\ \A k \in 1 .. m : q[k] = rows[e[k]]
          /\ \A k, l \in 1 .. m : k < l => e[k] < e[l]
          /\ \A j \in I : \E k \in 1 .. m : e[k] = j
      BY <2>1 DEF Picks
    <3> HIDE DEF r, q, m, I, J
    <3>5. g[m + 1] = i /\ \A k \in 1 .. m : g[k] = e[k]  BY <2>m
    <3>6. g \in [1 .. m + 1 -> J]  BY <2>m, <3>3, <3>4
    <3> HIDE DEF g
    <3>7. \A k \in 1 .. m + 1 : r[k] = rows[g[k]]
      <4> SUFFICES ASSUME NEW k \in 1 .. m + 1 PROVE r[k] = rows[g[k]]  OBVIOUS
      <4>1. CASE k = m + 1  BY <3>2, <3>5, <4>1
      <4>2. CASE k # m + 1
        <5>1. k \in 1 .. m  BY <2>m, <4>2
        <5> QED  BY <3>2, <3>4, <3>5, <5>1
      <4> QED  BY <4>1, <4>2
    <3>8. \A k, l \in 1 .. m + 1 : k < l => g[k] < g[l]
      <4> SUFFICES ASSUME NEW k \in 1 .. m + 1, NEW l \in 1 .. m + 1, k < l PROVE g[k] < g[l]
        OBVIOUS
      <4>1. k \in 1 .. m  BY <2>m
      <4>2. g[k] = e[k] /\ e[k] \in I  BY <3>4, <3>5, <4>1
      <4>3. CASE l = m + 1  BY <3>3, <3>5, <4>2, <4>3
      <4>4. CASE l # m + 1
        <5>1. l \in 1 .. m  BY <2>m, <4>4
        <5> QED  BY <3>4, <3>5, <4>1, <5>1
      <4> QED  BY <4>3, <4>4
    <3>9. \A j \in J : \E k \in 1 .. m + 1 : g[k] = j
      <4> SUFFICES ASSUME NEW j \in J PROVE \E k \in 1 .. m + 1 : g[k] = j  OBVIOUS
      <4>1. CASE j = i  BY <2>m, <3>5, <4>1
      <4>2. CASE j # i
        <5>1. PICK k \in 1 .. m : e[k] = j  BY <3>3, <3>4, <4>2
        <5> QED  BY <2>m, <3>5, <5>1
      <4> QED  BY <4>1, <4>2
    <3>10. Picks(g, r, rows, J)  BY <2>m, <3>2, <3>f, <3>6, <3>7, <3>8, <3>9 DEF Picks
    <3> QED  BY <1>0, <3>1, <3>10 DEF J
  <2> QED  BY <2>2, <2>3
<1>4. n \in T
  <2> HIDE DEF T
  <2>1. 0 .. n \subseteq T  BY <1>0, <1>2, <1>3, Induct
  <2> QED  BY <1>0, <2>1
<1> QED  BY <1>0, <1>1, <1>4 DEF n

Match(e, q, D, I, C) ==
    D \subseteq 1 .. Len(q) /\ C \subseteq I /\ \A k \in 1 .. Len(q) : k \in D <=> e[k] \in C

\* So many rows are picked as there are indices, of any kind.
LEMMA PicksCount ==
  ASSUME NEW e, NEW q, NEW rows, NEW I, Picks(e, q, rows, I), NEW D, NEW C, Match(e, q, D, I, C)
  PROVE  Cardinality(D) = Cardinality(C)
<1> DEFINE b == [k \in D |-> e[k]]
<1>1. IsFiniteSet(C)
  <2>1. IsFiniteSet(I) /\ C \subseteq I  BY DEF Picks, Match
  <2> QED  BY <2>1, FS_Subset
<1>2. b \in [D -> C]  BY DEF Picks, Match
<1>3. \A k, l \in D : b[k] = b[l] => k = l
  <2> SUFFICES ASSUME NEW k \in D, NEW l \in D, e[k] = e[l], k # l PROVE FALSE  OBVIOUS
  <2>1. Len(q) \in Nat /\ k \in 1 .. Len(q) /\ l \in 1 .. Len(q)  BY DEF Picks, Match
  <2>2. e[k] \in I /\ e[l] \in I  BY <2>1 DEF Picks
  <2>3. k < l \/ l < k  BY <2>1
  <2>4. e[k] < e[l] \/ e[l] < e[k]  BY <2>1, <2>3 DEF Picks
  <2>5. e[k] \in Int /\ e[l] \in Int  BY <2>2 DEF Picks
  <2> QED  BY <2>4, <2>5
<1>4. \A c \in C : \E k \in D : b[k] = c  BY DEF Picks, Match
<1> HIDE DEF b
<1>5. b \in Injection(D, C) /\ b \in Surjection(D, C)
  BY <1>2, <1>3, <1>4 DEF Injection, Surjection, IsInjective
<1> QED  BY <1>1, <1>5, FS_Injection

LEMMA IndexSet ==
  ASSUME NEW n \in Nat
  PROVE  IsFiniteSet(1 .. n) /\ Cardinality(1 .. n) = n
<1>1. 1 \in Int /\ n \in Int  OBVIOUS
<1>2. IsFiniteSet(1 .. n) /\ Cardinality(1 .. n) = IF 1 > n THEN 0 ELSE n - 1 + 1
  BY <1>1, FS_Interval
<1> QED  BY <1>2

LEMMA SelectLen ==
  ASSUME NEW R, NEW rows \in Seq(R), NEW S \in SUBSET DOMAIN rows
  PROVE  Len(Select(rows, S)) = Cardinality(S) /\ IsFiniteSet(S)
<1> DEFINE q == Select(rows, S)
<1>1. S \subseteq 1 .. Len(rows) /\ S \cap (1 .. Len(rows)) = S  BY LenProperties
<1>2. PICK e : Picks(e, q, rows, S)  BY <1>1, SelectPicks
<1> HIDE DEF q
<1>3. Match(e, q, 1 .. Len(q), S, S)  BY <1>2 DEF Picks, Match
<1>4. Cardinality(1 .. Len(q)) = Cardinality(S)  BY <1>2, <1>3, PicksCount
<1>5. Len(q) \in Nat /\ IsFiniteSet(S)  BY <1>2 DEF Picks
<1> QED  BY <1>4, <1>5, IndexSet DEF q

\* Rows that are left out count for nothing when their profit is 0.
LEMMA SelectPnl ==
  ASSUME NEW rows \in Seq(Summable), NEW S,
         \A i \in 1 .. Len(rows) : i \notin S => rows[i].pnl = 0
  PROVE  PnlOf(Select(rows, S)) = PnlOf(rows)
<1> DEFINE n == Len(rows)
<1>0. n \in Nat  OBVIOUS
<1>1. PICK p : Filters(p, rows, S, Summable) /\ Select(rows, S) = p[n]  BY SelectLoop
<1> DEFINE T == {i \in 0 .. n : PnlOf(p[i]) = Sums(rows)[i]}
<1>2. 0 \in T
  <2>1. p[0] = <<>> /\ Sums(rows)[0] = 0  BY <1>1, SumsLoop DEF Filters
  <2> QED  BY <1>0, <2>1, PnlEmpty
<1>3. ASSUME NEW i \in 1 .. n, i - 1 \in T PROVE i \in T
  <2>1. /\ p[i - 1] \in Seq(Summable)
        /\ p[i] = IF i \in S THEN Append(p[i - 1], rows[i]) ELSE p[i - 1]
    <3>1. i - 1 \in 0 .. n  BY <1>0
    <3>2. p \in [0 .. n -> Seq(Summable)]  BY <1>1 DEF Filters
    <3>3. p[i] = IF i \in S THEN Append(p[i - 1], rows[i]) ELSE p[i - 1]  BY <1>1 DEF Filters
    <3> QED  BY <3>1, <3>2, <3>3
  <2>2. rows[i] \in Summable /\ rows[i].pnl \in Int  BY RowTyped
  <2>3. Sums(rows)[i] = Sums(rows)[i - 1] + rows[i].pnl  BY SumsLoop
  <2>4. PnlOf(p[i]) = Sums(rows)[i]
    <3>1. CASE i \in S
      <4>1. PnlOf(Append(p[i - 1], rows[i])) = PnlOf(p[i - 1]) + rows[i].pnl
        BY <2>1, <2>2, PnlAppend
      <4> QED  BY <1>3, <2>1, <2>3, <3>1, <4>1
    <3>2. CASE i \notin S
      <4>1. Sums(rows) \in [0 .. n -> Int]  BY SumsLoop
      <4>2. Sums(rows)[i - 1] \in Int  BY <1>0, <4>1
      <4> QED  BY <1>3, <2>1, <2>3, <3>2, <4>2
    <3> QED  BY <3>1, <3>2
  <2> QED  BY <2>4
<1>4. n \in T
  <2> HIDE DEF T
  <2>1. 0 .. n \subseteq T  BY <1>0, <1>2, <1>3, Induct
  <2> QED  BY <1>0, <2>1
<1> QED  BY <1>1, <1>4 DEF PnlOf

ClosedRows == {r \in Summable : r.status = "CLOSED"}
ClosedIn(rows) == {i \in DOMAIN rows : rows[i].status = "CLOSED"}
WonIn(rows) == {i \in DOMAIN rows : rows[i].pnl > 0}

LEMMA OpenPnl ==
  ASSUME NEW rows \in Seq(Rows), NEW i \in 1 .. Len(rows), rows[i].status # "CLOSED"
  PROVE  rows[i].pnl = 0
<1>1. rows[i] \in Rows  BY ElementOfSeq
<1> QED  BY <1>1 DEF Rows, OpenRow

LEMMA RowsAreSummable ==
  ASSUME NEW rows \in Seq(Rows)
  PROVE  rows \in Seq(Summable)
  BY RowsSummable, SeqMonotonic

LEMMA ClosedLen ==
  ASSUME NEW R, NEW rows \in Seq(R)
  PROVE  Len(Closed(rows)) = Cardinality(ClosedIn(rows)) /\ IsFiniteSet(ClosedIn(rows))
<1>1. ClosedIn(rows) \in SUBSET DOMAIN rows  BY DEF ClosedIn
<1>2. Closed(rows) = Select(rows, ClosedIn(rows))  BY DEF Closed, ClosedIn
<1> QED  BY <1>1, <1>2, SelectLen

LEMMA WinsLen ==
  ASSUME NEW R, NEW rows \in Seq(R)
  PROVE  Wins(rows) = Cardinality(WonIn(rows)) /\ IsFiniteSet(WonIn(rows))
<1>1. WonIn(rows) \in SUBSET DOMAIN rows  BY DEF WonIn
<1>2. Wins(rows) = Len(Select(rows, WonIn(rows)))  BY DEF Wins, WonIn
<1> QED  BY <1>1, <1>2, SelectLen

LEMMA ClosedPicks ==
  ASSUME NEW rows \in Seq(Summable)
  PROVE  /\ Closed(rows) \in Seq(ClosedRows)
         /\ \E e : Picks(e, Closed(rows), rows, ClosedIn(rows))
<1> DEFINE q == Closed(rows)
<1>1. DOMAIN rows = 1 .. Len(rows)  BY LenProperties
<1>2. ClosedIn(rows) \cap (1 .. Len(rows)) = ClosedIn(rows)  BY <1>1 DEF ClosedIn
<1>3. q = Select(rows, ClosedIn(rows))  BY DEF Closed, ClosedIn
<1>4. q \in Seq(Summable)  BY <1>3, SelectPicks
<1>5. PICK e : Picks(e, q, rows, ClosedIn(rows))  BY <1>2, <1>3, SelectPicks
<1> HIDE DEF q
<1>6. \A k \in 1 .. Len(q) : q[k] \in ClosedRows
  <2> SUFFICES ASSUME NEW k \in 1 .. Len(q) PROVE q[k] \in ClosedRows  OBVIOUS
  <2>1. q[k] = rows[e[k]] /\ e[k] \in ClosedIn(rows)  BY <1>5 DEF Picks
  <2>2. q[k] \in Summable  BY <1>4, ElementOfSeq
  <2> QED  BY <2>1, <2>2 DEF ClosedIn, ClosedRows
<1>7. q \in Seq(ClosedRows)  BY <1>4, <1>6, LenProperties
<1> QED  BY <1>5, <1>7 DEF q

\* Open rows have won nothing.
LEMMA ClosedWins ==
  ASSUME NEW rows \in Seq(Rows)
  PROVE  Wins(Closed(rows)) = Cardinality(WonIn(rows))
<1> DEFINE q == Closed(rows)
<1>0. rows \in Seq(Summable) /\ DOMAIN rows = 1 .. Len(rows)  BY RowsAreSummable, LenProperties
<1>1. q \in Seq(ClosedRows) /\ \E e : Picks(e, q, rows, ClosedIn(rows))  BY <1>0, ClosedPicks
<1>2. PICK e : Picks(e, q, rows, ClosedIn(rows))  BY <1>1
<1> HIDE DEF q
<1>3. DOMAIN q = 1 .. Len(q)  BY <1>1, LenProperties
<1>4. WonIn(rows) \subseteq ClosedIn(rows)  BY <1>0, OpenPnl DEF WonIn, ClosedIn
<1>5. Match(e, q, WonIn(q), ClosedIn(rows), WonIn(rows))
  <2>1. \A k \in 1 .. Len(q) : q[k] = rows[e[k]] /\ e[k] \in DOMAIN rows
    BY <1>2 DEF Picks, ClosedIn
  <2> QED  BY <1>3, <1>4, <2>1 DEF Match, WonIn
<1>6. Cardinality(WonIn(q)) = Cardinality(WonIn(rows))  BY <1>2, <1>5, PicksCount
<1> QED  BY <1>1, <1>6, WinsLen DEF q

LEMMA ClosedPnl ==
  ASSUME NEW rows \in Seq(Rows)
  PROVE  PnlOf(Closed(rows)) = PnlOf(rows)
<1>1. rows \in Seq(Summable) /\ DOMAIN rows = 1 .. Len(rows)  BY RowsAreSummable, LenProperties
<1>2. \A i \in 1 .. Len(rows) : i \notin ClosedIn(rows) => rows[i].pnl = 0
  BY <1>1, OpenPnl DEF ClosedIn
<1>3. Closed(rows) = Select(rows, ClosedIn(rows))  BY DEF Closed, ClosedIn
<1> QED  BY <1>1, <1>2, <1>3, SelectPnl

----------------------------------------------------------------------------
(* The other way round *)

LEMMA ReverseProperties ==
  ASSUME NEW R, NEW rows \in Seq(R)
  PROVE  /\ Reverse(rows) \in Seq(R) /\ Len(Reverse(rows)) = Len(rows)
         /\ \A i \in 1 .. Len(rows) : Reverse(rows)[i] = rows[Len(rows) - i + 1]
<1> DEFINE n == Len(rows)
<1>1. n \in Nat /\ \A i \in 1 .. n : n - i + 1 \in 1 .. n  OBVIOUS
<1>2. \A i \in 1 .. n : rows[n - i + 1] \in R  BY <1>1, ElementOfSeq
<1>3. Reverse(rows) = [i \in 1 .. n |-> rows[n - i + 1]]  BY DEF Reverse
<1> HIDE DEF n
<1>4. Reverse(rows) \in [1 .. n -> R]  BY <1>2, <1>3
<1>5. Reverse(rows) \in Seq(R) /\ Len(Reverse(rows)) = n  BY <1>1, <1>4
<1> QED  BY <1>3, <1>5 DEF n

LEMMA ReversePnl ==
  ASSUME NEW rows \in Seq(Summable)
  PROVE  PnlOf(Reverse(rows)) = PnlOf(rows)
<1> DEFINE n == Len(rows)
           back == Reverse(rows)
           T == {i \in 0 .. n : Sums(back)[i] = Sums(rows)[n] - Sums(rows)[n - i]}
<1>0. n \in Nat  OBVIOUS
<1>1. /\ back \in Seq(Summable) /\ Len(back) = n
      /\ \A i \in 1 .. n : back[i] = rows[n - i + 1]
  BY ReverseProperties
<1>2. Sums(rows) \in [0 .. n -> Int] /\ Sums(rows)[0] = 0
      /\ \A i \in 1 .. n : Sums(rows)[i] = Sums(rows)[i - 1] + rows[i].pnl
  BY SumsLoop
<1> HIDE DEF back
<1>3. Sums(back)[0] = 0 /\ \A i \in 1 .. n : Sums(back)[i] = Sums(back)[i - 1] + back[i].pnl
  BY <1>1, SumsLoop
<1>t. \A i \in 1 .. n : rows[i].pnl \in Int  BY RowTyped
<1> HIDE DEF n
<1>4. 0 \in T  BY <1>0, <1>2, <1>3
<1>5. ASSUME NEW i \in 1 .. n, i - 1 \in T PROVE i \in T
  <2> DEFINE j == n - i + 1
  <2>1. j \in 1 .. n /\ n - (i - 1) = j /\ n - i = j - 1  BY <1>0
  <2>2. Sums(back)[i] = Sums(back)[i - 1] + rows[j].pnl  BY <1>1, <1>3
  <2>3. Sums(back)[i - 1] = Sums(rows)[n] - Sums(rows)[j]  BY <1>5, <2>1
  <2>4. Sums(rows)[j] = Sums(rows)[j - 1] + rows[j].pnl  BY <1>2, <2>1
  <2> HIDE DEF j
  <2>5. rows[j].pnl \in Int /\ Sums(rows)[n] \in Int /\ Sums(rows)[j - 1] \in Int
    <3>1. j - 1 \in 0 .. n /\ n \in 0 .. n  BY <1>0, <2>1
    <3>2. Sums(rows)[n] \in Int /\ Sums(rows)[j - 1] \in Int  BY <1>2, <3>1
    <3> QED  BY <1>t, <2>1, <3>2
  <2>6. Sums(back)[i] = Sums(rows)[n] - Sums(rows)[j - 1]
    <3> DEFINE pnl == rows[j].pnl
               all == Sums(rows)[n]
               rest == Sums(rows)[j - 1]
    <3>1. Sums(back)[i] = all - (rest + pnl) + pnl  BY <2>2, <2>3, <2>4
    <3>2. pnl \in Int /\ all \in Int /\ rest \in Int  BY <2>5
    <3> HIDE DEF pnl, all, rest
    <3>3. all - (rest + pnl) + pnl = all - rest  BY <3>2
    <3> QED  BY <3>1, <3>3 DEF all, rest
  <2> QED  BY <1>0, <2>1, <2>6
<1>6. n \in T
  <2> HIDE DEF T
  <2>1. 0 .. n \subseteq T  BY <1>0, <1>4, <1>5, Induct
  <2> QED  BY <1>0, <2>1
<1>7. Sums(back)[n] = Sums(rows)[n]  BY <1>0, <1>2, <1>6
<1> QED  BY <1>1, <1>7 DEF PnlOf, n, back

LEMMA ReverseCount ==
  ASSUME NEW n \in Nat, NEW D, NEW C, D \subseteq 1 .. n, C \subseteq 1 .. n,
         \A i \in 1 .. n : i \in D <=> n - i + 1 \in C
  PROVE  Cardinality(D) = Cardinality(C)
<1> DEFINE b == [i \in D |-> n - i + 1]
<1>1. IsFiniteSet(C)  BY IndexSet, FS_Subset
<1>2. b \in [D -> C] /\ \A i \in D : b[i] = n - i + 1  OBVIOUS
<1> HIDE DEF b
<1>3. \A i, j \in D : b[i] = b[j] => i = j
  <2> SUFFICES ASSUME NEW i \in D, NEW j \in D, b[i] = b[j] PROVE i = j  OBVIOUS
  <2>1. i \in 1 .. n /\ j \in 1 .. n  OBVIOUS
  <2> QED  BY <1>2, <2>1
<1>4. \A c \in C : \E i \in D : b[i] = c
  <2> SUFFICES ASSUME NEW c \in C PROVE \E i \in D : b[i] = c  OBVIOUS
  <2>1. n - c + 1 \in 1 .. n /\ n - (n - c + 1) + 1 = c  OBVIOUS
  <2>2. n - c + 1 \in D  BY <2>1
  <2> QED  BY <1>2, <2>1, <2>2
<1>5. b \in Injection(D, C) /\ b \in Surjection(D, C)
  BY <1>2, <1>3, <1>4 DEF Injection, Surjection, IsInjective
<1> QED  BY <1>1, <1>5, FS_Injection

\* What stays of the rows turned round.
LEMMA ReverseKeeps ==
  ASSUME NEW rows \in Seq(Rows)
  PROVE  /\ Reverse(rows) \in Seq(Rows)
         /\ Len(Closed(Reverse(rows))) = Len(Closed(rows))
         /\ Wins(Closed(Reverse(rows))) = Wins(Closed(rows))
<1> DEFINE n == Len(rows)
           back == Reverse(rows)
<1>0. n \in Nat  OBVIOUS
<1>1. back \in Seq(Rows) /\ Len(back) = n /\ \A i \in 1 .. n : back[i] = rows[n - i + 1]
  BY ReverseProperties
<1> HIDE DEF back
<1>2. DOMAIN rows = 1 .. n /\ DOMAIN back = 1 .. n  BY <1>1, LenProperties
<1>3. \A i \in 1 .. n : n - i + 1 \in 1 .. n  BY <1>0
<1> HIDE DEF n
<1>4. Cardinality(ClosedIn(back)) = Cardinality(ClosedIn(rows))
  <2> DEFINE D == ClosedIn(back)
             C == ClosedIn(rows)
  <2>1. D \subseteq 1 .. n /\ C \subseteq 1 .. n /\ \A i \in 1 .. n : i \in D <=> n - i + 1 \in C
    BY <1>1, <1>2, <1>3 DEF ClosedIn
  <2> HIDE DEF D, C
  <2>2. Cardinality(D) = Cardinality(C)  BY <1>0, <2>1, ReverseCount
  <2> QED  BY <2>2 DEF D, C
<1>5. Cardinality(WonIn(back)) = Cardinality(WonIn(rows))
  <2> DEFINE D == WonIn(back)
             C == WonIn(rows)
  <2>1. D \subseteq 1 .. n /\ C \subseteq 1 .. n /\ \A i \in 1 .. n : i \in D <=> n - i + 1 \in C
    BY <1>1, <1>2, <1>3 DEF WonIn
  <2> HIDE DEF D, C
  <2>2. Cardinality(D) = Cardinality(C)  BY <1>0, <2>1, ReverseCount
  <2> QED  BY <2>2 DEF D, C
<1> QED  BY <1>1, <1>4, <1>5, ClosedLen, ClosedWins DEF back

LEMMA CountsBounded ==
  ASSUME NEW rows \in Seq(Rows)
  PROVE  /\ Len(rows) \in Nat /\ Len(Closed(rows)) \in Nat /\ Wins(Closed(rows)) \in Nat
         /\ Wins(Closed(rows)) <= Len(Closed(rows)) /\ Len(Closed(rows)) <= Len(rows)
         /\ Closed(rows) = <<>> <=> Len(Closed(rows)) = 0
         /\ PnlOf(rows) \in Int
<1>1. rows \in Seq(Summable) /\ DOMAIN rows = 1 .. Len(rows) /\ Len(rows) \in Nat
  BY RowsAreSummable, LenProperties
<1>2. WonIn(rows) \subseteq ClosedIn(rows)  BY <1>1, OpenPnl DEF WonIn, ClosedIn
<1>3. ClosedIn(rows) \subseteq 1 .. Len(rows)  BY <1>1 DEF ClosedIn
<1>4. Cardinality(ClosedIn(rows)) <= Len(rows) /\ IsFiniteSet(ClosedIn(rows))
  <2>1. IsFiniteSet(1 .. Len(rows)) /\ Cardinality(1 .. Len(rows)) = Len(rows)
    BY <1>1, IndexSet
  <2>2. Cardinality(ClosedIn(rows)) <= Cardinality(1 .. Len(rows)) /\ IsFiniteSet(ClosedIn(rows))
    BY <1>3, <2>1, FS_Subset
  <2> QED  BY <2>1, <2>2
<1>5. Cardinality(WonIn(rows)) <= Cardinality(ClosedIn(rows)) /\ IsFiniteSet(WonIn(rows))
  BY <1>2, <1>4, FS_Subset
<1>6. Cardinality(WonIn(rows)) \in Nat /\ Cardinality(ClosedIn(rows)) \in Nat
  BY <1>4, <1>5, FS_CardinalityType
<1>7. Closed(rows) \in Seq(ClosedRows)  BY <1>1, ClosedPicks
<1>8. Closed(rows) = <<>> <=> Len(Closed(rows)) = 0  BY <1>7, EmptySeq
<1> QED  BY <1>1, <1>4, <1>5, <1>6, <1>8, ClosedLen, ClosedWins, PnlTyped

----------------------------------------------------------------------------
(* Rounding and maxima *)

LEMMA HundredthsTyped ==
  ASSUME NEW a \in Nat, NEW b \in Nat \ {0}
  PROVE  Hundredths(a, b) \in Nat
<1>1. (200 * a + b) \div (2 * b) \in Int  OBVIOUS
<1>2. 0 <= (200 * a + b) \div (2 * b)  OBVIOUS
<1> QED  BY <1>1, <1>2 DEF Hundredths

LEMMA HundredthsOne ==
  ASSUME NEW b \in Nat \ {0}
  PROVE  Hundredths(b, b) = 100
  BY DEF Hundredths

LEMMA PercentTyped ==
  ASSUME NEW a \in Nat, NEW b \in Nat
  PROVE  Percent(a, b) \in Nat
<1>1. 100 * a \in Nat  OBVIOUS
<1> QED  BY <1>1, HundredthsTyped DEF Percent

LEMMA PercentBounded ==
  ASSUME NEW a \in Nat, NEW b \in Nat, a <= b
  PROVE  Percent(a, b) <= 10000
<1>1. CASE b = 0  BY <1>1 DEF Percent
<1>2. CASE b # 0
  <2> DEFINE c == 200 * (100 * a) + b
             d == 2 * b
  <2>1. c \in Int /\ d \in Nat \ {0} /\ c < d * 10000 + d  BY <1>2
  <2> HIDE DEF c, d
  <2>2. c \div d <= 10000  BY <2>1
  <2> QED  BY <1>2, <2>2 DEF Percent, Hundredths, c, d
<1> QED  BY <1>1, <1>2

LEMMA MaxIs ==
  ASSUME NEW S \in SUBSET Int, NEW x \in S, \A y \in S : y <= x
  PROVE  Max(S) = x
<1> DEFINE Top(z) == z \in S /\ \A y \in S : z >= y
<1>1. Top(x)  OBVIOUS
<1>2. Max(S) = CHOOSE z : Top(z)  BY DEF Max
<1> HIDE DEF Top
<1>3. Top(Max(S))  BY <1>1, <1>2, Zenon
<1> USE DEF Top
<1>4. Max(S) \in S /\ Max(S) >= x  BY <1>3
<1> HIDE DEF Top
<1>5. Max(S) \in Int /\ Max(S) <= x  BY <1>4
<1> QED  BY <1>4, <1>5

LEMMA MinIs ==
  ASSUME NEW S \in SUBSET Int, NEW x \in S, \A y \in S : x <= y
  PROVE  Min(S) = x
<1> DEFINE Bottom(z) == z \in S /\ \A y \in S : z <= y
<1>1. Bottom(x)  OBVIOUS
<1>2. Min(S) = CHOOSE z : Bottom(z)  BY DEF Min
<1> HIDE DEF Bottom
<1>3. Bottom(Min(S))  BY <1>1, <1>2, Zenon
<1> USE DEF Bottom
<1>4. Min(S) \in S /\ Min(S) <= x  BY <1>3
<1> HIDE DEF Bottom
<1>5. Min(S) \in Int /\ x <= Min(S)  BY <1>4
<1> QED  BY <1>4, <1>5

\* Finitely many integers have a largest.
LEMMA Largest ==
  ASSUME NEW n \in Nat \ {0}, NEW g, \A i \in 1 .. n : g[i] \in Int
  PROVE  \E m \in 1 .. n : \A i \in 1 .. n : g[i] <= g[m]
<1> DEFINE Top(k, m) == \A i \in 1 .. k : g[i] <= g[m]
           T == {k \in 0 .. n : k # 0 => \E m \in 1 .. k : Top(k, m)}
<1>1. 0 \in T  OBVIOUS
<1>2. ASSUME NEW k \in 1 .. n, k - 1 \in T PROVE k \in T
  <2>1. CASE k = 1
    <3>1. Top(k, 1)  BY <2>1
    <3> QED  BY <2>1, <3>1
  <2>2. CASE k # 1
    <3>1. PICK m \in 1 .. k - 1 : Top(k - 1, m)  BY <1>2, <2>2
    <3>2. g[m] \in Int /\ g[k] \in Int  OBVIOUS
    <3>3. CASE g[k] <= g[m]
      <4>1. Top(k, m)  BY <3>1, <3>3
      <4> QED  BY <4>1
    <3>4. CASE g[m] < g[k]
      <4>1. Top(k, k)  BY <3>1, <3>2, <3>4
      <4> QED  BY <4>1
    <3> QED  BY <3>2, <3>3, <3>4
  <2> QED  BY <2>1, <2>2
<1>3. n \in T
  <2> HIDE DEF T
  <2>1. 0 .. n \subseteq T  BY <1>1, <1>2, Induct
  <2> QED  BY <2>1
<1> QED  BY <1>3

LEMMA Smallest ==
  ASSUME NEW n \in Nat \ {0}, NEW g, \A i \in 1 .. n : g[i] \in Int
  PROVE  \E m \in 1 .. n : \A i \in 1 .. n : g[m] <= g[i]
<1> DEFINE h == [i \in 1 .. n |-> -g[i]]
<1>1. \A i \in 1 .. n : h[i] \in Int /\ h[i] = -g[i]  OBVIOUS
<1> HIDE DEF h
<1>2. PICK m \in 1 .. n : \A i \in 1 .. n : h[i] <= h[m]  BY <1>1, Largest
<1>3. \A i \in 1 .. n : g[m] <= g[i]  BY <1>1, <1>2
<1> QED  BY <1>3

\* What a loop keeps of d when it keeps the larger.
Keeps(m, d, n) == \A i \in 1 .. n : d[i] \in Int /\ m[i] = Larger(m[i - 1], d[i])

LEMMA RunningMax ==
  ASSUME NEW n \in Nat, NEW m, NEW d, m[0] \in Int, Keeps(m, d, n)
  PROVE  \A i \in 0 .. n : /\ m[i] \in Int /\ m[0] <= m[i]
                           /\ \A k \in 1 .. i : d[k] <= m[i]
                           /\ m[i] = m[0] \/ \E k \in 1 .. i : m[i] = d[k]
<1> DEFINE Kept(i) == /\ m[i] \in Int /\ m[0] <= m[i]
                      /\ \A k \in 1 .. i : d[k] <= m[i]
                      /\ m[i] = m[0] \/ \E k \in 1 .. i : m[i] = d[k]
           T == {i \in 0 .. n : Kept(i)}
<1>1. 0 \in T  OBVIOUS
<1>2. ASSUME NEW i \in 1 .. n, i - 1 \in T PROVE i \in T
  <2>1. /\ m[i - 1] \in Int /\ m[0] <= m[i - 1]
        /\ \A k \in 1 .. i - 1 : d[k] <= m[i - 1]
        /\ m[i - 1] = m[0] \/ \E k \in 1 .. i - 1 : m[i - 1] = d[k]
    BY <1>2
  <2>2. d[i] \in Int /\ m[i] = Larger(m[i - 1], d[i])  BY DEF Keeps
  <2>3. m[i] \in Int /\ m[i - 1] <= m[i] /\ d[i] <= m[i] /\ m[i] \in {m[i - 1], d[i]}
    BY <2>1, <2>2 DEF Larger
  <2>4. \A k \in 1 .. i : d[k] <= m[i]
    <3> SUFFICES ASSUME NEW k \in 1 .. i PROVE d[k] <= m[i]  OBVIOUS
    <3>1. CASE k = i  BY <2>3, <3>1
    <3>2. CASE k # i
      <4>1. k \in 1 .. i - 1 /\ k \in 1 .. n  BY <3>2
      <4>2. d[k] <= m[i - 1] /\ d[k] \in Int  BY <2>1, <4>1 DEF Keeps
      <4> QED  BY <2>1, <2>3, <4>2
    <3> QED  BY <3>1, <3>2
  <2>5. m[i] = m[0] \/ \E k \in 1 .. i : m[i] = d[k]
    <3>1. CASE m[i] = d[i]  BY <3>1
    <3>2. CASE m[i] = m[i - 1]
      <4>1. CASE m[i - 1] = m[0]  BY <3>2, <4>1
      <4>2. ASSUME NEW k \in 1 .. i - 1, m[i - 1] = d[k] PROVE \E l \in 1 .. i : m[i] = d[l]
        BY <3>2, <4>2
      <4> QED  BY <2>1, <4>1, <4>2
    <3> QED  BY <2>3, <3>1, <3>2
  <2> QED  BY <2>1, <2>3, <2>4, <2>5
<1>3. \A i \in 0 .. n : Kept(i)
  <2>1. 0 .. n \subseteq T
    <3> HIDE DEF T
    <3> QED  BY <1>1, <1>2, Induct
  <2> QED  BY <2>1
<1> QED  BY <1>3

----------------------------------------------------------------------------
(* The largest drawdown *)

Falls == [cum : Int, peak : Nat, max : Nat]
NoFall == [cum |-> 0, peak |-> 0, max |-> 0]
Drop(cum, peak) == IF peak > 0 THEN Percent(peak - cum, peak) ELSE 0

LEMMA DropTyped ==
  ASSUME NEW cum \in Int, NEW peak \in Nat, cum <= peak
  PROVE  Drop(cum, peak) \in Nat
<1>1. peak - cum \in Nat  OBVIOUS
<1> QED  BY <1>1, PercentTyped DEF Drop

LEMMA FallStep ==
  ASSUME NEW s \in Falls, NEW r \in Summable
  PROVE  /\ Fall(s, r) \in Falls
         /\ Fall(s, r).cum = s.cum + r.pnl
         /\ Fall(s, r).peak = Larger(s.peak, Fall(s, r).cum)
         /\ Fall(s, r).max = Larger(s.max, Drop(Fall(s, r).cum, Fall(s, r).peak))
<1> DEFINE cum == s.cum + r.pnl
           peak == Larger(s.peak, cum)
           drop == Drop(cum, peak)
<1>1. cum \in Int /\ s.peak \in Nat /\ s.max \in Nat  BY DEF Falls, Summable
<1> HIDE DEF cum
<1>2. peak \in Nat /\ cum <= peak  BY <1>1 DEF Larger
<1> HIDE DEF peak
<1>3. drop \in Nat  BY <1>1, <1>2, DropTyped
<1>4. Larger(s.max, drop) \in Nat  BY <1>1, <1>3 DEF Larger
<1>5. Fall(s, r) = [cum |-> cum, peak |-> peak, max |-> Larger(s.max, drop)]
  BY DEF Fall, Drop, cum, peak
<1> HIDE DEF drop
<1>6. Fall(s, r) \in Falls  BY <1>1, <1>2, <1>4, <1>5 DEF Falls
<1> QED  BY <1>5, <1>6 DEF cum, peak, drop

\* What the loop of calcMaxDrawdown passes.
LEMMA DrawdownLoop ==
  ASSUME NEW rows \in Seq(Summable)
  PROVE  \E f : /\ f \in [0 .. Len(rows) -> Falls] /\ f[0] = NoFall
                /\ \A i \in 1 .. Len(rows) : f[i] = Fall(f[i - 1], rows[i])
                /\ MaxDrawdown(rows) = f[Len(rows)].max
<1> DEFINE n == Len(rows)
           step == [i \in 1 .. n |-> [s \in Falls |-> Fall(s, rows[i])]]
           Eq(f) == f = [i \in 0 .. n |-> IF i = 0 THEN [cum |-> 0, peak |-> 0, max |-> 0]
                                          ELSE Fall(f[i - 1], rows[i])]
<1>0. n \in Nat /\ NoFall \in Falls  BY DEF NoFall, Falls
<1>1. \A i \in 1 .. n, s \in Falls : step[i][s] = Fall(s, rows[i])  OBVIOUS
<1>2. \A i \in 1 .. n : rows[i] \in Summable  BY RowTyped
<1>3. MaxDrawdown(rows) = (CHOOSE f : Eq(f))[n].max  BY Zenon DEF MaxDrawdown
<1> HIDE DEF step, n
<1>4. Body(step, n, Falls)  BY <1>1, <1>2, FallStep DEF Body
<1>5. PICK f : RunOf(f, step, n, Falls, NoFall)  BY <1>0, <1>4, LoopRuns
<1>6. Eq(f)
  <2>1. \A i \in 1 .. n : f[i - 1] \in Falls  BY <1>0, <1>5 DEF RunOf
  <2>2. \A i \in 1 .. n : f[i] = Fall(f[i - 1], rows[i])  BY <1>1, <1>5, <2>1 DEF RunOf
  <2>3. \A i \in 0 .. n : f[i] = IF i = 0 THEN NoFall ELSE Fall(f[i - 1], rows[i])
    <3> SUFFICES ASSUME NEW i \in 0 .. n
                 PROVE  f[i] = IF i = 0 THEN NoFall ELSE Fall(f[i - 1], rows[i])
      OBVIOUS
    <3>1. CASE i = 0  BY <1>5, <3>1 DEF RunOf
    <3>2. CASE i # 0  BY <1>0, <2>2, <3>2
    <3> QED  BY <3>1, <3>2
  <2> QED  BY <1>5, <2>3 DEF RunOf, NoFall
<1>7. PICK g : MaxDrawdown(rows) = g[n].max /\ Eq(g)
  <2> HIDE DEF Eq
  <2>1. Eq(CHOOSE h : Eq(h))  BY <1>6, Zenon
  <2> QED  BY <1>3, <2>1, Zenon
<1>8. g = [i \in 0 .. n |-> g[i]]  BY <1>7
<1>9. g[0] = NoFall  BY <1>0, <1>7 DEF NoFall
<1>10. \A i \in 1 .. n : g[i] = Fall(g[i - 1], rows[i])
  <2> SUFFICES ASSUME NEW i \in 1 .. n PROVE g[i] = Fall(g[i - 1], rows[i])  OBVIOUS
  <2>1. i \in 0 .. n /\ i # 0  BY <1>0
  <2> QED  BY <1>7, <2>1
<1>11. \A i \in 1 .. n : g[i - 1] \in Falls => g[i] = step[i][g[i - 1]]  BY <1>1, <1>10
<1>12. RunOf(g, step, n, Falls, NoFall)  BY <1>0, <1>4, <1>8, <1>9, <1>11, LoopTyped
<1> QED  BY <1>7, <1>9, <1>10, <1>12 DEF RunOf, n

LEMMA PeakToIs ==
  ASSUME NEW rows \in Seq(Summable), NEW j \in 0 .. Len(rows), NEW peak \in Int,
         \A k \in 0 .. j : Sums(rows)[k] <= peak,
         \E k \in 0 .. j : peak = Sums(rows)[k]
  PROVE  PeakTo(rows, j) = peak
<1> DEFINE S == {SumTo(rows, i) : i \in 0 .. j}
<1>0. Len(rows) \in Nat  OBVIOUS
<1>1. \A i \in 0 .. j : SumTo(rows, i) = Sums(rows)[i] /\ Sums(rows)[i] \in Int
  BY <1>0, SumToIsSums, SumsLoop
<1>2. S \in SUBSET Int /\ peak \in S /\ \A y \in S : y <= peak  BY <1>1
<1>3. PeakTo(rows, j) = Max(S)  BY DEF PeakTo
<1> HIDE DEF S
<1> QED  BY <1>2, <1>3, MaxIs


\* calcMaxDrawdown is the largest of the drawdowns, or 0.
LEMMA MaxDrawdownExact ==
  ASSUME NEW rows \in Seq(Summable)
  PROVE  MaxDrawdown(rows) = Max(Drawdowns(rows) \cup {0}) /\ MaxDrawdown(rows) \in Nat
<1> DEFINE n == Len(rows)
<1>0. n \in Nat  OBVIOUS
<1>1. PICK f : /\ f \in [0 .. n -> Falls] /\ f[0] = NoFall
               /\ \A i \in 1 .. n : f[i] = Fall(f[i - 1], rows[i])
               /\ MaxDrawdown(rows) = f[n].max
  BY DrawdownLoop
<1> DEFINE cum == [i \in 0 .. n |-> f[i].cum]
           peak == [i \in 0 .. n |-> f[i].peak]
           max == [i \in 0 .. n |-> f[i].max]
           drop == [i \in 0 .. n |-> Drop(cum[i], peak[i])]
<1>s. \A i \in 1 .. n : rows[i] \in Summable /\ rows[i].pnl \in Int  BY RowTyped
<1>d. DOMAIN rows = 1 .. n  BY LenProperties
<1>S. /\ Sums(rows) \in [0 .. n -> Int] /\ Sums(rows)[0] = 0
      /\ \A i \in 1 .. n : Sums(rows)[i] = Sums(rows)[i - 1] + rows[i].pnl
  BY SumsLoop
<1>2. \A i \in 0 .. n : /\ cum[i] = f[i].cum /\ peak[i] = f[i].peak /\ max[i] = f[i].max
                        /\ drop[i] = Drop(cum[i], peak[i])
  OBVIOUS
<1> HIDE DEF n, cum, peak, max, drop
<1>3. \A i \in 0 .. n : cum[i] \in Int /\ peak[i] \in Nat /\ max[i] \in Nat
  BY <1>1, <1>2 DEF Falls
<1>4. cum[0] = 0 /\ peak[0] = 0 /\ max[0] = 0  BY <1>0, <1>1, <1>2 DEF NoFall
<1>5. \A i \in 1 .. n : /\ cum[i] = cum[i - 1] + rows[i].pnl
                        /\ peak[i] = Larger(peak[i - 1], cum[i])
                        /\ max[i] = Larger(max[i - 1], drop[i])
  <2> SUFFICES ASSUME NEW i \in 1 .. n
               PROVE  /\ cum[i] = cum[i - 1] + rows[i].pnl
                      /\ peak[i] = Larger(peak[i - 1], cum[i])
                      /\ max[i] = Larger(max[i - 1], drop[i])
    OBVIOUS
  <2>1. i \in 0 .. n /\ i - 1 \in 0 .. n  BY <1>0
  <2>2. f[i - 1] \in Falls /\ rows[i] \in Summable  BY <1>1, <1>s, <2>1
  <2>3. f[i] = Fall(f[i - 1], rows[i])  BY <1>1
  <2>4. /\ f[i].cum = f[i - 1].cum + rows[i].pnl
        /\ f[i].peak = Larger(f[i - 1].peak, f[i].cum)
        /\ f[i].max = Larger(f[i - 1].max, Drop(f[i].cum, f[i].peak))
    BY <2>2, <2>3, FallStep
  <2> QED  BY <1>2, <2>1, <2>4
<1>6. \A i \in 0 .. n : cum[i] = Sums(rows)[i]
  <2> DEFINE T == {i \in 0 .. n : cum[i] = Sums(rows)[i]}
  <2>1. 0 \in T  BY <1>0, <1>4, <1>S
  <2>2. \A i \in 1 .. n : i - 1 \in T => i \in T
    <3> SUFFICES ASSUME NEW i \in 1 .. n, i - 1 \in T PROVE i \in T  OBVIOUS
    <3>1. cum[i - 1] = Sums(rows)[i - 1]  OBVIOUS
    <3>2. cum[i] = Sums(rows)[i]  BY <1>5, <1>S, <3>1
    <3> QED  BY <1>0, <3>2
  <2> HIDE DEF T
  <2>3. 0 .. n \subseteq T  BY <1>0, <2>1, <2>2, Induct
  <2> QED  BY <2>3 DEF T
<1>7. \A i \in 0 .. n : /\ 0 <= peak[i] /\ \A k \in 1 .. i : cum[k] <= peak[i]
                        /\ peak[i] = 0 \/ \E k \in 1 .. i : peak[i] = cum[k]
  <2>1. Keeps(peak, cum, n)  BY <1>0, <1>3, <1>5 DEF Keeps
  <2>2. peak[0] \in Int  BY <1>4
  <2> QED  BY <1>0, <1>4, <2>1, <2>2, RunningMax
<1>8. \A i \in 0 .. n : PeakTo(rows, i) = peak[i] /\ SumTo(rows, i) = cum[i]
  <2> SUFFICES ASSUME NEW i \in 0 .. n PROVE PeakTo(rows, i) = peak[i] /\ SumTo(rows, i) = cum[i]
    OBVIOUS
  <2>1. \A k \in 0 .. i : Sums(rows)[k] <= peak[i]
    <3> SUFFICES ASSUME NEW k \in 0 .. i PROVE Sums(rows)[k] <= peak[i]  OBVIOUS
    <3>1. CASE k = 0  BY <1>7, <1>S, <3>1
    <3>2. CASE k # 0
      <4>1. k \in 1 .. i /\ k \in 0 .. n  BY <1>0, <3>2
      <4> QED  BY <1>6, <1>7, <4>1
    <3> QED  BY <3>1, <3>2
  <2>2. \E k \in 0 .. i : peak[i] = Sums(rows)[k]
    <3>1. CASE peak[i] = 0
      <4>1. 0 \in 0 .. i  BY <1>0
      <4> QED  BY <1>S, <3>1, <4>1
    <3>2. ASSUME NEW k \in 1 .. i, peak[i] = cum[k] PROVE \E l \in 0 .. i : peak[i] = Sums(rows)[l]
      <4>1. k \in 0 .. i /\ k \in 0 .. n  BY <1>0
      <4> QED  BY <1>6, <3>2, <4>1
    <3> QED  BY <1>7, <3>1, <3>2
  <2>3. peak[i] \in Int  BY <1>3
  <2>4. PeakTo(rows, i) = peak[i]  BY <2>1, <2>2, <2>3, PeakToIs DEF n
  <2>5. SumTo(rows, i) = Sums(rows)[i]  BY SumToIsSums DEF n
  <2> QED  BY <1>6, <2>4, <2>5
<1>9. \A i \in 1 .. n : cum[i] <= peak[i] /\ drop[i] \in Nat
  <2> SUFFICES ASSUME NEW i \in 1 .. n PROVE cum[i] <= peak[i] /\ drop[i] \in Nat  OBVIOUS
  <2>1. i \in 0 .. n /\ i \in 1 .. i  BY <1>0
  <2>2. cum[i] <= peak[i]  BY <1>7, <2>1
  <2> QED  BY <1>2, <1>3, <2>1, <2>2, DropTyped
<1>10. /\ \A k \in 1 .. n : drop[k] <= max[n]
       /\ max[n] = 0 \/ \E k \in 1 .. n : max[n] = drop[k]
  <2>1. Keeps(max, drop, n)  BY <1>5, <1>9 DEF Keeps
  <2>2. max[0] \in Int /\ n \in 0 .. n  BY <1>0, <1>4
  <2> QED  BY <1>0, <1>4, <2>1, <2>2, RunningMax
<1> DEFINE D == Drawdowns(rows) \cup {0}
<1>11. Drawdowns(rows) = {drop[j] : j \in {k \in 1 .. n : peak[k] > 0}}
  <2>1. \A k \in 1 .. n : k \in 0 .. n  BY <1>0
  <2>2. \A k \in 1 .. n : /\ PeakTo(rows, k) = peak[k]
                          /\ peak[k] > 0 =>
                              Percent(PeakTo(rows, k) - SumTo(rows, k), PeakTo(rows, k)) = drop[k]
    BY <1>2, <1>8, <2>1 DEF Drop
  <2> QED  BY <1>d, <2>2 DEF Drawdowns
<1>12. \A k \in 1 .. n : peak[k] > 0 \/ drop[k] = 0
  <2>1. \A k \in 1 .. n : k \in 0 .. n  BY <1>0
  <2> QED  BY <1>2, <2>1 DEF Drop
<1>13. n \in 0 .. n /\ max[n] \in Nat  BY <1>0, <1>3
<1>14. D \in SUBSET Int /\ max[n] \in D /\ \A y \in D : y <= max[n]
  <2>1. D \in SUBSET Int  BY <1>9, <1>11
  <2>2. max[n] \in D  BY <1>10, <1>11, <1>12
  <2>3. \A y \in D : y <= max[n]  BY <1>10, <1>11, <1>13
  <2> QED  BY <2>1, <2>2, <2>3
<1> HIDE DEF D
<1>15. Max(D) = max[n]  BY <1>14, MaxIs
<1>16. MaxDrawdown(rows) = max[n]  BY <1>1, <1>2, <1>13
<1> QED  BY <1>13, <1>15, <1>16 DEF D


----------------------------------------------------------------------------
(* The longest losing streak *)

Streaks == [cur : Nat, longest : Nat]
NoStreak == [cur |-> 0, longest |-> 0]

LEMMA StreakStep ==
  ASSUME NEW s \in Streaks, NEW r \in Summable
  PROVE  /\ Streak(s, r) \in Streaks
         /\ Streak(s, r).cur = IF r.pnl < 0 THEN s.cur + 1 ELSE 0
         /\ Streak(s, r).longest = Larger(s.longest, Streak(s, r).cur)
<1>1. s.cur \in Nat /\ s.longest \in Nat  BY DEF Streaks
<1>2. CASE r.pnl < 0
  <2>1. Streak(s, r) = [cur |-> s.cur + 1, longest |-> Larger(s.longest, s.cur + 1)]
    BY <1>2 DEF Streak
  <2>2. Larger(s.longest, s.cur + 1) \in Nat  BY <1>1 DEF Larger
  <2>3. Streak(s, r) \in Streaks  BY <1>1, <2>1, <2>2 DEF Streaks
  <2> QED  BY <1>2, <2>1, <2>3
<1>3. CASE ~(r.pnl < 0)
  <2>1. Streak(s, r) = [s EXCEPT !.cur = 0]  BY <1>3 DEF Streak
  <2>2. Streak(s, r) \in Streaks /\ Streak(s, r).cur = 0 /\ Streak(s, r).longest = s.longest
    BY <2>1 DEF Streaks
  <2>3. Larger(s.longest, 0) = s.longest  BY <1>1 DEF Larger
  <2> QED  BY <1>3, <2>2, <2>3
<1> QED  BY <1>2, <1>3

\* What the loop of calcLongestLosingStreak passes.
LEMMA StreakLoop ==
  ASSUME NEW rows \in Seq(Summable)
  PROVE  \E f : /\ f \in [0 .. Len(rows) -> Streaks] /\ f[0] = NoStreak
                /\ \A i \in 1 .. Len(rows) : f[i] = Streak(f[i - 1], rows[i])
                /\ LongestLosingStreak(rows) = f[Len(rows)].longest
<1> DEFINE n == Len(rows)
           step == [i \in 1 .. n |-> [s \in Streaks |-> Streak(s, rows[i])]]
           Eq(f) == f = [i \in 0 .. n |-> IF i = 0 THEN [cur |-> 0, longest |-> 0]
                                          ELSE Streak(f[i - 1], rows[i])]
<1>0. n \in Nat /\ NoStreak \in Streaks  BY DEF NoStreak, Streaks
<1>1. \A i \in 1 .. n, s \in Streaks : step[i][s] = Streak(s, rows[i])  OBVIOUS
<1>2. \A i \in 1 .. n : rows[i] \in Summable  BY RowTyped
<1>3. LongestLosingStreak(rows) = (CHOOSE f : Eq(f))[n].longest  BY Zenon DEF LongestLosingStreak
<1> HIDE DEF step, n
<1>4. Body(step, n, Streaks)  BY <1>1, <1>2, StreakStep DEF Body
<1>5. PICK f : RunOf(f, step, n, Streaks, NoStreak)  BY <1>0, <1>4, LoopRuns
<1>6. Eq(f)
  <2>1. \A i \in 1 .. n : f[i - 1] \in Streaks  BY <1>0, <1>5 DEF RunOf
  <2>2. \A i \in 1 .. n : f[i] = Streak(f[i - 1], rows[i])  BY <1>1, <1>5, <2>1 DEF RunOf
  <2>3. \A i \in 0 .. n : f[i] = IF i = 0 THEN NoStreak ELSE Streak(f[i - 1], rows[i])
    <3> SUFFICES ASSUME NEW i \in 0 .. n
                 PROVE  f[i] = IF i = 0 THEN NoStreak ELSE Streak(f[i - 1], rows[i])
      OBVIOUS
    <3>1. CASE i = 0  BY <1>5, <3>1 DEF RunOf
    <3>2. CASE i # 0  BY <1>0, <2>2, <3>2
    <3> QED  BY <3>1, <3>2
  <2> QED  BY <1>5, <2>3 DEF RunOf, NoStreak
<1>7. PICK g : LongestLosingStreak(rows) = g[n].longest /\ Eq(g)
  <2> HIDE DEF Eq
  <2>1. Eq(CHOOSE h : Eq(h))  BY <1>6, Zenon
  <2> QED  BY <1>3, <2>1, Zenon
<1>8. g = [i \in 0 .. n |-> g[i]]  BY <1>7
<1>9. g[0] = NoStreak  BY <1>0, <1>7 DEF NoStreak
<1>10. \A i \in 1 .. n : g[i] = Streak(g[i - 1], rows[i])
  <2> SUFFICES ASSUME NEW i \in 1 .. n PROVE g[i] = Streak(g[i - 1], rows[i])  OBVIOUS
  <2>1. i \in 0 .. n /\ i # 0  BY <1>0
  <2> QED  BY <1>7, <2>1
<1>11. \A i \in 1 .. n : g[i - 1] \in Streaks => g[i] = step[i][g[i - 1]]  BY <1>1, <1>10
<1>12. RunOf(g, step, n, Streaks, NoStreak)  BY <1>0, <1>4, <1>8, <1>9, <1>11, LoopTyped
<1> QED  BY <1>7, <1>9, <1>10, <1>12 DEF RunOf, n

\* A run of n losses ends at row i.
Losses(rows, i, n) == \A k \in i - n + 1 .. i : rows[k].pnl < 0

LEMMA LosingRunsAre ==
  ASSUME NEW rows \in Seq(Summable)
  PROVE  \A n : n \in LosingRuns(rows) <=>
            n \in 0 .. Len(rows) /\ \E i \in n .. Len(rows) : Losses(rows, i, n)
<1> DEFINE m == Len(rows)
           Run(n) == \E i \in 0 .. (m - n) : \A k \in i + 1 .. i + n : rows[k].pnl < 0
           Gaps == {j - i : i, j \in 0 .. m}
           Long == {n \in 0 .. m : Run(n)}
<1>0. m \in Nat  OBVIOUS
<1>1. LosingRuns(rows) = Gaps \cap Long  BY DEF LosingRuns
<1>2. \A n \in 0 .. m : n \in Gaps
  <2> HIDE DEF m, Gaps
  <2> SUFFICES ASSUME NEW n \in 0 .. m PROVE n \in Gaps  OBVIOUS
  <2>1. 0 \in 0 .. m /\ n = n - 0  BY <1>0
  <2> QED  BY <2>1 DEF Gaps
<1> HIDE DEF m, Gaps
<1>3. \A n \in 0 .. m : Run(n) <=> \E i \in n .. m : Losses(rows, i, n)
  <2> SUFFICES ASSUME NEW n \in 0 .. m PROVE Run(n) <=> \E i \in n .. m : Losses(rows, i, n)
    OBVIOUS
  <2>1. ASSUME NEW i \in 0 .. (m - n), \A k \in i + 1 .. i + n : rows[k].pnl < 0
        PROVE  \E j \in n .. m : Losses(rows, j, n)
    <3>1. i + n \in n .. m /\ i + n - n + 1 = i + 1  BY <1>0
    <3>2. Losses(rows, i + n, n)  BY <2>1, <3>1 DEF Losses
    <3> QED  BY <3>1, <3>2
  <2>2. ASSUME NEW i \in n .. m, Losses(rows, i, n) PROVE Run(n)
    <3>1. i - n \in 0 .. (m - n) /\ i - n + n = i  BY <1>0
    <3>2. \A k \in (i - n) + 1 .. (i - n) + n : rows[k].pnl < 0  BY <2>2, <3>1 DEF Losses
    <3> QED  BY <3>1, <3>2
  <2> QED  BY <2>1, <2>2
<1>4. \A n : n \in Long <=> n \in 0 .. m /\ Run(n)
  <2> HIDE DEF Run
  <2> QED  OBVIOUS
<1> HIDE DEF Run, Long
<1>5. \A n : n \in LosingRuns(rows) <=> n \in 0 .. m /\ \E i \in n .. m : Losses(rows, i, n)
  BY <1>1, <1>2, <1>3, <1>4
<1> QED  BY <1>5 DEF m

\* calcLongestLosingStreak is the longest run of losses without a break.
LEMMA LosingStreakExact ==
  ASSUME NEW rows \in Seq(Summable)
  PROVE  LongestLosingStreak(rows) = Max(LosingRuns(rows)) /\ LongestLosingStreak(rows) \in Nat
<1> DEFINE n == Len(rows)
<1>0. n \in Nat  OBVIOUS
<1>1. PICK f : /\ f \in [0 .. n -> Streaks] /\ f[0] = NoStreak
               /\ \A i \in 1 .. n : f[i] = Streak(f[i - 1], rows[i])
               /\ LongestLosingStreak(rows) = f[n].longest
  BY StreakLoop
<1>s. \A i \in 1 .. n : rows[i] \in Summable /\ rows[i].pnl \in Int  BY RowTyped
<1> DEFINE cur == [i \in 0 .. n |-> f[i].cur]
           longest == [i \in 0 .. n |-> f[i].longest]
<1>2. \A i \in 0 .. n : cur[i] = f[i].cur /\ longest[i] = f[i].longest  OBVIOUS
<1>r. \A l : l \in LosingRuns(rows) <=> l \in 0 .. n /\ \E i \in l .. n : Losses(rows, i, l)
  BY LosingRunsAre
<1> HIDE DEF n, cur, longest
<1>3. \A i \in 0 .. n : cur[i] \in Nat /\ longest[i] \in Nat  BY <1>1, <1>2 DEF Streaks
<1>4. cur[0] = 0 /\ longest[0] = 0  BY <1>0, <1>1, <1>2 DEF NoStreak
<1>5. \A i \in 1 .. n : /\ cur[i] = IF rows[i].pnl < 0 THEN cur[i - 1] + 1 ELSE 0
                        /\ longest[i] = Larger(longest[i - 1], cur[i])
  <2> SUFFICES ASSUME NEW i \in 1 .. n
               PROVE  /\ cur[i] = IF rows[i].pnl < 0 THEN cur[i - 1] + 1 ELSE 0
                      /\ longest[i] = Larger(longest[i - 1], cur[i])
    OBVIOUS
  <2>1. i \in 0 .. n /\ i - 1 \in 0 .. n  BY <1>0
  <2>2. f[i - 1] \in Streaks /\ rows[i] \in Summable  BY <1>1, <1>s, <2>1
  <2>3. f[i] = Streak(f[i - 1], rows[i])  BY <1>1
  <2>4. /\ f[i].cur = IF rows[i].pnl < 0 THEN f[i - 1].cur + 1 ELSE 0
        /\ f[i].longest = Larger(f[i - 1].longest, f[i].cur)
    <3> DEFINE old == f[i - 1]
               row == rows[i]
    <3>1. old \in Streaks /\ row \in Summable /\ f[i] = Streak(old, row)  BY <2>2, <2>3
    <3> HIDE DEF old, row
    <3>2. /\ f[i].cur = IF row.pnl < 0 THEN old.cur + 1 ELSE 0
          /\ f[i].longest = Larger(old.longest, f[i].cur)
      BY <3>1, StreakStep
    <3> QED  BY <3>2 DEF old, row
  <2> QED  BY <1>2, <2>1, <2>4
<1> DEFINE Runs(i) == /\ cur[i] <= i /\ Losses(rows, i, cur[i])
                      /\ cur[i] = i \/ rows[i - cur[i]].pnl >= 0
           T == {i \in 0 .. n : Runs(i)}
<1>6. 0 \in T
  <2>1. Losses(rows, 0, 0)  BY DEF Losses
  <2> QED  BY <1>0, <1>4, <2>1
<1>7. ASSUME NEW i \in 1 .. n, i - 1 \in T PROVE i \in T
  <2>1. /\ cur[i - 1] <= i - 1 /\ Losses(rows, i - 1, cur[i - 1])
        /\ cur[i - 1] = i - 1 \/ rows[i - 1 - cur[i - 1]].pnl >= 0
    BY <1>7
  <2>2. i \in 0 .. n /\ cur[i - 1] \in Nat /\ rows[i].pnl \in Int  BY <1>0, <1>3, <1>s
  <2>3. CASE rows[i].pnl < 0
    <3>1. cur[i] = cur[i - 1] + 1  BY <1>5, <2>3
    <3>2. Losses(rows, i, cur[i])
      <4> SUFFICES ASSUME NEW k \in i - cur[i] + 1 .. i PROVE rows[k].pnl < 0  BY DEF Losses
      <4>1. CASE k = i  BY <2>3, <4>1
      <4>2. CASE k # i
        <5>1. k \in i - 1 - cur[i - 1] + 1 .. i - 1  BY <2>2, <3>1, <4>2
        <5> QED  BY <2>1, <5>1 DEF Losses
      <4> QED  BY <4>1, <4>2
    <3>3. cur[i] <= i /\ i - cur[i] = i - 1 - cur[i - 1] /\ (cur[i - 1] = i - 1 => cur[i] = i)
      BY <2>1, <2>2, <3>1
    <3>4. cur[i] = i \/ rows[i - cur[i]].pnl >= 0  BY <2>1, <3>3
    <3> QED  BY <2>2, <3>2, <3>3, <3>4
  <2>4. CASE ~(rows[i].pnl < 0)
    <3>1. cur[i] = 0  BY <1>5, <2>4
    <3>2. Losses(rows, i, 0)  BY <1>0 DEF Losses
    <3>3. i - 0 = i /\ rows[i].pnl >= 0  BY <2>2, <2>4
    <3>4. Runs(i)  BY <1>0, <3>1, <3>2, <3>3
    <3> QED  BY <2>2, <3>4
  <2> QED  BY <2>3, <2>4
<1>8. \A i \in 0 .. n : Runs(i)
  <2>1. 0 .. n \subseteq T
    <3> HIDE DEF T
    <3> QED  BY <1>0, <1>6, <1>7, Induct
  <2> QED  BY <2>1
<1>9. /\ \A k \in 1 .. n : cur[k] <= longest[n]
      /\ longest[n] = 0 \/ \E k \in 1 .. n : longest[n] = cur[k]
  <2>1. \A k \in 1 .. n : k \in 0 .. n  BY <1>0
  <2>2. Keeps(longest, cur, n)  BY <1>3, <1>5, <2>1 DEF Keeps
  <2>3. longest[0] \in Int /\ n \in 0 .. n  BY <1>0, <1>4
  <2> QED  BY <1>0, <1>4, <2>2, <2>3, RunningMax
<1>10. LosingRuns(rows) \in SUBSET Int  BY <1>0, <1>r
<1>11. longest[n] \in LosingRuns(rows)
  <2>1. 0 \in LosingRuns(rows)
    <3>1. Losses(rows, 0, 0) /\ 0 \in 0 .. n  BY <1>0 DEF Losses
    <3> QED  BY <1>r, <3>1
  <2>2. ASSUME NEW k \in 1 .. n PROVE cur[k] \in LosingRuns(rows)
    <3>1. k \in 0 .. n /\ cur[k] \in Nat  BY <1>0, <1>3
    <3>2. cur[k] <= k /\ Losses(rows, k, cur[k])  BY <1>8, <3>1
    <3>3. cur[k] \in 0 .. n /\ k \in cur[k] .. n  BY <1>0, <3>1, <3>2
    <3> QED  BY <1>r, <3>2, <3>3
  <2> QED  BY <1>9, <2>1, <2>2
<1>12. ASSUME NEW l \in LosingRuns(rows) PROVE l <= longest[n]
  <2>1. l \in 0 .. n  BY <1>r
  <2>2. PICK i \in l .. n : Losses(rows, i, l)  BY <1>r
  <2>3. i \in 0 .. n /\ cur[i] \in Nat /\ longest[n] \in Nat /\ n \in 0 .. n
    BY <1>0, <1>3, <2>1
  <2>4. l <= cur[i]
    <3> SUFFICES ASSUME cur[i] < l PROVE FALSE  BY <2>1, <2>3
    <3>1. i - cur[i] \in i - l + 1 .. i /\ cur[i] # i  BY <2>1, <2>2, <2>3
    <3>2. rows[i - cur[i]].pnl < 0  BY <2>2, <3>1 DEF Losses
    <3>3. rows[i - cur[i]].pnl >= 0  BY <1>8, <2>3, <3>1
    <3>4. i - cur[i] \in 1 .. n  BY <1>0, <2>1, <2>3, <3>1
    <3> QED  BY <1>s, <3>2, <3>3, <3>4
  <2>5. CASE i = 0  BY <1>4, <2>1, <2>3, <2>4, <2>5
  <2>6. CASE i # 0
    <3>1. i \in 1 .. n  BY <2>3, <2>6
    <3> QED  BY <1>9, <2>1, <2>3, <2>4, <3>1
  <2> QED  BY <2>5, <2>6
<1>13. Max(LosingRuns(rows)) = longest[n]  BY <1>10, <1>11, <1>12, MaxIs
<1>14. n \in 0 .. n  BY <1>0
<1> QED  BY <1>1, <1>2, <1>3, <1>13, <1>14


----------------------------------------------------------------------------
(* The rows that the figures are drawn from *)

Sorted(rows) == \A i, j \in 1 .. Len(rows) : i <= j => rows[i].at <= rows[j].at

LEMMA OldestFirstSorted ==
  ASSUME NEW R \in SUBSET Summable, NEW rows \in Seq(R), NEW s \in OldestFirst(rows)
  PROVE  s \in Seq(R) /\ Len(s) = Len(rows) /\ Sorted(s)
<1> DEFINE n == Len(rows)
<1>0. n \in Nat /\ DOMAIN rows = 1 .. n /\ \A i \in 1 .. n : rows[i] \in R
  BY ElementOfSeq, LenProperties
<1>1. PICK q \in Injection(1 .. n, 1 .. n) :
        /\ \A i \in 1 .. n - 1 : rows[q[i]].at <= rows[q[i + 1]].at
        /\ s = [i \in 1 .. n |-> rows[q[i]]]
  BY <1>0 DEF OldestFirst
<1>2. q \in [1 .. n -> 1 .. n]  BY <1>1 DEF Injection
<1> HIDE DEF n
<1>3. s \in [1 .. n -> R]  BY <1>0, <1>1, <1>2
<1>4. s \in Seq(R) /\ Len(s) = n  BY <1>0, <1>3
<1>5. \A i \in 1 .. n : s[i] \in R /\ s[i].at \in Nat  BY <1>3 DEF Summable
<1>6. \A i \in 1 .. n - 1 : s[i].at <= s[i + 1].at  BY <1>0, <1>1, <1>2
<1>7. ASSUME NEW i \in 1 .. n PROVE \A j \in 1 .. n : i <= j => s[i].at <= s[j].at
  <2> DEFINE T == {j \in 0 .. n : i <= j => s[i].at <= s[j].at}
  <2>1. 0 \in T  BY <1>0
  <2>2. ASSUME NEW j \in 1 .. n, j - 1 \in T PROVE j \in T
    <3> SUFFICES ASSUME i <= j PROVE s[i].at <= s[j].at  BY <1>0
    <3>1. CASE i = j  BY <1>5, <3>1
    <3>2. CASE i # j
      <4>1. j - 1 \in 1 .. n - 1 /\ i <= j - 1 /\ j - 1 + 1 = j  BY <1>0, <3>2
      <4>2. s[i].at <= s[j - 1].at  BY <2>2, <4>1
      <4>3. s[j - 1].at <= s[j].at  BY <1>6, <4>1
      <4>4. j - 1 \in 1 .. n  BY <1>0, <4>1
      <4> QED  BY <1>5, <4>2, <4>3, <4>4
    <3> QED  BY <3>1, <3>2
  <2> HIDE DEF T
  <2>3. 0 .. n \subseteq T  BY <1>0, <2>1, <2>2, Induct
  <2>4. \A j \in 1 .. n : j \in 0 .. n  BY <1>0
  <2> QED  BY <2>3, <2>4 DEF T
<1> QED  BY <1>4, <1>7 DEF Sorted, n

LEMMA NewestSorted ==
  ASSUME NEW R \in SUBSET Summable, NEW closed \in Seq(R), NEW rows \in NewestOf(closed)
  PROVE  rows \in Seq(R) /\ Sorted(rows) /\ (rows = <<>> <=> closed = <<>>)
<1>1. PICK s \in OldestFirst(closed) :
        rows = SubSeq(s, Len(s) - Len(First(s, ClosedCap)) + 1, Len(s))
  BY DEF NewestOf
<1>2. s \in Seq(R) /\ Len(s) = Len(closed) /\ Sorted(s)  BY <1>1, OldestFirstSorted
<1> DEFINE n == Len(s)
           kept == IF n < ClosedCap THEN n ELSE ClosedCap
<1>3. n \in Nat /\ kept \in 0 .. n /\ (n # 0 => kept # 0)  BY <1>2, CapsAssumption
<1>4. Len(First(s, ClosedCap)) = kept
  <2>1. \A i \in 1 .. kept : s[i] \in R  BY <1>2, <1>3, ElementOfSeq
  <2>2. Len(SubSeq(s, 1, kept)) = IF 1 <= kept THEN kept - 1 + 1 ELSE 0
    BY <1>3, <2>1, SubSeqProperties
  <2> QED  BY <1>3, <2>2 DEF First
<1> DEFINE from == n - kept + 1
<1> HIDE DEF kept
<1>5. /\ rows \in Seq(R) /\ Len(rows) = IF from <= n THEN n - from + 1 ELSE 0
      /\ \A i \in 1 .. n - from + 1 : rows[i] = s[from + i - 1]
  <2>1. from \in Int /\ n \in Int /\ \A i \in from .. n : s[i] \in R
    BY <1>2, <1>3, ElementOfSeq
  <2>2. rows = SubSeq(s, from, n)  BY <1>1, <1>4
  <2> HIDE DEF from, n
  <2> QED  BY <2>1, <2>2, SubSeqProperties
<1>6. Len(rows) = kept /\ \A i \in 1 .. kept : rows[i] = s[from + i - 1] /\ from + i - 1 \in 1 .. n
  <2>1. n \in Int /\ kept \in Int /\ 0 <= kept /\ kept <= n  BY <1>3
  <2> HIDE DEF n
  <2>2. n - from + 1 = kept /\ from \in Int  BY <2>1
  <2>3. from <= n <=> 1 <= kept  BY <2>1
  <2>4. \A i \in 1 .. kept : from + i - 1 \in 1 .. n  BY <2>1
  <2> HIDE DEF from
  <2> QED  BY <1>5, <2>1, <2>2, <2>3, <2>4
<1>7. Sorted(rows)
  <2> SUFFICES ASSUME NEW i \in 1 .. kept, NEW j \in 1 .. kept, i <= j
               PROVE  rows[i].at <= rows[j].at
    BY <1>6 DEF Sorted
  <2>1. from + i - 1 <= from + j - 1  BY <1>3
  <2> QED  BY <1>2, <1>6, <2>1 DEF Sorted
<1>8. rows = <<>> <=> Len(rows) = 0  BY <1>5, EmptySeq
<1>9. closed = <<>> <=> Len(closed) = 0  BY EmptySeq
<1> QED  BY <1>2, <1>3, <1>5, <1>6, <1>7, <1>8, <1>9

LEMMA DayProperties ==
  ASSUME NEW r \in Summable
  PROVE  Day(r) \in Nat /\ Hour(r) \in 0 .. 23
<1>1. r.at \in Nat  BY DEF Summable
<1> QED  BY <1>1 DEF Day, Hour

\* The rows are spread over the days from the first to the last.
LEMMA AvgPerDayExact ==
  ASSUME NEW rows \in Seq(Summable), rows # <<>>, Sorted(rows)
  PROVE  /\ AvgTradesPerDay(rows) =
            Hundredths(Len(rows), 1 + Max({Day(rows[i]) : i \in DOMAIN rows})
                                    - Min({Day(rows[i]) : i \in DOMAIN rows}))
         /\ AvgTradesPerDay(rows) \in Nat
<1> DEFINE n == Len(rows)
           first == Day(rows[1])
           last == Day(rows[n])
           days == {Day(rows[i]) : i \in DOMAIN rows}
<1>1. n \in Nat \ {0} /\ DOMAIN rows = 1 .. n  BY EmptySeq, LenProperties
<1>2. \A i \in 1 .. n : rows[i].at \in Nat /\ Day(rows[i]) \in Nat  BY RowTyped, DayProperties
<1>3. \A i \in 1 .. n : first <= Day(rows[i]) /\ Day(rows[i]) <= last
  <2> SUFFICES ASSUME NEW i \in 1 .. n PROVE first <= Day(rows[i]) /\ Day(rows[i]) <= last
    OBVIOUS
  <2>1. 1 \in 1 .. n /\ n \in 1 .. n /\ 1 <= i /\ i <= n  BY <1>1
  <2>2. rows[1].at <= rows[i].at /\ rows[i].at <= rows[n].at  BY <2>1 DEF Sorted
  <2>3. rows[1].at \in Nat /\ rows[i].at \in Nat /\ rows[n].at \in Nat  BY <1>2, <2>1
  <2> QED  BY <2>2, <2>3 DEF Day
<1>4. 1 \in 1 .. n /\ n \in 1 .. n  BY <1>1
<1>5. days \in SUBSET Int /\ first \in days /\ last \in days  BY <1>1, <1>2, <1>4
<1>6. Max(days) = last
  <2>1. \A y \in days : y <= last  BY <1>1, <1>3
  <2> HIDE DEF days, last
  <2> QED  BY <1>5, <2>1, MaxIs
<1>7. Min(days) = first
  <2>1. \A y \in days : first <= y  BY <1>1, <1>3
  <2> HIDE DEF days, first
  <2> QED  BY <1>5, <2>1, MinIs
<1>8. first \in Nat /\ last \in Nat /\ first <= last  BY <1>2, <1>3, <1>4
<1> HIDE DEF first, last, n, days
<1>9. Larger(1, last - first + 1) = 1 + last - first /\ 1 + last - first \in Nat \ {0}
  BY <1>8 DEF Larger
<1>10. AvgTradesPerDay(rows) = Hundredths(n, 1 + last - first)
  BY <1>9 DEF AvgTradesPerDay, CalendarDaysInclusive, first, last, n
<1>11. Hundredths(n, 1 + last - first) \in Nat  BY <1>1, <1>9, HundredthsTyped
<1> QED  BY <1>6, <1>7, <1>10, <1>11 DEF days, n


----------------------------------------------------------------------------
(* The best day *)

DaysOf(rows) == {Day(rows[i]) : i \in DOMAIN rows}

\* f[i] are the sums per day of the first i rows.
SumsPerDay(f, rows) ==
    /\ f \in [0 .. Len(rows) -> [DaysOf(rows) -> Int]]
    /\ f[0] = [d \in DaysOf(rows) |-> 0]
    /\ \A i \in 1 .. Len(rows) : f[i] = [f[i - 1] EXCEPT ![Day(rows[i])] = @ + rows[i].pnl]

\* What the loop of calcBestDayPnL passes.
LEMMA DaysLoop ==
  ASSUME NEW rows \in Seq(Summable)
  PROVE  \E f : SumsPerDay(f, rows) /\ BestDayPnl(rows) = Max({f[Len(rows)][d] : d \in DaysOf(rows)})
<1> DEFINE n == Len(rows)
           days == DaysOf(rows)
           S == [days -> Int]
           zero == [d \in days |-> 0]
           Add(b, i) == [b EXCEPT ![Day(rows[i])] = @ + rows[i].pnl]
           step == [i \in 1 .. n |-> [b \in S |-> Add(b, i)]]
           Eq(f) == f = [i \in 0 .. n |-> IF i = 0 THEN zero ELSE Add(f[i - 1], i)]
<1>0. n \in Nat /\ zero \in S  OBVIOUS
<1>1. \A i \in 1 .. n, b \in S : step[i][b] = Add(b, i)  OBVIOUS
<1>2. \A i \in 1 .. n, b \in S : Add(b, i) \in S
  <2> SUFFICES ASSUME NEW i \in 1 .. n, NEW b \in S PROVE Add(b, i) \in S  OBVIOUS
  <2>1. rows[i].pnl \in Int /\ Day(rows[i]) \in days  BY RowTyped, LenProperties DEF DaysOf
  <2> QED  BY <2>1
<1>3. BestDayPnl(rows) = Max({(CHOOSE f : Eq(f))[n][d] : d \in days})
  BY Zenon DEF BestDayPnl, DaysOf
<1> HIDE DEF step, n, S, zero, Add
<1>4. Body(step, n, S)  BY <1>1, <1>2 DEF Body
<1>5. PICK f : RunOf(f, step, n, S, zero)  BY <1>0, <1>4, LoopRuns
<1>6. Eq(f)
  <2>1. \A i \in 1 .. n : f[i - 1] \in S  BY <1>0, <1>5 DEF RunOf
  <2>2. \A i \in 1 .. n : f[i] = Add(f[i - 1], i)  BY <1>1, <1>5, <2>1 DEF RunOf
  <2>3. \A i \in 0 .. n : f[i] = IF i = 0 THEN zero ELSE Add(f[i - 1], i)
    <3> SUFFICES ASSUME NEW i \in 0 .. n
                 PROVE  f[i] = IF i = 0 THEN zero ELSE Add(f[i - 1], i)
      OBVIOUS
    <3>1. CASE i = 0  BY <1>5, <3>1 DEF RunOf
    <3>2. CASE i # 0  BY <1>0, <2>2, <3>2
    <3> QED  BY <3>1, <3>2
  <2> QED  BY <1>5, <2>3 DEF RunOf
<1>7. PICK g : BestDayPnl(rows) = Max({g[n][d] : d \in days}) /\ Eq(g)
  <2> HIDE DEF Eq
  <2>1. Eq(CHOOSE h : Eq(h))  BY <1>6, Zenon
  <2> QED  BY <1>3, <2>1, Zenon
<1>8. g = [i \in 0 .. n |-> g[i]]  BY <1>7
<1>9. g[0] = zero  BY <1>0, <1>7
<1>10. \A i \in 1 .. n : g[i] = Add(g[i - 1], i)
  <2> SUFFICES ASSUME NEW i \in 1 .. n PROVE g[i] = Add(g[i - 1], i)  OBVIOUS
  <2>1. i \in 0 .. n /\ i # 0  BY <1>0
  <2> QED  BY <1>7, <2>1
<1>11. \A i \in 1 .. n : g[i - 1] \in S => g[i] = step[i][g[i - 1]]  BY <1>1, <1>10
<1>12. RunOf(g, step, n, S, zero)  BY <1>0, <1>4, <1>8, <1>9, <1>11, LoopTyped
<1>13. g \in [0 .. n -> S]  BY <1>12 DEF RunOf
<1>14. SumsPerDay(g, rows)
  <2> USE DEF n, S, zero, Add
  <2> HIDE DEF Eq
  <2> QED  BY <1>9, <1>10, <1>13 DEF SumsPerDay
<1> QED  BY <1>7, <1>14 DEF n

\* calcBestDayPnL is the largest sum of a day's profits.
LEMMA BestDayExact ==
  ASSUME NEW rows \in Seq(Summable), rows # <<>>
  PROVE  /\ BestDayPnl(rows) = Max({DaySum(rows, Day(rows[i])) : i \in DOMAIN rows})
         /\ BestDayPnl(rows) \in Int
<1> DEFINE n == Len(rows)
           days == DaysOf(rows)
<1>0. n \in Nat \ {0} /\ DOMAIN rows = 1 .. n  BY EmptySeq, LenProperties
<1>s. \A i \in 1 .. n : rows[i] \in Summable /\ rows[i].pnl \in Int /\ Day(rows[i]) \in days
  BY <1>0, RowTyped DEF DaysOf
<1>f. PICK f : SumsPerDay(f, rows) /\ BestDayPnl(rows) = Max({f[n][d] : d \in days})
  BY DaysLoop
<1>1. /\ f \in [0 .. n -> [days -> Int]] /\ f[0] = [d \in days |-> 0]
      /\ \A i \in 1 .. n : f[i] = [f[i - 1] EXCEPT ![Day(rows[i])] = @ + rows[i].pnl]
  BY <1>f DEF SumsPerDay
<1>2. ASSUME NEW d \in days PROVE f[n][d] = DaySum(rows, d)
  <2> DEFINE On == {i \in DOMAIN rows : Day(rows[i]) = d}
  <2>1. PICK p : Filters(p, rows, On, Summable) /\ Select(rows, On) = p[n]  BY SelectLoop
  <2>p. /\ p[0] = <<>> /\ p \in [0 .. n -> Seq(Summable)]
        /\ \A i \in 1 .. n : p[i] = IF i \in On THEN Append(p[i - 1], rows[i]) ELSE p[i - 1]
    BY <2>1 DEF Filters
  <2>o. \A i \in 1 .. n : i \in On <=> Day(rows[i]) = d  BY <1>0
  <2> DEFINE T == {i \in 0 .. n : f[i][d] = PnlOf(p[i])}
  <2> HIDE DEF n, days, On
  <2>2. 0 \in T  BY <1>0, <1>1, <2>p, PnlEmpty
  <2>3. ASSUME NEW i \in 1 .. n, i - 1 \in T PROVE i \in T
    <3>1. i - 1 \in 0 .. n /\ i \in 0 .. n  BY <1>0
    <3>2. f[i - 1] \in [days -> Int] /\ p[i - 1] \in Seq(Summable)  BY <1>1, <2>p, <3>1
    <3>3. f[i - 1][d] = PnlOf(p[i - 1]) /\ f[i - 1][d] \in Int  BY <2>3, <3>2
    <3>4. f[i] = [f[i - 1] EXCEPT ![Day(rows[i])] = @ + rows[i].pnl]  BY <1>1
    <3>5. CASE Day(rows[i]) = d
      <4>1. f[i][d] = f[i - 1][d] + rows[i].pnl  BY <3>2, <3>4, <3>5
      <4>2. p[i] = Append(p[i - 1], rows[i])  BY <2>p, <2>o, <3>5
      <4>3. PnlOf(p[i]) = PnlOf(p[i - 1]) + rows[i].pnl  BY <1>s, <3>2, <4>2, PnlAppend
      <4> QED  BY <3>1, <3>3, <4>1, <4>3
    <3>6. CASE Day(rows[i]) # d
      <4>1. f[i][d] = f[i - 1][d]  BY <3>2, <3>4, <3>6
      <4>2. p[i] = p[i - 1]  BY <2>p, <2>o, <3>6
      <4> QED  BY <3>1, <3>3, <4>1, <4>2
    <3> QED  BY <3>5, <3>6
  <2>4. n \in T
    <3> HIDE DEF T
    <3>1. 0 .. n \subseteq T  BY <1>0, <2>2, <2>3, Induct
    <3> QED  BY <1>0, <3>1
  <2> QED  BY <2>1, <2>4 DEF DaySum, On
<1> DEFINE sums == {DaySum(rows, Day(rows[i])) : i \in DOMAIN rows}
<1>3. {f[n][d] : d \in days} = sums  BY <1>2 DEF DaysOf
<1>4. BestDayPnl(rows) = Max(sums)  BY <1>f, <1>3
<1>5. BestDayPnl(rows) \in Int
  <2> DEFINE g == [i \in 1 .. n |-> f[n][Day(rows[i])]]
  <2>1. \A i \in 1 .. n : g[i] = f[n][Day(rows[i])] /\ g[i] \in Int
    <3>1. n \in 0 .. n  BY <1>0
    <3>2. f[n] \in [days -> Int]
      <4> HIDE DEF n, days
      <4> QED  BY <1>1, <3>1
    <3> QED  BY <1>s, <3>2
  <2>2. sums = {g[i] : i \in 1 .. n}
    <3>1. \A i \in 1 .. n : DaySum(rows, Day(rows[i])) = g[i]  BY <1>s, <1>2, <2>1
    <3> HIDE DEF g, n
    <3> QED  BY <1>0, <3>1
  <2> HIDE DEF g, n, sums
  <2>3. PICK m \in 1 .. n : \A i \in 1 .. n : g[i] <= g[m]  BY <1>0, <2>1, Largest
  <2>4. sums \in SUBSET Int /\ g[m] \in sums /\ \A y \in sums : y <= g[m]  BY <2>1, <2>2, <2>3
  <2>5. Max(sums) = g[m]  BY <2>4, MaxIs
  <2> QED  BY <1>4, <2>1, <2>5
<1> QED  BY <1>4, <1>5


----------------------------------------------------------------------------
(* The active hours *)

HourRows(rows, h) == {i \in DOMAIN rows : Hour(rows[i]) = h}

\* f[i] are the trades per hour of the first i rows.
CountPerHour(f, rows) ==
    /\ f \in [0 .. Len(rows) -> [0 .. 23 -> Nat]]
    /\ f[0] = [h \in 0 .. 23 |-> 0]
    /\ \A i \in 1 .. Len(rows) : f[i] = [f[i - 1] EXCEPT ![Hour(rows[i])] = @ + 1]

\* What the loop over the hours passes.
LEMMA HoursLoop ==
  ASSUME NEW rows \in Seq(Summable)
  PROVE  \E f : CountPerHour(f, rows) /\ ActiveHours(rows) = f[Len(rows)]
<1> DEFINE n == Len(rows)
           S == [0 .. 23 -> Nat]
           zero == [h \in 0 .. 23 |-> 0]
           Add(b, i) == [b EXCEPT ![Hour(rows[i])] = @ + 1]
           step == [i \in 1 .. n |-> [b \in S |-> Add(b, i)]]
           Eq(f) == f = [i \in 0 .. n |-> IF i = 0 THEN zero ELSE Add(f[i - 1], i)]
<1>0. n \in Nat /\ zero \in S  OBVIOUS
<1>1. \A i \in 1 .. n, b \in S : step[i][b] = Add(b, i)  OBVIOUS
<1>2. \A i \in 1 .. n, b \in S : Add(b, i) \in S
  <2> SUFFICES ASSUME NEW i \in 1 .. n, NEW b \in S PROVE Add(b, i) \in S  OBVIOUS
  <2>1. Hour(rows[i]) \in 0 .. 23  BY RowTyped, DayProperties
  <2> DEFINE x == Hour(rows[i])
  <2>2. x \in 0 .. 23  BY <2>1
  <2> HIDE DEF x
  <2> DEFINE c == b[x]
  <2>3. c \in Nat  BY <2>2
  <2> HIDE DEF c
  <2>4. c + 1 \in Nat  BY <2>3
  <2>5. [b EXCEPT ![x] = c + 1] \in S  BY <2>2, <2>4
  <2> QED  BY <2>5 DEF x, c
<1>3. ActiveHours(rows) = (CHOOSE f : Eq(f))[n]  BY Zenon DEF ActiveHours
<1> HIDE DEF step, n, S, zero, Add
<1>4. Body(step, n, S)  BY <1>1, <1>2 DEF Body
<1>5. PICK f : RunOf(f, step, n, S, zero)  BY <1>0, <1>4, LoopRuns
<1>6. Eq(f)
  <2>1. \A i \in 1 .. n : f[i - 1] \in S  BY <1>0, <1>5 DEF RunOf
  <2>2. \A i \in 1 .. n : f[i] = Add(f[i - 1], i)  BY <1>1, <1>5, <2>1 DEF RunOf
  <2>3. \A i \in 0 .. n : f[i] = IF i = 0 THEN zero ELSE Add(f[i - 1], i)
    <3> SUFFICES ASSUME NEW i \in 0 .. n
                 PROVE  f[i] = IF i = 0 THEN zero ELSE Add(f[i - 1], i)
      OBVIOUS
    <3>1. CASE i = 0  BY <1>5, <3>1 DEF RunOf
    <3>2. CASE i # 0  BY <1>0, <2>2, <3>2
    <3> QED  BY <3>1, <3>2
  <2> QED  BY <1>5, <2>3 DEF RunOf
<1>7. PICK g : ActiveHours(rows) = g[n] /\ Eq(g)
  <2> HIDE DEF Eq
  <2>1. Eq(CHOOSE h : Eq(h))  BY <1>6, Zenon
  <2> QED  BY <1>3, <2>1, Zenon
<1>8. g = [i \in 0 .. n |-> g[i]]  BY <1>7
<1>9. g[0] = zero  BY <1>0, <1>7
<1>10. \A i \in 1 .. n : g[i] = Add(g[i - 1], i)
  <2> SUFFICES ASSUME NEW i \in 1 .. n PROVE g[i] = Add(g[i - 1], i)  OBVIOUS
  <2>1. i \in 0 .. n /\ i # 0  BY <1>0
  <2> QED  BY <1>7, <2>1
<1>11. \A i \in 1 .. n : g[i - 1] \in S => g[i] = step[i][g[i - 1]]  BY <1>1, <1>10
<1>12. RunOf(g, step, n, S, zero)  BY <1>0, <1>4, <1>8, <1>9, <1>11, LoopTyped
<1>13. g \in [0 .. n -> S]  BY <1>12 DEF RunOf
<1>14. CountPerHour(g, rows)
  <2> USE DEF n, S, zero, Add
  <2> HIDE DEF Eq
  <2> QED  BY <1>9, <1>10, <1>13 DEF CountPerHour
<1> QED  BY <1>7, <1>14 DEF n

LEMMA HoursExact ==
  ASSUME NEW rows \in Seq(Summable), NEW h \in 0 .. 23
  PROVE  /\ ActiveHours(rows)[h] = Cardinality(HourRows(rows, h))
         /\ IsFiniteSet(HourRows(rows, h))
<1> DEFINE n == Len(rows)
           In(i) == {k \in 1 .. i : Hour(rows[k]) = h}
<1>0. n \in Nat /\ DOMAIN rows = 1 .. n  BY LenProperties
<1>1. PICK f : CountPerHour(f, rows) /\ ActiveHours(rows) = f[n]  BY HoursLoop
<1>2. /\ f \in [0 .. n -> [0 .. 23 -> Nat]] /\ f[0] = [l \in 0 .. 23 |-> 0]
      /\ \A i \in 1 .. n : f[i] = [f[i - 1] EXCEPT ![Hour(rows[i])] = @ + 1]
  BY <1>1 DEF CountPerHour
<1> DEFINE T == {i \in 0 .. n : f[i][h] = Cardinality(In(i)) /\ IsFiniteSet(In(i))}
<1> HIDE DEF n
<1>3. 0 \in T
  <2>1. In(0) = {}  OBVIOUS
  <2>2. f[0][h] = 0  BY <1>2
  <2> QED  BY <1>0, <2>1, <2>2, FS_EmptySet
<1>4. ASSUME NEW i \in 1 .. n, i - 1 \in T PROVE i \in T
  <2>1. i - 1 \in 0 .. n /\ i \in 0 .. n  BY <1>0
  <2>2. f[i - 1] \in [0 .. 23 -> Nat]  BY <1>2, <2>1
  <2>3. f[i - 1][h] = Cardinality(In(i - 1)) /\ IsFiniteSet(In(i - 1))  BY <1>4
  <2>4. f[i] = [f[i - 1] EXCEPT ![Hour(rows[i])] = @ + 1]  BY <1>2
  <2>5. CASE Hour(rows[i]) = h
    <3>1. In(i) = In(i - 1) \cup {i} /\ i \notin In(i - 1)  BY <1>0, <2>5
    <3>2. f[i][h] = f[i - 1][h] + 1  BY <2>2, <2>4, <2>5
    <3>3. IsFiniteSet(In(i - 1) \cup {i}) /\ Cardinality(In(i - 1) \cup {i}) = Cardinality(In(i - 1)) + 1
      <4> HIDE DEF In
      <4> QED  BY <2>3, <3>1, FS_AddElement
    <3> HIDE DEF In
    <3> QED  BY <2>1, <2>3, <3>1, <3>2, <3>3
  <2>6. CASE Hour(rows[i]) # h
    <3>1. In(i) = In(i - 1)  BY <1>0, <2>6
    <3>2. f[i][h] = f[i - 1][h]  BY <2>2, <2>4, <2>6
    <3> HIDE DEF In
    <3> QED  BY <2>1, <2>3, <3>1, <3>2
  <2> QED  BY <2>5, <2>6
<1>5. n \in T
  <2> HIDE DEF T
  <2>1. 0 .. n \subseteq T  BY <1>0, <1>3, <1>4, Induct
  <2> QED  BY <1>0, <2>1
<1>6. In(n) = HourRows(rows, h)  BY <1>0 DEF HourRows
<1> QED  BY <1>1, <1>5, <1>6

\* Four hours of trades
FourHours(b, h) == b[h] + b[h + 1] + b[h + 2] + b[h + 3]

LEMMA WindowCount ==
  ASSUME NEW rows \in Seq(Summable), NEW h \in 0 .. 20
  PROVE  InWindow(rows, h) = FourHours(ActiveHours(rows), h) /\ InWindow(rows, h) \in Nat
<1> DEFINE A == HourRows(rows, h)
           B == HourRows(rows, h + 1)
           C == HourRows(rows, h + 2)
           D == HourRows(rows, h + 3)
<1>0. h \in 0 .. 23 /\ h + 1 \in 0 .. 23 /\ h + 2 \in 0 .. 23 /\ h + 3 \in 0 .. 23  OBVIOUS
<1>1. /\ ActiveHours(rows)[h] = Cardinality(A) /\ IsFiniteSet(A)
      /\ ActiveHours(rows)[h + 1] = Cardinality(B) /\ IsFiniteSet(B)
      /\ ActiveHours(rows)[h + 2] = Cardinality(C) /\ IsFiniteSet(C)
      /\ ActiveHours(rows)[h + 3] = Cardinality(D) /\ IsFiniteSet(D)
  BY <1>0, HoursExact
<1>2. A \cap B = {} /\ (A \cup B) \cap C = {} /\ (A \cup B \cup C) \cap D = {}
  BY DEF HourRows
<1>3. {i \in DOMAIN rows : Hour(rows[i]) \in h .. h + 3} = A \cup B \cup C \cup D
  <2>1. DOMAIN rows = 1 .. Len(rows)  BY LenProperties
  <2>2. \A i \in 1 .. Len(rows) : Hour(rows[i]) \in 0 .. 23  BY RowTyped, DayProperties
  <2>3. \A x \in 0 .. 23 : x \in h .. h + 3 <=> x \in {h, h + 1, h + 2, h + 3}  OBVIOUS
  <2> QED  BY <2>1, <2>2, <2>3 DEF HourRows
<1> HIDE DEF A, B, C, D
<1>4. Cardinality(A) \in Nat /\ Cardinality(B) \in Nat /\ Cardinality(C) \in Nat
      /\ Cardinality(D) \in Nat
  BY <1>1, FS_CardinalityType
<1>5. /\ Cardinality(A \cap B) = 0 /\ Cardinality((A \cup B) \cap C) = 0
      /\ Cardinality((A \cup B \cup C) \cap D) = 0
  BY <1>2, FS_EmptySet, Zenon
<1>6. IsFiniteSet(A \cup B) /\ Cardinality(A \cup B) = Cardinality(A) + Cardinality(B)
  <2>1. IsFiniteSet(A \cup B)
        /\ Cardinality(A \cup B) = Cardinality(A) + Cardinality(B) - Cardinality(A \cap B)
    BY <1>1, FS_Union
  <2> QED  BY <1>4, <1>5, <2>1
<1>7. IsFiniteSet(A \cup B \cup C)
      /\ Cardinality(A \cup B \cup C) = Cardinality(A) + Cardinality(B) + Cardinality(C)
  <2>1. IsFiniteSet((A \cup B) \cup C)
        /\ Cardinality((A \cup B) \cup C)
                = Cardinality(A \cup B) + Cardinality(C) - Cardinality((A \cup B) \cap C)
    BY <1>1, <1>6, FS_Union
  <2> QED  BY <1>4, <1>5, <1>6, <2>1
<1>8. Cardinality(A \cup B \cup C \cup D)
        = Cardinality(A) + Cardinality(B) + Cardinality(C) + Cardinality(D)
  <2>1. Cardinality((A \cup B \cup C) \cup D)
                = Cardinality(A \cup B \cup C) + Cardinality(D) - Cardinality((A \cup B \cup C) \cap D)
    BY <1>1, <1>7, FS_Union
  <2> QED  BY <1>4, <1>5, <1>7, <2>1
<1>9. InWindow(rows, h) = Cardinality(A \cup B \cup C \cup D)  BY <1>3 DEF InWindow
<1> QED  BY <1>1, <1>4, <1>8, <1>9 DEF FourHours


Windows == [start : Nat, sum : Int]
NoWindow == [start |-> 0, sum |-> -1]

\* f[h] is the fullest of the first h windows.
FullestFirst(f, b) ==
    /\ f \in [0 .. 21 -> Windows]
    /\ f[0] = NoWindow
    /\ \A h \in 1 .. 21 : f[h] = Fuller(f[h - 1], b, h - 1)

LEMMA FullerStep ==
  ASSUME NEW b \in [0 .. 23 -> Nat], NEW h \in 0 .. 20, NEW w \in Windows
  PROVE  /\ FourHours(b, h) \in Nat
         /\ Fuller(w, b, h) = IF FourHours(b, h) > w.sum THEN [start |-> h, sum |-> FourHours(b, h)]
                              ELSE w
         /\ Fuller(w, b, h) \in Windows
<1>1. h \in 0 .. 23 /\ h + 1 \in 0 .. 23 /\ h + 2 \in 0 .. 23 /\ h + 3 \in 0 .. 23  OBVIOUS
<1>2. b[h] \in Nat /\ b[h + 1] \in Nat /\ b[h + 2] \in Nat /\ b[h + 3] \in Nat  BY <1>1
<1>3. FourHours(b, h) \in Nat  BY <1>2 DEF FourHours
<1>4. Fuller(w, b, h) = IF FourHours(b, h) > w.sum THEN [start |-> h, sum |-> FourHours(b, h)] ELSE w
  BY DEF Fuller, FourHours
<1> QED  BY <1>3, <1>4 DEF Windows

\* What the loop over the windows passes.
LEMMA WindowsLoop ==
  ASSUME NEW rows \in Seq(Summable), ActiveHours(rows) \in [0 .. 23 -> Nat]
  PROVE  \E f : /\ FullestFirst(f, ActiveHours(rows))
                /\ ActiveWindow(rows) = IF f[21].sum <= 0 THEN None ELSE f[21].start
<1> DEFINE n == 21
           b == ActiveHours(rows)
           step == [i \in 1 .. n |-> [w \in Windows |-> Fuller(w, b, i - 1)]]
           Eq(f) == f = [h \in 0 .. n |-> IF h = 0 THEN [start |-> 0, sum |-> -1]
                                          ELSE Fuller(f[h - 1], b, h - 1)]
<1>0. n \in Nat /\ NoWindow \in Windows  BY DEF NoWindow, Windows
<1>n. \A i \in 1 .. n : i - 1 \in 0 .. 20  OBVIOUS
<1>1. \A i \in 1 .. n, w \in Windows : step[i][w] = Fuller(w, b, i - 1)  OBVIOUS
<1>3. ActiveWindow(rows) = IF (CHOOSE f : Eq(f))[n].sum <= 0 THEN None ELSE (CHOOSE f : Eq(f))[n].start
  BY Zenon DEF ActiveWindow
<1>t. b \in [0 .. 23 -> Nat]  OBVIOUS
<1> HIDE DEF step, n, b
<1>2. \A i \in 1 .. n, w \in Windows : Fuller(w, b, i - 1) \in Windows
  <2> SUFFICES ASSUME NEW i \in 1 .. n, NEW w \in Windows PROVE Fuller(w, b, i - 1) \in Windows
    OBVIOUS
  <2>1. i - 1 \in 0 .. 20  BY <1>n
  <2> QED  BY <1>t, <2>1, FullerStep
<1>4. Body(step, n, Windows)  BY <1>1, <1>2 DEF Body
<1>5. PICK f : RunOf(f, step, n, Windows, NoWindow)  BY <1>0, <1>4, LoopRuns
<1>6. Eq(f)
  <2>1. \A i \in 1 .. n : f[i - 1] \in Windows
    <3>1. f \in [0 .. n -> Windows]  BY <1>5 DEF RunOf
    <3>2. \A i \in 1 .. n : i - 1 \in 0 .. n  BY <1>0
    <3> QED  BY <3>1, <3>2
  <2>2. \A i \in 1 .. n : f[i] = Fuller(f[i - 1], b, i - 1)  BY <1>1, <1>5, <2>1 DEF RunOf
  <2>3. \A i \in 0 .. n : f[i] = IF i = 0 THEN NoWindow ELSE Fuller(f[i - 1], b, i - 1)
    <3> SUFFICES ASSUME NEW i \in 0 .. n
                 PROVE  f[i] = IF i = 0 THEN NoWindow ELSE Fuller(f[i - 1], b, i - 1)
      OBVIOUS
    <3>1. CASE i = 0  BY <1>5, <3>1 DEF RunOf
    <3>2. CASE i # 0  BY <1>0, <2>2, <3>2
    <3> QED  BY <3>1, <3>2
  <2> QED  BY <1>5, <2>3 DEF RunOf, NoWindow
<1>7. PICK g : /\ ActiveWindow(rows) = IF g[n].sum <= 0 THEN None ELSE g[n].start
               /\ Eq(g)
  <2> HIDE DEF Eq
  <2>1. Eq(CHOOSE h : Eq(h))  BY <1>6, Zenon
  <2> QED  BY <1>3, <2>1, Zenon
<1>8. g = [i \in 0 .. n |-> g[i]]  BY <1>7
<1>9. g[0] = NoWindow  BY <1>0, <1>7 DEF NoWindow
<1>10. \A i \in 1 .. n : g[i] = Fuller(g[i - 1], b, i - 1)
  <2> SUFFICES ASSUME NEW i \in 1 .. n PROVE g[i] = Fuller(g[i - 1], b, i - 1)  OBVIOUS
  <2>1. i \in 0 .. n /\ i # 0  BY <1>0
  <2> QED  BY <1>7, <2>1
<1>11. \A i \in 1 .. n : g[i - 1] \in Windows => g[i] = step[i][g[i - 1]]  BY <1>1, <1>10
<1>12. RunOf(g, step, n, Windows, NoWindow)  BY <1>0, <1>4, <1>8, <1>9, <1>11, LoopTyped
<1>13. FullestFirst(g, b)
  <2>1. g \in [0 .. n -> Windows]  BY <1>12 DEF RunOf
  <2> HIDE DEF Eq
  <2> QED  BY <1>9, <1>10, <2>1 DEF FullestFirst, n
<1> QED  BY <1>7, <1>13 DEF n, b

\* The window named is one of the fullest.
LEMMA ActiveWindowExact ==
  ASSUME NEW rows \in Seq(Summable), rows # <<>>
  PROVE  /\ ActiveWindow(rows) \in 0 .. 20
         /\ \A h \in 0 .. 20 : InWindow(rows, h) <= InWindow(rows, ActiveWindow(rows))
<1> DEFINE b == ActiveHours(rows)
           w == [h \in 0 .. 20 |-> FourHours(b, h)]
<1>1. b \in [0 .. 23 -> Nat]
  <2>1. PICK f : CountPerHour(f, rows) /\ b = f[Len(rows)]  BY HoursLoop
  <2>2. Len(rows) \in 0 .. Len(rows)  BY LenProperties
  <2>3. f \in [0 .. Len(rows) -> [0 .. 23 -> Nat]]  BY <2>1 DEF CountPerHour
  <2>4. f[Len(rows)] \in [0 .. 23 -> Nat]  BY <2>2, <2>3
  <2> QED  BY <2>1, <2>4
<1>2. PICK f : /\ FullestFirst(f, b)
               /\ ActiveWindow(rows) = IF f[21].sum <= 0 THEN None ELSE f[21].start
  BY <1>1, WindowsLoop
<1>3. \A h \in 0 .. 20 : w[h] = FourHours(b, h) /\ w[h] = InWindow(rows, h) /\ w[h] \in Nat
  BY WindowCount
<1> HIDE DEF b, w
<1> DEFINE Best(k) == /\ \A h \in 0 .. k - 1 : w[h] <= f[k].sum
                      /\ k # 0 => f[k].start \in 0 .. k - 1 /\ f[k].sum = w[f[k].start]
                      /\ k = 0 => f[k].sum = -1
           T == {k \in 0 .. 21 : Best(k)}
<1>4. 0 \in T
  <2>1. f[0].sum = -1  BY <1>2 DEF FullestFirst, NoWindow
  <2>2. Best(0)  BY <2>1
  <2> HIDE DEF Best
  <2> QED  BY <2>2
<1>5. ASSUME NEW k \in 1 .. 21, k - 1 \in T PROVE k \in T
  <2> DEFINE h == k - 1
             old == f[h]
             new == f[k]
  <2>0. Best(h)  BY <1>5
  <2>1. h \in 0 .. 20 /\ h \in 0 .. 21 /\ k \in 0 .. 21 /\ k = h + 1 /\ k - 1 = h  OBVIOUS
  <2>2. old \in Windows /\ new = Fuller(old, b, h)  BY <1>2, <2>1 DEF FullestFirst
  <2> HIDE DEF h
  <2>3. /\ \A l \in 0 .. h - 1 : w[l] <= old.sum
        /\ h # 0 => old.start \in 0 .. h - 1 /\ old.sum = w[old.start]
        /\ h = 0 => old.sum = -1
    BY <2>0
  <2> HIDE DEF Best, T, old, new
  <2>4. w[h] \in Nat /\ new = IF w[h] > old.sum THEN [start |-> h, sum |-> w[h]] ELSE old
    <3>1. w[h] \in Nat /\ w[h] = FourHours(b, h)  BY <1>3, <2>1
    <3>2. Fuller(old, b, h) = IF FourHours(b, h) > old.sum
                              THEN [start |-> h, sum |-> FourHours(b, h)] ELSE old
      BY <1>1, <2>1, <2>2, FullerStep
    <3> QED  BY <2>2, <3>1, <3>2
  <2>5. \A l \in 0 .. h : w[l] \in Nat /\ (l \in 0 .. h - 1 \/ l = h)
    <3> SUFFICES ASSUME NEW l \in 0 .. h PROVE w[l] \in Nat /\ (l \in 0 .. h - 1 \/ l = h)
      OBVIOUS
    <3>1. l \in 0 .. 20 /\ (l \in 0 .. h - 1 \/ l = h)  BY <2>1
    <3> QED  BY <1>3, <3>1
  <2>6. old.sum \in Int  BY <2>2 DEF Windows
  <2>7. /\ \A l \in 0 .. h : w[l] <= new.sum
        /\ new.start \in 0 .. h /\ new.sum = w[new.start]
    <3>1. CASE w[h] > old.sum
      <4>1. new.start = h /\ new.sum = w[h]  BY <2>4, <3>1
      <4>2. \A l \in 0 .. h : w[l] <= w[h]  BY <2>3, <2>4, <2>5, <2>6, <3>1
      <4>3. h \in 0 .. h  BY <2>1
      <4> QED  BY <4>1, <4>2, <4>3
    <3>2. CASE ~(w[h] > old.sum)
      <4>1. new = old /\ w[h] <= old.sum  BY <2>4, <2>6, <3>2
      <4>2. h # 0  BY <2>3, <2>4, <4>1
      <4>3. \A l \in 0 .. h : w[l] <= old.sum  BY <2>3, <2>5, <4>1
      <4>4. old.start \in 0 .. h - 1 /\ old.sum = w[old.start]  BY <2>3, <4>2
      <4> DEFINE s == old.start
      <4>5. s \in 0 .. h - 1  BY <4>4
      <4> HIDE DEF s
      <4>6. s \in 0 .. h  BY <2>1, <4>5
      <4> QED  BY <4>1, <4>3, <4>4, <4>6 DEF s
    <3> QED  BY <3>1, <3>2
  <2>8. Best(k)  BY <2>1, <2>7 DEF Best, new
  <2> QED  BY <2>1, <2>8 DEF T
<1>6. Best(21)
  <2>1. 21 \in T
    <3> HIDE DEF T
    <3>1. 0 .. 21 \subseteq T
      <4>1. 21 \in Nat  OBVIOUS
      <4> QED  BY <1>4, <1>5, <4>1, Induct
    <3> QED  BY <3>1
  <2> QED  BY <2>1
<1> DEFINE start == f[21].start
<1>7. start \in 0 .. 20 /\ f[21].sum = w[start] /\ \A h \in 0 .. 20 : w[h] <= w[start]
  BY <1>6
<1> HIDE DEF start, Best
\* The first row lies in some window.
<1>8. \E h \in 0 .. 20 : w[h] > 0
  <2>1. 1 \in DOMAIN rows
    <3>1. Len(rows) \in Nat \ {0} /\ DOMAIN rows = 1 .. Len(rows)  BY EmptySeq, LenProperties
    <3> QED  BY <3>1
  <2>2. Hour(rows[1]) \in 0 .. 23
    <3>1. 1 \in 1 .. Len(rows)  BY <2>1, LenProperties
    <3> QED  BY <3>1, RowTyped, DayProperties
  <2> DEFINE hour == Hour(rows[1])
             h == IF hour < 20 THEN hour ELSE 20
             In == {i \in DOMAIN rows : Hour(rows[i]) \in h .. h + 3}
  <2>3. h \in 0 .. 20 /\ hour \in h .. h + 3
    <3>1. hour \in 0 .. 23  BY <2>2
    <3> HIDE DEF hour
    <3> QED  BY <3>1
  <2>4. 1 \in In  BY <2>1, <2>3
  <2>5. IsFiniteSet(In)
    <3>1. Len(rows) \in Nat /\ DOMAIN rows = 1 .. Len(rows)  BY LenProperties
    <3>2. In \subseteq 1 .. Len(rows)  BY <3>1
    <3> QED  BY <3>1, <3>2, IndexSet, FS_Subset
  <2>6. InWindow(rows, h) = Cardinality(In)  BY DEF InWindow
  <2> HIDE DEF In, h
  <2>7. Cardinality(In) \in Nat /\ Cardinality(In) # 0
    BY <2>4, <2>5, FS_EmptySet, FS_CardinalityType
  <2>8. w[h] = Cardinality(In)  BY <1>3, <2>3, <2>6
  <2>9. w[h] > 0  BY <2>7, <2>8
  <2> QED  BY <2>3, <2>9
<1>9. w[start] > 0
  <2>1. PICK h \in 0 .. 20 : w[h] > 0  BY <1>8
  <2>2. w[h] \in Nat /\ w[start] \in Nat /\ w[h] <= w[start]  BY <1>3, <1>7
  <2> QED  BY <2>1, <2>2
<1>10. ActiveWindow(rows) = start
  <2>1. w[start] \in Nat  BY <1>3, <1>7
  <2>2. ~(w[start] <= 0)  BY <1>9, <2>1
  <2>3. ~(f[21].sum <= 0)  BY <1>7, <2>2, Zenon
  <2> QED  BY <1>2, <2>3 DEF start
<1> QED  BY <1>3, <1>7, <1>10


----------------------------------------------------------------------------
(* Curves *)

LEMMA DivMonotone ==
  ASSUME NEW a \in Int, NEW c \in Int, NEW b \in Nat \ {0}, a <= c
  PROVE  a \div b \in Int /\ a \div b <= c \div b
  OBVIOUS

LEMMA DivStep ==
  ASSUME NEW a \in Int, NEW c \in Int, NEW b \in Nat \ {0}, a + b <= c
  PROVE  a \div b \in Int /\ c \div b \in Int /\ a \div b < c \div b
<1>1. (a + b) \div b = (a \div b) + 1  OBVIOUS
<1>2. (a + b) \div b <= c \div b  BY DivMonotone
<1> QED  BY <1>1, <1>2

LEMMA MultipleMonotone ==
  ASSUME NEW m \in Nat, NEW i \in Nat, NEW j \in Nat, i < j
  PROVE  i * m \in Nat /\ j * m \in Nat /\ i * m + m <= j * m
<1> DEFINE d == j - i - 1
<1>1. d \in Nat /\ j = i + 1 + d  OBVIOUS
<1> HIDE DEF d
<1>2. j * m = i * m + m + d * m  BY <1>1
<1>3. d * m \in Nat /\ i * m \in Nat  BY <1>1
<1> QED  BY <1>2, <1>3

\* The points sampled from a longer curve start at its first, end at its last and skip
\* none twice.
LEMMA SampleIndexSpread ==
  ASSUME NEW len \in Nat, len > SparklinePoints
  PROVE  /\ SampleIndex(0, len) = 1
         /\ SampleIndex(SparklinePoints - 1, len) = len
         /\ \A i, j \in 0 .. SparklinePoints - 1 : i < j => SampleIndex(i, len) < SampleIndex(j, len)
         /\ \A i \in 0 .. SparklinePoints - 1 : SampleIndex(i, len) \in 1 .. len
<1> DEFINE p == SparklinePoints - 1
           m == len - 1
           a == [i \in 0 .. p |-> 2 * (i * m) + p]
           d == 2 * p
<1>1. p \in Nat \ {0} /\ m \in Nat /\ p <= m /\ len = m + 1  BY CapsAssumption
<1>2. \A i \in 0 .. p : SampleIndex(i, len) = 1 + (2 * i * m + p) \div d
  BY <1>1 DEF SampleIndex
<1> HIDE DEF p, m
<1>3. \A i \in 0 .. p : /\ i * m \in Nat /\ a[i] = 2 * (i * m) + p /\ a[i] \in Nat
                        /\ 2 * i * m + p = a[i]
  <2> SUFFICES ASSUME NEW i \in 0 .. p
               PROVE  i * m \in Nat /\ a[i] = 2 * (i * m) + p /\ a[i] \in Nat /\ 2 * i * m + p = a[i]
    OBVIOUS
  <2>1. i \in Nat /\ i * m \in Nat /\ 2 * i * m = 2 * (i * m)  BY <1>1
  <2>2. a[i] = 2 * (i * m) + p  OBVIOUS
  <2>3. 2 * (i * m) + p \in Nat  BY <1>1, <2>1
  <2> QED  BY <2>1, <2>2, <2>3
<1>4. \A i \in 0 .. p : SampleIndex(i, len) = 1 + a[i] \div d  BY <1>2, <1>3
<1>5. d \in Nat \ {0} /\ 0 \in 0 .. p /\ p \in 0 .. p  BY <1>1
<1>6. a[0] = p /\ a[p] = m * d + p
  <2>1. 0 * m = 0 /\ 2 * (p * m) = m * d  BY <1>1
  <2> QED  BY <1>3, <1>5, <2>1
<1> HIDE DEF a
<1>7. a[0] \div d = 0  BY <1>1, <1>6
<1>8. a[p] \div d = m
  <2> DEFINE c == a[p]
  <2>1. c \in Int /\ d * m <= c /\ c < d * m + d  BY <1>1, <1>6
  <2> HIDE DEF c, d
  <2>2. c \div d = m  BY <1>1, <1>5, <2>1
  <2> QED  BY <2>2 DEF c
<1>9. ASSUME NEW i \in 0 .. p, NEW j \in 0 .. p, i < j PROVE a[i] + d <= a[j]
  <2>1. i \in Nat /\ j \in Nat  BY <1>1
  <2>2. i * m + m <= j * m  BY <1>1, <1>9, <2>1, MultipleMonotone
  <2>3. i * m \in Nat /\ j * m \in Nat /\ a[i] = 2 * (i * m) + p /\ a[j] = 2 * (j * m) + p
    BY <1>3
  <2> QED  BY <1>1, <2>2, <2>3
<1> HIDE DEF d
<1>10. \A i, j \in 0 .. p : i < j => a[i] \div d < a[j] \div d
  <2> SUFFICES ASSUME NEW i \in 0 .. p, NEW j \in 0 .. p, i < j PROVE a[i] \div d < a[j] \div d
    OBVIOUS
  <2>1. a[i] \in Int /\ a[j] \in Int  BY <1>3
  <2> QED  BY <1>5, <1>9, <2>1, DivStep
<1>11. ASSUME NEW i \in 0 .. p PROVE a[i] \div d \in 0 .. m
  <2>1. a[i] \in Nat /\ i \in Int  BY <1>1, <1>3
  <2>2. a[i] \div d \in Int  BY <1>5, <2>1
  <2>3. 0 <= a[i] \div d
    <3>1. CASE i = 0  BY <1>7, <3>1
    <3>2. CASE i # 0
      <4>1. a[0] \div d < a[i] \div d  BY <1>5, <1>10, <2>1, <3>2
      <4> QED  BY <1>7, <2>2, <4>1
    <3> QED  BY <3>1, <3>2
  <2>4. a[i] \div d <= m
    <3>1. CASE i = p  BY <1>1, <1>8, <3>1
    <3>2. CASE i # p
      <4>1. a[i] \div d < a[p] \div d  BY <1>1, <1>5, <1>10, <2>1, <3>2
      <4> QED  BY <1>1, <1>8, <2>2, <4>1
    <3> QED  BY <3>1, <3>2
  <2> QED  BY <1>1, <2>2, <2>3, <2>4
<1>12. \A i \in 0 .. p : SampleIndex(i, len) \in 1 .. len  BY <1>1, <1>4, <1>11
<1>13. \A i, j \in 0 .. p : i < j => SampleIndex(i, len) < SampleIndex(j, len)
  <2> SUFFICES ASSUME NEW i \in 0 .. p, NEW j \in 0 .. p, i < j
               PROVE  SampleIndex(i, len) < SampleIndex(j, len)
    OBVIOUS
  <2>1. a[i] \div d \in Int /\ a[j] \div d \in Int /\ a[i] \div d < a[j] \div d
    BY <1>1, <1>10, <1>11
  <2> QED  BY <1>4, <2>1
<1>14. SampleIndex(0, len) = 1 /\ SampleIndex(p, len) = len  BY <1>1, <1>4, <1>5, <1>7, <1>8
<1> QED  BY <1>12, <1>13, <1>14 DEF p


\* s is drawn from the running sums of the rows, from the first to the last.
Samples(s, rows) ==
    /\ s \in Seq(Int)
    /\ Len(s) = (IF Len(rows) < SparklinePoints THEN Len(rows) ELSE SparklinePoints)
    /\ s[1] = rows[1].pnl
    /\ Last(s) = PnlOf(rows)
    /\ \E f \in [DOMAIN s -> DOMAIN rows] :
        /\ \A i \in DOMAIN f : s[i] = SumTo(rows, f[i])
        /\ \A i, j \in DOMAIN f : i < j => f[i] < f[j]

LEMMA CumulativeSums ==
  ASSUME NEW rows \in Seq(Summable)
  PROVE  /\ CumulativePnL(rows) \in Seq(Int) /\ Len(CumulativePnL(rows)) = Len(rows)
         /\ \A i \in 1 .. Len(rows) : /\ CumulativePnL(rows)[i] = Sums(rows)[i]
                                      /\ CumulativePnL(rows)[i] = SumTo(rows, i)
<1> DEFINE n == Len(rows)
           c == CumulativePnL(rows)
<1>1. n \in Nat /\ DOMAIN rows = 1 .. n  BY LenProperties
<1>2. \A i \in 1 .. n : Sums(rows)[i] \in Int /\ i \in 0 .. n
  <2>1. Sums(rows) \in [0 .. n -> Int]  BY SumsLoop
  <2> HIDE DEF n
  <2> QED  BY <1>1, <2>1
<1>3. c = [i \in 1 .. n |-> Sums(rows)[i]]  BY <1>1 DEF CumulativePnL
<1>s. \A i \in 1 .. n : SumTo(rows, i) = Sums(rows)[i]  BY <1>2, SumToIsSums
<1> HIDE DEF n, c
<1>4. c \in [1 .. n -> Int]  BY <1>2, <1>3
<1>5. c \in Seq(Int) /\ Len(c) = n  BY <1>1, <1>4
<1> QED  BY <1>3, <1>5, <1>s DEF n, c

LEMMA FirstSum ==
  ASSUME NEW rows \in Seq(Summable), rows # <<>>
  PROVE  Sums(rows)[1] = rows[1].pnl
<1>1. 1 \in 1 .. Len(rows)
  <2>1. Len(rows) \in Nat \ {0}  BY EmptySeq
  <2> QED  BY <2>1
<1>2. Sums(rows)[1] = Sums(rows)[1 - 1] + rows[1].pnl /\ Sums(rows)[0] = 0  BY <1>1, SumsLoop
<1>3. rows[1].pnl \in Int /\ 1 - 1 = 0  BY <1>1, RowTyped
<1> QED  BY <1>2, <1>3

LEMMA SparklineExact ==
  ASSUME NEW rows \in Seq(Summable)
  PROVE  /\ EquitySparkline(rows) \in Seq(Int)
         /\ Len(rows) < 2 => EquitySparkline(rows) = <<>>
         /\ Len(rows) >= 2 => Samples(EquitySparkline(rows), rows)
<1> DEFINE n == Len(rows)
           c == CumulativePnL(rows)
           s == EquitySparkline(rows)
           p == SparklinePoints
<1>1. n \in Nat /\ DOMAIN rows = 1 .. n /\ p \in Nat \ {0, 1}  BY LenProperties, CapsAssumption
<1>2. /\ c \in Seq(Int) /\ Len(c) = n /\ DOMAIN c = 1 .. n
      /\ \A i \in 1 .. n : c[i] = Sums(rows)[i] /\ c[i] = SumTo(rows, i) /\ c[i] \in Int
  BY CumulativeSums, LenProperties, ElementOfSeq
<1>3. PnlOf(rows) = Sums(rows)[n]  BY DEF PnlOf
<1>4. s = CASE n < 2 -> <<>>
            [] n \in 2 .. p -> c
            [] OTHER -> [i \in 1 .. p |-> c[SampleIndex(i - 1, n)]]
  BY Zenon DEF EquitySparkline
<1>5. CASE n < 2
  <2>1. s = <<>>  BY <1>4, <1>5
  <2> QED  BY <1>1, <1>5, <2>1
<1>6. CASE n \in 2 .. p
  <2>1. s = c
    <3>1. ~(n < 2)  BY <1>1, <1>6
    <3> QED  BY <1>4, <1>6, <3>1
  <2>2. n = (IF n < p THEN n ELSE p)
    <3> HIDE DEF n, p
    <3>1. n \in Nat /\ p \in Nat /\ n <= p  BY <1>1, <1>6
    <3> QED  BY <3>1
  <2>3. rows # <<>> /\ 1 \in 1 .. n /\ n \in 1 .. n  BY <1>1, <1>6, EmptySeq
  <2>4. c[1] = rows[1].pnl  BY <1>2, <2>3, FirstSum
  <2>5. c[n] = PnlOf(rows)  BY <1>2, <1>3, <2>3
  <2> DEFINE f == [i \in 1 .. n |-> i]
  <2>6. /\ f \in [1 .. n -> 1 .. n] /\ DOMAIN f = 1 .. n
        /\ \A i \in 1 .. n : c[i] = SumTo(rows, f[i])
        /\ \A i, j \in 1 .. n : i < j => f[i] < f[j]
    BY <1>2
  <2> HIDE DEF f, n, c, s, p
  <2>7. Last(c) = PnlOf(rows)  BY <1>2, <2>5 DEF Last
  <2>8. Samples(c, rows)  BY <1>1, <1>2, <2>2, <2>4, <2>6, <2>7 DEF Samples, n, p
  <2> QED  BY <1>1, <1>2, <1>6, <2>1, <2>8 DEF n, s
<1>7. CASE n > p
  <2>1. s = [i \in 1 .. p |-> c[SampleIndex(i - 1, n)]]
    <3>1. ~(n < 2) /\ n \notin 2 .. p  BY <1>1, <1>7
    <3> QED  BY <1>4, <3>1
  <2> DEFINE f == [i \in 1 .. p |-> SampleIndex(i - 1, n)]
  <2>i. /\ SampleIndex(0, n) = 1 /\ SampleIndex(p - 1, n) = n
        /\ \A i, j \in 0 .. p - 1 : i < j => SampleIndex(i, n) < SampleIndex(j, n)
        /\ \A i \in 0 .. p - 1 : SampleIndex(i, n) \in 1 .. n
    BY <1>1, <1>7, SampleIndexSpread
  <2>f. \A i \in 1 .. p : f[i] = SampleIndex(i - 1, n) /\ i - 1 \in 0 .. p - 1  BY <1>1
  <2>d. DOMAIN f = 1 .. p /\ f = [i \in 1 .. p |-> f[i]]  OBVIOUS
  <2>c. s = [i \in 1 .. p |-> c[f[i]]]  BY <2>1
  <2> HIDE DEF f, n, c, s, p
  <2>2. f \in [1 .. p -> 1 .. n]  BY <2>i, <2>f, <2>d
  <2>3. s \in [1 .. p -> Int] /\ \A i \in 1 .. p : s[i] = c[f[i]]  BY <1>2, <2>2, <2>c
  <2>4. s \in Seq(Int) /\ Len(s) = p /\ DOMAIN s = 1 .. p  BY <1>1, <2>3
  <2>5. p = (IF n < p THEN n ELSE p)  BY <1>1, <1>7
  <2>6. rows # <<>> /\ 1 \in 1 .. n /\ n \in 1 .. n /\ 1 \in 1 .. p /\ p \in 1 .. p
    <3>1. n # 0  BY <1>1, <1>7
    <3>2. rows # <<>>  BY <3>1, EmptySeq DEF n
    <3> QED  BY <1>1, <3>1, <3>2
  <2>7. f[1] = 1 /\ f[p] = n
    <3>1. 1 - 1 = 0  OBVIOUS
    <3> QED  BY <2>i, <2>f, <2>6, <3>1
  <2>8. s[1] = rows[1].pnl  BY <1>2, <2>3, <2>6, <2>7, FirstSum
  <2>9. Last(s) = PnlOf(rows)  BY <1>2, <1>3, <2>3, <2>4, <2>6, <2>7 DEF Last
  <2>10. \A i \in 1 .. p : s[i] = SumTo(rows, f[i])  BY <1>2, <2>2, <2>3
  <2>11. \A i, j \in 1 .. p : i < j => f[i] < f[j]
    <3> SUFFICES ASSUME NEW i \in 1 .. p, NEW j \in 1 .. p, i < j PROVE f[i] < f[j]  OBVIOUS
    <3>1. i - 1 < j - 1  BY <1>1
    <3> QED  BY <2>i, <2>f, <3>1
  <2>12. Samples(s, rows)
    BY <1>1, <2>2, <2>4, <2>5, <2>8, <2>9, <2>10, <2>11, <2>d DEF Samples, n, p
  <2> QED  BY <1>1, <1>7, <2>4, <2>12 DEF n, s
<1>8. n < 2 \/ n \in 2 .. p \/ n > p  BY <1>1
<1> QED  BY <1>5, <1>6, <1>7, <1>8


\* A curve is drawn within its frame, a higher point no lower.
Framed(drawn, points) ==
    /\ DOMAIN drawn = DOMAIN points
    /\ \A i \in DOMAIN drawn : drawn[i] \in 10 .. 54
    /\ \A i, j \in DOMAIN drawn : points[i] <= points[j] => drawn[j] <= drawn[i]

LEMMA CurveFramed ==
  ASSUME NEW points \in Seq(Int), points # <<>>
  PROVE  Framed(EquityCurve(points, 64), points)
<1> DEFINE n == Len(points)
           S == {points[i] : i \in DOMAIN points}
           low == Min(S)
           high == Max(S)
           range == IF high = low THEN 1 ELSE high - low
           scaled == [i \in 1 .. n |-> (points[i] - low) * 44]
           drawn == EquityCurve(points, 64)
<1>1. n \in Nat \ {0} /\ DOMAIN points = 1 .. n /\ \A i \in 1 .. n : points[i] \in Int
  BY EmptySeq, LenProperties, ElementOfSeq
<1>2. points # None  BY NoneAssumption
<1>3. drawn = [i \in DOMAIN points |-> 64 - ((points[i] - low) * (64 - 20)) \div range - 10]
  <2>1. CurvePoints(points) = points  BY <1>2 DEF CurvePoints
  <2> QED  BY <2>1, Zenon DEF EquityCurve
<1>s. \A i \in 1 .. n : scaled[i] = (points[i] - low) * 44  OBVIOUS
<1> HIDE DEF n, drawn, low, high, scaled
<1>4. S \in SUBSET Int /\ \A i \in 1 .. n : points[i] \in S  BY <1>1
<1>5. low \in Int /\ \A i \in 1 .. n : low <= points[i]
  <2>1. PICK m \in 1 .. n : \A i \in 1 .. n : points[m] <= points[i]  BY <1>1, Smallest
  <2>2. points[m] \in S /\ \A y \in S : points[m] <= y  BY <1>1, <2>1
  <2> HIDE DEF S
  <2>3. low = points[m]  BY <1>4, <2>2, MinIs DEF low
  <2> QED  BY <1>1, <2>1, <2>3
<1>6. high \in Int /\ \A i \in 1 .. n : points[i] <= high
  <2>1. PICK m \in 1 .. n : \A i \in 1 .. n : points[i] <= points[m]  BY <1>1, Largest
  <2>2. points[m] \in S /\ \A y \in S : y <= points[m]  BY <1>1, <2>1
  <2> HIDE DEF S
  <2>3. high = points[m]  BY <1>4, <2>2, MaxIs DEF high
  <2> QED  BY <1>1, <2>1, <2>3
<1> HIDE DEF S
<1>7. range \in Nat \ {0} /\ \A i \in 1 .. n : points[i] - low <= range /\ points[i] - low \in Nat
  <2>1. 1 \in 1 .. n  BY <1>1
  <2>2. points[1] \in Int /\ low <= points[1] /\ points[1] <= high  BY <1>1, <1>5, <1>6, <2>1
  <2>3. low <= high  BY <1>5, <1>6, <2>2
  <2>4. range \in Nat \ {0} /\ high - low <= range  BY <1>5, <1>6, <2>3
  <2>5. ASSUME NEW i \in 1 .. n PROVE points[i] - low <= range /\ points[i] - low \in Nat
    <3>1. points[i] \in Int /\ low <= points[i] /\ points[i] <= high  BY <1>1, <1>5, <1>6
    <3> HIDE DEF range
    <3> QED  BY <1>5, <1>6, <2>4, <3>1
  <2> QED  BY <2>4, <2>5
<1> HIDE DEF range
<1> DEFINE share == [i \in 1 .. n |-> scaled[i] \div range]
<1>h. \A i \in 1 .. n : share[i] = scaled[i] \div range  OBVIOUS
<1> HIDE DEF share
<1>8. ASSUME NEW i \in 1 .. n
      PROVE  scaled[i] \in Nat /\ share[i] \in Int /\ 0 <= share[i] /\ share[i] <= 44
  <2> DEFINE x == points[i] - low
             c == scaled[i]
  <2>1. x \in Nat /\ x <= range  BY <1>7
  <2>2. c = x * 44  BY <1>s
  <2> HIDE DEF x, c
  <2>3. c \in Nat /\ range * 0 <= c /\ c < range * 44 + range  BY <1>7, <2>1, <2>2
  <2>4. c \div range \in Int /\ 0 <= c \div range /\ c \div range <= 44  BY <1>7, <2>3
  <2>5. share[i] = c \div range  BY <1>h DEF c
  <2>6. share[i] \in Int /\ 0 <= share[i] /\ share[i] <= 44  BY <2>4, <2>5
  <2> QED  BY <2>3, <2>6 DEF c
<1>9. \A i \in 1 .. n : drawn[i] = 54 - share[i]
  <2> SUFFICES ASSUME NEW i \in 1 .. n PROVE drawn[i] = 54 - share[i]  OBVIOUS
  <2>1. scaled[i] = (points[i] - low) * (64 - 20)  BY <1>s
  <2>2. drawn[i] = 64 - share[i] - 10  BY <1>1, <1>3, <1>h, <2>1
  <2>3. share[i] \in Int  BY <1>8
  <2> QED  BY <2>2, <2>3
<1>10. DOMAIN drawn = 1 .. n  BY <1>1, <1>3
<1>11. ASSUME NEW i \in 1 .. n PROVE drawn[i] \in 10 .. 54
  <2> DEFINE x == share[i]
  <2>1. x \in Int /\ 0 <= x /\ x <= 44  BY <1>8
  <2>2. drawn[i] = 54 - x  BY <1>9
  <2> HIDE DEF x
  <2>3. 54 - x \in 10 .. 54  BY <2>1
  <2> QED  BY <2>2, <2>3
<1>12. ASSUME NEW i \in 1 .. n, NEW j \in 1 .. n, points[i] <= points[j] PROVE drawn[j] <= drawn[i]
  <2>1. points[i] \in Int /\ points[j] \in Int  BY <1>1
  <2>2. (points[i] - low) * 44 <= (points[j] - low) * 44  BY <1>5, <1>12, <2>1
  <2>3. scaled[i] <= scaled[j]  BY <1>s, <2>2
  <2>4. scaled[i] \in Int /\ scaled[j] \in Int  BY <1>8
  <2>5. share[i] <= share[j]  BY <1>7, <1>h, <2>3, <2>4, DivMonotone
  <2>6. share[i] \in Int /\ share[j] \in Int  BY <1>8
  <2> QED  BY <1>9, <2>5, <2>6
<1> QED  BY <1>1, <1>10, <1>11, <1>12 DEF Framed, drawn


-----------------------------------------------------------------------------
(* All of them: the analytics of some closed rows, oldest first. *)

Exact(a, rows) ==
    /\ a.riskMetrics = RiskReference(rows)
    /\ Len(rows) < 2 => a.sparkline = <<>>
    /\ Len(rows) >= 2 =>
        /\ Samples(a.sparkline, rows)
        /\ Framed(EquityCurve(a.sparkline, 64), a.sparkline)
    /\ a.activeFrom \in 0 .. 20
    /\ \A h \in 0 .. 20 : InWindow(rows, h) <= InWindow(rows, a.activeFrom)

LEMMA RiskExact ==
  ASSUME NEW rows \in Seq(Summable), rows # <<>>, Sorted(rows)
  PROVE  RiskMetrics(rows) \in Risks /\ RiskMetrics(rows) = RiskReference(rows)
<1>1. MaxDrawdown(rows) = Max(Drawdowns(rows) \cup {0}) /\ MaxDrawdown(rows) \in Nat
  BY MaxDrawdownExact
<1>2. LongestLosingStreak(rows) = Max(LosingRuns(rows)) /\ LongestLosingStreak(rows) \in Nat
  BY LosingStreakExact
<1>3. /\ BestDayPnl(rows) = Max({DaySum(rows, Day(rows[i])) : i \in DOMAIN rows})
      /\ BestDayPnl(rows) \in Int
  BY BestDayExact
<1>4. /\ AvgTradesPerDay(rows) =
            Hundredths(Len(rows), 1 + Max({Day(rows[i]) : i \in DOMAIN rows})
                                    - Min({Day(rows[i]) : i \in DOMAIN rows}))
      /\ AvgTradesPerDay(rows) \in Nat
  BY AvgPerDayExact
<1> QED  BY <1>1, <1>2, <1>3, <1>4 DEF RiskMetrics, RiskReference, Risks

\* The code of master-analytics.util.ts, loop for loop, against the references: over
\* closed rows, oldest first, however many.
THEOREM AnalyticsReference ==
  ASSUME NEW rows \in Seq(Summable), rows # <<>>, Sorted(rows)
  PROVE  BuildAnalytics(rows) \in Analytics /\ Exact(BuildAnalytics(rows), rows)
<1> DEFINE a == BuildAnalytics(rows)
           s == EquitySparkline(rows)
<1>1. a = [riskMetrics |-> RiskMetrics(rows), sparkline |-> s, activeFrom |-> ActiveWindow(rows)]
  BY DEF BuildAnalytics
<1>2. RiskMetrics(rows) \in Risks /\ RiskMetrics(rows) = RiskReference(rows)  BY RiskExact
<1>3. /\ s \in Seq(Int)
      /\ Len(rows) < 2 => s = <<>>
      /\ Len(rows) >= 2 => Samples(s, rows)
  BY SparklineExact
<1>4. /\ ActiveWindow(rows) \in 0 .. 20
      /\ \A h \in 0 .. 20 : InWindow(rows, h) <= InWindow(rows, ActiveWindow(rows))
  BY ActiveWindowExact
<1> HIDE DEF a, s
<1>5. ASSUME Len(rows) >= 2 PROVE Framed(EquityCurve(s, 64), s)
  <2>1. Len(s) # 0  BY <1>3, <1>5, LenProperties, CapsAssumption DEF Samples
  <2>2. s # <<>>  BY <2>1
  <2> QED  BY <1>3, <2>2, CurveFramed
<1>6. /\ a.riskMetrics = RiskMetrics(rows) /\ a.sparkline = s /\ a.activeFrom = ActiveWindow(rows)
      /\ a \in Analytics
  BY <1>1, <1>2, <1>3, <1>4 DEF Analytics
<1>7. Exact(a, rows)  BY <1>2, <1>3, <1>4, <1>5, <1>6 DEF Exact
<1> QED  BY <1>6, <1>7 DEF a

-----------------------------------------------------------------------------
(* The inductive invariant.  An answer is typed, holds the fields of the     *)
(* queries its stage has behind it, and, as long as no write came between,   *)
(* every field it holds is that of the tables as they still are.             *)

Stages == {"idle", "list", "find", "countAll", "countClosed", "closedRows", "allRows", "newest",
           "recent", "openTrades", "rank", "done", "notFound"}

Shaped ==
    /\ trades \in Seq(Rows) /\ active \in BOOLEAN /\ moved \in BOOLEAN
    /\ others \in [newer : Seq(Nat), older : Seq(Nat)]
    /\ text \in {start.text : start \in Starts}
    /\ DOMAIN call = {"kind", "stage", "read"}
    /\ call.kind \in Kinds \cup {"none"} /\ call.stage \in Stages
    /\ call.kind = "none" <=> At("idle")
    /\ ~At("idle") => "side" \in DOMAIN call.read

Counted == {"countClosed", "closedRows", "allRows", "newest"}
Figures == {"totalTrades", "closedTrades", "winningTrades", "totalPnL", "totalVolume"}

Progress ==
    LET held == DOMAIN call.read
    IN  /\ At("list") => call.kind \in {"top", "market"}
        /\ call.stage \in Counted => "totalTrades" \in held
        /\ call.stage \in Counted \ {"countClosed"} => "closedTrades" \in held
        /\ call.stage \in {"allRows", "newest"} => {"winningTrades", "totalPnL"} \subseteq held
        /\ call.stage = "newest" => "totalVolume" \in held
        /\ call.stage \in {"recent", "openTrades"} => HasFigures
        /\ call.stage \in {"idle", "list", "find", "countAll"} \cup Counted => ~HasFigures
        /\ HasFigures => Figures \subseteq held
        /\ call.kind = "dashboard" /\ call.stage \in {"openTrades", "done"} =>
            "recentTrades" \in held
        /\ call.kind = "dashboard" /\ At("done") => "openTrades" \in held
        /\ call.kind \in {"profile", "dashboard", "detail"} /\ At("done") => HasFigures
        /\ call.kind = "market" /\ ~At("list") => "listed" \in held
        /\ At("rank") => call.kind = "top"
        /\ call.kind = "top" /\ ~At("list") => "others" \in held
        /\ call.kind = "top" /\ At("done") => "top" \in held

Now ==
    [totalTrades |-> Len(trades), closedTrades |-> Len(Closed(trades)),
     winningTrades |-> Wins(Closed(trades)), totalPnL |-> PnlOf(Closed(trades)),
     totalVolume |-> Len(trades), recentTrades |-> First(Reverse(trades), RecentCap),
     openTrades |-> Len(trades) - Len(Closed(trades)), listed |-> active, others |-> others]

SideNow ==
    IF call.kind = "detail" THEN First(Reverse(trades), HistoryCap)
    ELSE Len(ActiveMasters)

FreshFields == \A f \in DOMAIN call.read \cap DOMAIN Now : call.read[f] = Now[f]
FreshAnalytics ==
    HasFigures => \E rows \in NewestOf(Closed(trades)) : call.read.analytics = BuildAnalytics(rows)
FreshSide ==
    call.kind \in {"detail", "top"} /\ call.read.side # None => call.read.side = SideNow
FreshTop == "top" \in DOMAIN call.read => call.read.top \in TopOf(ActiveMasters)
FreshAccount ==
    /\ call.stage \in {"countAll", "recent", "openTrades"} \cup Counted => active
    /\ At("find") /\ call.kind \in {"top", "market"} => active
    /\ At("done") /\ call.kind \in {"top", "market"} => (HasFigures <=> active)
    /\ At("rank") => (HasFigures <=> active)
    /\ At("notFound") => ~active /\ call.kind # "top"

Fresh == ~moved => FreshFields /\ FreshAnalytics /\ FreshSide /\ FreshTop /\ FreshAccount

InsightInv == Shaped /\ Progress /\ Fresh

LEMMA WithFields ==
  ASSUME NEW read, NEW fields
  PROVE  /\ DOMAIN With(read, fields) = DOMAIN read \cup DOMAIN fields
         /\ \A f \in DOMAIN fields : With(read, fields)[f] = fields[f]
         /\ \A f \in DOMAIN read \ DOMAIN fields : With(read, fields)[f] = read[f]
  BY DEF With

LEMMA ReadStep ==
  ASSUME Shaped, NEW next \in Stages \ {"idle"}, NEW fields, Read(next, fields), ~At("idle"),
         "side" \notin DOMAIN fields
  PROVE  /\ Shaped'
         /\ call'.kind = call.kind /\ call'.stage = next
         /\ DOMAIN call'.read = DOMAIN call.read \cup DOMAIN fields
         /\ \A f \in DOMAIN fields : call'.read[f] = fields[f]
         /\ \A f \in DOMAIN call.read \ DOMAIN fields : call'.read[f] = call.read[f]
         /\ UNCHANGED <<trades, text, active, others, moved>>
<1>1. call' = [call EXCEPT !.stage = next, !.read = With(call.read, fields)]  BY DEF Read
<1>2. /\ DOMAIN call' = DOMAIN call /\ call'.kind = call.kind /\ call'.stage = next
      /\ call'.read = With(call.read, fields)
  BY <1>1 DEF Shaped
<1>3. UNCHANGED <<trades, text, active, others, moved>>  BY DEF Read
<1> DEFINE old == call.read
           new == With(old, fields)
<1> HIDE DEF old
<1>4. /\ DOMAIN new = DOMAIN old \cup DOMAIN fields
      /\ \A f \in DOMAIN fields : new[f] = fields[f]
      /\ \A f \in DOMAIN old \ DOMAIN fields : new[f] = old[f]
  BY WithFields
<1>w. call'.read = new  BY <1>2 DEF old
<1> HIDE DEF new
<1>5. Shaped'  BY <1>2, <1>3, <1>4, <1>w DEF Shaped, At, old
<1> QED  BY <1>2, <1>3, <1>4, <1>5, <1>w DEF old

\* A query answers with what the tables now hold.
LEMMA ReadFresh ==
  ASSUME Shaped, Fresh, NEW next \in Stages \ {"idle"}, NEW fields, Read(next, fields), ~At("idle"),
         "side" \notin DOMAIN fields,
         \A f \in DOMAIN fields \cap DOMAIN Now : fields[f] = Now[f],
         ~moved
  PROVE  FreshFields' /\ FreshSide'
<1>1. /\ Shaped' /\ call'.kind = call.kind
      /\ DOMAIN call'.read = DOMAIN call.read \cup DOMAIN fields
      /\ \A f \in DOMAIN fields : call'.read[f] = fields[f]
      /\ \A f \in DOMAIN call.read \ DOMAIN fields : call'.read[f] = call.read[f]
      /\ UNCHANGED <<trades, text, active, others, moved>>
  BY ReadStep
<1>2. FreshFields /\ FreshSide  BY DEF Fresh
<1>3. Now' = Now  BY <1>1 DEF Now
<1>4. FreshFields'  BY <1>1, <1>2, <1>3 DEF FreshFields
<1>5. call'.read.side = call.read.side  BY <1>1 DEF Shaped
<1>6. SideNow' = SideNow  BY <1>1 DEF SideNow, ActiveMasters
<1>7. FreshSide'  BY <1>1, <1>2, <1>5, <1>6 DEF FreshSide
<1> QED  BY <1>4, <1>7

LEMMA NowFields ==
  /\ DOMAIN Now = {"totalTrades", "closedTrades", "winningTrades", "totalPnL", "totalVolume",
                   "recentTrades", "openTrades", "listed", "others"}
  /\ Now.totalTrades = Len(trades) /\ Now.closedTrades = Len(Closed(trades))
  /\ Now.winningTrades = Wins(Closed(trades)) /\ Now.totalPnL = PnlOf(Closed(trades))
  /\ Now.totalVolume = Len(trades) /\ Now.recentTrades = First(Reverse(trades), RecentCap)
  /\ Now.openTrades = Len(trades) - Len(Closed(trades)) /\ Now.listed = active
  /\ Now.others = others
  BY DEF Now

LEMMA InitInsight == Init => InsightInv
<1> SUFFICES ASSUME Init PROVE InsightInv  OBVIOUS
<1>1. PICK start \in Starts :
        trades = start.rows /\ text = start.text /\ others = start.others
  BY DEF Init
<1>2. trades \in Seq(Rows) /\ others \in [newer : Seq(Nat), older : Seq(Nat)]
  BY <1>1, RowsAssumption
<1>3. /\ call = [kind |-> "none", stage |-> "idle", read |-> <<>>]
      /\ moved = FALSE /\ active \in BOOLEAN
  BY DEF Init
<1>4. call.kind = "none" /\ call.stage = "idle" /\ call.read = <<>> /\ DOMAIN call.read = {}
  BY <1>3
<1>5. Shaped  BY <1>1, <1>2, <1>3, <1>4 DEF Shaped, Stages, At
<1>6. Progress  BY <1>4 DEF Progress, At, HasFigures, Counted
<1>7. FreshFields /\ FreshAnalytics /\ FreshSide /\ FreshTop /\ FreshAccount
  BY <1>4 DEF FreshFields, FreshAnalytics, FreshSide, FreshTop, FreshAccount, HasFigures, At,
              Counted
<1> QED  BY <1>5, <1>6, <1>7 DEF InsightInv, Fresh

LEMMA StutterInsight ==
  ASSUME InsightInv, UNCHANGED vars
  PROVE  InsightInv'
<1>1. UNCHANGED <<trades, text, active, others, call, moved>>  BY DEF vars
<1>2. Shaped'  BY <1>1 DEF InsightInv, Shaped, At
<1>3. Progress'  BY <1>1 DEF InsightInv, Progress, HasFigures, At, Counted, Figures
<1>4. ActiveMasters' = ActiveMasters  BY <1>1 DEF ActiveMasters
<1>5. Fresh'
  BY <1>1, <1>4
     DEF InsightInv, Fresh, FreshFields, FreshAnalytics, FreshSide, FreshTop, FreshAccount, SideNow,
         Now, HasFigures, At, Counted
<1> QED  BY <1>2, <1>3, <1>5 DEF InsightInv

\* A write outdates what the answer holds.
LEMMA WriteInsight ==
  ASSUME InsightInv, trades' \in Seq(Rows), active' \in BOOLEAN, Write,
         others' \in [newer : Seq(Nat), older : Seq(Nat)]
  PROVE  InsightInv'
<1>1. moved' = TRUE /\ call' = call /\ text' = text  BY DEF Write
<1>2. Shaped'  BY <1>1 DEF InsightInv, Shaped, At
<1>3. Progress'  BY <1>1 DEF InsightInv, Progress, HasFigures, At, Counted, Figures
<1> QED  BY <1>1, <1>2, <1>3 DEF InsightInv, Fresh

LEMMA OpenTradeInsight ==
  ASSUME InsightInv, OpenTrade
  PROVE  InsightInv'
<1>1. trades \in Seq(Rows) /\ active \in BOOLEAN  BY DEF InsightInv, Shaped
<1>2. trades' = Append(trades, OpenRow) /\ Write /\ active' = active /\ others' = others
  BY DEF OpenTrade
<1>3. trades' \in Seq(Rows)  BY <1>1, <1>2, AppendProperties DEF Rows
<1> QED  BY <1>1, <1>2, <1>3, WriteInsight DEF InsightInv, Shaped

LEMMA CloseTradeInsight ==
  ASSUME InsightInv, NEW i \in DOMAIN trades, CloseTrade(i)
  PROVE  InsightInv'
<1>1. trades \in Seq(Rows) /\ active \in BOOLEAN  BY DEF InsightInv, Shaped
<1>2. PICK p \in Pnls, t \in Hours : trades' = [trades EXCEPT ![i] = ClosedRow(p, t)]
  BY DEF CloseTrade
<1>3. ClosedRow(p, t) \in Rows  BY RowsAssumption DEF Rows, ClosedRow
<1>4. trades' \in Seq(Rows)  BY <1>1, <1>2, <1>3, ExceptSeq
<1> QED  BY <1>1, <1>4, WriteInsight DEF CloseTrade, InsightInv, Shaped

LEMMA SwitchInsight ==
  ASSUME InsightInv, SwitchMaster
  PROVE  InsightInv'
<1>1. trades \in Seq(Rows) /\ active \in BOOLEAN  BY DEF InsightInv, Shaped
<1>2. trades' = trades /\ active' = ~active /\ others' = others /\ Write  BY DEF SwitchMaster
<1> QED  BY <1>1, <1>2, WriteInsight DEF InsightInv, Shaped

LEMMA OthersInsight ==
  ASSUME InsightInv, OthersChange
  PROVE  InsightInv'
<1>1. trades \in Seq(Rows) /\ active \in BOOLEAN  BY DEF InsightInv, Shaped
<1>2. trades' = trades /\ active' = active /\ others' \in OtherMasters /\ Write
  BY DEF OthersChange
<1>3. others' \in [newer : Seq(Nat), older : Seq(Nat)]
  BY <1>2, RowsAssumption DEF OtherMasters
<1> QED  BY <1>1, <1>2, <1>3, WriteInsight

LEMMA BeginInsight ==
  ASSUME InsightInv, NEW kind \in Kinds, Begin(kind)
  PROVE  InsightInv'
<1> DEFINE first == IF kind \in {"top", "market"} THEN "list" ELSE "find"
<1>1. /\ call' = [kind |-> kind, stage |-> first, read |-> [side |-> None]]
      /\ moved' = FALSE /\ UNCHANGED <<trades, text, active, others>>
  BY DEF Begin
<1>2. /\ call'.kind = kind /\ call'.stage = first /\ DOMAIN call'.read = {"side"}
      /\ call'.read.side = None /\ DOMAIN call' = {"kind", "stage", "read"}
  BY <1>1
<1>3. kind # "none"  BY DEF Kinds
<1>4. Shaped'  BY <1>1, <1>2, <1>3 DEF InsightInv, Shaped, Stages, At
<1>5. ~HasFigures'  BY <1>2 DEF HasFigures
<1>6. Progress'  BY <1>2, <1>5 DEF Progress, At, HasFigures, Counted
<1>7. FreshFields'  BY <1>2, NowFields DEF FreshFields, Now
<1>8. FreshAnalytics' /\ FreshSide' /\ FreshTop'
  BY <1>2, <1>5 DEF FreshAnalytics, FreshSide, FreshTop
<1>9. FreshAccount'  BY <1>2 DEF FreshAccount, At, Counted
<1> QED  BY <1>4, <1>6, <1>7, <1>8, <1>9 DEF InsightInv, Fresh

LEMMA LeaveInsight ==
  ASSUME InsightInv, Leave
  PROVE  InsightInv'
<1>1. /\ call' = [kind |-> "none", stage |-> "idle", read |-> <<>>]
      /\ UNCHANGED <<trades, text, active, others, moved>>
  BY DEF Leave
<1>2. /\ call'.kind = "none" /\ call'.stage = "idle" /\ DOMAIN call'.read = {}
      /\ DOMAIN call' = {"kind", "stage", "read"}
  BY <1>1
<1>4. Shaped'  BY <1>1, <1>2 DEF InsightInv, Shaped, Stages, At
<1>5. ~HasFigures'  BY <1>2 DEF HasFigures
<1>6. Progress'  BY <1>2, <1>5 DEF Progress, At, HasFigures, Counted
<1>7. FreshFields' /\ FreshAnalytics' /\ FreshSide' /\ FreshTop' /\ FreshAccount'
  BY <1>2, <1>5 DEF FreshFields, FreshAnalytics, FreshSide, FreshTop, FreshAccount, At, Counted
<1> QED  BY <1>4, <1>6, <1>7 DEF InsightInv, Fresh

\* What a query must see to for the invariant to hold after it
LEMMA ReadInsight ==
  ASSUME InsightInv, NEW next \in Stages \ {"idle"}, NEW fields, Read(next, fields), ~At("idle"),
         "side" \notin DOMAIN fields,
         \A f \in DOMAIN fields \cap DOMAIN Now : fields[f] = Now[f],
         "analytics" \in DOMAIN fields =>
            \E rows \in NewestOf(Closed(trades)) : fields.analytics = BuildAnalytics(rows),
         "top" \in DOMAIN fields => moved \/ fields.top \in TopOf(ActiveMasters)
  PROVE  /\ call'.kind = call.kind /\ call'.stage = next
         /\ DOMAIN call'.read = DOMAIN call.read \cup DOMAIN fields
         /\ UNCHANGED <<trades, active, others, moved>>
         /\ Progress' /\ (moved \/ FreshAccount') => InsightInv'
<1>1. /\ Shaped'
      /\ call'.kind = call.kind /\ call'.stage = next
      /\ DOMAIN call'.read = DOMAIN call.read \cup DOMAIN fields
      /\ \A f \in DOMAIN fields : call'.read[f] = fields[f]
      /\ \A f \in DOMAIN call.read \ DOMAIN fields : call'.read[f] = call.read[f]
      /\ UNCHANGED <<trades, text, active, others, moved>>
  BY ReadStep DEF InsightInv
<1>2. ASSUME ~moved PROVE FreshFields' /\ FreshSide' /\ FreshTop' /\ FreshAnalytics'
  <2>0. FreshFields' /\ FreshSide'  BY <1>2, ReadFresh DEF InsightInv
  <2>t. FreshTop'
    <3>1. FreshTop  BY <1>2 DEF InsightInv, Fresh
    <3>2. ActiveMasters' = ActiveMasters  BY <1>1 DEF ActiveMasters
    <3>3. CASE "top" \in DOMAIN fields  BY <1>1, <1>2, <3>2, <3>3 DEF FreshTop
    <3>4. CASE "top" \notin DOMAIN fields  BY <1>1, <3>1, <3>2, <3>4 DEF FreshTop
    <3> QED  BY <3>3, <3>4
  <2>1. FreshFields' /\ FreshSide' /\ FreshTop'  BY <2>0, <2>t
  <2>2. FreshAnalytics  BY <1>2 DEF InsightInv, Fresh
  <2>3. CASE "analytics" \in DOMAIN fields
    <3>1. PICK rows \in NewestOf(Closed(trades)) : fields.analytics = BuildAnalytics(rows)
      BY <2>3
    <3>2. call'.read.analytics = fields.analytics  BY <1>1, <2>3
    <3>3. NewestOf(Closed(trades))' = NewestOf(Closed(trades))  BY <1>1
    <3>4. FreshAnalytics'  BY <3>1, <3>2, <3>3 DEF FreshAnalytics
    <3> QED  BY <2>1, <3>4
  <2>4. CASE "analytics" \notin DOMAIN fields
    <3>1. HasFigures' => HasFigures /\ call'.read.analytics = call.read.analytics
      BY <1>1, <2>4 DEF HasFigures
    <3>3. NewestOf(Closed(trades))' = NewestOf(Closed(trades))  BY <1>1
    <3>4. FreshAnalytics'  BY <2>2, <3>1, <3>3 DEF FreshAnalytics
    <3> QED  BY <2>1, <3>4
  <2> QED  BY <2>3, <2>4
<1> QED  BY <1>1, <1>2 DEF InsightInv, Fresh

LEMMA ListMastersInsight ==
  ASSUME InsightInv, ListMasters
  PROVE  InsightInv'
<1> DEFINE next == CASE active -> "find"
                     [] ~active /\ call.kind = "top" -> "rank"
                     [] OTHER -> "done"
           fields == [listed |-> active, others |-> others]
<1>a. active \in BOOLEAN  BY DEF InsightInv, Shaped
<1>b. /\ active => next = "find"
      /\ ~active /\ call.kind = "top" => next = "rank"
      /\ ~active /\ call.kind # "top" => next = "done"
      /\ next \in Stages \ {"idle"}
  BY <1>a DEF Stages
<1>1. At("list") /\ Read(next, fields) /\ next \in Stages \ {"idle"}  BY <1>b DEF ListMasters
<1>2. DOMAIN fields = {"listed", "others"} /\ fields.listed = active /\ fields.others = others
  OBVIOUS
<1> HIDE DEF fields, next
<1>3. ~At("idle")  BY <1>1 DEF At
<1>4. \A f \in DOMAIN fields \cap DOMAIN Now : fields[f] = Now[f]  BY <1>2, NowFields
<1>5. /\ call'.kind = call.kind /\ call'.stage = next
      /\ DOMAIN call'.read = DOMAIN call.read \cup DOMAIN fields
      /\ UNCHANGED <<trades, active, others, moved>>
      /\ Progress' /\ (moved \/ FreshAccount') => InsightInv'
  BY <1>1, <1>2, <1>3, <1>4, ReadInsight
<1>6. ~HasFigures /\ Progress  BY <1>1 DEF InsightInv, Progress, At
<1>7. ~HasFigures'  BY <1>2, <1>5, <1>6 DEF HasFigures
<1>8. Progress'
  BY <1>1, <1>2, <1>5, <1>6, <1>7, <1>a, <1>b DEF Progress, At, Counted
<1>9. moved \/ FreshAccount'
  BY <1>1, <1>5, <1>7, <1>a, <1>b DEF FreshAccount, At, Counted
<1> QED  BY <1>5, <1>8, <1>9


LEMMA FindMasterInsight ==
  ASSUME InsightInv, FindMaster
  PROVE  InsightInv'
<1> DEFINE next == CASE active -> "countAll"
                     [] ~active /\ call.kind = "market" -> "done"
                     [] OTHER -> "notFound"
           fields == <<>>
<1>1. At("find") /\ Read(next, fields)  BY DEF FindMaster
<1>b. /\ active => next = "countAll"
      /\ ~active /\ call.kind = "market" => next = "done"
      /\ ~active /\ call.kind # "market" => next = "notFound"
  OBVIOUS
<1>2. DOMAIN fields = {} /\ next \in Stages \ {"idle"}  BY DEF Stages
<1> HIDE DEF fields, next
<1>3. ~At("idle")  BY <1>1 DEF At
<1>4. \A f \in DOMAIN fields \cap DOMAIN Now : fields[f] = Now[f]  BY <1>2
<1>5. /\ call'.kind = call.kind /\ call'.stage = next
      /\ DOMAIN call'.read = DOMAIN call.read \cup DOMAIN fields
      /\ UNCHANGED <<trades, active, others, moved>>
      /\ Progress' /\ (moved \/ FreshAccount') => InsightInv'
  BY <1>1, <1>2, <1>3, <1>4, ReadInsight
<1>6. ~HasFigures /\ Progress  BY <1>1 DEF InsightInv, Progress, At
<1>7. ~HasFigures'  BY <1>2, <1>5, <1>6 DEF HasFigures
<1>a. active \in BOOLEAN  BY DEF InsightInv, Shaped
<1>8. Progress'
  BY <1>1, <1>2, <1>5, <1>6, <1>7, <1>a, <1>b DEF Progress, At, Counted
<1>9. moved \/ FreshAccount'
  BY <1>1, <1>5, <1>7, <1>b DEF InsightInv, Fresh, FreshAccount, At, Counted
<1> QED  BY <1>5, <1>8, <1>9

LEMMA CountAllInsight ==
  ASSUME InsightInv, CountAll
  PROVE  InsightInv'
<1> DEFINE fields == [totalTrades |-> Len(trades)]
<1>1. At("countAll") /\ Read("countClosed", fields)  BY DEF CountAll
<1>2. DOMAIN fields = {"totalTrades"} /\ fields.totalTrades = Len(trades)  OBVIOUS
<1> HIDE DEF fields
<1>3. ~At("idle") /\ "countClosed" \in Stages \ {"idle"}  BY <1>1 DEF At, Stages
<1>4. \A f \in DOMAIN fields \cap DOMAIN Now : fields[f] = Now[f]  BY <1>2, NowFields
<1>5. /\ call'.kind = call.kind /\ call'.stage = "countClosed"
      /\ DOMAIN call'.read = DOMAIN call.read \cup DOMAIN fields
      /\ UNCHANGED <<trades, active, others, moved>>
      /\ Progress' /\ (moved \/ FreshAccount') => InsightInv'
  BY <1>1, <1>2, <1>3, <1>4, ReadInsight
<1>6. ~HasFigures /\ Progress  BY <1>1 DEF InsightInv, Progress, At
<1>7. ~HasFigures'  BY <1>2, <1>5, <1>6 DEF HasFigures
<1>8. Progress'  BY <1>1, <1>2, <1>5, <1>6, <1>7 DEF Progress, At, Counted
<1>9. moved \/ FreshAccount'
  BY <1>1, <1>5 DEF InsightInv, Fresh, FreshAccount, At, Counted
<1> QED  BY <1>5, <1>8, <1>9

LEMMA CountClosedInsight ==
  ASSUME InsightInv, CountClosed
  PROVE  InsightInv'
<1> DEFINE fields == [closedTrades |-> Len(Closed(trades))]
<1>1. At("countClosed") /\ Read("closedRows", fields)  BY DEF CountClosed
<1>2. DOMAIN fields = {"closedTrades"} /\ fields.closedTrades = Len(Closed(trades))  OBVIOUS
<1> HIDE DEF fields
<1>3. ~At("idle") /\ "closedRows" \in Stages \ {"idle"}  BY <1>1 DEF At, Stages
<1>4. \A f \in DOMAIN fields \cap DOMAIN Now : fields[f] = Now[f]  BY <1>2, NowFields
<1>5. /\ call'.kind = call.kind /\ call'.stage = "closedRows"
      /\ DOMAIN call'.read = DOMAIN call.read \cup DOMAIN fields
      /\ UNCHANGED <<trades, active, others, moved>>
      /\ Progress' /\ (moved \/ FreshAccount') => InsightInv'
  BY <1>1, <1>2, <1>3, <1>4, ReadInsight
<1>6. ~HasFigures /\ Progress /\ "totalTrades" \in DOMAIN call.read
  BY <1>1 DEF InsightInv, Progress, At, Counted
<1>7. ~HasFigures'  BY <1>2, <1>5, <1>6 DEF HasFigures
<1>8. Progress'  BY <1>1, <1>2, <1>5, <1>6, <1>7 DEF Progress, At, Counted
<1>9. moved \/ FreshAccount'
  BY <1>1, <1>5 DEF InsightInv, Fresh, FreshAccount, At, Counted
<1> QED  BY <1>5, <1>8, <1>9

LEMMA ReadClosedInsight ==
  ASSUME InsightInv, ReadClosed
  PROVE  InsightInv'
<1> DEFINE fields == [winningTrades |-> Wins(Closed(trades)), totalPnL |-> PnlOf(Closed(trades))]
<1>1. At("closedRows") /\ Read("allRows", fields)  BY DEF ReadClosed
<1>2. /\ DOMAIN fields = {"winningTrades", "totalPnL"}
      /\ fields.winningTrades = Wins(Closed(trades)) /\ fields.totalPnL = PnlOf(Closed(trades))
  OBVIOUS
<1> HIDE DEF fields
<1>3. ~At("idle") /\ "allRows" \in Stages \ {"idle"}  BY <1>1 DEF At, Stages
<1>4. \A f \in DOMAIN fields \cap DOMAIN Now : fields[f] = Now[f]  BY <1>2, NowFields
<1>5. /\ call'.kind = call.kind /\ call'.stage = "allRows"
      /\ DOMAIN call'.read = DOMAIN call.read \cup DOMAIN fields
      /\ UNCHANGED <<trades, active, others, moved>>
      /\ Progress' /\ (moved \/ FreshAccount') => InsightInv'
  BY <1>1, <1>2, <1>3, <1>4, ReadInsight
<1>6. /\ ~HasFigures /\ Progress /\ "totalTrades" \in DOMAIN call.read
      /\ "closedTrades" \in DOMAIN call.read
  BY <1>1 DEF InsightInv, Progress, At, Counted
<1>7. ~HasFigures'  BY <1>2, <1>5, <1>6 DEF HasFigures
<1>8. Progress'  BY <1>1, <1>2, <1>5, <1>6, <1>7 DEF Progress, At, Counted
<1>9. moved \/ FreshAccount'
  BY <1>1, <1>5 DEF InsightInv, Fresh, FreshAccount, At, Counted
<1> QED  BY <1>5, <1>8, <1>9

LEMMA ReadVolumesInsight ==
  ASSUME InsightInv, ReadVolumes
  PROVE  InsightInv'
<1> DEFINE fields == [totalVolume |-> Len(trades)]
<1>1. At("allRows") /\ Read("newest", fields)  BY DEF ReadVolumes
<1>2. DOMAIN fields = {"totalVolume"} /\ fields.totalVolume = Len(trades)  OBVIOUS
<1> HIDE DEF fields
<1>3. ~At("idle") /\ "newest" \in Stages \ {"idle"}  BY <1>1 DEF At, Stages
<1>4. \A f \in DOMAIN fields \cap DOMAIN Now : fields[f] = Now[f]  BY <1>2, NowFields
<1>5. /\ call'.kind = call.kind /\ call'.stage = "newest"
      /\ DOMAIN call'.read = DOMAIN call.read \cup DOMAIN fields
      /\ UNCHANGED <<trades, active, others, moved>>
      /\ Progress' /\ (moved \/ FreshAccount') => InsightInv'
  BY <1>1, <1>2, <1>3, <1>4, ReadInsight
<1>6. /\ ~HasFigures /\ Progress /\ "totalTrades" \in DOMAIN call.read
      /\ "closedTrades" \in DOMAIN call.read /\ {"winningTrades", "totalPnL"} \subseteq DOMAIN call.read
  BY <1>1 DEF InsightInv, Progress, At, Counted
<1>7. ~HasFigures'  BY <1>2, <1>5, <1>6 DEF HasFigures
<1>8. Progress'  BY <1>1, <1>2, <1>5, <1>6, <1>7 DEF Progress, At, Counted
<1>9. moved \/ FreshAccount'
  BY <1>1, <1>5 DEF InsightInv, Fresh, FreshAccount, At, Counted
<1> QED  BY <1>5, <1>8, <1>9

LEMMA ReadNewestInsight ==
  ASSUME InsightInv, ReadNewest
  PROVE  InsightInv'
<1>r. PICK rows \in NewestOf(Closed(trades)) :
        Read(CASE call.kind = "dashboard" -> "recent"
               [] call.kind = "top" -> "openTrades"
               [] OTHER -> "done",
             [analytics |-> BuildAnalytics(rows)])
  BY DEF ReadNewest
<1> DEFINE next == CASE call.kind = "dashboard" -> "recent"
                     [] call.kind = "top" -> "openTrades"
                     [] OTHER -> "done"
           fields == [analytics |-> BuildAnalytics(rows)]
<1>1. At("newest") /\ Read(next, fields)  BY <1>r DEF ReadNewest
<1>2. DOMAIN fields = {"analytics"} /\ fields.analytics = BuildAnalytics(rows)  OBVIOUS
<1>b. /\ call.kind = "dashboard" => next = "recent"
      /\ call.kind = "top" => next = "openTrades"
      /\ call.kind \notin {"dashboard", "top"} => next = "done"
      /\ next \in Stages \ {"idle"}
  BY DEF Stages
<1> HIDE DEF fields, next
<1>3. ~At("idle")  BY <1>1 DEF At
<1>4. \A f \in DOMAIN fields \cap DOMAIN Now : fields[f] = Now[f]  BY <1>2, NowFields
<1>5. /\ call'.kind = call.kind /\ call'.stage = next
      /\ DOMAIN call'.read = DOMAIN call.read \cup DOMAIN fields
      /\ UNCHANGED <<trades, active, others, moved>>
      /\ Progress' /\ (moved \/ FreshAccount') => InsightInv'
  BY <1>1, <1>2, <1>3, <1>4, <1>b, ReadInsight
<1>6. Progress /\ Figures \subseteq DOMAIN call.read
  BY <1>1 DEF InsightInv, Progress, At, Counted, Figures
<1>7. HasFigures' /\ Figures \subseteq DOMAIN call'.read  BY <1>2, <1>5, <1>6 DEF HasFigures
<1>8. next \in {"recent", "openTrades", "done"}  BY <1>b
<1>c. Progress'
  BY <1>1, <1>2, <1>5, <1>6, <1>7, <1>8, <1>b DEF Progress, At, Counted
<1>9. moved \/ FreshAccount'
  BY <1>1, <1>5, <1>7, <1>8 DEF InsightInv, Fresh, FreshAccount, At, Counted
<1> QED  BY <1>5, <1>c, <1>9

LEMMA ReadRecentInsight ==
  ASSUME InsightInv, ReadRecent
  PROVE  InsightInv'
<1> DEFINE fields == [recentTrades |-> First(Reverse(trades), RecentCap)]
<1>1. At("recent") /\ Read("openTrades", fields)  BY DEF ReadRecent
<1>2. DOMAIN fields = {"recentTrades"} /\ fields.recentTrades = First(Reverse(trades), RecentCap)
  OBVIOUS
<1> HIDE DEF fields
<1>3. ~At("idle") /\ "openTrades" \in Stages \ {"idle"}  BY <1>1 DEF At, Stages
<1>4. \A f \in DOMAIN fields \cap DOMAIN Now : fields[f] = Now[f]  BY <1>2, NowFields
<1>5. /\ call'.kind = call.kind /\ call'.stage = "openTrades"
      /\ DOMAIN call'.read = DOMAIN call.read \cup DOMAIN fields
      /\ UNCHANGED <<trades, active, others, moved>>
      /\ Progress' /\ (moved \/ FreshAccount') => InsightInv'
  BY <1>1, <1>2, <1>3, <1>4, ReadInsight
<1>6. HasFigures /\ Progress /\ Figures \subseteq DOMAIN call.read
  BY <1>1 DEF InsightInv, Progress, At
<1>7. HasFigures' /\ Figures \subseteq DOMAIN call'.read  BY <1>2, <1>5, <1>6 DEF HasFigures
<1>8. Progress'  BY <1>1, <1>2, <1>5, <1>6, <1>7 DEF Progress, At, Counted
<1>9. moved \/ FreshAccount'
  BY <1>1, <1>5 DEF InsightInv, Fresh, FreshAccount, At, Counted
<1> QED  BY <1>5, <1>8, <1>9

LEMMA CountOpenInsight ==
  ASSUME InsightInv, CountOpen
  PROVE  InsightInv'
<1> DEFINE next == IF call.kind = "top" THEN "rank" ELSE "done"
           fields == [openTrades |-> Len(trades) - Len(Closed(trades))]
<1>1. At("openTrades") /\ Read(next, fields)  BY DEF CountOpen
<1>b. (call.kind = "top" => next = "rank") /\ (call.kind # "top" => next = "done")  OBVIOUS
<1>2. DOMAIN fields = {"openTrades"} /\ fields.openTrades = Len(trades) - Len(Closed(trades))
  OBVIOUS
<1> HIDE DEF fields, next
<1>3. ~At("idle") /\ next \in Stages \ {"idle"}  BY <1>1, <1>b DEF At, Stages
<1>4. \A f \in DOMAIN fields \cap DOMAIN Now : fields[f] = Now[f]  BY <1>2, NowFields
<1>5. /\ call'.kind = call.kind /\ call'.stage = next
      /\ DOMAIN call'.read = DOMAIN call.read \cup DOMAIN fields
      /\ UNCHANGED <<trades, active, others, moved>>
      /\ Progress' /\ (moved \/ FreshAccount') => InsightInv'
  BY <1>1, <1>2, <1>3, <1>4, ReadInsight
<1>6. HasFigures /\ Progress /\ Figures \subseteq DOMAIN call.read
  BY <1>1 DEF InsightInv, Progress, At
<1>7. HasFigures' /\ Figures \subseteq DOMAIN call'.read  BY <1>2, <1>5, <1>6 DEF HasFigures
<1>8. Progress'  BY <1>1, <1>2, <1>5, <1>6, <1>7, <1>b DEF Progress, At, Counted
<1>9. moved \/ FreshAccount'
  BY <1>1, <1>5, <1>7, <1>b DEF InsightInv, Fresh, FreshAccount, At, Counted
<1> QED  BY <1>5, <1>8, <1>9

\* The top masters are those of the active ones, as long as nothing has changed.
LEMMA RankMastersInsight ==
  ASSUME InsightInv, RankMasters
  PROVE  InsightInv'
<1> DEFINE mine == IF HasFigures THEN <<Ranking(TRUE, call.read.totalTrades)>> ELSE <<>>
<1>1. At("rank") /\ ~At("idle") /\ call.kind = "top" /\ "others" \in DOMAIN call.read
      /\ {"done", "notFound"} \subseteq Stages \ {"idle"}
  BY DEF RankMasters, InsightInv, Progress, At, Stages
<1>2. HasFigures => Figures \subseteq DOMAIN call.read  BY DEF InsightInv, Progress
<1>3. CASE call.read.others # others /\ Read("notFound", <<>>)
  <2> DEFINE fields == <<>>
  <2>1. DOMAIN fields = {} /\ Read("notFound", fields)  BY <1>3
  <2> HIDE DEF fields
  <2>2. /\ call'.kind = call.kind /\ call'.stage = "notFound"
        /\ DOMAIN call'.read = DOMAIN call.read \cup DOMAIN fields
        /\ Progress' /\ (moved \/ FreshAccount') => InsightInv'
    BY <1>1, <2>1, ReadInsight
  <2>3. HasFigures' <=> HasFigures  BY <2>1, <2>2 DEF HasFigures
  <2>4. Progress'  BY <1>1, <1>2, <2>1, <2>2, <2>3 DEF Progress, At, Counted
  <2>5. moved
    <3>1. ~moved => call.read.others = others
      BY <1>1, NowFields DEF InsightInv, Fresh, FreshFields
    <3>2. moved \in BOOLEAN  BY DEF InsightInv, Shaped
    <3> QED  BY <1>3, <3>1, <3>2
  <2> QED  BY <2>2, <2>4, <2>5
<1>4. CASE \E top \in TopOf(Listing(call.read.others, mine)) : Read("done", [top |-> top])
  <2>0. PICK top \in TopOf(Listing(call.read.others, mine)) : Read("done", [top |-> top])
    BY <1>4
  <2> DEFINE fields == [top |-> top]
  <2>1. DOMAIN fields = {"top"} /\ fields.top = top /\ Read("done", fields)  BY <2>0
  <2> HIDE DEF fields
  <2>2. moved \/ top \in TopOf(ActiveMasters)
    <3> SUFFICES ASSUME ~moved PROVE top \in TopOf(ActiveMasters)  OBVIOUS
    <3>1. call.read.others = others
      BY <1>1, NowFields DEF InsightInv, Fresh, FreshFields
    <3>2. HasFigures <=> active  BY <1>1 DEF InsightInv, Fresh, FreshAccount
    <3>3. HasFigures => call.read.totalTrades = Len(trades)
      BY <1>2, NowFields DEF InsightInv, Fresh, FreshFields, Figures
    <3>4. mine = IF active THEN <<Ranking(TRUE, Len(trades))>> ELSE <<>>
      BY <3>2, <3>3
    <3> HIDE DEF mine
    <3> QED  BY <2>0, <3>1, <3>4 DEF ActiveMasters
  <2>3. \A f \in DOMAIN fields \cap DOMAIN Now : fields[f] = Now[f]  BY <2>1, NowFields
  <2>4. /\ call'.kind = call.kind /\ call'.stage = "done"
        /\ DOMAIN call'.read = DOMAIN call.read \cup DOMAIN fields
        /\ UNCHANGED <<trades, active, others, moved>>
        /\ Progress' /\ (moved \/ FreshAccount') => InsightInv'
    BY <1>1, <2>1, <2>2, <2>3, ReadInsight
  <2>5. HasFigures' <=> HasFigures  BY <2>1, <2>4 DEF HasFigures
  <2>6. Progress'  BY <1>1, <1>2, <2>1, <2>4, <2>5 DEF Progress, At, Counted
  <2>7. moved \/ FreshAccount'
    BY <1>1, <2>4, <2>5 DEF InsightInv, Fresh, FreshAccount, At, Counted
  <2> QED  BY <2>4, <2>6, <2>7
<1> QED  BY <1>3, <1>4 DEF RankMasters

LEMMA ReadSideInsight ==
  ASSUME InsightInv, ReadSide
  PROVE  InsightInv'
<1> DEFINE answer == IF call.kind = "detail" THEN First(Reverse(trades), HistoryCap)
                     ELSE Len(ActiveMasters)
           old == call.read
           new == [old EXCEPT !.side = answer]
<1>1. /\ call' = [call EXCEPT !.read.side = answer]
      /\ UNCHANGED <<trades, text, active, others, moved>> /\ call.kind \in {"detail", "top"}
  BY DEF ReadSide
<1>2. Shaped /\ "side" \in DOMAIN old  BY <1>1 DEF InsightInv, Shaped
<1>3. /\ DOMAIN call' = DOMAIN call /\ call'.kind = call.kind /\ call'.stage = call.stage
      /\ call'.read = new
  BY <1>1, <1>2 DEF Shaped
<1> HIDE DEF old, answer
<1>4. /\ DOMAIN new = DOMAIN old /\ new.side = answer
      /\ \A f \in DOMAIN old \ {"side"} : new[f] = old[f]
  BY <1>2
<1> HIDE DEF new
<1>5. Shaped'  BY <1>1, <1>2, <1>3, <1>4 DEF Shaped, At, old
<1>6. HasFigures' <=> HasFigures  BY <1>3, <1>4 DEF HasFigures, old
<1>7. Progress'  BY <1>3, <1>4, <1>6 DEF InsightInv, Progress, At, old
<1>8. ASSUME ~moved'
      PROVE  FreshFields' /\ FreshAnalytics' /\ FreshSide' /\ FreshTop' /\ FreshAccount'
  <2>1. FreshFields /\ FreshAnalytics /\ FreshTop /\ FreshAccount  BY <1>1, <1>8 DEF InsightInv, Fresh
  <2>2. Now' = Now  BY <1>1 DEF Now
  <2>3. FreshFields'  BY <1>3, <1>4, <2>1, <2>2, NowFields DEF FreshFields, old
  <2>4. FreshAnalytics'
    <3>1. NewestOf(Closed(trades))' = NewestOf(Closed(trades))  BY <1>1
    <3>2. HasFigures => call'.read.analytics = call.read.analytics
      BY <1>3, <1>4 DEF HasFigures, old
    <3> QED  BY <1>6, <2>1, <3>1, <3>2 DEF FreshAnalytics
  <2>0. ActiveMasters' = ActiveMasters  BY <1>1 DEF ActiveMasters
  <2>5. FreshSide'  BY <1>1, <1>3, <1>4, <2>0 DEF FreshSide, SideNow, answer
  <2>7. FreshTop'  BY <1>3, <1>4, <2>0, <2>1 DEF FreshTop, old
  <2>6. FreshAccount'  BY <1>1, <1>3, <1>6, <2>1 DEF FreshAccount, At
  <2> QED  BY <2>3, <2>4, <2>5, <2>6, <2>7
<1> QED  BY <1>5, <1>7, <1>8 DEF InsightInv, Fresh

LEMMA NextInsight ==
  ASSUME InsightInv, [Next]_vars
  PROVE  InsightInv'
<1>1. CASE OpenTrade  BY <1>1, OpenTradeInsight
<1>2. CASE SwitchMaster  BY <1>2, SwitchInsight
<1>3. CASE \E i \in DOMAIN trades : CloseTrade(i)  BY <1>3, CloseTradeInsight
<1>4. CASE \E kind \in Kinds : Begin(kind)  BY <1>4, BeginInsight
<1>5. CASE ListMasters  BY <1>5, ListMastersInsight
<1>6. CASE FindMaster  BY <1>6, FindMasterInsight
<1>7. CASE CountAll  BY <1>7, CountAllInsight
<1>8. CASE CountClosed  BY <1>8, CountClosedInsight
<1>9. CASE ReadClosed  BY <1>9, ReadClosedInsight
<1>10. CASE ReadVolumes  BY <1>10, ReadVolumesInsight
<1>11. CASE ReadNewest  BY <1>11, ReadNewestInsight
<1>12. CASE ReadRecent  BY <1>12, ReadRecentInsight
<1>13. CASE CountOpen  BY <1>13, CountOpenInsight
<1>14. CASE ReadSide  BY <1>14, ReadSideInsight
<1>15. CASE Leave  BY <1>15, LeaveInsight
<1>16. CASE UNCHANGED vars  BY <1>16, StutterInsight
<1>17. CASE OthersChange  BY <1>17, OthersInsight
<1>18. CASE RankMasters  BY <1>18, RankMastersInsight
<1> QED
  BY <1>1, <1>2, <1>3, <1>4, <1>5, <1>6, <1>7, <1>8, <1>9, <1>10, <1>11, <1>12, <1>13, <1>14,
     <1>15, <1>16, <1>17, <1>18 DEF Next, Server

\* An answer in the making is typed, holds what the queries behind it answered, and, as
\* long as no write came between, holds it as the tables still have it.
THEOREM InsightInvariant == Spec => []InsightInv
<1>1. Init => InsightInv  BY InitInsight
<1>2. InsightInv /\ [Next]_vars => InsightInv'  BY NextInsight
<1> QED  BY <1>1, <1>2, PTL DEF Spec


-----------------------------------------------------------------------------
(* What follows for an answer that no write overtook *)

LEMMA AnswerIsFresh ==
  ASSUME InsightInv, Answered, ~moved
  PROVE  /\ call.read.totalTrades = Len(trades) /\ call.read.closedTrades = Len(Closed(trades))
         /\ call.read.winningTrades = Wins(Closed(trades))
         /\ call.read.totalPnL = PnlOf(Closed(trades)) /\ call.read.totalVolume = Len(trades)
         /\ call.kind = "dashboard" =>
                /\ call.read.recentTrades = First(Reverse(trades), RecentCap)
                /\ call.read.openTrades = Len(trades) - Len(Closed(trades))
         /\ trades \in Seq(Rows) /\ text \in {start.text : start \in Starts}
<1>1. Figures \subseteq DOMAIN call.read  BY DEF InsightInv, Progress, Answered
<1>2. call.kind = "dashboard" => {"recentTrades", "openTrades"} \subseteq DOMAIN call.read
  BY DEF InsightInv, Progress, Answered, At
<1>3. \A f \in DOMAIN call.read \cap DOMAIN Now : call.read[f] = Now[f]
  BY DEF InsightInv, Fresh, FreshFields
<1> QED  BY <1>1, <1>2, <1>3, NowFields DEF Figures, InsightInv, Shaped

\* The analytics are of the newest closed rows, oldest first, and there are none only
\* when no row is closed.
LEMMA AnalyticsAreFresh ==
  ASSUME InsightInv, HasFigures, ~moved
  PROVE  \E rows \in NewestOf(Closed(trades)) :
            /\ call.read.analytics = BuildAnalytics(rows)
            /\ rows \in Seq(Summable) /\ Sorted(rows)
            /\ rows = <<>> <=> Closed(trades) = <<>>
<1>1. PICK rows \in NewestOf(Closed(trades)) : call.read.analytics = BuildAnalytics(rows)
  BY DEF InsightInv, Fresh, FreshAnalytics
<1> DEFINE q == Closed(trades)
<1>2. q \in Seq(Summable)
  <2>1. trades \in Seq(Summable)  BY RowsAreSummable DEF InsightInv, Shaped
  <2>2. q \in Seq(ClosedRows)  BY <2>1, ClosedPicks
  <2> HIDE DEF q
  <2> QED  BY <2>2, SeqMonotonic DEF ClosedRows
<1>3. rows \in NewestOf(q)  BY <1>1
<1> HIDE DEF q
<1>4. Summable \in SUBSET Summable  OBVIOUS
<1>5. rows \in Seq(Summable) /\ Sorted(rows) /\ (rows = <<>> <=> q = <<>>)
  BY <1>2, <1>3, <1>4, NewestSorted
<1> QED  BY <1>1, <1>5 DEF q

LEMMA AnalyticsAnswer ==
  ASSUME InsightInv, HasFigures, ~moved
  PROVE  /\ Closed(trades) = <<>> => call.read.analytics = None
         /\ Closed(trades) # <<>> =>
                /\ call.read.analytics \in Analytics
                /\ \E rows \in NewestOf(Closed(trades)) :
                    Len(rows) \in Nat /\ Exact(call.read.analytics, rows)
<1>1. PICK rows \in NewestOf(Closed(trades)) :
            /\ call.read.analytics = BuildAnalytics(rows)
            /\ rows \in Seq(Summable) /\ Sorted(rows)
            /\ rows = <<>> <=> Closed(trades) = <<>>
  BY AnalyticsAreFresh
<1>2. rows = <<>> => BuildAnalytics(rows) = None  BY DEF BuildAnalytics
<1>3. rows # <<>> => BuildAnalytics(rows) \in Analytics /\ Exact(BuildAnalytics(rows), rows)
  BY <1>1, AnalyticsReference
<1> QED  BY <1>1, <1>2, <1>3

LEMMA AnalyticsHolds == InsightInv => AnalyticsExact
<1> SUFFICES ASSUME InsightInv, Answered, ~moved PROVE AnalyticsExact
  BY DEF AnalyticsExact
<1>1. HasFigures  BY DEF Answered
<1>2. CASE Closed(trades) = <<>>  BY <1>1, <1>2, AnalyticsAnswer DEF AnalyticsExact
<1>3. CASE Closed(trades) # <<>>
  <2> DEFINE a == call.read.analytics
             s == a.sparkline
             drawn == EquityCurve(s, 64)
  <2>1. PICK rows \in NewestOf(Closed(trades)) : Len(rows) \in Nat /\ Exact(a, rows)
    BY <1>1, <1>3, AnalyticsAnswer
  <2>2. /\ a.riskMetrics = RiskReference(rows)
        /\ a.activeFrom \in 0 .. 20
        /\ \A h \in 0 .. 20 : InWindow(rows, h) <= InWindow(rows, a.activeFrom)
        /\ Len(rows) < 2 => s = <<>>
    BY <2>1 DEF Exact
  <2>3. ASSUME ~(Len(rows) < 2)
        PROVE  /\ Len(s) = (IF Len(rows) < SparklinePoints THEN Len(rows) ELSE SparklinePoints)
               /\ s[1] = rows[1].pnl
               /\ Last(s) = PnlOf(rows)
               /\ \E f \in [DOMAIN s -> DOMAIN rows] :
                    /\ \A i \in DOMAIN f : s[i] = SumTo(rows, f[i])
                    /\ \A i, j \in DOMAIN f : i < j => f[i] < f[j]
               /\ \A i \in DOMAIN drawn : drawn[i] \in 10 .. 54
               /\ \A i, j \in DOMAIN drawn : s[i] <= s[j] => drawn[j] <= drawn[i]
    <3>1. Len(rows) >= 2  BY <2>1, <2>3
    <3>2. Samples(s, rows) /\ Framed(drawn, s)  BY <2>1, <3>1 DEF Exact
    <3>3. /\ \A i \in DOMAIN drawn : drawn[i] \in 10 .. 54
          /\ \A i, j \in DOMAIN drawn : s[i] <= s[j] => drawn[j] <= drawn[i]
      BY <3>2 DEF Framed
    <3> HIDE DEF drawn, s
    <3> QED  BY <3>2, <3>3 DEF Samples
  <2> QED  BY <1>3, <2>2, <2>3, Zenon DEF AnalyticsExact
<1> QED  BY <1>2, <1>3

LEMMA FirstProperties ==
  ASSUME NEW R, NEW s \in Seq(R), NEW n \in Nat
  PROVE  /\ First(s, n) \in Seq(R)
         /\ Len(First(s, n)) = IF Len(s) < n THEN Len(s) ELSE n
         /\ \A i \in 1 .. Len(First(s, n)) : First(s, n)[i] = s[i] /\ i \in 1 .. Len(s)
         /\ Len(s) <= n => First(s, n) = s
<1> DEFINE k == IF Len(s) < n THEN Len(s) ELSE n
           q == First(s, n)
<1>1. Len(s) \in Nat /\ k \in 0 .. Len(s) /\ (Len(s) <= n => k = Len(s))  BY LenProperties
<1>2. \A i \in 1 .. k : s[i] \in R  BY <1>1, ElementOfSeq
<1>3. q = SubSeq(s, 1, k)  BY DEF First
<1> HIDE DEF k, q
<1>4. /\ q \in Seq(R) /\ Len(q) = IF 1 <= k THEN k - 1 + 1 ELSE 0
      /\ \A i \in 1 .. (k - 1 + 1) : q[i] = s[1 + i - 1]
  BY <1>1, <1>2, <1>3, SubSeqProperties
<1>5. Len(q) = k /\ \A i \in 1 .. k : q[i] = s[i] /\ i \in 1 .. Len(s)  BY <1>1, <1>4
<1>6. ASSUME Len(s) <= n PROVE q = s
  <2>1. Len(q) = Len(s) /\ \A i \in 1 .. Len(q) : q[i] = s[i]  BY <1>1, <1>5, <1>6
  <2> QED  BY <1>4, <2>1, SeqEqual
<1> QED  BY <1>4, <1>5, <1>6 DEF k, q

LEMMA ProfileIs ==
  ASSUME InsightInv, Answered, ~moved
  PROVE  /\ Profile.totalTrades = Len(trades) /\ Profile.closedTrades = Len(Closed(trades))
         /\ Profile.winRate = Percent(Wins(Closed(trades)), Len(Closed(trades)))
         /\ Profile.totalPnL = PnlOf(trades)
         /\ Profile.avgVolume = IF trades = <<>> THEN 0 ELSE 100
         /\ Profile.bio = text.bio /\ Profile.platform = text.platform
         /\ Profile.strategy = text.strategy /\ Profile.risk = text.risk
         /\ Profile.isLive = FALSE
         /\ Profile.riskMetrics = OfAnalytics("riskMetrics")
         /\ Profile.activeFrom = OfAnalytics("activeFrom")
         /\ Profile \in Profiles
<1> DEFINE n == Len(trades)
           m == Len(Closed(trades))
           w == Wins(Closed(trades))
           volume == IF call.read.totalTrades = 0 THEN 0
                     ELSE Hundredths(call.read.totalVolume, call.read.totalTrades)
           rate == Percent(call.read.winningTrades, call.read.closedTrades)
<1>1. /\ call.read.totalTrades = n /\ call.read.closedTrades = m
      /\ call.read.winningTrades = w
      /\ call.read.totalPnL = PnlOf(Closed(trades)) /\ call.read.totalVolume = n
      /\ trades \in Seq(Rows) /\ text \in {start.text : start \in Starts}
  BY AnswerIsFresh
<1>2. n \in Nat /\ m \in Nat /\ w \in Nat /\ PnlOf(trades) \in Int
  BY <1>1, CountsBounded
<1>3. trades = <<>> <=> n = 0  BY <1>1, EmptySeq
<1>4. call.read.totalPnL = PnlOf(trades)  BY <1>1, ClosedPnl
<1>5. rate = Percent(w, m) /\ rate \in Nat  BY <1>1, <1>2, PercentTyped
<1>6. volume = (IF trades = <<>> THEN 0 ELSE 100)
  <2> HIDE DEF n
  <2>1. n # 0 => Hundredths(n, n) = 100  BY <1>2, HundredthsOne
  <2> QED  BY <1>1, <1>3, <2>1
<1>7. volume \in Nat  BY <1>6
<1>8. /\ OfAnalytics("riskMetrics") \in Risks \cup {None}
      /\ OfAnalytics("sparkline") \in Seq(Int) \cup {None}
      /\ OfAnalytics("activeFrom") \in (0 .. 20) \cup {None}
  <2>1. call.read.analytics = None \/ call.read.analytics \in Analytics
    BY AnalyticsAnswer DEF Answered
  <2> QED  BY <2>1 DEF OfAnalytics, Analytics
<1>9. PICK start \in Starts : text = start.text  BY <1>1
<1> HIDE DEF volume, rate, n, m, w
<1>10. Profile =
    [totalTrades |-> n, closedTrades |-> m, winRate |-> rate, totalPnL |-> PnlOf(trades),
     avgVolume |-> volume, bio |-> text.bio, platform |-> text.platform,
     strategy |-> text.strategy, risk |-> text.risk, isLive |-> FALSE,
     riskMetrics |-> OfAnalytics("riskMetrics"), sparkline |-> OfAnalytics("sparkline"),
     activeFrom |-> OfAnalytics("activeFrom")]
  BY <1>1, <1>4, Zenon DEF Profile, rate, volume
<1>11. /\ text.bio \in {s.text.bio : s \in Starts}
       /\ text.platform \in {s.text.platform : s \in Starts}
       /\ text.strategy \in {s.text.strategy : s \in Starts}
       /\ text.risk \in {s.text.risk : s \in Starts}
  BY <1>9
<1>12. Profile \in Profiles  BY <1>2, <1>5, <1>7, <1>8, <1>10, <1>11 DEF Profiles
<1>13. /\ Profile.totalTrades = n /\ Profile.closedTrades = m /\ Profile.winRate = rate
       /\ Profile.totalPnL = PnlOf(trades) /\ Profile.avgVolume = volume
       /\ Profile.bio = text.bio /\ Profile.platform = text.platform
       /\ Profile.strategy = text.strategy /\ Profile.risk = text.risk
       /\ Profile.isLive = FALSE
       /\ Profile.riskMetrics = OfAnalytics("riskMetrics")
       /\ Profile.activeFrom = OfAnalytics("activeFrom")
  BY <1>10
<1> QED  BY <1>5, <1>6, <1>12, <1>13 DEF n, m, w


\* The newest rows, as the dashboard lists them
LEMMA NewestRows ==
  ASSUME NEW rows \in Seq(Rows), NEW n \in Nat
  PROVE  /\ First(Reverse(rows), n) \in Seq(Rows) /\ Len(First(Reverse(rows), n)) <= n
         /\ Len(rows) <= n => First(Reverse(rows), n) = Reverse(rows)
         /\ \A i \in 1 .. Len(First(Reverse(rows), n)) :
                /\ First(Reverse(rows), n)[i] = rows[Len(rows) + 1 - i]
                /\ i \in 1 .. Len(rows)
<1> DEFINE back == Reverse(rows)
           q == First(back, n)
<1>1. /\ back \in Seq(Rows) /\ Len(back) = Len(rows)
      /\ \A i \in 1 .. Len(rows) : back[i] = rows[Len(rows) - i + 1]
  BY ReverseProperties
<1> HIDE DEF back
<1>2. /\ q \in Seq(Rows) /\ Len(q) = IF Len(back) < n THEN Len(back) ELSE n
      /\ \A i \in 1 .. Len(q) : q[i] = back[i] /\ i \in 1 .. Len(back)
      /\ Len(back) <= n => q = back
  BY <1>1, FirstProperties
<1> HIDE DEF q
<1>3. Len(rows) \in Nat /\ \A i \in 1 .. Len(rows) : Len(rows) - i + 1 = Len(rows) + 1 - i
  BY LenProperties
<1>4. /\ q \in Seq(Rows) /\ Len(q) <= n
      /\ Len(rows) <= n => q = back
  BY <1>1, <1>2, <1>3
<1>5. ASSUME NEW i \in 1 .. Len(q) PROVE q[i] = rows[Len(rows) + 1 - i] /\ i \in 1 .. Len(rows)
  <2>1. i \in 1 .. Len(rows) /\ q[i] = back[i]  BY <1>1, <1>2
  <2> QED  BY <1>1, <1>3, <2>1
<1>6. q = First(Reverse(rows), n) /\ back = Reverse(rows)  BY DEF back, q
<1> QED  BY <1>4, <1>5, <1>6

LEMMA DashboardFigures ==
  ASSUME InsightInv, Answered, ~moved, call.kind = "dashboard"
  PROVE  /\ Overview(DashboardData).kpis.open + Profile.closedTrades = Overview(DashboardData).kpis.sent
         /\ Overview(DashboardData).kpis.winRate =
                IF Closed(trades) = <<>> THEN None ELSE Profile.winRate
         /\ Overview(DashboardData).hero => trades = <<>>
         /\ ~Overview(DashboardData).hero =>
             /\ Overview(DashboardData).performance.totalPnL = PnlOf(trades)
             /\ \A i \in DOMAIN Overview(DashboardData).recent :
                 Overview(DashboardData).recent[i].pnl = PnlShown(trades[Len(trades) + 1 - i])
<1> DEFINE data == DashboardData
           page == Overview(data)
           p == Profile
           r == First(Reverse(trades), RecentCap)
           first == IsFirstTimeProvider(data)
<1>1. /\ p.totalTrades = Len(trades) /\ p.closedTrades = Len(Closed(trades))
      /\ p.totalPnL = PnlOf(trades)
  BY ProfileIs
<1>2. /\ call.read.recentTrades = r
      /\ call.read.openTrades = Len(trades) - Len(Closed(trades)) /\ trades \in Seq(Rows)
  BY AnswerIsFresh
<1>3. /\ Len(trades) \in Nat /\ Len(Closed(trades)) \in Nat
      /\ Closed(trades) = <<>> <=> Len(Closed(trades)) = 0
      /\ trades = <<>> <=> Len(trades) = 0
  BY <1>2, CountsBounded, EmptySeq
<1> HIDE DEF p
<1>4. /\ data.profile = p /\ data.recentTrades = r
      /\ data.openTrades = Len(trades) - Len(Closed(trades)) /\ data.totalSignalsSent = p.totalTrades
  BY <1>2 DEF DashboardData, p
<1> HIDE DEF data, r, first
<1>5. /\ page.hero = first /\ page.kpis = KpiStrip(data)
      /\ ~first => /\ page.performance = MyPerformanceCard(p)
                   /\ page.recent = RecentSignalHistory(r)
  BY <1>4 DEF Overview, first
<1> HIDE DEF page
<1>6. page.kpis.open = Len(trades) - Len(Closed(trades)) /\ page.kpis.sent = Len(trades)
      /\ page.kpis.winRate = IF p.closedTrades > 0 THEN p.winRate ELSE None
  BY <1>1, <1>4, <1>5 DEF KpiStrip
<1>7. page.kpis.open + p.closedTrades = page.kpis.sent  BY <1>1, <1>3, <1>6
<1>8. page.kpis.winRate = IF Closed(trades) = <<>> THEN None ELSE p.winRate
  BY <1>1, <1>3, <1>6
<1>9. page.hero => trades = <<>>
  BY <1>1, <1>3, <1>4, <1>5 DEF IsFirstTimeProvider, first
<1>10. ASSUME ~page.hero PROVE page.performance.totalPnL = PnlOf(trades)
  BY <1>1, <1>5, <1>10 DEF MyPerformanceCard
<1>11. ASSUME ~page.hero, NEW i \in DOMAIN page.recent
       PROVE  page.recent[i].pnl = PnlShown(trades[Len(trades) + 1 - i])
  <2>1. /\ r \in Seq(Rows) /\ Len(r) <= RecentCap
        /\ \A k \in 1 .. Len(r) : r[k] = trades[Len(trades) + 1 - k]
    BY <1>2, NewestRows, CapsAssumption DEF r
  <2>2. First(r, RecentCap) = r  BY <2>1, FirstProperties, CapsAssumption
  <2>3. DOMAIN r = 1 .. Len(r)  BY <2>1, LenProperties
  <2>4. page.recent = [k \in DOMAIN r |-> [pnl |-> PnlShown(r[k]), status |-> r[k].status]]
    BY <1>5, <1>11, <2>2 DEF RecentSignalHistory
  <2>5. i \in DOMAIN r /\ page.recent[i].pnl = PnlShown(r[i])  BY <1>11, <2>4
  <2> QED  BY <2>1, <2>3, <2>5
<1> QED  BY <1>7, <1>8, <1>9, <1>10, <1>11 DEF page, data, p

LEMMA FiguresHold == InsightInv => FiguresAddUp
<1> SUFFICES ASSUME InsightInv, Answered, ~moved PROVE FiguresAddUp
  BY DEF FiguresAddUp
<1> DEFINE n == Len(trades)
           m == Len(Closed(trades))
           w == Wins(Closed(trades))
           won == {i \in DOMAIN trades : trades[i].pnl > 0}
           shut == {i \in DOMAIN trades : trades[i].status = "CLOSED"}
<1>1. /\ Profile.totalTrades = n /\ Profile.closedTrades = m
      /\ Profile.winRate = Percent(w, m)
      /\ trades # <<>> => Profile.avgVolume = 100
  BY ProfileIs
<1>2. trades \in Seq(Rows)  BY AnswerIsFresh
<1>3. /\ n \in Nat /\ m \in Nat /\ w \in Nat /\ w <= m
      /\ Closed(trades) = <<>> <=> m = 0
  BY <1>2, CountsBounded
<1>4. won = WonIn(trades) /\ shut = ClosedIn(trades)  BY DEF WonIn, ClosedIn
<1>5. w = Cardinality(won)  BY <1>2, <1>4, ClosedWins
<1>6. m = Cardinality(shut) /\ IsFiniteSet(shut)
  BY <1>2, <1>4, ClosedLen
<1>7. n = Cardinality(DOMAIN trades)
  <2>1. DOMAIN trades = 1 .. n  BY <1>2, LenProperties
  <2> HIDE DEF n
  <2> QED  BY <1>3, <2>1, IndexSet
<1>8. Profile.winRate <= 10000  BY <1>1, <1>3, PercentBounded
<1> HIDE DEF w, m, n, won, shut
<1>9. shut = {} <=> Closed(trades) = <<>>  BY <1>3, <1>6, FS_EmptySet
<1>10. ASSUME call.kind = "dashboard"
       PROVE  LET page == Overview(DashboardData)
              IN  /\ page.kpis.open + Profile.closedTrades = page.kpis.sent
                  /\ page.kpis.winRate = IF shut = {} THEN None
                                         ELSE Percent(Cardinality(won), Cardinality(shut))
                  /\ page.hero => trades = <<>>
                  /\ ~page.hero =>
                      /\ page.performance.totalPnL = PnlOf(trades)
                      /\ \A i \in DOMAIN page.recent :
                          page.recent[i].pnl = PnlShown(trades[Len(trades) + 1 - i])
  BY <1>1, <1>5, <1>6, <1>9, <1>10, DashboardFigures
<1> QED
  BY <1>1, <1>6, <1>7, <1>8, <1>10 DEF FiguresAddUp, won, shut


\* Where the profile page goes blank
LEMMA BlankWithoutTrades ==
  ASSUME InsightInv, Answered, ~moved
  PROVE  /\ RiskProfileCard(Profile.riskMetrics) = None <=> Closed(trades) = <<>>
         /\ Profile.activeFrom = None <=> Closed(trades) = <<>>
         /\ ProxyRoi(Profile) = None <=> Closed(trades) = <<>>
<1> DEFINE a == call.read.analytics
           p == Profile
<1>1. HasFigures  BY DEF Answered
<1>2. Closed(trades) = <<>> => a = None  BY <1>1, AnalyticsAnswer
<1>3. Closed(trades) # <<>> => a \in Analytics  BY <1>1, AnalyticsAnswer
<1>4. /\ p.riskMetrics = OfAnalytics("riskMetrics") /\ p.activeFrom = OfAnalytics("activeFrom")
      /\ p.closedTrades = Len(Closed(trades)) /\ p.totalPnL = PnlOf(trades)
  BY ProfileIs
<1> HIDE DEF p
<1>5. /\ OfAnalytics("riskMetrics") = (IF a = None THEN None ELSE a.riskMetrics)
      /\ OfAnalytics("activeFrom") = (IF a = None THEN None ELSE a.activeFrom)
  BY DEF OfAnalytics
<1> HIDE DEF a
<1>6. a \in Analytics => a # None /\ a.riskMetrics \in Risks /\ a.activeFrom \in 0 .. 20
  BY NoneAssumption DEF Analytics
<1>7. \A i \in Int : i # None  BY NoneAssumption
<1>8. p.activeFrom = None <=> Closed(trades) = <<>>
  <2>1. 0 .. 20 \subseteq Int  OBVIOUS
  <2> QED  BY <1>2, <1>3, <1>4, <1>5, <1>6, <1>7, <2>1
<1>9. RiskProfileCard(p.riskMetrics) = None <=> Closed(trades) = <<>>
  <2>1. CASE Closed(trades) = <<>>  BY <1>2, <1>4, <1>5, <2>1 DEF RiskProfileCard
  <2>2. CASE Closed(trades) # <<>>
    <3> DEFINE r == a.riskMetrics
               shown == [metrics |-> r, tone |-> Tone(r.bestDay)]
    <3>1. r \in Risks /\ p.riskMetrics = r  BY <1>3, <1>4, <1>5, <1>6, <2>2
    <3> HIDE DEF r
    <3>2. Tone(r.bestDay) \in {"mint", "danger"}  BY DEF Tone
    <3>3. shown \in [metrics : Risks, tone : {"mint", "danger"}]  BY <3>1, <3>2
    <3> HIDE DEF shown
    <3>4. shown # None /\ r # None  BY <3>1, <3>3, NoneAssumption
    <3>5. RiskProfileCard(r) = shown  BY <3>4 DEF RiskProfileCard, shown
    <3> QED  BY <2>2, <3>1, <3>4, <3>5
  <2> QED  BY <2>1, <2>2
<1>10. ProxyRoi(p) = None <=> Closed(trades) = <<>>
  <2>1. trades \in Seq(Rows)  BY AnswerIsFresh
  <2>2. /\ PnlOf(trades) \in Int /\ Len(Closed(trades)) \in Nat
        /\ Closed(trades) = <<>> <=> Len(Closed(trades)) = 0
    BY <2>1, CountsBounded
  <2> DEFINE d == 20 * PnlOf(trades) + 75
             tenths == d \div 150
  <2>3. tenths \in Int  BY <2>2
  <2> HIDE DEF tenths
  <2>4. (IF tenths > 999 THEN 999 ELSE Larger(tenths, -999)) \in Int  BY <2>3 DEF Larger
  <2>5. ProxyRoi(p) = IF p.closedTrades = 0 THEN None
                      ELSE IF tenths > 999 THEN 999 ELSE Larger(tenths, -999)
    BY <1>4 DEF ProxyRoi, tenths
  <2> QED  BY <1>4, <1>7, <2>2, <2>4, <2>5
<1> QED  BY <1>8, <1>9, <1>10 DEF p

\* A chart that holds every closed row ends at their profit.
LEMMA ChartEnds ==
  ASSUME NEW history \in Seq(Rows), Len(Closed(history)) \in 1 .. ChartCap
  PROVE  Last(ChartPoints(history)) = PnlOf(history)
<1> DEFINE q == Closed(history)
           back == Reverse(q)
           chart == CumulativePnL(back)
<1>1. history \in Seq(Summable)  BY RowsAreSummable
<1>2. q \in Seq(ClosedRows)  BY <1>1, ClosedPicks
<1>3. PnlOf(q) = PnlOf(history)  BY ClosedPnl
<1>4. Len(q) \in 1 .. ChartCap  OBVIOUS
<1>5. ChartPoints(history) = CumulativePnL(Reverse(First(q, ChartCap)))  BY DEF ChartPoints
<1> HIDE DEF q
<1>6. q \in Seq(Summable)  BY <1>2, SeqMonotonic DEF ClosedRows
<1>7. Len(q) <= ChartCap /\ ChartCap \in Nat  BY <1>4, CapsAssumption
<1>8. First(q, ChartCap) = q  BY <1>6, <1>7, FirstProperties
<1>9. back \in Seq(Summable) /\ Len(back) = Len(q)  BY <1>6, ReverseProperties
<1>10. PnlOf(back) = PnlOf(q)  BY <1>6, ReversePnl
<1>11. ChartPoints(history) = chart  BY <1>5, <1>8
<1> HIDE DEF back
<1>12. Len(chart) = Len(back) /\ \A i \in 1 .. Len(back) : chart[i] = Sums(back)[i]
  BY <1>9, CumulativeSums
<1> HIDE DEF chart
<1>13. Last(chart) = PnlOf(back)  BY <1>4, <1>9, <1>12 DEF Last, PnlOf
<1> QED  BY <1>3, <1>10, <1>11, <1>13

LEMMA DetailHolds == InsightInv => DetailAgrees
<1> SUFFICES ASSUME InsightInv, BothAnswered, call.kind = "detail", ~moved,
                    Len(trades) <= HistoryCap
             PROVE  DetailAgrees
  BY DEF DetailAgrees
<1> DEFINE history == call.read.side
           p == Profile
           card == PerformanceBigCard(p)
           body == DetailBody(p, history)
           window == TradeHistoryModal(history, HistoryCap)
<1>1. Answered  BY DEF InsightInv, Progress, BothAnswered, Answered
<1>2. /\ p.totalTrades = Len(trades) /\ p.closedTrades = Len(Closed(trades))
      /\ p.winRate = Percent(Wins(Closed(trades)), Len(Closed(trades)))
      /\ p.totalPnL = PnlOf(trades)
  BY <1>1, ProfileIs
<1>3. trades \in Seq(Rows)  BY <1>1, AnswerIsFresh
<1>4. history = First(Reverse(trades), HistoryCap)
  BY DEF InsightInv, Fresh, FreshSide, SideNow, BothAnswered
<1>5. history = Reverse(trades)  BY <1>3, <1>4, NewestRows, CapsAssumption
<1>6. /\ history \in Seq(Rows) /\ Len(history) = Len(trades)
      /\ Len(Closed(history)) = Len(Closed(trades))
      /\ Wins(Closed(history)) = Wins(Closed(trades))
  BY <1>3, <1>5, ReverseProperties, ReverseKeeps
<1>7. PnlOf(history) = PnlOf(trades)
  <2>1. trades \in Seq(Summable)  BY <1>3, RowsAreSummable
  <2> QED  BY <1>5, <2>1, ReversePnl
<1>8. Closed(history) = <<>> <=> Closed(trades) = <<>>  BY <1>3, <1>6, CountsBounded
<1> HIDE DEF history, p
<1>9. First(history, HistoryCap) = history  BY <1>6, FirstProperties, CapsAssumption
<1>10. window.footer = [trades |-> card.totalTrades, totalPnL |-> card.totalPnL,
                        winRate |-> card.winRate]
  <2>1. /\ card.totalTrades = p.totalTrades /\ card.totalPnL = p.totalPnL
        /\ card.winRate = p.winRate
    BY DEF PerformanceBigCard
  <2>2. window.footer = ModalTotals(history, HistoryCap)  BY DEF TradeHistoryModal
  <2>3. ModalTotals(history, HistoryCap) =
            [trades |-> Len(history), totalPnL |-> PnlOf(history),
             winRate |-> Percent(Wins(Closed(history)), Len(Closed(history)))]
    BY <1>9 DEF ModalTotals
  <2> HIDE DEF card, window
  <2> QED  BY <1>2, <1>6, <1>7, <2>1, <2>2, <2>3
<1>11. ASSUME p.closedTrades \in 1 .. ChartCap PROVE Last(body.chart) = card.totalPnL
  <2>1. body.chart = ChartPoints(history) /\ card.totalPnL = p.totalPnL
    BY DEF DetailBody, PerformanceBigCard
  <2>2. Len(Closed(history)) \in 1 .. ChartCap  BY <1>2, <1>6, <1>11
  <2> HIDE DEF card, body
  <2> QED  BY <1>2, <1>6, <1>7, <2>1, <2>2, ChartEnds
<1>12. ASSUME NEW i \in DOMAIN body.recent PROVE body.recent[i] = window.rows[i]
  <2> DEFINE r == First(history, RecentCap)
  <2>1. body.recent = Cells(r) /\ window.rows = Cells(history)
    BY <1>9 DEF DetailBody, TradeHistoryModal
  <2>2. /\ r \in Seq(Rows)
        /\ \A k \in 1 .. Len(r) : r[k] = history[k] /\ k \in 1 .. Len(history)
    BY <1>6, FirstProperties, CapsAssumption
  <2>3. DOMAIN r = 1 .. Len(r) /\ DOMAIN history = 1 .. Len(history)
    BY <1>6, <2>2, LenProperties
  <2> HIDE DEF r, body, window
  <2>4. DOMAIN Cells(r) = DOMAIN r  BY DEF Cells
  <2>5. i \in DOMAIN r /\ i \in DOMAIN history /\ r[i] = history[i]
    BY <1>12, <2>1, <2>2, <2>3, <2>4
  <2>6. Cells(r)[i] = Cells(history)[i]  BY <2>5 DEF Cells
  <2> QED  BY <2>1, <2>6
<1>13. body.risk = RiskProfileCard(p.riskMetrics) /\ body.hours = p.activeFrom
  BY DEF DetailBody
<1>14. /\ body.risk = None <=> Closed(history) = <<>>
       /\ body.hours = None <=> Closed(history) = <<>>
       /\ ProxyRoi(p) = None <=> Closed(history) = <<>>
  BY <1>1, <1>8, <1>13, BlankWithoutTrades DEF p
<1> QED  BY <1>10, <1>11, <1>12, <1>14 DEF DetailAgrees, history, p


Blank(t) == t.bio = None /\ t.platform = None /\ t.strategy = None

LEMMA CardShows ==
  ASSUME NEW t
  PROVE  /\ TraderCard(t).empty = Blank(t) /\ TraderCard(t).button = ~Blank(t)
         /\ TraderCard(t).risk = IF Blank(t) THEN None ELSE t.risk
         /\ TraderCard(t).winRate = IF Blank(t) THEN None ELSE t.winRate
  BY DEF TraderCard, Blank

\* Two sources that agree on these fields make cards that agree.
LEMMA SameCard ==
  ASSUME NEW t, NEW u, t.bio = u.bio, t.platform = u.platform, t.strategy = u.strategy,
         t.risk = u.risk, t.winRate = u.winRate
  PROVE  \A f \in {"empty", "winRate", "risk", "button"} : TraderCard(t)[f] = TraderCard(u)[f]
<1>1. Blank(t) = Blank(u)  BY DEF Blank
<1>2. TraderCard(t).empty = TraderCard(u).empty  BY <1>1, CardShows
<1>3. TraderCard(t).button = TraderCard(u).button  BY <1>1, CardShows
<1>4. TraderCard(t).risk = TraderCard(u).risk  BY <1>1, CardShows
<1>5. TraderCard(t).winRate = TraderCard(u).winRate  BY <1>1, CardShows
<1> QED  BY <1>2, <1>3, <1>4, <1>5

\* The card of a provider without other cards falls under one level of risk.
LEMMA OneLevel ==
  ASSUME NEW card, card.risk \in Levels
  PROVE  LET n == RiskCounts(<<card>>)
         IN  n["ALL"] = n["LOW"] + n["MEDIUM"] + n["HIGH"]
<1> DEFINE n == RiskCounts(<<card>>)
<1>1. <<card>> \in Seq({card}) /\ DOMAIN <<card>> = {1} /\ <<card>>[1] = card  OBVIOUS
<1>2. ASSUME NEW level \in Levels \cup {"ALL"}
      PROVE  n[level] = IF level \in {"ALL", card.risk} THEN 1 ELSE 0
  <2> DEFINE S == {i \in DOMAIN <<card>> : level \in {"ALL", <<card>>[i].risk}}
  <2>1. S = IF level \in {"ALL", card.risk} THEN {1} ELSE {}  BY <1>1
  <2>2. S \in SUBSET DOMAIN <<card>>  OBVIOUS
  <2>3. n[level] = Len(Select(<<card>>, S))  BY DEF RiskCounts, Filtered
  <2> HIDE DEF S
  <2>4. n[level] = Cardinality(S)  BY <1>1, <2>2, <2>3, SelectLen
  <2>5. Cardinality({1}) = 1 /\ Cardinality({}) = 0  BY FS_Singleton, FS_EmptySet
  <2> QED  BY <2>1, <2>4, <2>5
<1> HIDE DEF n
<1>3. /\ n["ALL"] = 1
      /\ n["LOW"] = IF card.risk = "LOW" THEN 1 ELSE 0
      /\ n["MEDIUM"] = IF card.risk = "MEDIUM" THEN 1 ELSE 0
      /\ n["HIGH"] = IF card.risk = "HIGH" THEN 1 ELSE 0
  BY <1>2 DEF Levels
<1> QED  BY <1>3 DEF Levels, n

LEMMA CardData ==
  ASSUME NEW p, p # None
  PROVE  LET d == MapMasterToTraderCard(p, FALSE)
         IN  /\ d.bio = p.bio /\ d.platform = p.platform /\ d.strategy = p.strategy
             /\ d.risk \in Levels /\ d.winRate = p.winRate
             /\ DOMAIN d =
                {"risk", "winRate", "live", "bio", "platform", "strategy", "roi", "curve"}
<1> DEFINE d == MapMasterToTraderCard(p, FALSE)
           live == FALSE \/ p.isLive
           risk == NormalizeRisk(p.risk)
           roi == ProxyRoi(p)
<1>1. d = [risk |-> risk, winRate |-> p.winRate, live |-> live, bio |-> p.bio,
           platform |-> p.platform, strategy |-> p.strategy, roi |-> roi,
           curve |-> p.sparkline]
  BY DEF MapMasterToTraderCard
<1>2. risk \in Levels  BY DEF NormalizeRisk, Levels
<1> HIDE DEF d, live, risk, roi
<1>3. /\ d.bio = p.bio /\ d.platform = p.platform /\ d.strategy = p.strategy
      /\ d.risk = risk /\ d.winRate = p.winRate
      /\ DOMAIN d = {"risk", "winRate", "live", "bio", "platform", "strategy", "roi", "curve"}
  BY <1>1
<1> QED  BY <1>2, <1>3 DEF d

LEMMA CopierCard ==
  ASSUME NEW p, p # None
  PROVE  \A f \in {"empty", "winRate", "risk", "button"} :
            TraderCard(MapMasterToTraderCard(p, FALSE))[f] = TraderCard(CopierCardData(p))[f]
<1> DEFINE d == MapMasterToTraderCard(p, FALSE)
           c == CopierCardData(p)
           roi == IF p = None THEN None ELSE 10 * p.totalPnL
<1>1. c = [d EXCEPT !.roi = roi, !.curve = None]  BY DEF CopierCardData
<1>2. DOMAIN d = {"risk", "winRate", "live", "bio", "platform", "strategy", "roi", "curve"}
  BY CardData
<1> HIDE DEF d, c, roi
<1>3. /\ d.bio = c.bio /\ d.platform = c.platform /\ d.strategy = c.strategy
      /\ d.risk = c.risk /\ d.winRate = c.winRate
  BY <1>1, <1>2
<1>4. \A f \in {"empty", "winRate", "risk", "button"} : TraderCard(d)[f] = TraderCard(c)[f]
  BY <1>3, SameCard
<1> QED  BY <1>4 DEF d, c

LEMMA OwnCard ==
  ASSUME NEW p, p # None, NEW incomplete \in BOOLEAN
  PROVE  /\ ~incomplete => \A f \in {"empty", "winRate", "risk", "button"} :
                TraderCard(MapMasterToTraderCard(p, FALSE))[f] = PublicProfilePreview(p, incomplete)[f]
         /\ incomplete => PublicProfilePreview(p, incomplete).empty
<1> DEFINE d == MapMasterToTraderCard(p, FALSE)
           w == PreviewData(p)
           roi == IF p.bio = None THEN None ELSE 10 * p.totalPnL
           o == [w EXCEPT !.bio = IF incomplete THEN None ELSE @,
                          !.platform = IF incomplete THEN None ELSE @,
                          !.strategy = IF incomplete THEN None ELSE @]
<1>1. w = [d EXCEPT !.roi = roi, !.curve = None]  BY DEF PreviewData
<1>2. DOMAIN d = {"risk", "winRate", "live", "bio", "platform", "strategy", "roi", "curve"}
  BY CardData
<1>3. PublicProfilePreview(p, incomplete) = TraderCard(o)  BY DEF PublicProfilePreview
<1> HIDE DEF d, w, roi
<1>4. /\ d.bio = w.bio /\ d.platform = w.platform /\ d.strategy = w.strategy
      /\ d.risk = w.risk /\ d.winRate = w.winRate
      /\ DOMAIN w = {"risk", "winRate", "live", "bio", "platform", "strategy", "roi", "curve"}
  BY <1>1, <1>2
<1>5. /\ o.bio = IF incomplete THEN None ELSE w.bio
      /\ o.platform = IF incomplete THEN None ELSE w.platform
      /\ o.strategy = IF incomplete THEN None ELSE w.strategy
      /\ o.risk = w.risk /\ o.winRate = w.winRate
  BY <1>4
<1> HIDE DEF o
<1>6. ASSUME ~incomplete
      PROVE  \A f \in {"empty", "winRate", "risk", "button"} : TraderCard(d)[f] = TraderCard(o)[f]
  <2>1. /\ d.bio = o.bio /\ d.platform = o.platform /\ d.strategy = o.strategy
        /\ d.risk = o.risk /\ d.winRate = o.winRate
    BY <1>4, <1>5, <1>6
  <2> QED  BY <2>1, SameCard
<1>7. ASSUME incomplete PROVE TraderCard(o).empty
  <2>1. Blank(o)  BY <1>5, <1>7 DEF Blank
  <2> QED  BY <2>1, CardShows
<1> QED  BY <1>3, <1>6, <1>7 DEF d

LEMMA ProfilePresent ==
  ASSUME InsightInv, Answered, ~moved
  PROVE  Profile # None
<1>1. Profile \in Profiles  BY ProfileIs
<1> HIDE DEF Profile
<1> QED  BY <1>1, NoneAssumption

\* Each active master has a card, whose figures are those of its profile.
LEMMA MarketComplete ==
  ASSUME InsightInv, At("done"), call.kind = "market", ~moved
  PROVE  /\ Len(MarketCards) = IF active THEN 1 ELSE 0
         /\ \A i \in DOMAIN MarketCards :
             LET card == MarketCards[i]
             IN  /\ card.button <=> {text.bio, text.platform, text.strategy} # {None}
                 /\ card.button =>
                     /\ card.winRate = Percent(Wins(trades), Len(Closed(trades)))
                     /\ LET n == RiskCounts(MarketCards)
                        IN  n["ALL"] = n["LOW"] + n["MEDIUM"] + n["HIGH"]
                 /\ HasFigures =>
                     LET hero == ProviderHeroBand(Profile)
                         blank == <<hero.bio, hero.platform, hero.strategy>> =
                                  <<"no public bio yet", "Not set", "Not set">>
                     IN  /\ card.empty => blank
                         /\ blank => card.empty \/ TypedAsStandIn
<1>1. "listed" \in DOMAIN call.read  BY DEF InsightInv, Progress, At
<1>2. call.read.listed = active
  BY <1>1, NowFields DEF InsightInv, Fresh, FreshFields
<1>3. HasFigures <=> active  BY DEF InsightInv, Fresh, FreshAccount
<1>4. CASE ~active
  <2>1. MarketCards = <<>>  BY <1>2, <1>4 DEF MarketCards
  <2> HIDE DEF MarketCards
  <2> QED  BY <1>4, <2>1
<1>5. CASE active
  <2> DEFINE p == Profile
             d == MapMasterToTraderCard(p, FALSE)
             card == TraderCard(d)
             hero == ProviderHeroBand(p)
             blank == <<hero.bio, hero.platform, hero.strategy>> =
                      <<"no public bio yet", "Not set", "Not set">>
  <2>1. Answered  BY <1>3, <1>5 DEF Answered
  <2>2. MarketCards = <<card>>  BY <1>2, <1>3, <1>5 DEF MarketCards
  <2>3. p # None  BY <2>1, ProfilePresent
  <2>4. /\ p.winRate = Percent(Wins(Closed(trades)), Len(Closed(trades)))
        /\ p.bio = text.bio /\ p.platform = text.platform /\ p.strategy = text.strategy
    BY <2>1, ProfileIs
  <2>5. Wins(Closed(trades)) = Wins(trades)
    <3>1. trades \in Seq(Rows)  BY <2>1, AnswerIsFresh
    <3> QED  BY <3>1, ClosedWins, WinsLen
  <2> HIDE DEF p
  <2>6. /\ d.bio = text.bio /\ d.platform = text.platform /\ d.strategy = text.strategy
        /\ d.risk \in Levels /\ d.winRate = p.winRate
    BY <2>3, <2>4, CardData
  <2> HIDE DEF d
  <2>7. /\ card.empty = Blank(d) /\ card.button = ~Blank(d)
        /\ card.risk = IF Blank(d) THEN None ELSE d.risk
        /\ card.winRate = IF Blank(d) THEN None ELSE d.winRate
    BY CardShows
  <2> HIDE DEF card
  <2>8. Blank(d) <=> {text.bio, text.platform, text.strategy} = {None}  BY <2>6 DEF Blank
  <2>9. card.button <=> {text.bio, text.platform, text.strategy} # {None}  BY <2>7, <2>8
  <2>10. ASSUME card.button
         PROVE  /\ card.winRate = Percent(Wins(trades), Len(Closed(trades)))
                /\ LET n == RiskCounts(<<card>>)
                   IN  n["ALL"] = n["LOW"] + n["MEDIUM"] + n["HIGH"]
    <3>1. ~Blank(d)  BY <2>7, <2>10
    <3>2. card.risk \in Levels /\ card.winRate = d.winRate  BY <2>6, <2>7, <3>1
    <3>3. card.winRate = Percent(Wins(trades), Len(Closed(trades)))
      BY <2>4, <2>5, <2>6, <3>2
    <3> QED  BY <3>2, <3>3, OneLevel
  <2>11. /\ hero.bio = IF text.bio = None THEN "no public bio yet" ELSE text.bio
         /\ hero.platform = IF text.platform = None THEN "Not set" ELSE text.platform
         /\ hero.strategy = IF text.strategy = None THEN "Not set" ELSE text.strategy
    BY <2>4 DEF ProviderHeroBand
  <2> HIDE DEF hero
  <2>12. card.empty => blank  BY <2>6, <2>7, <2>11 DEF Blank
  <2>13. blank => card.empty \/ TypedAsStandIn
    <3> SUFFICES ASSUME blank, ~TypedAsStandIn PROVE Blank(d)  BY <2>7
    <3>1. /\ hero.bio = "no public bio yet" /\ hero.platform = "Not set"
          /\ hero.strategy = "Not set"
      OBVIOUS
    <3> QED  BY <2>6, <2>11, <3>1 DEF Blank, TypedAsStandIn
  <2> HIDE DEF blank
  <2>14. Len(<<card>>) = 1 /\ DOMAIN <<card>> = {1} /\ <<card>>[1] = card  OBVIOUS
  <2>15. \A i \in DOMAIN MarketCards : MarketCards[i] = card  BY <2>2, <2>14
  <2>16. Len(MarketCards) = 1  BY <2>2, <2>14
  <2>17. ASSUME card.button
         PROVE  LET n == RiskCounts(MarketCards)
                IN  n["ALL"] = n["LOW"] + n["MEDIUM"] + n["HIGH"]
    BY <2>2, <2>10, <2>17
  <2> HIDE DEF MarketCards
  <2> QED
    BY <1>5, <2>9, <2>10, <2>12, <2>13, <2>15, <2>16, <2>17 DEF blank, hero, p
<1>6. active \in BOOLEAN  BY DEF InsightInv, Shaped
<1> QED  BY <1>4, <1>5, <1>6

\* The active masters are the others and this one, if it is active.
LEMMA ActiveListed ==
  ASSUME InsightInv
  PROVE  /\ ActiveMasters \in Seq([own : BOOLEAN, trades : Nat])
         /\ active => \E k \in DOMAIN ActiveMasters : ActiveMasters[k].own
         /\ \A i \in DOMAIN ActiveMasters :
                ActiveMasters[i].own => active /\ ActiveMasters[i].trades = Len(trades)
<1> DEFINE R == [own : BOOLEAN, trades : Nat]
           mine == IF active THEN <<Ranking(TRUE, Len(trades))>> ELSE <<>>
           front == Theirs(others.newer)
           back == Theirs(others.older)
<1>1. /\ others.newer \in Seq(Nat) /\ others.older \in Seq(Nat) /\ trades \in Seq(Rows)
      /\ active \in BOOLEAN
  BY DEF InsightInv, Shaped
<1>2. ASSUME NEW q \in Seq(Nat)
      PROVE  /\ Theirs(q) \in Seq(R) /\ \A i \in DOMAIN Theirs(q) : ~Theirs(q)[i].own
  <2>1. DOMAIN q = 1 .. Len(q) /\ Len(q) \in Nat /\ \A i \in 1 .. Len(q) : q[i] \in Nat
    BY LenProperties, ElementOfSeq
  <2>2. Theirs(q) = [i \in 1 .. Len(q) |-> Ranking(FALSE, q[i])]  BY <2>1 DEF Theirs
  <2>3. \A i \in 1 .. Len(q) : Ranking(FALSE, q[i]) \in R /\ ~Ranking(FALSE, q[i]).own
    BY <2>1 DEF Ranking
  <2> HIDE DEF R
  <2>4. Theirs(q) \in [1 .. Len(q) -> R]  BY <2>2, <2>3
  <2>5. Theirs(q) \in Seq(R)  BY <2>1, <2>4
  <2> QED  BY <2>2, <2>3, <2>5
<1>3. Len(trades) \in Nat  BY <1>1, LenProperties
<1>4. mine \in Seq(R)
  <2> DEFINE x == Ranking(TRUE, Len(trades))
  <2>1. x \in R  BY <1>3 DEF Ranking
  <2> HIDE DEF R, x
  <2>2. <<x>> \in Seq(R) /\ <<>> \in Seq(R)  BY <2>1
  <2> QED  BY <2>2 DEF x
<1>5. /\ front \in Seq(R) /\ back \in Seq(R)
      /\ \A i \in 1 .. Len(front) : ~front[i].own
      /\ \A i \in 1 .. Len(back) : ~back[i].own
  BY <1>1, <1>2
<1>6. /\ Len(mine) = IF active THEN 1 ELSE 0
      /\ \A i \in 1 .. Len(mine) : active /\ mine[i].own /\ mine[i].trades = Len(trades)
  BY <1>1 DEF Ranking
<1>7. ActiveMasters = front \o mine \o back  BY DEF ActiveMasters, Listing
<1> HIDE DEF front, back, mine, R
<1>8. /\ ActiveMasters \in Seq(R)
      /\ Len(ActiveMasters) = Len(front) + Len(mine) + Len(back)
      /\ \A i \in 1 .. Len(ActiveMasters) : ActiveMasters[i] =
            IF i <= Len(front) THEN front[i]
            ELSE IF i <= Len(front) + Len(mine) THEN mine[i - Len(front)]
            ELSE back[i - Len(front) - Len(mine)]
  <2>1. /\ front \o mine \in Seq(R) /\ Len(front \o mine) = Len(front) + Len(mine)
        /\ \A i \in 1 .. Len(front) + Len(mine) : (front \o mine)[i] =
              IF i <= Len(front) THEN front[i] ELSE mine[i - Len(front)]
    BY <1>4, <1>5, ConcatProperties
  <2> DEFINE both == front \o mine
  <2> HIDE DEF both
  <2>2. /\ both \o back \in Seq(R) /\ Len(both \o back) = Len(both) + Len(back)
        /\ \A i \in 1 .. Len(both) + Len(back) : (both \o back)[i] =
              IF i <= Len(both) THEN both[i] ELSE back[i - Len(both)]
    BY <1>5, <2>1, ConcatProperties DEF both
  <2>3. Len(front) \in Nat /\ Len(mine) \in Nat /\ Len(back) \in Nat
    BY <1>4, <1>5, LenProperties
  <2> QED  BY <1>7, <2>1, <2>2, <2>3 DEF both
<1>9. Len(front) \in Nat /\ Len(mine) \in Nat /\ Len(back) \in Nat
      /\ DOMAIN ActiveMasters = 1 .. Len(ActiveMasters)
  BY <1>4, <1>5, <1>8, LenProperties
<1>10. ASSUME active PROVE \E k \in DOMAIN ActiveMasters : ActiveMasters[k].own
  <2> DEFINE k == Len(front) + 1
  <2>1. k \in 1 .. Len(ActiveMasters) /\ ActiveMasters[k] = mine[1]
    BY <1>6, <1>8, <1>9, <1>10
  <2> QED  BY <1>6, <1>9, <1>10, <2>1
<1>11. ASSUME NEW i \in DOMAIN ActiveMasters, ActiveMasters[i].own
       PROVE  active /\ ActiveMasters[i].trades = Len(trades)
  <2>1. CASE i <= Len(front)  BY <1>5, <1>8, <1>9, <1>11, <2>1
  <2>2. CASE i > Len(front) /\ i <= Len(front) + Len(mine)
    <3>1. i - Len(front) \in 1 .. Len(mine) /\ ActiveMasters[i] = mine[i - Len(front)]
      BY <1>8, <1>9, <2>2
    <3> QED  BY <1>6, <3>1
  <2>3. CASE i > Len(front) + Len(mine)
    <3>1. /\ i - Len(front) - Len(mine) \in 1 .. Len(back)
          /\ ActiveMasters[i] = back[i - Len(front) - Len(mine)]
      BY <1>8, <1>9, <2>3
    <3> QED  BY <1>5, <1>11, <3>1
  <2> QED  BY <1>9, <2>1, <2>2, <2>3
<1> QED  BY <1>8, <1>10, <1>11 DEF R

\* The first masters of a list sorted by trades: all or the cap of them, each one of the
\* list, and none of those left out has more trades than the ones shown.
LEMMA TopMasters ==
  ASSUME NEW list \in Seq([own : BOOLEAN, trades : Nat]), NEW top \in TopOf(list)
  PROVE  /\ top \in Seq([own : BOOLEAN, trades : Nat])
         /\ Len(top) = IF Len(list) < TopCap THEN Len(list) ELSE TopCap
         /\ \A i \in DOMAIN top : \E k \in DOMAIN list : top[i] = list[k]
         /\ \A k \in DOMAIN list :
              (\A i \in DOMAIN top : top[i] # list[k]) =>
                  \E f \in Injection(1 .. TopCap, DOMAIN list) : \A i \in 1 .. TopCap :
                      i \in DOMAIN top /\ list[f[i]] = top[i] /\ top[i].trades >= list[k].trades
<1> DEFINE R == [own : BOOLEAN, trades : Nat]
<1>0. PICK n \in Nat : n = Len(list)  BY LenProperties
<1>1. DOMAIN list = 1 .. n /\ n \in Nat /\ TopCap \in Nat
  BY <1>0, LenProperties, CapsAssumption
<1>2. PICK p \in Bijection(DOMAIN list, DOMAIN list) :
        /\ \A i, j \in DOMAIN list : i < j =>
              \/ list[p[i]].trades > list[p[j]].trades
              \/ list[p[i]].trades = list[p[j]].trades /\ p[i] < p[j]
        /\ top = First([i \in DOMAIN list |-> list[p[i]]], TopCap)
  BY DEF TopOf, MostTradesFirst
<1>3. /\ p \in [DOMAIN list -> DOMAIN list] /\ p \in Injection(DOMAIN list, DOMAIN list)
      /\ \A k \in DOMAIN list : \E i \in DOMAIN list : p[i] = k
      /\ \A i, j \in DOMAIN list : p[i] = p[j] => i = j
  BY <1>2 DEF Bijection, Injection, Surjection, IsInjective
<1> DEFINE ranked == [i \in DOMAIN list |-> list[p[i]]]
<1>4. \A k \in 1 .. n : list[k] \in R  BY <1>0, <1>1, ElementOfSeq
<1>5. ranked \in Seq(R) /\ Len(ranked) = n /\ \A i \in 1 .. n : ranked[i] = list[p[i]]
  <2>1. ranked \in [1 .. n -> R]  BY <1>1, <1>3, <1>4
  <2> HIDE DEF R
  <2>2. ranked \in Seq(R) /\ DOMAIN ranked = 1 .. n  BY <1>1, <2>1, IsASeq
  <2> QED  BY <1>1, <2>2, LenProperties
<1>6. top = First(ranked, TopCap)  BY <1>2
<1> HIDE DEF ranked, R
<1>f. /\ First(ranked, TopCap) \in Seq(R)
      /\ Len(First(ranked, TopCap)) = IF Len(ranked) < TopCap THEN Len(ranked) ELSE TopCap
      /\ \A i \in 1 .. Len(First(ranked, TopCap)) :
            First(ranked, TopCap)[i] = ranked[i] /\ i \in 1 .. Len(ranked)
  BY <1>1, <1>5, FirstProperties
<1>7. /\ top \in Seq(R) /\ Len(top) = IF n < TopCap THEN n ELSE TopCap
      /\ \A i \in 1 .. Len(top) : top[i] = ranked[i] /\ i \in 1 .. n
  BY <1>5, <1>6, <1>f
<1>m. PICK m \in Nat : m = Len(top)  BY <1>7, LenProperties
<1>8. DOMAIN top = 1 .. m /\ m = IF n < TopCap THEN n ELSE TopCap
  BY <1>7, <1>m, LenProperties
<1>9. ASSUME NEW i \in DOMAIN top PROVE \E k \in DOMAIN list : top[i] = list[k]
  <2>1. top[i] = list[p[i]] /\ p[i] \in DOMAIN list  BY <1>1, <1>3, <1>5, <1>7, <1>8, <1>m
  <2> QED  BY <2>1
<1>10. ASSUME NEW k \in DOMAIN list, \A i \in DOMAIN top : top[i] # list[k]
       PROVE  \E f \in Injection(1 .. TopCap, DOMAIN list) : \A i \in 1 .. TopCap :
                 i \in DOMAIN top /\ list[f[i]] = top[i] /\ top[i].trades >= list[k].trades
  <2>1. PICK j \in DOMAIN list : p[j] = k  BY <1>3
  <2>2. j \notin 1 .. m
    <3>1. ASSUME j \in 1 .. m PROVE FALSE
      <4>1. top[j] = list[k]  BY <1>5, <1>7, <1>m, <2>1, <3>1
      <4> QED  BY <1>8, <1>10, <3>1, <4>1
    <3> QED  BY <3>1
  <2>3. j > TopCap /\ j <= n /\ j \in Nat /\ m = TopCap  BY <1>1, <1>8, <2>2
  <2> DEFINE f == [i \in 1 .. TopCap |-> p[i]]
  <2>4. f \in Injection(1 .. TopCap, DOMAIN list)
    <3>0. 1 .. TopCap \subseteq DOMAIN list  BY <1>1, <2>3
    <3>1. f \in [1 .. TopCap -> DOMAIN list]  BY <1>3, <3>0
    <3>2. \A i, q \in 1 .. TopCap : f[i] = f[q] => i = q  BY <1>3, <3>0
    <3> HIDE DEF f
    <3> QED  BY <3>1, <3>2 DEF Injection, IsInjective
  <2>5. ASSUME NEW i \in 1 .. TopCap
        PROVE  i \in DOMAIN top /\ list[f[i]] = top[i] /\ top[i].trades >= list[k].trades
    <3>1. i \in DOMAIN list /\ i < j /\ i \in 1 .. m  BY <1>1, <2>3
    <3>2. top[i] = list[p[i]] /\ p[i] \in 1 .. n  BY <1>1, <1>3, <1>5, <1>7, <1>m, <3>1
    <3>3. list[p[i]].trades \in Nat /\ list[k].trades \in Nat  BY <1>1, <1>4, <3>2 DEF R
    <3>5. \/ list[p[i]].trades > list[p[j]].trades
          \/ list[p[i]].trades = list[p[j]].trades
      BY <1>2, <3>1
    <3>4. list[p[i]].trades >= list[p[j]].trades  BY <2>1, <3>3, <3>5
    <3> QED  BY <1>8, <2>1, <3>1, <3>2, <3>4
  <2> HIDE DEF f
  <2> QED  BY <2>4, <2>5
<1> QED  BY <1>0, <1>7, <1>9, <1>10 DEF R

\* The showcase counts the active masters, fills its cards, and leaves this one out only
\* for others who have no fewer trades.
LEMMA ShowcaseRanks ==
  ASSUME InsightInv, ~moved, BothAnswered, call.kind = "top"
  PROVE  LET cards == Showcase.cards
             list == ActiveMasters
             shown == \E i \in DOMAIN cards : cards[i].own
         IN  /\ Showcase.total = Len(list)
             /\ Len(cards) = IF Len(list) < TopCap THEN Len(list) ELSE TopCap
             /\ shown => active /\ \A i \in DOMAIN cards :
                     cards[i].own => cards[i].trades = Len(trades)
             /\ active /\ ~shown =>
                 Cardinality({i \in DOMAIN list : /\ ~list[i].own
                                                 /\ list[i].trades >= Len(trades)}) >= TopCap
<1> DEFINE list == ActiveMasters
           top == call.read.top
           cards == Showcase.cards
<1>1. At("done") /\ ~At("notFound") /\ call.read.side # None  BY DEF BothAnswered, At
<1>2. call.read.side = Len(list)  BY <1>1 DEF InsightInv, Fresh, FreshSide, SideNow
<1>3. top \in TopOf(list)
  BY <1>1 DEF InsightInv, Progress, Fresh, FreshTop
<1>4. Showcase.total = Len(list) /\ cards = First(top, TopCap)  BY <1>1, <1>2 DEF Showcase
<1>5. /\ list \in Seq([own : BOOLEAN, trades : Nat])
      /\ active => \E k \in DOMAIN list : list[k].own
      /\ \A i \in DOMAIN list : list[i].own => active /\ list[i].trades = Len(trades)
  BY ActiveListed
<1> HIDE DEF list, top, cards
<1>6. /\ top \in Seq([own : BOOLEAN, trades : Nat])
      /\ Len(top) = IF Len(list) < TopCap THEN Len(list) ELSE TopCap
      /\ \A i \in DOMAIN top : \E k \in DOMAIN list : top[i] = list[k]
      /\ \A k \in DOMAIN list :
           (\A i \in DOMAIN top : top[i] # list[k]) =>
               \E f \in Injection(1 .. TopCap, DOMAIN list) : \A i \in 1 .. TopCap :
                   i \in DOMAIN top /\ list[f[i]] = top[i] /\ top[i].trades >= list[k].trades
  BY <1>3, <1>5, TopMasters
<1>7. TopCap \in Nat /\ Len(list) \in Nat /\ DOMAIN list = 1 .. Len(list)
  BY <1>5, LenProperties, CapsAssumption
<1>8. cards = top  BY <1>4, <1>6, <1>7, FirstProperties
<1>9. ASSUME NEW i \in DOMAIN cards, cards[i].own PROVE active /\ cards[i].trades = Len(trades)
  <2>1. PICK k \in DOMAIN list : cards[i] = list[k]  BY <1>6, <1>8
  <2>2. list[k].own  BY <1>9, <2>1
  <2> QED  BY <1>5, <2>1, <2>2
<1>10. ASSUME active, \A i \in DOMAIN cards : ~cards[i].own
       PROVE  Cardinality({i \in DOMAIN list : /\ ~list[i].own
                                              /\ list[i].trades >= Len(trades)}) >= TopCap
  <2> DEFINE S == {i \in DOMAIN list : ~list[i].own /\ list[i].trades >= Len(trades)}
  <2>1. PICK k \in DOMAIN list : list[k].own  BY <1>5, <1>10
  <2>2. list[k].trades = Len(trades)  BY <1>5, <2>1
  <2>3. \A i \in DOMAIN top : top[i] # list[k]  BY <1>8, <1>10, <2>1
  <2>4. PICK f \in Injection(1 .. TopCap, DOMAIN list) : \A i \in 1 .. TopCap :
          i \in DOMAIN top /\ list[f[i]] = top[i] /\ top[i].trades >= list[k].trades
    BY <1>6, <2>3
  <2>5. f \in Injection(1 .. TopCap, S)
    <3>1. f \in [1 .. TopCap -> DOMAIN list] /\ IsInjective(f)  BY <2>4 DEF Injection
    <3>2. \A i \in 1 .. TopCap : f[i] \in S  BY <1>8, <1>10, <2>2, <2>4, <3>1
    <3>3. f \in [1 .. TopCap -> S]  BY <3>1, <3>2
    <3> QED  BY <3>1, <3>3 DEF Injection
  <2>6. IsFiniteSet(S)
    <3>1. IsFiniteSet(DOMAIN list)  BY <1>7, FS_Interval
    <3> QED  BY <3>1, FS_Subset
  <2> HIDE DEF S
  <2>7. Cardinality(1 .. TopCap) <= Cardinality(S)  BY <2>5, <2>6, FS_Injection
  <2>8. Cardinality(1 .. TopCap) = TopCap  BY <1>7, FS_Interval, CapsAssumption
  <2>9. Cardinality(S) \in Nat  BY <2>6, FS_CardinalityType
  <2> QED  BY <1>7, <2>7, <2>8, <2>9 DEF S
<1>11. Len(cards) = IF Len(list) < TopCap THEN Len(list) ELSE TopCap  BY <1>6, <1>8
<1> QED  BY <1>4, <1>9, <1>10, <1>11, Zenon DEF list, cards

LEMMA ShowcaseHolds == InsightInv => ShowcaseComplete
<1> SUFFICES ASSUME InsightInv, ~moved PROVE ShowcaseComplete
  BY DEF ShowcaseComplete
<1>1. ASSUME BothAnswered, call.kind = "top"
      PROVE  LET cards == Showcase.cards
                 list == ActiveMasters
                 shown == \E i \in DOMAIN cards : cards[i].own
             IN  /\ Showcase.total = Len(list)
                 /\ Len(cards) = IF Len(list) < TopCap THEN Len(list) ELSE TopCap
                 /\ shown => active /\ \A i \in DOMAIN cards :
                         cards[i].own => cards[i].trades = Len(trades)
                 /\ active /\ ~shown =>
                     Cardinality({i \in DOMAIN list : /\ ~list[i].own
                                                     /\ list[i].trades >= Len(trades)}) >= TopCap
  BY <1>1, ShowcaseRanks
<1>2. At("notFound") => ~active /\ call.kind # "top"
  BY DEF InsightInv, Fresh, FreshAccount
<1>3. ASSUME Answered, call.kind = "dashboard"
      PROVE  LET market == TraderCard(MapMasterToTraderCard(Profile, FALSE))
                 copier == TraderCard(CopierCardData(Profile))
                 own == Overview(DashboardData).preview
             IN  /\ \A f \in {"empty", "winRate", "risk", "button"} : market[f] = copier[f]
                 /\ IsFirstTimeProvider(DashboardData) \/
                     \A f \in {"empty", "winRate", "risk", "button"} : market[f] = own[f]
                 /\ own.empty /\ ~market.empty => trades = <<>> /\ text.strategy # None
  <2> DEFINE p == Profile
             data == DashboardData
             first == IsFirstTimeProvider(data)
             d == MapMasterToTraderCard(p, FALSE)
             market == TraderCard(d)
             copier == TraderCard(CopierCardData(p))
             own == Overview(data).preview
  <2>1. p # None  BY <1>3, ProfilePresent
  <2>2. /\ p.bio = text.bio /\ p.platform = text.platform /\ p.strategy = text.strategy
        /\ p.totalTrades = Len(trades)
    BY <1>3, ProfileIs
  <2>3. data.profile = p /\ data.totalSignalsSent = p.totalTrades  BY DEF DashboardData
  <2> HIDE DEF p, data
  <2>4. first \in BOOLEAN  BY DEF IsFirstTimeProvider
  <2> HIDE DEF first
  <2>5. own = PublicProfilePreview(p, first)  BY <2>3 DEF Overview, first
  <2>6. \A f \in {"empty", "winRate", "risk", "button"} : market[f] = copier[f]
    BY <2>1, CopierCard
  <2>7. ~first => \A f \in {"empty", "winRate", "risk", "button"} : market[f] = own[f]
    <3>1. ~first => \A f \in {"empty", "winRate", "risk", "button"} :
                        market[f] = PublicProfilePreview(p, first)[f]
      BY <2>1, <2>4, OwnCard
    <3> HIDE DEF market, own
    <3> QED  BY <2>5, <3>1
  <2>8. d.bio = p.bio /\ d.platform = p.platform /\ d.strategy = p.strategy
    BY <2>1, CardData
  <2> HIDE DEF own, copier, d
  <2>9. market.empty = Blank(d)  BY CardShows
  <2> HIDE DEF market
  <2>10. ASSUME own.empty, ~market.empty PROVE trades = <<>> /\ text.strategy # None
    <3>1. first  BY <2>4, <2>7, <2>10
    <3>2. p.totalTrades = 0 /\ p.bio = None /\ p.platform = None
      BY <2>3, <3>1 DEF first, IsFirstTimeProvider
    <3>3. trades \in Seq(Rows)  BY DEF InsightInv, Shaped
    <3>4. trades = <<>>  BY <2>2, <3>2, <3>3, EmptySeq
    <3>5. text.strategy # None  BY <2>2, <2>8, <2>9, <2>10, <3>2 DEF Blank
    <3> QED  BY <3>4, <3>5
  <2> QED  BY <2>6, <2>7, <2>10 DEF market, copier, own, d, p, data, first
<1>4. ASSUME At("done"), call.kind = "market"
      PROVE  /\ Len(MarketCards) = IF active THEN 1 ELSE 0
             /\ \A i \in DOMAIN MarketCards :
                 LET card == MarketCards[i]
                 IN  /\ card.button <=> {text.bio, text.platform, text.strategy} # {None}
                     /\ card.button =>
                         /\ card.winRate = Percent(Wins(trades), Len(Closed(trades)))
                         /\ LET n == RiskCounts(MarketCards)
                            IN  n["ALL"] = n["LOW"] + n["MEDIUM"] + n["HIGH"]
                     /\ HasFigures =>
                         LET hero == ProviderHeroBand(Profile)
                             blank == <<hero.bio, hero.platform, hero.strategy>> =
                                      <<"no public bio yet", "Not set", "Not set">>
                         IN  /\ card.empty => blank
                             /\ blank => card.empty \/ TypedAsStandIn
  BY <1>4, MarketComplete
<1> QED  BY <1>1, <1>2, <1>3, <1>4, Zenon DEF ShowcaseComplete

-----------------------------------------------------------------------------
(* The properties of the run *)

\* An answer of getMasterProfile or getMasterDashboard that no write overtook adds up:
\* its counts, its win rate and its volume are those of the rows, and the provider's own
\* dashboard shows them.
THEOREM FiguresInvariant == Spec => []FiguresAddUp
<1>1. InsightInv => FiguresAddUp  BY FiguresHold
<1> QED  BY <1>1, InsightInvariant, PTL

\* In such an answer the analytics are, for every table of trades, what their names say:
\* drawdown, streak, best day, trades per day, sampled curve and fullest four hours.
THEOREM AnalyticsInvariant == Spec => []AnalyticsExact
<1>1. InsightInv => AnalyticsExact  BY AnalyticsHolds
<1> QED  BY <1>1, InsightInvariant, PTL

\* The profile and the history of a provider's page agree unless a write came between
\* the two requests.
THEOREM DetailInvariant == Spec => []DetailAgrees
<1>1. InsightInv => DetailAgrees  BY DetailHolds
<1> QED  BY <1>1, InsightInvariant, PTL

\* The showcase counts every active master, fills its cards and leaves one out only for
\* others with no fewer trades; the marketplace leaves out none, and a provider sees the
\* card that the others see.
THEOREM ShowcaseInvariant == Spec => []ShowcaseComplete
<1>1. InsightInv => ShowcaseComplete  BY ShowcaseHolds
<1> QED  BY <1>1, InsightInvariant, PTL

=============================================================================
