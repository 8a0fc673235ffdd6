-------------------------- MODULE HostPolicyProofs --------------------------
(***************************************************************************)
(* Proofs about HostPolicy, for names, patterns and lists of any length:   *)
(* what matchLabels computes, that spelling does not matter, that denial   *)
(* wins, what the merge keeps.                                             *)
(*                                                                         *)
(* matchLabels and MergeAllowed are recursive functions.  Induction over   *)
(* the naturals is used in the form of a least number (Least): the least   *)
(* n for which a claim about row or prefix n fails would not be 0, and the *)
(* claim for n - 1 would give it for n.                                    *)
(***************************************************************************)
EXTENDS HostPolicyMC, FiniteSetTheorems, SequenceTheorems, TLAPS

-----------------------------------------------------------------------------
(* A set of naturals that is not empty has a least element: otherwise the  *)
(* numbers below all of its elements would be a finite set that the        *)
(* successor maps onto itself less 0.                                      *)
LEMMA Least ==
  ASSUME NEW S \in SUBSET Nat, S # {}
  PROVE  \E m \in S : \A k \in S : m <= k
<1> SUFFICES ASSUME ~ \E m \in S : \A k \in S : m <= k PROVE FALSE
  OBVIOUS
<1> DEFINE T == {n \in Nat : \A k \in S : n < k}
           next == [n \in T |-> n + 1]
<1>1. 0 \in T
  OBVIOUS
<1>2. ASSUME NEW n \in T PROVE n + 1 \in T
  <2>1. n + 1 \notin S
    <3>1. ASSUME n + 1 \in S PROVE \A k \in S : n + 1 <= k
      OBVIOUS
    <3> QED
      BY <3>1
  <2> QED
    BY <2>1
<1>3. IsFiniteSet(T)
  <2>1. PICK s \in S : TRUE
    OBVIOUS
  <2>2. T \in SUBSET (0 .. s) /\ s \in Int
    BY <2>1
  <2>3. IsFiniteSet(0 .. s)
    BY <2>2, FS_Interval
  <2> HIDE DEF T
  <2> QED
    BY <2>2, <2>3, FS_Subset
<1>4. ExistsBijection(T, T \ {0})
  <2>1. next \in [T -> T \ {0}] /\ \A a, b \in T : next[a] = next[b] => a = b
    BY <1>2
  <2>2. \A t \in T \ {0} : t - 1 \in T /\ next[t - 1] = t
    OBVIOUS
  <2>3. next \in Bijection(T, T \ {0})
    BY <2>1, <2>2 DEF Bijection, Injection, IsInjective, Surjection
  <2> QED
    BY <2>3 DEF ExistsBijection
<1>5. Cardinality(T) \in Nat /\ Cardinality(T \ {0}) = Cardinality(T) - 1
  BY <1>1, <1>3, FS_CardinalityType, FS_RemoveElement
<1>6. Cardinality(T \ {0}) = Cardinality(T)
  BY <1>3, <1>4, FS_Bijection
<1> QED
  BY <1>5, <1>6

-----------------------------------------------------------------------------
(***************************************************************************)
(* The table of matchLabels: row i from row i + 1.                         *)
(***************************************************************************)
Row(p, h, i, below) ==
  [j \in 1 .. Len(h) + 1 |->
     \/ i > Len(p) /\ j > Len(h)
     \/ /\ i <= Len(p) /\ j <= Len(h)
        /\ \/ /\ p[i] = "**"
              /\ i = Len(p) \/ \E k \in j .. Len(h) : below[k]
           \/ /\ p[i] # "**"
              /\ p[i] \in {"*", h[j]}
              /\ below[j + 1]]

(* m holds the rows from n on.                                             *)
IsTable(p, h, n, m) ==
  m = [i \in n .. Len(p) + 1 |-> Row(p, h, i, m[i + 1])]

(* The last row depends on no other.                                       *)
LEMMA LastRow ==
  ASSUME NEW p, NEW h, Len(p) \in Nat, NEW x, NEW y
  PROVE  Row(p, h, Len(p) + 1, x) = Row(p, h, Len(p) + 1, y)
  BY DEF Row

(* There is a table, built from the last row up: without it the recursive  *)
(* definition would denote an arbitrary value.                             *)
LEMMA TableExists ==
  ASSUME NEW p, NEW h, Len(p) \in Nat
  PROVE  \E m : IsTable(p, h, 1, m)
<1> DEFINE N == Len(p) + 1
           Bad == {d \in 0 .. Len(p) : ~ \E m : IsTable(p, h, N - d, m)}
<1>1. SUFFICES ASSUME Bad # {} PROVE FALSE
  <2>1. Len(p) \in 0 .. Len(p) /\ N - Len(p) = 1
    OBVIOUS
  <2> QED
    BY <2>1
<1>2. PICK d \in Bad : \A k \in Bad : d <= k
  <2>1. Bad \in SUBSET Nat
    OBVIOUS
  <2> HIDE DEF Bad
  <2> QED
    BY <1>1, <2>1, Least
<1>3. d # 0
  <2>1. \E m : IsTable(p, h, N, m)
    <3> DEFINE m == [i \in N .. N |-> Row(p, h, N, 0)]
    <3>1. \A i \in N .. N : Row(p, h, i, m[i + 1]) = Row(p, h, N, 0)
      BY LastRow
    <3>2. m = [i \in N .. N |-> Row(p, h, i, m[i + 1])]
      BY <3>1
    <3> QED
      BY <3>2 DEF IsTable
  <2> QED
    BY <1>2, <2>1
<1>4. d - 1 \in 0 .. Len(p) /\ d - 1 \notin Bad
  BY <1>2, <1>3
<1>5. PICK g : IsTable(p, h, N - (d - 1), g)
  BY <1>4
<1> DEFINE n == N - d
           m == [i \in n .. N |-> IF i = n THEN Row(p, h, n, g[n + 1]) ELSE g[i]]
<1>6. n \in 1 .. Len(p) /\ N - (d - 1) = n + 1
  BY <1>2, <1>3
<1>7. g = [i \in n + 1 .. N |-> Row(p, h, i, g[i + 1])]
  BY <1>5, <1>6 DEF IsTable
<1>8. ASSUME NEW i \in n .. N PROVE m[i] = Row(p, h, i, m[i + 1])
  <2>1. CASE i = n
    <3>1. m[i + 1] = g[n + 1]
      BY <1>6, <2>1
    <3> QED
      BY <1>6, <2>1, <3>1
  <2>2. CASE i \in n + 1 .. Len(p)
    <3>1. m[i + 1] = g[i + 1] /\ m[i] = g[i] /\ i \in n + 1 .. N
      BY <1>6, <2>2
    <3> QED
      BY <1>7, <3>1
  <2>3. CASE i = N
    <3>1. m[i] = g[i] /\ i \in n + 1 .. N
      BY <1>6, <2>3
    <3> QED
      BY <1>7, <2>3, <3>1, LastRow
  <2>4. i = n \/ i \in n + 1 .. Len(p) \/ i = N
    BY <1>6
  <2> HIDE DEF m, n, N
  <2> QED
    BY <2>1, <2>2, <2>3, <2>4
<1>9. IsTable(p, h, n, m)
  BY <1>8 DEF IsTable
<1> QED
  BY <1>2, <1>9

(* matchLabels reads the first entry of a table.                           *)
LEMMA TableIs ==
  ASSUME NEW p, NEW h, Len(p) \in Nat
  PROVE  \E m : /\ IsTable(p, h, 1, m)
                /\ matchLabels(p, h) = m[1][1]
<1> DEFINE m == CHOOSE m : IsTable(p, h, 1, m)
<1>1. matchLabels(p, h) = m[1][1]
  BY DEF matchLabels, IsTable, Row
<1> QED
  BY <1>1, TableExists

-----------------------------------------------------------------------------
(***************************************************************************)
(* What a pattern denotes, from label i and the host's label j on.         *)
(***************************************************************************)
Takes(p, h, i, a, c) ==
  IF p[i] = "**"
  THEN c >= a + (IF i = Len(p) THEN 1 ELSE 0)
  ELSE c = a + 1 /\ p[i] \in {"*", h[c]}

IsCut(p, h, i, j, cut) ==
  /\ cut \in [i - 1 .. Len(p) -> 0 .. Len(h)]
  /\ cut[i - 1] = j - 1
  /\ cut[Len(p)] = Len(h)
  /\ \A k \in i .. Len(p) : Takes(p, h, k, cut[k - 1], cut[k])

CanCut(p, h, i, j) == \E cut : IsCut(p, h, i, j, cut)

(* No label is left: no label of the host may be.                          *)
LEMMA CutEnd ==
  ASSUME NEW p, NEW h, Len(p) \in Nat, Len(h) \in Nat,
         NEW j \in 1 .. Len(h) + 1
  PROVE  CanCut(p, h, Len(p) + 1, j) <=> j = Len(h) + 1
<1>1. ASSUME CanCut(p, h, Len(p) + 1, j) PROVE j = Len(h) + 1
  BY <1>1 DEF CanCut, IsCut
<1>2. ASSUME j = Len(h) + 1 PROVE CanCut(p, h, Len(p) + 1, j)
  <2> DEFINE cut == [k \in Len(p) .. Len(p) |-> Len(h)]
  <2>1. IsCut(p, h, Len(p) + 1, j, cut)
    BY <1>2 DEF IsCut
  <2> QED
    BY <2>1 DEF CanCut
<1> QED
  BY <1>1, <1>2

(* The first label takes its run and the others cut what follows.          *)
LEMMA CutStep ==
  ASSUME NEW p, NEW h, Len(p) \in Nat, Len(h) \in Nat,
         NEW i \in 1 .. Len(p), NEW j \in 1 .. Len(h) + 1
  PROVE  CanCut(p, h, i, j) <=>
           \E c \in 0 .. Len(h) :
             Takes(p, h, i, j - 1, c) /\ CanCut(p, h, i + 1, c + 1)
<1>1. ASSUME CanCut(p, h, i, j)
      PROVE  \E c \in 0 .. Len(h) :
               Takes(p, h, i, j - 1, c) /\ CanCut(p, h, i + 1, c + 1)
  <2>1. PICK cut : IsCut(p, h, i, j, cut)
    BY <1>1 DEF CanCut
  <2> DEFINE rest == [k \in i .. Len(p) |-> cut[k]]
  <2>2. cut[i] \in 0 .. Len(h) /\ Takes(p, h, i, j - 1, cut[i])
    BY <2>1 DEF IsCut
  <2>3. IsCut(p, h, i + 1, cut[i] + 1, rest)
    <3>1. rest \in [(i + 1) - 1 .. Len(p) -> 0 .. Len(h)]
      BY <2>1 DEF IsCut
    <3>2. rest[(i + 1) - 1] = (cut[i] + 1) - 1
      BY <2>2
    <3>3. rest[Len(p)] = Len(h)
      BY <2>1 DEF IsCut
    <3>4. ASSUME NEW k \in i + 1 .. Len(p)
          PROVE  Takes(p, h, k, rest[k - 1], rest[k])
      <4>1. k \in i .. Len(p) /\ rest[k - 1] = cut[k - 1] /\ rest[k] = cut[k]
        OBVIOUS
      <4> QED
        BY <2>1, <4>1 DEF IsCut
    <3> QED
      BY <3>1, <3>2, <3>3, <3>4 DEF IsCut
  <2> QED
    BY <2>2, <2>3 DEF CanCut
<1>2. ASSUME NEW c \in 0 .. Len(h), Takes(p, h, i, j - 1, c),
             CanCut(p, h, i + 1, c + 1)
      PROVE  CanCut(p, h, i, j)
  <2>1. PICK rest : IsCut(p, h, i + 1, c + 1, rest)
    BY <1>2 DEF CanCut
  <2> DEFINE cut == [k \in i - 1 .. Len(p) |-> IF k = i - 1 THEN j - 1 ELSE rest[k]]
  <2>2. /\ rest \in [i .. Len(p) -> 0 .. Len(h)] /\ rest[i] = c
        /\ rest[Len(p)] = Len(h)
        /\ \A k \in i + 1 .. Len(p) : Takes(p, h, k, rest[k - 1], rest[k])
    BY <2>1 DEF IsCut
  <2>3. cut \in [i - 1 .. Len(p) -> 0 .. Len(h)]
    BY <2>2
  <2>4. cut[i - 1] = j - 1 /\ cut[i] = c /\ cut[Len(p)] = Len(h)
    BY <2>2
  <2>5. ASSUME NEW k \in i .. Len(p) PROVE Takes(p, h, k, cut[k - 1], cut[k])
    <3>1. CASE k = i
      BY <1>2, <2>4, <3>1
    <3>2. CASE k \in i + 1 .. Len(p)
      <4>1. cut[k - 1] = rest[k - 1] /\ cut[k] = rest[k]
        BY <3>2
      <4> QED
        BY <2>2, <3>2, <4>1
    <3> QED
      BY <3>1, <3>2
  <2>6. IsCut(p, h, i, j, cut)
    BY <2>3, <2>4, <2>5 DEF IsCut
  <2> QED
    BY <2>6 DEF CanCut
<1> QED
  BY <1>1, <1>2
(* What the entries of a table say, case by case.                          *)
LEMMA Entries ==
  ASSUME NEW p, NEW h, Len(p) \in Nat, Len(h) \in Nat,
         NEW m, IsTable(p, h, 1, m), NEW j \in 1 .. Len(h) + 1
  PROVE  /\ m[Len(p) + 1][j] <=> j = Len(h) + 1
         /\ \A i \in 1 .. Len(p) :
              /\ j = Len(h) + 1 => ~ m[i][j]
              /\ j # Len(h) + 1 /\ p[i] = "**" =>
                   (m[i][j] <=> i = Len(p) \/ \E k \in j .. Len(h) : m[i + 1][k])
              /\ j # Len(h) + 1 /\ p[i] # "**" =>
                   (m[i][j] <=> p[i] \in {"*", h[j]} /\ m[i + 1][j + 1])
<1>1. \A i \in 1 .. Len(p) + 1 : m[i] = Row(p, h, i, m[i + 1])
  BY DEF IsTable
<1>2. m[Len(p) + 1][j] <=> j = Len(h) + 1
  <2>1. m[Len(p) + 1] = Row(p, h, Len(p) + 1, m[(Len(p) + 1) + 1])
    BY <1>1
  <2> DEFINE x == m[(Len(p) + 1) + 1]
  <2> HIDE DEF x
  <2>2. Row(p, h, Len(p) + 1, x)[j] <=> j = Len(h) + 1
    BY DEF Row
  <2> QED
    BY <2>1, <2>2 DEF x
<1>3. ASSUME NEW i \in 1 .. Len(p)
      PROVE  /\ j = Len(h) + 1 => ~ m[i][j]
             /\ j # Len(h) + 1 /\ p[i] = "**" =>
                  (m[i][j] <=> i = Len(p) \/ \E k \in j .. Len(h) : m[i + 1][k])
             /\ j # Len(h) + 1 /\ p[i] # "**" =>
                  (m[i][j] <=> p[i] \in {"*", h[j]} /\ m[i + 1][j + 1])
  <2>1. m[i] = Row(p, h, i, m[i + 1])
    BY <1>1
  <2> DEFINE x == m[i + 1]
  <2> HIDE DEF x
  <2>2. j = Len(h) + 1 => ~ Row(p, h, i, x)[j]
    BY DEF Row
  <2>3. j # Len(h) + 1 /\ p[i] = "**" =>
          (Row(p, h, i, x)[j] <=> i = Len(p) \/ \E k \in j .. Len(h) : x[k])
    BY DEF Row
  <2>4. j # Len(h) + 1 /\ p[i] # "**" =>
          (Row(p, h, i, x)[j] <=> p[i] \in {"*", h[j]} /\ x[j + 1])
    BY DEF Row
  <2> QED
    BY <2>1, <2>2, <2>3, <2>4 DEF x
<1> QED
  BY <1>2, <1>3

(* The rows say what can be cut, by induction from the last one up.        *)
LEMMA RowsAreCuts ==
  ASSUME NEW p, NEW h, Len(p) \in Nat, Len(h) \in Nat,
         NEW m, IsTable(p, h, 1, m)
  PROVE  \A i \in 1 .. Len(p) + 1, j \in 1 .. Len(h) + 1 :
           m[i][j] <=> CanCut(p, h, i, j)
<1> DEFINE N == Len(p) + 1
           J == 1 .. Len(h) + 1
           Right(i) == \A j \in J : m[i][j] <=> CanCut(p, h, i, j)
           Bad == {d \in 0 .. Len(p) : ~ Right(N - d)}
<1>1. SUFFICES ASSUME Bad # {} PROVE FALSE
  <2>1. \A i \in 1 .. N : N - i \in 0 .. Len(p) /\ N - (N - i) = i
    OBVIOUS
  <2> HIDE DEF Right
  <2>2. ASSUME Bad = {} PROVE \A i \in 1 .. N : Right(i)
    BY <2>1, <2>2
  <2> QED
    BY <2>2 DEF Right
<1>2. PICK d \in Bad : \A k \in Bad : d <= k
  <2>1. Bad \in SUBSET Nat
    OBVIOUS
  <2> HIDE DEF Bad
  <2> QED
    BY <1>1, <2>1, Least
<1>4. Right(N)
  BY Entries, CutEnd
<1> DEFINE i == N - d
<1>5. /\ i \in 1 .. Len(p) /\ i \in 1 .. N /\ ~ Right(i)
      /\ i + 1 \in 1 .. N /\ Right(i + 1)
  <2>1. d \in 0 .. Len(p) /\ ~ Right(N - d)
    OBVIOUS
  <2>2. d # 0
    BY <1>4, <2>1
  <2>3. d - 1 \in 0 .. Len(p) /\ d - 1 \notin Bad /\ N - (d - 1) = i + 1
    BY <1>2, <2>1, <2>2
  <2> QED
    BY <2>1, <2>2, <2>3
<1> HIDE DEF i, Right
<1>6. ASSUME NEW j \in J PROVE m[i][j] <=> CanCut(p, h, i, j)
  <2> DEFINE Down(c) == Takes(p, h, i, j - 1, c) /\ m[i + 1][c + 1]
  <2>1. CanCut(p, h, i, j) <=> \E c \in 0 .. Len(h) : Down(c)
    <3>1. \A c \in 0 .. Len(h) : m[i + 1][c + 1] <=> CanCut(p, h, i + 1, c + 1)
      <4>1. \A c \in 0 .. Len(h) : c + 1 \in J
        OBVIOUS
      <4> QED
        BY <1>5, <4>1 DEF Right
    <3> QED
      BY <1>5, <3>1, CutStep
  <2>2. i < Len(p) => ~ m[i + 1][Len(h) + 1]
    <3>1. Len(h) + 1 \in J /\ (i < Len(p) => i + 1 \in 1 .. Len(p))
      BY <1>5
    <3> QED
      BY <3>1, Entries
  <2>3. i = Len(p) => (m[i + 1][Len(h) + 1])
    <3>1. Len(h) + 1 \in J
      OBVIOUS
    <3> QED
      BY <3>1, Entries
  <2>4. CASE j = Len(h) + 1
    <3>1. ~ m[i][j]
      BY <1>5, <2>4, Entries
    <3>2. ASSUME NEW c \in 0 .. Len(h), Down(c) PROVE FALSE
      BY <1>5, <2>2, <2>4, <3>2 DEF Takes
    <3> QED
      BY <2>1, <3>1, <3>2
  <2>5. CASE j # Len(h) + 1 /\ p[i] # "**"
    <3>1. j \in 1 .. Len(h) /\ (j - 1) + 1 = j
      BY <2>5
    <3>2. m[i][j] <=> p[i] \in {"*", h[j]} /\ m[i + 1][j + 1]
      BY <1>5, <2>5, Entries
    <3>3. \A c \in 0 .. Len(h) :
            Down(c) <=> c = j /\ p[i] \in {"*", h[j]} /\ m[i + 1][j + 1]
      BY <2>5, <3>1 DEF Takes
    <3> QED
      BY <2>1, <3>1, <3>2, <3>3
  <2>6. CASE j # Len(h) + 1 /\ p[i] = "**" /\ i = Len(p)
    <3>1. m[i][j]
      BY <1>5, <2>6, Entries
    <3>2. Len(h) \in 0 .. Len(h) /\ Down(Len(h))
      BY <2>3, <2>6 DEF Takes
    <3> QED
      BY <2>1, <3>1, <3>2
  <2>7. CASE j # Len(h) + 1 /\ p[i] = "**" /\ i # Len(p)
    <3>1. m[i][j] <=> \E k \in j .. Len(h) : m[i + 1][k]
      BY <1>5, <2>7, Entries
    <3>2. \A c \in 0 .. Len(h) : Down(c) <=> c >= j - 1 /\ m[i + 1][c + 1]
      BY <2>7 DEF Takes
    <3>3. ASSUME NEW c \in 0 .. Len(h), Down(c)
          PROVE  \E k \in j .. Len(h) : m[i + 1][k]
      <4>1. c >= j - 1 /\ m[i + 1][c + 1] /\ c # Len(h)
        BY <1>5, <2>2, <2>7, <3>2, <3>3
      <4>2. c + 1 \in j .. Len(h)
        BY <4>1
      <4> QED
        BY <4>1, <4>2
    <3>4. ASSUME NEW k \in j .. Len(h), m[i + 1][k]
          PROVE  k - 1 \in 0 .. Len(h) /\ Down(k - 1)
      <4>1. (k - 1) + 1 = k /\ k - 1 \in 0 .. Len(h) /\ k - 1 >= j - 1
        OBVIOUS
      <4> HIDE DEF Down
      <4> QED
        BY <3>2, <3>4, <4>1
    <3> HIDE DEF Down
    <3> QED
      BY <2>1, <3>1, <3>3, <3>4
  <2> QED
    BY <2>4, <2>5, <2>6, <2>7
<1> QED
  BY <1>5, <1>6 DEF Right
(* The search of matchLabels is the search for a cut.                      *)
LEMMA MatchIsDenoted ==
  ASSUME NEW p, NEW h, Len(p) \in Nat, Len(h) \in Nat
  PROVE  matchLabels(p, h) <=>
           Denotes(p, h, [i \in 1 .. Len(p) |-> IF i = Len(p) THEN 1 ELSE 0])
<1> DEFINE wide == [i \in 1 .. Len(p) |-> IF i = Len(p) THEN 1 ELSE 0]
<1>1. matchLabels(p, h) <=> CanCut(p, h, 1, 1)
  <2>1. 1 \in 1 .. Len(p) + 1 /\ 1 \in 1 .. Len(h) + 1
    OBVIOUS
  <2> QED
    BY <2>1, TableIs, RowsAreCuts
<1>2. ASSUME NEW cut
      PROVE  IsCut(p, h, 1, 1, cut) <=>
               /\ cut \in [0 .. Len(p) -> 0 .. Len(h)]
               /\ cut[0] = 0
               /\ cut[Len(p)] = Len(h)
               /\ \A i \in 1 .. Len(p) :
                    IF p[i] = "**"
                    THEN cut[i] >= cut[i - 1] + wide[i]
                    ELSE /\ cut[i] = cut[i - 1] + 1
                         /\ p[i] \in {"*", h[cut[i]]}
  <2>1. \A i \in 1 .. Len(p) :
          Takes(p, h, i, cut[i - 1], cut[i]) <=>
            IF p[i] = "**"
            THEN cut[i] >= cut[i - 1] + wide[i]
            ELSE /\ cut[i] = cut[i - 1] + 1
                 /\ p[i] \in {"*", h[cut[i]]}
    BY DEF Takes
  <2> HIDE DEF wide
  <2> QED
    BY <2>1 DEF IsCut
<1> HIDE DEF wide
<1>3. CanCut(p, h, 1, 1) <=> Denotes(p, h, wide)
  BY <1>2 DEF CanCut, Denotes
<1> QED
  BY <1>1, <1>3 DEF wide

-----------------------------------------------------------------------------
(***************************************************************************)
(* Spelling.                                                               *)
(***************************************************************************)
Low(l) == IF l \in DOMAIN Lower THEN Lower[l] ELSE l
Kept(name) ==
  IF Len(name) > 1 /\ name[Len(name)] = "" THEN Len(name) - 1 ELSE Len(name)

LEMMA SeqMono ==
  ASSUME NEW S, NEW T, S \subseteq T
  PROVE  Seq(S) \subseteq Seq(T)
  OBVIOUS

(* A name without its trailing dot.                                        *)
LEMMA TrimIs ==
  ASSUME NEW S, NEW name \in Seq(S)
  PROVE  /\ Kept(name) \in 0 .. Len(name)
         /\ TrimSuffixDot(name) \in Seq(S)
         /\ Len(TrimSuffixDot(name)) = Kept(name)
         /\ \A i \in 1 .. Kept(name) : TrimSuffixDot(name)[i] = name[i]
<1>1. CASE Len(name) > 1 /\ name[Len(name)] = ""
  <2> DEFINE n == Len(name) - 1
  <2>0. Len(name) \in Nat /\ Len(name) > 1
    <3>1. Len(name) > 1
      BY <1>1, Zenon
    <3>2. Len(name) \in Nat
      OBVIOUS
    <3> QED
      BY <3>1, <3>2
  <2>1. n \in Int /\ n >= 1 /\ 1 \in Int /\ n \in 0 .. Len(name)
    BY <2>0
  <2>a. Kept(name) = n
    BY <1>1 DEF Kept
  <2>b. TrimSuffixDot(name) = SubSeq(name, 1, n)
    BY <1>1 DEF TrimSuffixDot
  <2>2. \A i \in 1 .. n : name[i] \in S
    OBVIOUS
  <2> HIDE DEF n
  <2>3. /\ SubSeq(name, 1, n) \in Seq(S)
        /\ Len(SubSeq(name, 1, n)) = IF 1 <= n THEN n - 1 + 1 ELSE 0
        /\ \A i \in 1 .. n - 1 + 1 : SubSeq(name, 1, n)[i] = name[1 + i - 1]
    BY <2>1, <2>2, SubSeqProperties
  <2>4. Len(SubSeq(name, 1, n)) = n /\ \A i \in 1 .. n : SubSeq(name, 1, n)[i] = name[i]
    BY <2>1, <2>3
  <2> QED
    BY <2>1, <2>a, <2>b, <2>3, <2>4
<1>2. CASE ~ (Len(name) > 1 /\ name[Len(name)] = "")
  <2>1. Kept(name) = Len(name)
    BY <1>2 DEF Kept
  <2>2. TrimSuffixDot(name) = name
    BY <1>2 DEF TrimSuffixDot
  <2> QED
    BY <2>1, <2>2
<1> QED
  BY <1>1, <1>2

(* Lower case, label by label.                                             *)
LEMMA LowerIs ==
  ASSUME NEW S, NEW name \in Seq(S)
  PROVE  /\ ToLower(name) = [i \in 1 .. Len(name) |-> Low(name[i])]
         /\ ToLower(name) \in Seq({Low(l) : l \in S})
         /\ Len(ToLower(name)) = Len(name)
<1>1. ToLower(name) = [i \in 1 .. Len(name) |-> Low(name[i])]
  BY DEF ToLower, Low
<1> DEFINE T == {Low(l) : l \in S}
<1>2. Len(name) \in Nat /\ ToLower(name) \in [1 .. Len(name) -> T]
  BY <1>1
<1> HIDE DEF T
<1>3. ToLower(name) \in Seq(T) /\ Len(ToLower(name)) = Len(name)
  BY <1>2
<1> QED
  BY <1>1, <1>3 DEF T

(* A name as it is compared, label by label.                               *)
LEMMA NormalIs ==
  ASSUME NEW S, NEW name \in Seq(S)
  PROVE  /\ Normal(name) = [i \in 1 .. Kept(name) |-> Low(name[i])]
         /\ Len(Normal(name)) \in Nat
<1> DEFINE t == TrimSuffixDot(name)
<1>1. /\ Kept(name) \in Nat /\ t \in Seq(S) /\ Len(t) = Kept(name)
      /\ \A i \in 1 .. Kept(name) : t[i] = name[i]
  BY TrimIs
<1> HIDE DEF t
<1>2. /\ ToLower(t) = [i \in 1 .. Len(t) |-> Low(t[i])]
      /\ Len(ToLower(t)) = Len(t)
  BY <1>1, LowerIs
<1> QED
  BY <1>1, <1>2 DEF Normal, t

(* Lower case is final, and only the empty label becomes empty.            *)
LEMMA LowTwice ==
  ASSUME NEW l
  PROVE  Low(Low(l)) = Low(l) /\ (Low(l) = "" <=> l = "")
  BY LowerAssumption DEF Low

(* Every spelling of a name is compared as the same name.                  *)
LEMMA SpellingsAgree ==
  ASSUME NEW S, NEW name \in Seq(S), name # <<>>,
         NEW other \in Spellings(name)
  PROVE  Normal(other) = Normal(name)
<1>1. CASE other = ToLower(name)
  <2>1. /\ other = [i \in 1 .. Len(name) |-> Low(name[i])]
        /\ other \in Seq({Low(l) : l \in S})
        /\ Len(other) = Len(name)
    BY <1>1, LowerIs
  <2>2. Normal(other) = [i \in 1 .. Kept(other) |-> Low(other[i])]
    BY <2>1, NormalIs
  <2>3. Len(name) \in Nat \ {0}
    BY EmptySeq
  <2>4. other[Len(name)] = Low(name[Len(name)])
    BY <2>1, <2>3
  <2>5. Kept(other) = Kept(name)
    BY <2>1, <2>4, LowTwice DEF Kept
  <2>6. Kept(name) \in 0 .. Len(name)
    BY TrimIs
  <2>7. ASSUME NEW i \in 1 .. Kept(name) PROVE Low(other[i]) = Low(name[i])
    <3>1. i \in 1 .. Len(name)
      BY <2>6
    <3>2. other[i] = Low(name[i])
      BY <2>1, <3>1
    <3> QED
      BY <3>2, LowTwice
  <2>8. Normal(name) = [i \in 1 .. Kept(name) |-> Low(name[i])]
    BY NormalIs
  <2> QED
    BY <2>2, <2>5, <2>7, <2>8
<1>2. CASE other = Append(name, "") /\ name[Len(name)] # ""
  <2> DEFINE T == S \cup {""}
  <2>1. name \in Seq(T) /\ "" \in T
    BY SeqMono
  <2> HIDE DEF T
  <2>2. /\ other \in Seq(T) /\ Len(other) = Len(name) + 1
        /\ other[Len(name) + 1] = "" /\ \A i \in 1 .. Len(name) : other[i] = name[i]
    BY <1>2, <2>1, AppendProperties
  <2>3. Len(name) \in Nat \ {0}
    BY EmptySeq
  <2>4. Kept(other) = Len(name) /\ Kept(name) = Len(name)
    <3>1. Len(other) > 1 /\ Len(other) - 1 = Len(name)
      <4>1. Len(other) = Len(name) + 1
        BY <2>2
      <4> QED
        BY <2>3, <4>1
    <3>2. other[Len(other)] = ""
      BY <2>2
    <3> QED
      BY <1>2, <3>1, <3>2 DEF Kept
  <2>5. Normal(other) = [i \in 1 .. Kept(other) |-> Low(other[i])]
    BY <2>2, NormalIs
  <2>6. Normal(name) = [i \in 1 .. Kept(name) |-> Low(name[i])]
    BY NormalIs
  <2> QED
    BY <2>2, <2>4, <2>5, <2>6
<1> QED
  BY <1>1, <1>2 DEF Spellings

(* The names and lists of every reachable state.                           *)
HpInv ==
  /\ pat \in Seq(Labels \cup Wildcards)
  /\ host \in Seq(Labels)
  /\ allowed \in Seq(Seq(Labels \cup Wildcards))
  /\ denied \in Seq(Seq(Labels \cup Wildcards))

LEMMA HostTypes == Spec => []HpInv
<1>1. Init => HpInv
  BY DEF Init, HpInv
<1>2. HpInv /\ [Next]_hpVars => HpInv'
  <2> SUFFICES ASSUME HpInv, [Next]_hpVars PROVE HpInv'
    OBVIOUS
  <2> DEFINE P == Labels \cup Wildcards
  <2>0. /\ pat \in Seq(P) /\ host \in Seq(Labels)
        /\ allowed \in Seq(Seq(P)) /\ denied \in Seq(Seq(P))
    BY DEF HpInv
  <2>1. <<>> \in Seq(P)
    OBVIOUS
  <2>2. CASE AddPatternLabel
    BY <2>0, <2>2 DEF AddPatternLabel, HpInv
  <2>3. CASE AddHostLabel
    BY <2>0, <2>3 DEF AddHostLabel, HpInv
  <2> HIDE DEF P
  <2>4. CASE AddAllowed
    BY <2>0, <2>1, <2>4 DEF AddAllowed, HpInv, P
  <2>5. CASE AddDenied
    BY <2>0, <2>1, <2>5 DEF AddDenied, HpInv, P
  <2>6. CASE UNCHANGED hpVars
    BY <2>6 DEF hpVars, HpInv
  <2> QED
    BY <2>2, <2>3, <2>4, <2>5, <2>6 DEF Next
<1> QED
  BY <1>1, <1>2, PTL DEF Spec

(* A pattern matches a host exactly when the host's labels can be cut into *)
(* runs that the pattern's labels accept: for patterns and hosts of any    *)
(* length, whatever the number and place of the wildcards.                 *)
THEOREM MatchingIsExact == Spec => []MatchIsExact
<1>1. HpInv => MatchIsExact
  <2> SUFFICES ASSUME HpInv, Complete PROVE MatchIsExact
    BY DEF MatchIsExact
  <2>1. Len(Normal(pat)) \in Nat /\ Len(Normal(host)) \in Nat
    BY NormalIs DEF HpInv
  <2> QED
    BY <2>1, MatchIsDenoted DEF MatchIsExact, MatchHost, Proper
<1> QED
  BY <1>1, HostTypes, PTL
(* The decision does not depend on the case of either side or on one       *)
(* trailing dot.                                                           *)
THEOREM SpellingDoesNotMatter == Spec => []SpellingIsIrrelevant
<1>1. HpInv => SpellingIsIrrelevant
  <2> SUFFICES ASSUME HpInv, Complete,
                      NEW p \in Spellings(pat), NEW h \in Spellings(host)
               PROVE  MatchHost(p, h) <=> MatchHost(pat, host)
    BY DEF SpellingIsIrrelevant
  <2>1. Normal(p) = Normal(pat) /\ Normal(h) = Normal(host)
    BY SpellingsAgree DEF HpInv, Complete
  <2> QED
    BY <2>1 DEF MatchHost
<1> QED
  BY <1>1, HostTypes, PTL

-----------------------------------------------------------------------------
(***************************************************************************)
(* The lists.                                                              *)
(***************************************************************************)
(* Appending a pattern adds to what a list matches.                        *)
LEMMA MatchesMore ==
  ASSUME NEW S, NEW list \in Seq(S), NEW p \in S, NEW h
  PROVE  MatchesAny(Append(list, p), h) <=> MatchesAny(list, h) \/ MatchHost(p, h)
<1>1. /\ DOMAIN Append(list, p) = 1 .. Len(list) + 1
      /\ DOMAIN list = 1 .. Len(list)
      /\ Append(list, p)[Len(list) + 1] = p
      /\ \A i \in 1 .. Len(list) : Append(list, p)[i] = list[i]
      /\ Len(list) \in Nat
  OBVIOUS
<1>2. \A i \in 1 .. Len(list) + 1 : i \in 1 .. Len(list) \/ i = Len(list) + 1
  BY <1>1
<1>3. \A i \in 1 .. Len(list) : i \in 1 .. Len(list) + 1
  BY <1>1
<1>4. Len(list) + 1 \in 1 .. Len(list) + 1
  BY <1>1
<1> QED
  BY <1>1, <1>2, <1>3, <1>4, Zenon DEF MatchesAny

LEMMA DecisionIs ==
  ASSUME NEW a, NEW d, NEW h
  PROVE  EvaluateHost(a, d, h).Allow <=> ~ MatchesAny(d, h) /\ MatchesAny(a, h)
  BY DEF EvaluateHost

(* A host that a denied pattern matches stays denied whatever is allowed   *)
(* later, and a new denied pattern never allows anything.                  *)
THEOREM DeniedStaysDenied == Spec => DenialIsFinal
<1> DEFINE Stays == /\ MatchesAny(denied, host) /\ host' = host => ~ Decision'.Allow
                    /\ denied' # denied => (Decision'.Allow => Decision.Allow)
<1>1. HpInv /\ [Next]_hpVars => [Stays]_hpVars
  <2> SUFFICES ASSUME HpInv, Next PROVE Stays
    OBVIOUS
  <2>1. /\ Decision.Allow <=> ~ MatchesAny(denied, host) /\ MatchesAny(allowed, host)
        /\ Decision'.Allow <=> ~ MatchesAny(denied', host') /\ MatchesAny(allowed', host')
    BY DecisionIs DEF Decision
  <2>2. CASE denied' = denied
    BY <2>1, <2>2
  <2>3. CASE AddDenied
    <3>1. /\ host' = host /\ allowed' = allowed
          /\ MatchesAny(denied', host) <=> MatchesAny(denied, host) \/ MatchHost(pat, host)
      BY <2>3, MatchesMore DEF AddDenied, HpInv
    <3> QED
      BY <2>1, <3>1
  <2> QED
    BY <2>2, <2>3 DEF Next, AddPatternLabel, AddHostLabel, AddAllowed
<1> QED
  BY <1>1, HostTypes, PTL DEF Spec, DenialIsFinal
-----------------------------------------------------------------------------
(***************************************************************************)
(* The merge, pattern by pattern.                                          *)
(***************************************************************************)
Add(seen, h) == IF \E i \in DOMAIN seen : seen[i] = h THEN seen ELSE Append(seen, h)

IsMerge(all, n, out) ==
  out = [k \in 0 .. n |-> IF k = 0 THEN <<>> ELSE Add(out[k - 1], all[k])]

(* The prefixes the loop goes through exist, for any number of patterns.   *)
LEMMA MergeExists ==
  ASSUME NEW all, NEW len \in Nat
  PROVE  \E out : IsMerge(all, len, out)
<1> DEFINE Bad == {n \in Nat : ~ \E out : IsMerge(all, n, out)}
<1>1. SUFFICES ASSUME Bad # {} PROVE FALSE
  OBVIOUS
<1>2. PICK n \in Bad : \A k \in Bad : n <= k
  <2>1. Bad \in SUBSET Nat
    OBVIOUS
  <2> HIDE DEF Bad
  <2> QED
    BY <1>1, <2>1, Least
<1>3. n # 0
  <2> DEFINE out == [k \in 0 .. 0 |-> <<>>]
  <2>1. IsMerge(all, 0, out)
    BY DEF IsMerge
  <2> QED
    BY <1>2, <2>1
<1>4. n - 1 \in Nat /\ n - 1 \notin Bad
  BY <1>2, <1>3
<1>5. PICK g : IsMerge(all, n - 1, g)
  BY <1>4
<1> DEFINE out == [k \in 0 .. n |-> IF k = n THEN Add(g[n - 1], all[n]) ELSE g[k]]
<1>6. ASSUME NEW k \in 0 .. n
      PROVE  out[k] = IF k = 0 THEN <<>> ELSE Add(out[k - 1], all[k])
  <2>0. g = [i \in 0 .. n - 1 |-> IF i = 0 THEN <<>> ELSE Add(g[i - 1], all[i])]
    BY <1>5 DEF IsMerge
  <2>1. CASE k = n
    <3>1. out[k - 1] = g[n - 1]
      BY <1>4, <2>1
    <3> QED
      BY <1>3, <2>1, <3>1
  <2>2. CASE k = 0
    BY <1>3, <1>4, <2>0, <2>2
  <2>3. CASE k # n /\ k # 0
    <3>1. out[k - 1] = g[k - 1] /\ out[k] = g[k] /\ k \in 0 .. n - 1
      BY <1>4, <2>3
    <3> QED
      BY <2>0, <2>3, <3>1
  <2> QED
    BY <2>1, <2>2, <2>3
<1>7. IsMerge(all, n, out)
  BY <1>6 DEF IsMerge
<1> QED
  BY <1>2, <1>7

(* MergeAllowed is the last of them.                                       *)
LEMMA MergeIs ==
  ASSUME NEW list, Len(DefaultHosts \o list) \in Nat
  PROVE  \E out : /\ IsMerge(DefaultHosts \o list, Len(DefaultHosts \o list), out)
                  /\ MergeAllowed(TRUE, list) = out[Len(DefaultHosts \o list)]
<1> DEFINE all == DefaultHosts \o list
           out == CHOOSE out : IsMerge(all, Len(all), out)
<1>1. MergeAllowed(TRUE, list) = out[Len(all)]
  BY DEF MergeAllowed, IsMerge, Add
<1> QED
  BY <1>1, MergeExists

(* What is kept so far lists each of the first n patterns, once.           *)
Merged(S, all, n, seen) ==
  /\ seen \in Seq(S)
  /\ {seen[i] : i \in DOMAIN seen} = {all[i] : i \in 1 .. n}
  /\ \A i, j \in DOMAIN seen : seen[i] = seen[j] => i = j

LEMMA AddKeeps ==
  ASSUME NEW S, NEW all, NEW n \in Nat, all[n + 1] \in S,
         NEW seen, Merged(S, all, n, seen)
  PROVE  Merged(S, all, n + 1, Add(seen, all[n + 1]))
<1> DEFINE h == all[n + 1]
<1>1. {all[i] : i \in 1 .. n + 1} = {all[i] : i \in 1 .. n} \cup {h}
  <2>1. \A i \in 1 .. n + 1 : i \in 1 .. n \/ i = n + 1
    OBVIOUS
  <2>2. \A i \in 1 .. n : i \in 1 .. n + 1
    OBVIOUS
  <2>3. n + 1 \in 1 .. n + 1
    OBVIOUS
  <2> QED
    BY <2>1, <2>2, <2>3
<1>2. CASE \E i \in DOMAIN seen : seen[i] = h
  <2>1. Add(seen, h) = seen
    BY <1>2 DEF Add
  <2>2. h \in {all[i] : i \in 1 .. n}
    BY <1>2 DEF Merged
  <2> QED
    BY <1>1, <2>1, <2>2 DEF Merged
<1>3. CASE ~ \E i \in DOMAIN seen : seen[i] = h
  <2> DEFINE next == Append(seen, h)
  <2>1. Add(seen, h) = next
    BY <1>3 DEF Add
  <2>2. /\ seen \in Seq(S) /\ h \in S /\ next \in Seq(S)
        /\ DOMAIN seen = 1 .. Len(seen) /\ Len(seen) \in Nat
        /\ DOMAIN next = 1 .. Len(seen) + 1
        /\ next[Len(seen) + 1] = h
        /\ \A i \in 1 .. Len(seen) : next[i] = seen[i]
    BY DEF Merged
  <2>3. /\ \A i \in DOMAIN next : i \in DOMAIN seen \/ i = Len(seen) + 1
        /\ \A i \in DOMAIN seen : i \in DOMAIN next /\ next[i] = seen[i]
        /\ Len(seen) + 1 \in DOMAIN next
    BY <2>2
  <2> HIDE DEF next, h
  <2>4. {next[i] : i \in DOMAIN next} = {seen[i] : i \in DOMAIN seen} \cup {h}
    BY <2>2, <2>3
  <2>5. \A i, j \in DOMAIN next : next[i] = next[j] => i = j
    BY <1>3, <2>2, <2>3 DEF Merged
  <2>6. {next[i] : i \in DOMAIN next} = {all[i] : i \in 1 .. n + 1}
    BY <1>1, <2>4 DEF Merged
  <2>7. Merged(S, all, n + 1, next)
    BY <2>2, <2>5, <2>6 DEF Merged
  <2> QED
    BY <2>1, <2>7 DEF h
<1> QED
  BY <1>2, <1>3

LEMMA MergeKeeps ==
  ASSUME NEW S, NEW all \in Seq(S), NEW out, IsMerge(all, Len(all), out)
  PROVE  Merged(S, all, Len(all), out[Len(all)])
<1> DEFINE Bad == {n \in 0 .. Len(all) : ~ Merged(S, all, n, out[n])}
<1>1. SUFFICES ASSUME Bad # {} PROVE FALSE
  <2>1. Len(all) \in 0 .. Len(all)
    OBVIOUS
  <2> QED
    BY <2>1
<1>2. PICK n \in Bad : \A k \in Bad : n <= k
  <2>1. Bad \in SUBSET Nat
    OBVIOUS
  <2> HIDE DEF Bad
  <2> QED
    BY <1>1, <2>1, Least
<1>3. \A k \in 0 .. Len(all) :
        out[k] = IF k = 0 THEN <<>> ELSE Add(out[k - 1], all[k])
  BY DEF IsMerge
<1>4. Merged(S, all, 0, out[0])
  <2>1. out[0] = <<>>
    BY <1>3
  <2> QED
    BY <2>1 DEF Merged
<1>5. n # 0
  BY <1>4
<1>6. /\ n - 1 \in 0 .. Len(all) /\ n - 1 \in Nat /\ Merged(S, all, n - 1, out[n - 1])
      /\ (n - 1) + 1 = n /\ all[n] \in S
  BY <1>2, <1>5
<1>7. Merged(S, all, (n - 1) + 1, Add(out[n - 1], all[(n - 1) + 1]))
  BY <1>6, AddKeeps
<1>8. out[n] = Add(out[n - 1], all[n])
  BY <1>2, <1>3, <1>5
<1> QED
  BY <1>2, <1>6, <1>7, <1>8

(* Merging the default hosts loses no pattern of the policy, adds exactly  *)
(* the defaults and lists no pattern twice: for lists of any length.       *)
THEOREM MergeIsComplete == Spec => []MergeKeepsBoth
<1>1. HpInv => MergeKeepsBoth
  <2> SUFFICES ASSUME HpInv PROVE MergeKeepsBoth
    OBVIOUS
  <2> DEFINE S == Seq(STRING) \cup Seq(Labels \cup Wildcards)
             all == DefaultHosts \o allowed
             merged == MergeAllowed(TRUE, allowed)
  <2>1. DefaultHosts \in Seq(S) /\ allowed \in Seq(S)
    BY SeqMono, DefaultsAssumption DEF HpInv
  <2> HIDE DEF S
  <2>2. /\ all \in Seq(S) /\ Len(all) = Len(DefaultHosts) + Len(allowed)
        /\ Len(DefaultHosts) \in Nat /\ Len(allowed) \in Nat
        /\ \A i \in 1 .. Len(DefaultHosts) + Len(allowed) :
             all[i] = IF i <= Len(DefaultHosts) THEN DefaultHosts[i]
                      ELSE allowed[i - Len(DefaultHosts)]
    BY <2>1, ConcatProperties
  <2>3. Merged(S, all, Len(all), merged)
    <3>1. Len(all) \in Nat
      BY <2>2
    <3>2. PICK out : /\ IsMerge(DefaultHosts \o allowed, Len(DefaultHosts \o allowed), out)
                     /\ merged = out[Len(DefaultHosts \o allowed)]
      BY <3>1, MergeIs
    <3>3. IsMerge(all, Len(all), out) /\ merged = out[Len(all)]
      BY <3>2
    <3> HIDE DEF all, merged
    <3> QED
      BY <2>2, <3>3, MergeKeeps
  <2>4. {all[i] : i \in 1 .. Len(all)} =
          {DefaultHosts[i] : i \in DOMAIN DefaultHosts}
            \cup {allowed[i] : i \in DOMAIN allowed}
    <3>1. /\ DOMAIN DefaultHosts = 1 .. Len(DefaultHosts)
          /\ DOMAIN allowed = 1 .. Len(allowed)
      BY <2>1
    <3> HIDE DEF all
    <3>2. ASSUME NEW i \in 1 .. Len(DefaultHosts)
          PROVE  i \in 1 .. Len(all) /\ all[i] = DefaultHosts[i]
      BY <2>2
    <3>3. ASSUME NEW i \in 1 .. Len(allowed)
          PROVE  /\ Len(DefaultHosts) + i \in 1 .. Len(all)
                 /\ all[Len(DefaultHosts) + i] = allowed[i]
      BY <2>2
    <3>4. ASSUME NEW i \in 1 .. Len(all)
          PROVE  \/ i \in 1 .. Len(DefaultHosts) /\ all[i] = DefaultHosts[i]
                 \/ /\ i - Len(DefaultHosts) \in 1 .. Len(allowed)
                    /\ all[i] = allowed[i - Len(DefaultHosts)]
      BY <2>2
    <3>5. ASSUME NEW x
          PROVE  (\E i \in 1 .. Len(all) : x = all[i]) <=>
                   \/ \E i \in 1 .. Len(DefaultHosts) : x = DefaultHosts[i]
                   \/ \E i \in 1 .. Len(allowed) : x = allowed[i]
      BY <3>2, <3>3, <3>4, Zenon
    <3> QED
      BY <3>1, <3>5, Zenon
  <2> HIDE DEF merged, all
  <2>5. /\ {merged[i] : i \in DOMAIN merged} =
             {DefaultHosts[i] : i \in DOMAIN DefaultHosts}
               \cup {allowed[i] : i \in DOMAIN allowed}
        /\ \A i, j \in DOMAIN merged : merged[i] = merged[j] => i = j
    BY <2>3, <2>4 DEF Merged
  <2> QED
    BY <2>5 DEF MergeKeepsBoth, merged
<1> QED
  BY <1>1, HostTypes, PTL
=============================================================================
