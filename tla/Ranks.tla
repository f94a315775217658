-------------------------------- MODULE Ranks --------------------------------
(***************************************************************************)
(* Numbers in order, parts of a sequence, and sums, stated without          *)
(* recursion so that what they give can be proved: the elements of a        *)
(* finite set of numbers by rank, the part of a sequence at given places,   *)
(* and the total of a function as a number of units.                        *)
(***************************************************************************)
EXTENDS Integers, Sequences, FiniteSets, FiniteSetsExt, FiniteSetTheorems, TLAPS

\* The numbers of a finite set from the highest, and from the lowest.
Falling(S) == [n \in 1..Cardinality(S) |-> CHOOSE u \in S : Cardinality({v \in S : v > u}) = n - 1]
Rising(S) == [n \in 1..Cardinality(S) |-> CHOOSE u \in S : Cardinality({v \in S : v < u}) = n - 1]

\* What a sequence has at the given places, in its order.
Picked(s, places) == [n \in 1..Cardinality(places) |-> s[Rising(places)[n]]]

\* A sequence without the first of its places in hits, without the first two and so on; and the longest of some sequences.
WithoutOldest(s, hits) == {Picked(s, DOMAIN s \ (hits \cap 1..k)) : k \in 0..Len(s)}
Longest(set) == CHOOSE s \in set : \A other \in set : Len(s) >= Len(other)

\* The sum of a function of natural numbers: its units, counted.
Units(amount) == UNION {{x} \X (1..amount[x]) : x \in DOMAIN amount}
Total(amount) == Cardinality(Units(amount))

\* In order, a set of numbers is counted from either end.
LEMMA FallingIs ==
  ASSUME NEW S, IsFiniteSet(S), S \subseteq Nat
  PROVE  /\ Cardinality(S) \in Nat /\ Falling(S) \in [1..Cardinality(S) -> S]
         /\ \A i \in 1..Cardinality(S) : Cardinality({v \in S : v > Falling(S)[i]}) = i - 1
         /\ \A i, j \in 1..Cardinality(S) : i < j => Falling(S)[i] > Falling(S)[j]
         /\ \A u \in S : \E i \in 1..Cardinality(S) : Falling(S)[i] = u
<1> DEFINE n == Cardinality(S)
           Over(u) == {v \in S : v > u}
           r == [u \in S |-> Cardinality(Over(u))]
<1>1. n \in Nat  BY FS_CardinalityType
<1>2. ASSUME NEW u \in S PROVE IsFiniteSet(Over(u)) /\ Cardinality(Over(u)) \in Nat /\ Cardinality(Over(u)) < n
  <2>1. Over(u) \in SUBSET S /\ u \notin Over(u)  OBVIOUS
  <2>2. IsFiniteSet(Over(u)) /\ Cardinality(Over(u)) <= n /\ (n = Cardinality(Over(u)) => S = Over(u))  BY <2>1, FS_Subset
  <2>3. Cardinality(Over(u)) \in Nat  BY <2>2, FS_CardinalityType
  <2> QED BY <1>1, <2>1, <2>2, <2>3
<1>3. ASSUME NEW u \in S, NEW w \in S, u < w PROVE Cardinality(Over(w)) < Cardinality(Over(u))
  <2>1. Over(w) \in SUBSET Over(u) /\ w \in Over(u) /\ w \notin Over(w)
    <3>1. u \in Nat /\ w \in Nat /\ \A v \in S : v > w => v > u  BY <1>3
    <3>2. w > u /\ ~(w > w)  BY <1>3, <3>1
    <3> QED BY <3>1, <3>2
  <2>2. /\ Cardinality(Over(w)) <= Cardinality(Over(u))
        /\ Cardinality(Over(u)) = Cardinality(Over(w)) => Over(u) = Over(w)
    BY <1>2, <2>1, FS_Subset
  <2> HIDE DEF Over
  <2> QED BY <1>2, <2>1, <2>2
<1> HIDE DEF Over
<1>4. r \in Injection(S, 0..n - 1)
  <2>1. r \in [S -> 0..n - 1]  BY <1>1, <1>2
  <2>2. ASSUME NEW u \in S, NEW w \in S, r[u] = r[w] PROVE u = w
    <3>1. u \in Nat /\ w \in Nat /\ Cardinality(Over(u)) = Cardinality(Over(w)) /\ Cardinality(Over(u)) \in Nat  BY <1>2, <2>2
    <3>2. ~(u < w) /\ ~(w < u)  BY <1>3, <3>1
    <3> QED BY <3>1, <3>2
  <2> QED BY <2>1, <2>2 DEF Injection, IsInjective
<1>5. IsFiniteSet(0..n - 1) /\ Cardinality(0..n - 1) = n
  <2>1. n - 1 \in Int /\ 0 \in Int  BY <1>1
  <2>2. IsFiniteSet(0..n - 1) /\ Cardinality(0..n - 1) = IF 0 > n - 1 THEN 0 ELSE (n - 1) - 0 + 1  BY <2>1, FS_Interval
  <2>3. (IF 0 > n - 1 THEN 0 ELSE (n - 1) - 0 + 1) = n  BY <1>1
  <2> QED BY <2>2, <2>3
<1>6. r \in Surjection(S, 0..n - 1)  BY <1>4, <1>5, FS_Injection
<1>7. ASSUME NEW i \in 1..n PROVE \E u \in S : Cardinality(Over(u)) = i - 1
  <2>1. i - 1 \in 0..n - 1  BY <1>1
  <2>2. \E u \in S : r[u] = i - 1  BY <1>6, <2>1 DEF Surjection
  <2> QED BY <2>2
<1> DEFINE f == Falling(S)
<1>8. f = [i \in 1..n |-> CHOOSE u \in S : Cardinality(Over(u)) = i - 1]  BY DEF Falling, Over
<1> HIDE DEF f
<1>9. ASSUME NEW i \in 1..n PROVE f[i] \in S /\ Cardinality(Over(f[i])) = i - 1
  <2>1. f[i] = CHOOSE u \in S : Cardinality(Over(u)) = i - 1  BY <1>8
  <2> QED BY <1>7, <2>1
<1>10. f \in [1..n -> S]  BY <1>8, <1>9
<1>11. ASSUME NEW i \in 1..n, NEW j \in 1..n, i < j PROVE f[i] > f[j]
  <2>1. f[i] \in Nat /\ f[j] \in Nat /\ Cardinality(Over(f[i])) = i - 1 /\ Cardinality(Over(f[j])) = j - 1  BY <1>9
  <2>2. f[i] # f[j]  BY <1>11, <2>1
  <2>3. ~(f[i] < f[j])
    <3> SUFFICES ASSUME f[i] < f[j] PROVE FALSE  OBVIOUS
    <3>1. Cardinality(Over(f[j])) < Cardinality(Over(f[i]))  BY <1>3, <1>9
    <3> QED BY <1>11, <2>1, <3>1
  <2> QED BY <2>1, <2>2, <2>3
<1>12. ASSUME NEW u \in S PROVE \E i \in 1..n : f[i] = u
  <2>1. r[u] \in 0..n - 1 /\ r[u] = Cardinality(Over(u))  BY <1>4 DEF Injection
  <2>2. r[u] + 1 \in 1..n /\ (r[u] + 1) - 1 = r[u]  BY <1>1, <2>1
  <2>3. f[r[u] + 1] \in S /\ Cardinality(Over(f[r[u] + 1])) = r[u]  BY <1>9, <2>2
  <2>4. r[f[r[u] + 1]] = r[u]  BY <2>3
  <2>5. f[r[u] + 1] = u  BY <1>4, <2>3, <2>4 DEF Injection, IsInjective
  <2> QED BY <2>2, <2>5
<1> QED BY <1>1, <1>9, <1>10, <1>11, <1>12 DEF f, Over

\* The numbers of a finite set from the lowest: each once.
LEMMA RisingIs ==
  ASSUME NEW S, IsFiniteSet(S), S \subseteq Nat
  PROVE  /\ Cardinality(S) \in Nat /\ Rising(S) \in [1..Cardinality(S) -> S]
         /\ \A i \in 1..Cardinality(S) : Cardinality({v \in S : v < Rising(S)[i]}) = i - 1
         /\ \A i, j \in 1..Cardinality(S) : i < j => Rising(S)[i] < Rising(S)[j]
         /\ \A u \in S : \E i \in 1..Cardinality(S) : Rising(S)[i] = u
<1> DEFINE n == Cardinality(S)
           Under(u) == {v \in S : v < u}
           r == [u \in S |-> Cardinality(Under(u))]
<1>1. n \in Nat  BY FS_CardinalityType
<1>2. ASSUME NEW u \in S PROVE IsFiniteSet(Under(u)) /\ Cardinality(Under(u)) \in Nat /\ Cardinality(Under(u)) < n
  <2>1. Under(u) \in SUBSET S /\ u \notin Under(u)  OBVIOUS
  <2>2. IsFiniteSet(Under(u)) /\ Cardinality(Under(u)) <= n /\ (n = Cardinality(Under(u)) => S = Under(u))  BY <2>1, FS_Subset
  <2>3. Cardinality(Under(u)) \in Nat  BY <2>2, FS_CardinalityType
  <2> QED BY <1>1, <2>1, <2>2, <2>3
<1>3. ASSUME NEW u \in S, NEW w \in S, u < w PROVE Cardinality(Under(u)) < Cardinality(Under(w))
  <2>1. Under(u) \in SUBSET Under(w) /\ u \in Under(w) /\ u \notin Under(u)
    <3>1. u \in Nat /\ w \in Nat /\ \A v \in S : v < u => v < w  BY <1>3
    <3>2. u < w /\ ~(u < u)  BY <1>3, <3>1
    <3> QED BY <3>1, <3>2
  <2>2. /\ Cardinality(Under(u)) <= Cardinality(Under(w))
        /\ Cardinality(Under(w)) = Cardinality(Under(u)) => Under(w) = Under(u)
    BY <1>2, <2>1, FS_Subset
  <2> HIDE DEF Under
  <2> QED BY <1>2, <2>1, <2>2
<1> HIDE DEF Under
<1>4. r \in Injection(S, 0..n - 1)
  <2>1. r \in [S -> 0..n - 1]  BY <1>1, <1>2
  <2>2. ASSUME NEW u \in S, NEW w \in S, r[u] = r[w] PROVE u = w
    <3>1. u \in Nat /\ w \in Nat /\ Cardinality(Under(u)) = Cardinality(Under(w)) /\ Cardinality(Under(u)) \in Nat  BY <1>2, <2>2
    <3>2. ~(u < w) /\ ~(w < u)  BY <1>3, <3>1
    <3> QED BY <3>1, <3>2
  <2> QED BY <2>1, <2>2 DEF Injection, IsInjective
<1>5. IsFiniteSet(0..n - 1) /\ Cardinality(0..n - 1) = n
  <2>1. n - 1 \in Int /\ 0 \in Int  BY <1>1
  <2>2. IsFiniteSet(0..n - 1) /\ Cardinality(0..n - 1) = IF 0 > n - 1 THEN 0 ELSE (n - 1) - 0 + 1  BY <2>1, FS_Interval
  <2>3. (IF 0 > n - 1 THEN 0 ELSE (n - 1) - 0 + 1) = n  BY <1>1
  <2> QED BY <2>2, <2>3
<1>6. r \in Surjection(S, 0..n - 1)  BY <1>4, <1>5, FS_Injection
<1>7. ASSUME NEW i \in 1..n PROVE \E u \in S : Cardinality(Under(u)) = i - 1
  <2>1. i - 1 \in 0..n - 1  BY <1>1
  <2>2. \E u \in S : r[u] = i - 1  BY <1>6, <2>1 DEF Surjection
  <2> QED BY <2>2
<1> DEFINE f == Rising(S)
<1>8. f = [i \in 1..n |-> CHOOSE u \in S : Cardinality(Under(u)) = i - 1]  BY DEF Rising, Under
<1> HIDE DEF f
<1>9. ASSUME NEW i \in 1..n PROVE f[i] \in S /\ Cardinality(Under(f[i])) = i - 1
  <2>1. f[i] = CHOOSE u \in S : Cardinality(Under(u)) = i - 1  BY <1>8
  <2> QED BY <1>7, <2>1
<1>10. f \in [1..n -> S]  BY <1>8, <1>9
<1>11. ASSUME NEW i \in 1..n, NEW j \in 1..n, i < j PROVE f[i] < f[j]
  <2>1. f[i] \in Nat /\ f[j] \in Nat /\ Cardinality(Under(f[i])) = i - 1 /\ Cardinality(Under(f[j])) = j - 1  BY <1>9
  <2>2. f[i] # f[j]  BY <1>11, <2>1
  <2>3. ~(f[j] < f[i])
    <3> SUFFICES ASSUME f[j] < f[i] PROVE FALSE  OBVIOUS
    <3>1. Cardinality(Under(f[j])) < Cardinality(Under(f[i]))  BY <1>3, <1>9
    <3> QED BY <1>11, <2>1, <3>1
  <2> QED BY <2>1, <2>2, <2>3
<1>12. ASSUME NEW u \in S PROVE \E i \in 1..n : f[i] = u
  <2>1. r[u] \in 0..n - 1 /\ r[u] = Cardinality(Under(u))  BY <1>4 DEF Injection
  <2>2. r[u] + 1 \in 1..n /\ (r[u] + 1) - 1 = r[u]  BY <1>1, <2>1
  <2>3. f[r[u] + 1] \in S /\ Cardinality(Under(f[r[u] + 1])) = r[u]  BY <1>9, <2>2
  <2>4. r[f[r[u] + 1]] = r[u]  BY <2>3
  <2>5. f[r[u] + 1] = u  BY <1>4, <2>3, <2>4 DEF Injection, IsInjective
  <2> QED BY <2>2, <2>5
<1> QED BY <1>1, <1>9, <1>10, <1>11, <1>12 DEF f, Under

\* A finite set of numbers that is not empty has its highest and its lowest.
LEMMA EndsAre ==
  ASSUME NEW S, IsFiniteSet(S), S \subseteq Nat, S # {}
  PROVE  /\ Max(S) \in S /\ \A v \in S : Max(S) >= v
         /\ Min(S) \in S /\ \A v \in S : Min(S) <= v
<1> DEFINE n == Cardinality(S)
           f == Falling(S)
           g == Rising(S)
<1>1. n \in Nat /\ f \in [1..n -> S] /\ (\A i, j \in 1..n : i < j => f[i] > f[j]) /\ \A u \in S : \E i \in 1..n : f[i] = u
  BY FallingIs
<1>2. g \in [1..n -> S] /\ (\A i, j \in 1..n : i < j => g[i] < g[j]) /\ \A u \in S : \E i \in 1..n : g[i] = u  BY RisingIs
<1> HIDE DEF n, f, g
<1>3. 1 \in 1..n
  <2>1. PICK u \in S, i \in 1..n : f[i] = u  BY <1>1
  <2> QED BY <1>1, <2>1
<1>4. \A v \in S : f[1] >= v
  <2> SUFFICES ASSUME NEW v \in S PROVE f[1] >= v  OBVIOUS
  <2>1. PICK i \in 1..n : f[i] = v  BY <1>1
  <2>2. i = 1 \/ 1 < i  BY <1>1
  <2>3. f[1] \in Nat /\ v \in Nat  BY <1>1, <1>3
  <2> QED BY <1>1, <1>3, <2>1, <2>2, <2>3
<1>5. \A v \in S : g[1] <= v
  <2> SUFFICES ASSUME NEW v \in S PROVE g[1] <= v  OBVIOUS
  <2>1. PICK i \in 1..n : g[i] = v  BY <1>2
  <2>2. i = 1 \/ 1 < i  BY <1>1
  <2>3. g[1] \in Nat /\ v \in Nat  BY <1>2, <1>3
  <2> QED BY <1>2, <1>3, <2>1, <2>2, <2>3
<1>6. f[1] \in S /\ g[1] \in S  BY <1>1, <1>2, <1>3
<1> QED BY <1>4, <1>5, <1>6 DEF Max, Min

\* What holds at 0 and at each number after one at which it holds, holds up to any number.
LEMMA ClimbTo ==
  ASSUME NEW N \in Nat, NEW G, 0 \in G, \A n \in 0..N - 1 : n \in G => n + 1 \in G
  PROVE  \A n \in 0..N : n \in G
<1> SUFFICES ASSUME NEW k \in 0..N, k \notin G PROVE FALSE  OBVIOUS
<1> DEFINE T == {n \in 0..N : n \notin G}
<1>1. T \subseteq Nat /\ T # {} /\ T \subseteq 0..N  OBVIOUS
<1>2. IsFiniteSet(T)
  <2>1. 0 \in Int /\ N \in Int  OBVIOUS
  <2>2. IsFiniteSet(0..N)  BY <2>1, FS_Interval
  <2> QED BY <1>1, <2>2, FS_Subset
<1>3. Min(T) \in T /\ \A v \in T : Min(T) <= v  BY <1>1, <1>2, EndsAre
<1>4. PICK m : m = Min(T)  OBVIOUS
<1>5. m \in 0..N /\ m \notin G /\ m # 0  BY <1>3, <1>4
<1>6. m - 1 \in 0..N - 1 /\ m - 1 \notin T  BY <1>3, <1>4, <1>5
<1> QED BY <1>5, <1>6

\* A function on the first numbers is a sequence.
LEMMA FunIsSeq == ASSUME NEW n \in Nat, NEW S, NEW f \in [1..n -> S] PROVE f \in Seq(S) /\ Len(f) = n
OBVIOUS

\* The first part of a sequence, place by place.
LEMMA CutIs ==
  ASSUME NEW S, NEW s \in Seq(S), NEW n \in Nat, n <= Len(s)
  PROVE  SubSeq(s, 1, n) \in Seq(S) /\ Len(SubSeq(s, 1, n)) = n /\ \A i \in 1..n : SubSeq(s, 1, n)[i] = s[i]
OBVIOUS

\* A sequence over a set is one over a larger set.
LEMMA SeqWider == ASSUME NEW S, NEW T, S \subseteq T, NEW s \in Seq(S) PROVE s \in Seq(T)
<1>1. Len(s) \in Nat /\ s \in [1..Len(s) -> S]  OBVIOUS
<1>2. s \in [1..Len(s) -> T]  BY <1>1
<1> QED BY <1>1, <1>2

------------------------------------
(* Totals *)

\* A set that goes into a finite one, each element to a place of its own, is no larger.
LEMMA Fewer ==
  ASSUME NEW A, NEW B, IsFiniteSet(B), NEW h \in [A -> B], \A x, y \in A : h[x] = h[y] => x = y
  PROVE  /\ IsFiniteSet(A) /\ Cardinality(A) \in Nat /\ Cardinality(B) \in Nat
         /\ Cardinality(A) <= Cardinality(B)
<1>1. h \in Injection(A, B)  BY DEF Injection, IsInjective
<1>2. IsFiniteSet(A) /\ Cardinality(A) <= Cardinality(B)  BY <1>1, FS_Injection
<1> QED BY <1>2, FS_CardinalityType

\* The units of one argument.
LEMMA UnitsOfOne ==
  ASSUME NEW x, NEW n \in Nat
  PROVE  IsFiniteSet({x} \X (1..n)) /\ Cardinality({x} \X (1..n)) = n
<1>1. IsFiniteSet({x}) /\ Cardinality({x}) = 1  BY FS_Singleton
<1>2. IsFiniteSet(1..n) /\ Cardinality(1..n) = n
  <2>1. 1 \in Int /\ n \in Int  OBVIOUS
  <2>2. IsFiniteSet(1..n) /\ Cardinality(1..n) = IF 1 > n THEN 0 ELSE n - 1 + 1  BY <2>1, FS_Interval
  <2>3. (IF 1 > n THEN 0 ELSE n - 1 + 1) = n  OBVIOUS
  <2> QED BY <2>2, <2>3
<1>3. IsFiniteSet({x} \X (1..n)) /\ Cardinality({x} \X (1..n)) = Cardinality({x}) * Cardinality(1..n)  BY <1>1, <1>2, FS_Product
<1>4. 1 * n = n  OBVIOUS
<1> QED BY <1>1, <1>2, <1>3, <1>4

\* What a unit is.
LEMMA UnitIs ==
  ASSUME NEW f, NEW u
  PROVE  u \in Units(f) <=> \E x \in DOMAIN f : \E k \in 1..f[x] : u = <<x, k>>
<1>1. u \in Units(f) <=> \E x \in DOMAIN f : u \in {x} \X (1..f[x])  BY DEF Units
<1>2. \A x : u \in {x} \X (1..f[x]) <=> \E k \in 1..f[x] : u = <<x, k>>  OBVIOUS
<1> QED BY <1>1, <1>2

\* The units of a function with a finite domain are finitely many.
LEMMA TotalIs ==
  ASSUME NEW D, IsFiniteSet(D), NEW f \in [D -> Nat]
  PROVE  /\ IsFiniteSet(Units(f)) /\ Total(f) \in Nat
         /\ D = {} => Total(f) = 0
<1> DEFINE of == [x \in D |-> {x} \X (1..f[x])]
           T == {{x} \X (1..f[x]) : x \in D}
<1>1. of \in Surjection(D, T)
  <2>1. of \in [D -> T]  OBVIOUS
  <2>2. \A u \in T : \E x \in D : of[x] = u  OBVIOUS
  <2> HIDE DEF of, T
  <2> QED BY <2>1, <2>2 DEF Surjection
<1>2. IsFiniteSet(T)
  <2> HIDE DEF of, T
  <2> QED BY <1>1, FS_Surjection
<1>3. \A u \in T : IsFiniteSet(u)
  <2> SUFFICES ASSUME NEW x \in D PROVE IsFiniteSet({x} \X (1..f[x]))  OBVIOUS
  <2> QED BY UnitsOfOne
<1>4. Units(f) = UNION T  BY DEF Units
<1>5. IsFiniteSet(Units(f))
  <2> HIDE DEF T
  <2> QED BY <1>2, <1>3, <1>4, FS_UNION
<1>6. D = {} => Units(f) = {}  BY DEF Units
<1> QED BY <1>5, <1>6, FS_CardinalityType, FS_EmptySet DEF Total

\* A total is that of the others and the value of one argument.
LEMMA TotalOne ==
  ASSUME NEW D, IsFiniteSet(D), NEW f \in [D -> Nat], NEW x \in D
  PROVE  LET rest == [y \in D \ {x} |-> f[y]]
         IN  rest \in [D \ {x} -> Nat] /\ Total(rest) \in Nat /\ Total(f) = Total(rest) + f[x]
<1> DEFINE rest == [y \in D \ {x} |-> f[y]]
           own == {x} \X (1..f[x])
<1>1. rest \in [D \ {x} -> Nat] /\ IsFiniteSet(D \ {x}) /\ f[x] \in Nat  BY FS_RemoveElement
<1>2. IsFiniteSet(Units(rest)) /\ Total(rest) \in Nat
  <2> HIDE DEF rest
  <2> QED BY <1>1, TotalIs
<1>3. IsFiniteSet(own) /\ Cardinality(own) = f[x]  BY <1>1, UnitsOfOne
<1>4. Units(f) = Units(rest) \cup own
  <2>1. ASSUME NEW u PROVE u \in Units(f) <=> u \in Units(rest) \/ u \in own
    <3>1. u \in Units(f) <=> \E y \in D : \E k \in 1..f[y] : u = <<y, k>>  BY UnitIs
    <3>2. u \in Units(rest) <=> \E y \in D \ {x} : \E k \in 1..f[y] : u = <<y, k>>
      <4>1. DOMAIN rest = D \ {x} /\ \A y \in D \ {x} : rest[y] = f[y]  OBVIOUS
      <4>2. u \in Units(rest) <=> \E y \in DOMAIN rest : \E k \in 1..rest[y] : u = <<y, k>>  BY UnitIs
      <4> HIDE DEF rest
      <4> QED BY <4>1, <4>2
    <3>3. u \in own <=> \E k \in 1..f[x] : u = <<x, k>>  OBVIOUS
    <3> HIDE DEF own, rest
    <3> QED BY <3>1, <3>2, <3>3
  <2> HIDE DEF own, rest
  <2> QED BY <2>1
<1>5. Units(rest) \cap own = {}
  <2> SUFFICES ASSUME NEW u \in Units(rest), u \in own PROVE FALSE  OBVIOUS
  <2>1. PICK y \in DOMAIN rest : \E k \in 1..rest[y] : u = <<y, k>>  BY UnitIs
  <2>2. PICK l \in 1..f[x] : u = <<x, l>>  OBVIOUS
  <2>3. y = x /\ y \in D \ {x}  BY <2>1, <2>2
  <2> QED BY <2>3
<1>6. Cardinality(Units(rest) \cup own) = Cardinality(Units(rest)) + Cardinality(own) - Cardinality(Units(rest) \cap own)
  <2> HIDE DEF own, rest
  <2> QED BY <1>2, <1>3, FS_Union
<1>7. Cardinality(Units(rest) \cap own) = 0  BY <1>5, FS_EmptySet
<1> HIDE DEF rest, own
<1>8. Total(f) = Total(rest) + f[x]
  <2>1. Cardinality(Units(rest)) \in Nat /\ Cardinality(Units(rest)) = Total(rest) /\ Total(f) = Cardinality(Units(f))
    BY <1>2 DEF Total
  <2> QED BY <1>1, <1>3, <1>4, <1>6, <1>7, <2>1
<1> QED BY <1>1, <1>2, <1>8 DEF rest

\* A total over places that go into others with no less is no more.
LEMMA TotalLess ==
  ASSUME NEW D, NEW E, IsFiniteSet(E), NEW f \in [D -> Nat], NEW g \in [E -> Nat],
         NEW h \in [D -> E], \A x, y \in D : h[x] = h[y] => x = y, \A x \in D : f[x] <= g[h[x]]
  PROVE  IsFiniteSet(D) /\ Total(f) \in Nat /\ Total(g) \in Nat /\ Total(f) <= Total(g)
<1>1. IsFiniteSet(D)  BY Fewer
<1>2. IsFiniteSet(Units(g)) /\ Total(g) \in Nat /\ Total(f) \in Nat  BY <1>1, TotalIs
<1> DEFINE to == [u \in Units(f) |-> <<h[u[1]], u[2]>>]
<1>3. ASSUME NEW u \in Units(f) PROVE u[1] \in D /\ u[2] \in 1..f[u[1]] /\ u = <<u[1], u[2]>>
  <2>1. PICK x \in D : \E k \in 1..f[x] : u = <<x, k>>  BY UnitIs
  <2>2. PICK k \in 1..f[x] : u = <<x, k>>  BY <2>1
  <2> QED BY <2>2
<1>4. to \in [Units(f) -> Units(g)]
  <2> SUFFICES ASSUME NEW u \in Units(f) PROVE <<h[u[1]], u[2]>> \in Units(g)  OBVIOUS
  <2>1. h[u[1]] \in E /\ u[2] \in 1..g[h[u[1]]]
    <3>1. u[1] \in D /\ u[2] \in Nat /\ u[2] >= 1 /\ u[2] <= f[u[1]]  BY <1>3
    <3>2. h[u[1]] \in E /\ f[u[1]] \in Nat /\ g[h[u[1]]] \in Nat /\ f[u[1]] <= g[h[u[1]]]  BY <3>1
    <3> QED BY <3>1, <3>2
  <2>2. \E x \in DOMAIN g : \E k \in 1..g[x] : <<h[u[1]], u[2]>> = <<x, k>>  BY <2>1
  <2> QED BY <2>2, UnitIs
<1>5. \A u, v \in Units(f) : to[u] = to[v] => u = v
  <2> SUFFICES ASSUME NEW u \in Units(f), NEW v \in Units(f), to[u] = to[v] PROVE u = v  OBVIOUS
  <2>1. h[u[1]] = h[v[1]] /\ u[2] = v[2]  OBVIOUS
  <2>2. u[1] = v[1]  BY <1>3, <2>1
  <2> QED BY <1>3, <2>1, <2>2
<1> HIDE DEF to
<1>6. Cardinality(Units(f)) <= Cardinality(Units(g))  BY <1>2, <1>4, <1>5, Fewer
<1> QED BY <1>1, <1>2, <1>6 DEF Total

------------------------------------
(* Parts of sequences *)

\* Every element of t comes from a place of s, no place giving two.
DrawnBy(t, s, h) == /\ h \in [1..Len(t) -> 1..Len(s)]
                    /\ \A m, n \in 1..Len(t) : h[m] = h[n] => m = n
                    /\ \A n \in 1..Len(t) : t[n] = s[h[n]]
Drawn(t, s) == \E h : DrawnBy(t, s, h)
Climbs(h, n) == \A k, l \in 1..n : k < l => h[k] < h[l]

LEMMA PickedIs ==
  ASSUME NEW S, NEW s \in Seq(S), NEW K, K \subseteq 1..Len(s)
  PROVE  LET t == Picked(s, K) h == Rising(K) IN
         /\ t \in Seq(S) /\ IsFiniteSet(K) /\ Cardinality(K) \in Nat /\ Len(t) = Cardinality(K) /\ Len(t) <= Len(s)
         /\ DrawnBy(t, s, h) /\ Climbs(h, Len(t)) /\ h \in [1..Len(t) -> K]
         /\ \A k \in K : \E n \in 1..Len(t) : h[n] = k
<1> DEFINE t == Picked(s, K)
           h == Rising(K)
           n == Cardinality(K)
<1>1. IsFiniteSet(K) /\ K \subseteq Nat /\ n <= Len(s) /\ n \in Nat
  <2>1. 1 \in Int /\ Len(s) \in Int /\ Len(s) \in Nat  OBVIOUS
  <2>2. IsFiniteSet(1..Len(s)) /\ Cardinality(1..Len(s)) = IF 1 > Len(s) THEN 0 ELSE Len(s) - 1 + 1  BY <2>1, FS_Interval
  <2>3. Cardinality(1..Len(s)) = Len(s)  BY <2>1, <2>2
  <2>4. IsFiniteSet(K) /\ n <= Len(s)  BY <2>2, <2>3, FS_Subset
  <2> QED BY <2>4, FS_CardinalityType
<1>2. h \in [1..n -> K] /\ (\A i, j \in 1..n : i < j => h[i] < h[j]) /\ \A u \in K : \E i \in 1..n : h[i] = u  BY <1>1, RisingIs
<1>3. t = [i \in 1..n |-> s[h[i]]]  BY DEF Picked
<1> HIDE DEF t, h, n
<1>4. \A i \in 1..n : h[i] \in K /\ h[i] \in 1..Len(s) /\ s[h[i]] \in S
  <2>1. s \in [1..Len(s) -> S]  OBVIOUS
  <2> QED BY <1>2, <2>1
<1>5. t \in [1..n -> S]  BY <1>3, <1>4
<1>6. t \in Seq(S) /\ Len(t) = n  BY <1>1, <1>5, FunIsSeq
<1>7. \A i, j \in 1..n : h[i] = h[j] => i = j
  <2> SUFFICES ASSUME NEW i \in 1..n, NEW j \in 1..n, h[i] = h[j], i # j PROVE FALSE  OBVIOUS
  <2>1. i < j \/ j < i  BY <1>1
  <2>2. h[i] \in Nat /\ h[j] \in Nat  BY <1>1, <1>4
  <2> QED BY <1>2, <2>1, <2>2
<1>8. h \in [1..n -> 1..Len(s)] /\ \A i \in 1..n : t[i] = s[h[i]]  BY <1>2, <1>3, <1>4
<1>9. DrawnBy(t, s, h)  BY <1>6, <1>7, <1>8 DEF DrawnBy
<1>10. Climbs(h, n)  BY <1>2 DEF Climbs
<1> QED BY <1>1, <1>2, <1>6, <1>9, <1>10 DEF t, h, n

LEMMA DrawnTwice == ASSUME NEW r, NEW s, NEW t, Drawn(t, s), Drawn(s, r) PROVE Drawn(t, r)
<1>1. PICK h : DrawnBy(t, s, h)  BY DEF Drawn
<1>2. PICK g : DrawnBy(s, r, g)  BY DEF Drawn
<1> DEFINE k == [n \in 1..Len(t) |-> g[h[n]]]
<1>3. DrawnBy(t, r, k)
  <2>1. \A n \in 1..Len(t) : h[n] \in 1..Len(s) /\ g[h[n]] \in 1..Len(r) /\ t[n] = s[h[n]] /\ s[h[n]] = r[g[h[n]]]
    BY <1>1, <1>2 DEF DrawnBy
  <2>2. \A m, n \in 1..Len(t) : g[h[m]] = g[h[n]] => m = n  BY <1>1, <1>2, <2>1 DEF DrawnBy
  <2> QED BY <2>1, <2>2 DEF DrawnBy
<1> QED BY <1>3 DEF Drawn

\* One of a set of sequences of bounded length is the longest.
LEMMA LongestIs ==
  ASSUME NEW set, set # {}, NEW b \in Nat, \A s \in set : Len(s) \in 0..b
  PROVE  Longest(set) \in set /\ \A other \in set : Len(Longest(set)) >= Len(other)
<1> DEFINE L == {Len(s) : s \in set}
<1>1. L \subseteq 0..b /\ L # {} /\ L \subseteq Nat
  <2>1. ASSUME NEW v \in L PROVE v \in 0..b
    <3>1. PICK s \in set : v = Len(s)  OBVIOUS
    <3> QED BY <3>1
  <2>2. L # {}  OBVIOUS
  <2> HIDE DEF L
  <2> QED BY <2>1, <2>2
<1>2. IsFiniteSet(L)
  <2>1. 0 \in Int /\ b \in Int  OBVIOUS
  <2>2. IsFiniteSet(0..b)  BY <2>1, FS_Interval
  <2> HIDE DEF L
  <2> QED BY <1>1, <2>2, FS_Subset
<1>3. Max(L) \in L /\ \A v \in L : Max(L) >= v
  <2> HIDE DEF L
  <2> QED BY <1>1, <1>2, EndsAre
<1>4. PICK s \in set : Len(s) = Max(L)  BY <1>3
<1>5. \A other \in set : Len(s) >= Len(other)  BY <1>3, <1>4
<1> QED BY <1>5 DEF Longest

------------------------------------
(* What parts of sequences hold *)

LEMMA PlacesAre == ASSUME NEW n \in Nat, NEW X, X \subseteq 1..n PROVE IsFiniteSet(1..n) /\ IsFiniteSet(X) /\ Cardinality(X) \in Nat /\ Cardinality(X) <= n
<1>1. 1 \in Int /\ n \in Int  OBVIOUS
<1>2. IsFiniteSet(1..n) /\ Cardinality(1..n) = IF 1 > n THEN 0 ELSE n - 1 + 1  BY <1>1, FS_Interval
<1>3. Cardinality(1..n) = n  BY <1>2
<1>4. IsFiniteSet(X) /\ Cardinality(X) <= n  BY <1>2, <1>3, FS_Subset
<1> QED BY <1>2, <1>4, FS_CardinalityType

\* What is drawn from a sequence is no more of anything.
LEMMA DrawnFewer ==
  ASSUME NEW s, NEW t, Len(s) \in Nat, NEW h, DrawnBy(t, s, h),
         NEW X, X \subseteq 1..Len(t), NEW Y, Y \subseteq 1..Len(s), \A n \in X : h[n] \in Y
  PROVE  Cardinality(X) \in Nat /\ Cardinality(Y) \in Nat /\ Cardinality(X) <= Cardinality(Y)
<1> DEFINE g == [n \in X |-> h[n]]
<1>1. g \in [X -> Y] /\ \A m, n \in X : g[m] = g[n] => m = n  BY DEF DrawnBy
<1>2. IsFiniteSet(Y)  BY PlacesAre
<1> HIDE DEF g
<1> QED BY <1>1, <1>2, Fewer

LEMMA DrawnLen == ASSUME NEW s, NEW t, Len(s) \in Nat, Len(t) \in Nat, Drawn(t, s) PROVE Len(t) <= Len(s)
<1>1. PICK h : DrawnBy(t, s, h)  BY DEF Drawn
<1>2. \A n \in 1..Len(t) : h[n] \in 1..Len(s)  BY <1>1 DEF DrawnBy
<1>3. Cardinality(1..Len(t)) <= Cardinality(1..Len(s))  BY <1>1, <1>2, DrawnFewer
<1>4. \A n \in Nat : Cardinality(1..n) = n
  <2> SUFFICES ASSUME NEW n \in Nat PROVE Cardinality(1..n) = n  OBVIOUS
  <2>1. 1 \in Int /\ n \in Int  OBVIOUS
  <2>2. Cardinality(1..n) = IF 1 > n THEN 0 ELSE n - 1 + 1  BY <2>1, FS_Interval
  <2> QED BY <2>2
<1> QED BY <1>3, <1>4

\* A total with one argument more.
LEMMA TotalMore ==
  ASSUME NEW D, NEW E, IsFiniteSet(D), NEW x \in D, E = D \ {x}, NEW f \in [D -> Nat],
         NEW rest \in [E -> Nat], \A y \in E : rest[y] = f[y]
  PROVE  Total(rest) \in Nat /\ Total(f) = Total(rest) + f[x]
<1>1. rest = [y \in D \ {x} |-> f[y]]  OBVIOUS
<1>2. Total(f) = Total([y \in D \ {x} |-> f[y]]) + f[x]  BY TotalOne
<1>3. IsFiniteSet(E)  BY FS_RemoveElement
<1>4. Total(rest) \in Nat  BY <1>3, TotalIs
<1> QED BY <1>1, <1>2, <1>4

\* The values of a function at other places of another, and a function with one place more.
Counts(f) == f = [n \in DOMAIN f |-> f[n]] /\ \A n \in DOMAIN f : f[n] \in Nat
GoesInto(g, f, h) == /\ IsFiniteSet(DOMAIN f) /\ h \in [DOMAIN g -> DOMAIN f]
                     /\ \A m, n \in DOMAIN g : h[m] = h[n] => m = n
                     /\ \A n \in DOMAIN g : g[n] = f[h[n]]
OneMore(f, g, x) == /\ x \in DOMAIN g /\ DOMAIN f = DOMAIN g \ {x} /\ IsFiniteSet(DOMAIN g)
                    /\ \A n \in DOMAIN f : g[n] = f[n]

LEMMA TotalDrawn == ASSUME NEW f, NEW g, NEW h, Counts(f), Counts(g), GoesInto(g, f, h) PROVE Total(g) <= Total(f)
<1> DEFINE D == DOMAIN g
           E == DOMAIN f
<1>1. f \in [E -> Nat] /\ g \in [D -> Nat]  BY DEF Counts
<1>2. IsFiniteSet(E) /\ h \in [D -> E] /\ \A m, n \in D : h[m] = h[n] => m = n  BY DEF GoesInto
<1>3. \A n \in D : g[n] <= f[h[n]]
  <2> SUFFICES ASSUME NEW n \in D PROVE g[n] <= f[h[n]]  OBVIOUS
  <2>1. g[n] \in Nat /\ g[n] = f[h[n]]  BY DEF GoesInto, Counts
  <2> QED BY <2>1
<1> HIDE DEF D, E
<1> QED BY <1>1, <1>2, <1>3, TotalLess

LEMMA TotalAdds == ASSUME NEW f, NEW g, NEW x, Counts(f), Counts(g), OneMore(f, g, x) PROVE Total(g) = Total(f) + g[x]
<1> DEFINE D == DOMAIN g
           E == DOMAIN f
<1>1. f \in [E -> Nat] /\ g \in [D -> Nat]  BY DEF Counts
<1>2. IsFiniteSet(D) /\ x \in D /\ E = D \ {x} /\ \A n \in E : f[n] = g[n]  BY DEF OneMore
<1> HIDE DEF D, E
<1> QED BY <1>1, <1>2, TotalMore

\* Whatever is cut of the oldest, the rest is drawn from the sequence; at the end all that was to be cut is gone.
LEMMA OldestCut ==
  ASSUME NEW S, NEW s \in Seq(S), NEW hits, hits \subseteq 1..Len(s)
  PROVE  /\ \A t \in WithoutOldest(s, hits) : t \in Seq(S) /\ Len(t) \in 0..Len(s) /\ Drawn(t, s)
         /\ Picked(s, (1..Len(s)) \ hits) \in WithoutOldest(s, hits)
<1>1. DOMAIN s = 1..Len(s) /\ Len(s) \in Nat  OBVIOUS
<1>2. ASSUME NEW t \in WithoutOldest(s, hits) PROVE t \in Seq(S) /\ Len(t) \in 0..Len(s) /\ Drawn(t, s)
  <2>1. PICK k \in 0..Len(s) : t = Picked(s, DOMAIN s \ (hits \cap 1..k))  BY DEF WithoutOldest
  <2> DEFINE K == DOMAIN s \ (hits \cap 1..k)
  <2>2. K \subseteq 1..Len(s) /\ t = Picked(s, K)  BY <1>1, <2>1
  <2> HIDE DEF K
  <2>3. t \in Seq(S) /\ Len(t) <= Len(s) /\ DrawnBy(t, s, Rising(K))  BY <2>2, PickedIs
  <2>4. Len(t) \in 0..Len(s)  BY <1>1, <2>3
  <2> QED BY <2>3, <2>4 DEF Drawn
<1>3. DOMAIN s \ (hits \cap 1..Len(s)) = (1..Len(s)) \ hits  BY <1>1
<1>4. Len(s) \in 0..Len(s)  BY <1>1
<1>5. Picked(s, (1..Len(s)) \ hits) \in WithoutOldest(s, hits)  BY <1>3, <1>4 DEF WithoutOldest
<1> QED BY <1>2, <1>5

\* One place more than a sequence has.
LEMMA OnePlaceMore ==
  ASSUME NEW S, NEW s \in Seq(S), NEW e \in S
  PROVE  LET t == Append(s, e) x == Len(s) + 1 D == 1..Len(t) E == 1..Len(s) IN
         /\ t \in Seq(S) /\ Len(t) = Len(s) + 1 /\ t[x] = e /\ (\A n \in E : t[n] = s[n])
         /\ E = D \ {x} /\ x \in D /\ IsFiniteSet(D) /\ IsFiniteSet(E) /\ D = E \cup {x} /\ x \notin E
<1> DEFINE t == Append(s, e)
<1>1. t \in Seq(S) /\ Len(t) = Len(s) + 1 /\ t[Len(s) + 1] = e /\ \A n \in 1..Len(s) : t[n] = s[n]  OBVIOUS
<1>2. Len(s) \in Nat /\ Len(s) + 1 \in Nat  OBVIOUS
<1>3. 1..Len(s) = (1..Len(s) + 1) \ {Len(s) + 1} /\ Len(s) + 1 \in 1..Len(s) + 1  BY <1>2
<1>4. IsFiniteSet(1..Len(s)) /\ IsFiniteSet(1..Len(s) + 1)  BY <1>2, PlacesAre
<1> HIDE DEF t
<1> QED BY <1>1, <1>3, <1>4 DEF t
=============================================================================
