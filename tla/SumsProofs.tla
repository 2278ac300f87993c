----------------------------- MODULE SumsProofs -----------------------------
(***************************************************************************)
(* Facts about SumTo.  Induction is done with the least counterexample:    *)
(* every non-empty set of naturals has a least element.                    *)
(***************************************************************************)
EXTENDS Sums, TLAPS, WellFoundedInduction

(* A non-empty set of natural numbers has a least element. *)
LEMMA LeastNat ==
  ASSUME NEW S, S \subseteq Nat, S # {}
  PROVE  \E n \in S : \A m \in S : n <= m
<1>1. IsWellFoundedOn(OpToRel(<,Nat), Nat)
  BY NatLessThanWellFounded
<1>2. PICK x \in S : \A y \in S : ~(<<y, x>> \in OpToRel(<,Nat))
  BY <1>1, WFMin, Zenon
<1>3. \A y \in S : ~(y < x)
  BY <1>2, Zenon DEF OpToRel
<1>4. \E n \in S : \A y \in S : ~(y < n)
  BY <1>3, Zenon
<1>5. QED
  BY <1>4

(* A set that contains 0 and is closed under successor below N contains    *)
(* 0..N.                                                                   *)
LEMMA UpTo ==
  ASSUME NEW N \in Nat, NEW S, 0 \in S,
         \A n \in 0..(N-1) : n \in S => n+1 \in S
  PROVE  \A n \in 0..N : n \in S
<1> DEFINE Bad == {n \in 0..N : n \notin S}
<1> SUFFICES ASSUME Bad # {} PROVE FALSE
  OBVIOUS
<1>1. PICK n \in Bad : \A m \in Bad : n <= m
  <2>1. Bad \subseteq Nat
    OBVIOUS
  <2> QED
    BY <2>1, LeastNat, Zenon
<1>2. n # 0 /\ n \in 1..N /\ n-1 \in 0..(N-1)
  OBVIOUS
<1>3. n-1 \in S
  BY <1>1, <1>2
<1>4. (n-1)+1 \in S
  BY <1>2, <1>3
<1>5. QED
  BY <1>2, <1>4

(* The graph of the partial sums up to n. *)
PartialSums(f, n, s) ==
  s = [i \in 0..n |-> IF i = 0 THEN 0 ELSE s[i-1] + f[i]]

(* Partial sums exist, with integer values. *)
LEMMA PartialSumsExist ==
  ASSUME NEW N \in Nat, NEW f \in [1..N -> Int]
  PROVE  \A n \in 0..N : \E s \in [0..n -> Int] : PartialSums(f, n, s)
<1> DEFINE S == {n \in 0..N : \E s \in [0..n -> Int] : PartialSums(f, n, s)}
<1>1. 0 \in S
  <2>1. [i \in 0..0 |-> 0] \in [0..0 -> Int] /\ PartialSums(f, 0, [i \in 0..0 |-> 0])
    BY DEF PartialSums
  <2> QED
    BY <2>1
<1>2. ASSUME NEW n \in 0..(N-1), n \in S PROVE n+1 \in S
  <2>1. PICK s \in [0..n -> Int] : PartialSums(f, n, s)
    BY <1>2
  <2> DEFINE s2 == [i \in 0..(n+1) |-> IF i = n+1 THEN s[n] + f[n+1] ELSE s[i]]
  <2>2. s2 \in [0..(n+1) -> Int]
    BY f[n+1] \in Int, s[n] \in Int
  <2>3. \A i \in 0..(n+1) : s2[i] = IF i = 0 THEN 0 ELSE s2[i-1] + f[i]
    BY <2>1 DEF PartialSums
  <2>4. PartialSums(f, n+1, s2)
    BY <2>2, <2>3 DEF PartialSums
  <2> QED
    BY <2>2, <2>4
<1>3. \A n \in 0..N : n \in S
  BY <1>1, <1>2, UpTo, Zenon
<1>4. QED
  BY <1>3

(* Partial sums agree where both are defined. *)
LEMMA PartialSumsUnique ==
  ASSUME NEW f, NEW n \in Nat, NEW m \in Nat, n <= m,
         NEW s, NEW r, PartialSums(f, n, s), PartialSums(f, m, r)
  PROVE  \A i \in 0..n : s[i] = r[i]
<1> DEFINE S == {i \in 0..n : s[i] = r[i]}
<1>1. 0 \in S
  BY DEF PartialSums
<1>2. ASSUME NEW i \in 0..(n-1), i \in S PROVE i+1 \in S
  <2>1. s[i+1] = s[(i+1)-1] + f[i+1]
    BY DEF PartialSums
  <2>2. r[i+1] = r[(i+1)-1] + f[i+1]
    BY DEF PartialSums
  <2>3. (i+1)-1 = i
    OBVIOUS
  <2> QED
    BY <1>2, <2>1, <2>2, <2>3
<1>3. \A i \in 0..n : i \in S
  BY <1>1, <1>2, UpTo, Zenon
<1>4. QED
  BY <1>3

(* SumTo is the last of the partial sums. *)
LEMMA SumToPartialSums ==
  ASSUME NEW N \in Nat, NEW f \in [1..N -> Int], NEW n \in 0..N
  PROVE  \E s \in [0..n -> Int] : PartialSums(f, n, s) /\ SumTo(f, n) = s[n]
<1> DEFINE c == CHOOSE s : s = [i \in 0..n |-> IF i = 0 THEN 0 ELSE s[i-1] + f[i]]
<1>1. PICK s \in [0..n -> Int] : PartialSums(f, n, s)
  BY PartialSumsExist
<1>2. PartialSums(f, n, c)
  <2>1. \E s2 : s2 = [i \in 0..n |-> IF i = 0 THEN 0 ELSE s2[i-1] + f[i]]
    BY <1>1, Zenon DEF PartialSums
  <2> QED
    BY <2>1, Zenon DEF PartialSums
<1>3. SumTo(f, n) = c[n]
  BY Zenon DEF SumTo
<1>4. \A i \in 0..n : c[i] = s[i]
  <2> HIDE DEF c
  <2>1. n <= n /\ n \in Nat
    OBVIOUS
  <2> QED
    BY <1>1, <1>2, <2>1, PartialSumsUnique
<1>5. SumTo(f, n) = s[n]
  <2>1. n \in 0..n
    OBVIOUS
  <2>2. c[n] = s[n]
    BY <1>4, <2>1, Zenon
  <2>3. QED
    BY <1>3, <2>2, Zenon
<1>6. QED
  BY <1>1, <1>5, Zenon

(* The recurrence that defines the sum. *)
LEMMA SumToZero ==
  ASSUME NEW N \in Nat, NEW f \in [1..N -> Int]
  PROVE  SumTo(f, 0) = 0
<1>1. PICK s \in [0..0 -> Int] : PartialSums(f, 0, s) /\ SumTo(f, 0) = s[0]
  BY SumToPartialSums, 0 \in 0..N
<1>2. QED
  BY <1>1 DEF PartialSums

(* The next partial sum adds one more term. *)
LEMMA SumToStep ==
  ASSUME NEW N \in Nat, NEW f \in [1..N -> Int], NEW n \in 1..N
  PROVE  SumTo(f, n) = SumTo(f, n-1) + f[n]
<1>1. PICK s : PartialSums(f, n, s) /\ SumTo(f, n) = s[n] /\ s[n-1] \in Int
  <2>1. n \in 0..N /\ n-1 \in 0..n
    OBVIOUS
  <2>2. PICK s \in [0..n -> Int] : PartialSums(f, n, s) /\ SumTo(f, n) = s[n]
    BY <2>1, SumToPartialSums, Zenon
  <2>3. s[n-1] \in Int
    BY <2>1, <2>2, Zenon
  <2>4. QED
    BY <2>2, <2>3, Zenon
<1>2. PICK m \in 0..N : m = n-1
  OBVIOUS
<1>3. PICK r : PartialSums(f, m, r) /\ SumTo(f, m) = r[m]
  BY SumToPartialSums
<1>4. \A i \in 0..m : r[i] = s[i]
  <2>1. m \in Nat /\ n \in Nat /\ m <= n
    BY <1>2
  <2>2. PartialSums(f, m, r) /\ PartialSums(f, n, s)
    BY <1>1, <1>3
  <2> QED
    BY <2>1, <2>2, PartialSumsUnique
<1>5. s[n] = s[n-1] + f[n]
  BY <1>1 DEF PartialSums
<1>6. QED
  BY <1>1, <1>2, <1>3, <1>4, <1>5

(* A sum of integers is an integer. *)
LEMMA SumToInt ==
  ASSUME NEW N \in Nat, NEW f \in [1..N -> Int], NEW n \in 0..N
  PROVE  SumTo(f, n) \in Int
BY SumToPartialSums

(* A sum of naturals is a natural, no smaller than any of its terms. *)
LEMMA SumToNat ==
  ASSUME NEW N \in Nat, NEW f \in [1..N -> Nat]
  PROVE  /\ SumTo(f, N) \in Nat
         /\ \A i \in 1..N : f[i] <= SumTo(f, N)
<1> DEFINE S == {n \in 0..N : /\ SumTo(f, n) \in Nat
                              /\ \A i \in 1..n : f[i] <= SumTo(f, n)}
<1>0. f \in [1..N -> Int]
  OBVIOUS
<1>1. 0 \in S
  BY <1>0, SumToZero
<1>2. ASSUME NEW n \in 0..(N-1), n \in S PROVE n+1 \in S
  <2>1. SumTo(f, n+1) = SumTo(f, (n+1)-1) + f[n+1]
    BY <1>0, SumToStep, n+1 \in 1..N
  <2>2. (n+1)-1 = n /\ f[n+1] \in Nat
    OBVIOUS
  <2>3. SumTo(f, n+1) = SumTo(f, n) + f[n+1]
    BY <2>1, <2>2
  <2>4. SumTo(f, n) \in Nat /\ \A i \in 1..n : f[i] <= SumTo(f, n)
    BY <1>2
  <2>5. \A i \in 1..n : f[i] \in Nat
    OBVIOUS
  <2> HIDE DEF S
  <2>6. \A i \in 1..(n+1) : f[i] <= SumTo(f, n+1)
    BY <2>2, <2>3, <2>4, <2>5
  <2>7. SumTo(f, n+1) \in Nat
    BY <2>2, <2>3, <2>4
  <2> QED
    BY <2>6, <2>7 DEF S
<1>3. \A n \in 0..N : n \in S
  BY <1>1, <1>2, UpTo, Zenon
<1>4. QED
  BY <1>3, N \in 0..N

(* The sum of two functions is the sum of their sums. *)
LEMMA SumToAdd ==
  ASSUME NEW N \in Nat, NEW f \in [1..N -> Int], NEW g \in [1..N -> Int],
         NEW h \in [1..N -> Int], \A i \in 1..N : h[i] = f[i] + g[i]
  PROVE  SumTo(h, N) = SumTo(f, N) + SumTo(g, N)
<1> DEFINE S == {n \in 0..N : SumTo(h, n) = SumTo(f, n) + SumTo(g, n)}
<1>1. 0 \in S
  <2>1. SumTo(f, 0) = 0 /\ SumTo(g, 0) = 0 /\ SumTo(h, 0) = 0
    BY SumToZero, Zenon
  <2> QED
    BY <2>1
<1>2. ASSUME NEW n \in 0..(N-1), n \in S PROVE n+1 \in S
  <2>1. \A k \in [1..N -> Int] : SumTo(k, n+1) = SumTo(k, n) + k[n+1]
    <3>1. (n+1)-1 = n /\ n+1 \in 1..N
      OBVIOUS
    <3> QED
      BY <3>1, SumToStep
  <2>2. SumTo(f, n) \in Int /\ SumTo(g, n) \in Int
    BY SumToInt, n \in 0..N
  <2>3. h[n+1] = f[n+1] + g[n+1] /\ f[n+1] \in Int /\ g[n+1] \in Int
    OBVIOUS
  <2>4. /\ SumTo(f, n+1) = SumTo(f, n) + f[n+1]
        /\ SumTo(g, n+1) = SumTo(g, n) + g[n+1]
        /\ SumTo(h, n+1) = SumTo(h, n) + h[n+1]
    BY <2>1
  <2>5. SumTo(h, n) = SumTo(f, n) + SumTo(g, n)
    BY <1>2
  <2> HIDE DEF S
  <2>6. SumTo(h, n+1) = SumTo(f, n+1) + SumTo(g, n+1)
    BY <2>2, <2>3, <2>4, <2>5
  <2> QED
    BY <2>6 DEF S
<1>3. \A n \in 0..N : n \in S
  BY <1>1, <1>2, UpTo, Zenon
<1>4. QED
  BY <1>3, N \in 0..N

(* Changing one term changes the sum by as much. *)
LEMMA SumToChange ==
  ASSUME NEW N \in Nat, NEW f \in [1..N -> Int], NEW g \in [1..N -> Int],
         NEW i \in 1..N, \A j \in 1..N : j # i => g[j] = f[j]
  PROVE  SumTo(g, N) = SumTo(f, N) + g[i] - f[i]
<1> DEFINE S == {n \in 0..N : SumTo(g, n) = SumTo(f, n)
                                  + (IF i <= n THEN g[i] - f[i] ELSE 0)}
<1>1. 0 \in S
  <2>1. SumTo(f, 0) = 0 /\ SumTo(g, 0) = 0
    BY SumToZero, Zenon
  <2> QED
    BY <2>1
<1>2. ASSUME NEW n \in 0..(N-1), n \in S PROVE n+1 \in S
  <2>1. \A k \in [1..N -> Int] : SumTo(k, n+1) = SumTo(k, n) + k[n+1]
    <3>1. (n+1)-1 = n /\ n+1 \in 1..N
      OBVIOUS
    <3> QED
      BY <3>1, SumToStep
  <2>2. SumTo(f, n) \in Int /\ SumTo(g, n) \in Int
    BY SumToInt, n \in 0..N
  <2>3. /\ SumTo(f, n+1) = SumTo(f, n) + f[n+1]
        /\ SumTo(g, n+1) = SumTo(g, n) + g[n+1]
    BY <2>1
  <2>4. SumTo(g, n) = SumTo(f, n) + (IF i <= n THEN g[i] - f[i] ELSE 0)
    BY <1>2
  <2>5. /\ n+1 \in 1..N /\ f[n+1] \in Int /\ g[n+1] \in Int /\ f[i] \in Int /\ g[i] \in Int
        /\ n+1 # i => g[n+1] = f[n+1]
    OBVIOUS
  <2> HIDE DEF S
  <2>6. SumTo(g, n+1) = SumTo(f, n+1) + (IF i <= n+1 THEN g[i] - f[i] ELSE 0)
    <3>1. CASE i = n+1
      BY <2>2, <2>3, <2>4, <2>5, <3>1
    <3>2. CASE i # n+1
      BY <2>2, <2>3, <2>4, <2>5, <3>2
    <3> QED
      BY <3>1, <3>2
  <2> QED
    BY <2>6 DEF S
<1>3. \A n \in 0..N : n \in S
  BY <1>1, <1>2, UpTo, Zenon
<1>4. SumTo(g, N) = SumTo(f, N) + (IF i <= N THEN g[i] - f[i] ELSE 0)
  BY <1>3, N \in 0..N
<1>5. SumTo(g, N) \in Int /\ SumTo(f, N) \in Int /\ f[i] \in Int /\ g[i] \in Int
  BY SumToInt, N \in 0..N
<1>6. QED
  BY <1>4, <1>5

(* The case of two indexes. *)
LEMMA SumToChangeTwo ==
  ASSUME NEW N \in Nat, NEW f \in [1..N -> Int], NEW h \in [1..N -> Int],
         NEW i \in 1..N, NEW j \in 1..N, i # j,
         \A k \in 1..N : k # i /\ k # j => h[k] = f[k]
  PROVE  SumTo(h, N) = SumTo(f, N) + h[i] - f[i] + h[j] - f[j]
<1> DEFINE g == [f EXCEPT ![i] = h[i]]
<1>1. /\ g \in [1..N -> Int]
      /\ g[i] = h[i] /\ g[j] = f[j]
      /\ \A k \in 1..N : k # i => g[k] = f[k]
      /\ \A k \in 1..N : k # j => h[k] = g[k]
  OBVIOUS
<1> HIDE DEF g
<1>2. SumTo(g, N) = SumTo(f, N) + g[i] - f[i]
  BY <1>1, SumToChange
<1>3. SumTo(h, N) = SumTo(g, N) + h[j] - g[j]
  BY <1>1, SumToChange
<1>4. N \in 0..N
  OBVIOUS
<1>5. SumTo(f, N) \in Int
  BY <1>4, SumToInt
<1>6. QED
  BY <1>1, <1>2, <1>3, <1>5

(* A sum of zeros. *)
LEMMA SumToZeros ==
  ASSUME NEW N \in Nat, NEW f \in [1..N -> Int], \A i \in 1..N : f[i] = 0
  PROVE  SumTo(f, N) = 0
<1>1. \A i \in 1..N : f[i] = f[i] + f[i]
  OBVIOUS
<1>2. SumTo(f, N) = SumTo(f, N) + SumTo(f, N)
  BY <1>1, SumToAdd
<1>3. N \in 0..N
  OBVIOUS
<1>4. SumTo(f, N) \in Int
  BY <1>3, SumToInt
<1>5. QED
  BY <1>2, <1>4

(* A sum grows with its terms. *)
LEMMA SumToMonotone ==
  ASSUME NEW N \in Nat, NEW f \in [1..N -> Int], NEW g \in [1..N -> Int],
         \A i \in 1..N : f[i] <= g[i]
  PROVE  SumTo(f, N) <= SumTo(g, N)
<1> DEFINE h == [i \in 1..N |-> g[i] - f[i]]
<1>1. h \in [1..N -> Nat] /\ h \in [1..N -> Int] /\ \A i \in 1..N : g[i] = f[i] + h[i]
  OBVIOUS
<1> HIDE DEF h
<1>2. SumTo(g, N) = SumTo(f, N) + SumTo(h, N)
  BY <1>1, SumToAdd
<1>3. SumTo(h, N) \in Nat
  BY <1>1, SumToNat
<1>4. SumTo(f, N) \in Int
  BY SumToInt, N \in 0..N
<1> QED
  BY <1>2, <1>3, <1>4

(* A constant factor. *)
LEMMA SumToScale ==
  ASSUME NEW N \in Nat, NEW f \in [1..N -> Int], NEW g \in [1..N -> Int], NEW c \in Int,
         \A i \in 1..N : g[i] = c * f[i]
  PROVE  SumTo(g, N) = c * SumTo(f, N)
<1> DEFINE S == {n \in 0..N : SumTo(g, n) = c * SumTo(f, n)}
<1>1. 0 \in S
  <2>1. SumTo(f, 0) = 0 /\ SumTo(g, 0) = 0
    BY SumToZero, Zenon
  <2> QED
    BY <2>1
<1>2. ASSUME NEW n \in 0..(N-1), n \in S PROVE n+1 \in S
  <2>1. \A k \in [1..N -> Int] : SumTo(k, n+1) = SumTo(k, n) + k[n+1]
    <3>1. (n+1)-1 = n /\ n+1 \in 1..N
      OBVIOUS
    <3> QED
      BY <3>1, SumToStep
  <2>2. SumTo(f, n) \in Int /\ SumTo(g, n) \in Int
    BY SumToInt, n \in 0..N
  <2>3. /\ SumTo(f, n+1) = SumTo(f, n) + f[n+1]
        /\ SumTo(g, n+1) = SumTo(g, n) + c * f[n+1]
        /\ f[n+1] \in Int /\ SumTo(g, n) = c * SumTo(f, n)
    <3>1. f[n+1] \in Int /\ g[n+1] = c * f[n+1]
      OBVIOUS
    <3>2. SumTo(f, n+1) = SumTo(f, n) + f[n+1] /\ SumTo(g, n+1) = SumTo(g, n) + g[n+1]
      BY <2>1
    <3>3. SumTo(g, n) = c * SumTo(f, n)
      BY <1>2
    <3> HIDE DEF S
    <3> QED
      BY <3>1, <3>2, <3>3
  <2>4. \A x, y \in Int : c * (x + y) = c * x + c * y
    OBVIOUS
  <2> HIDE DEF S
  <2>5. SumTo(g, n+1) = c * SumTo(f, n+1)
    BY <2>2, <2>3, <2>4
  <2> QED
    BY <2>5 DEF S
<1>3. \A n \in 0..N : n \in S
  BY <1>1, <1>2, UpTo, Zenon
<1>4. QED
  BY <1>3, N \in 0..N

(* The same term over and over. *)
LEMMA SumToConstant ==
  ASSUME NEW N \in Nat, NEW f \in [1..N -> Int], NEW c \in Int, \A i \in 1..N : f[i] = c
  PROVE  SumTo(f, N) = N * c
<1> DEFINE S == {n \in 0..N : SumTo(f, n) = n * c}
<1>1. 0 \in S
  BY SumToZero
<1>2. ASSUME NEW n \in 0..(N-1), n \in S PROVE n+1 \in S
  <2>1. SumTo(f, n+1) = SumTo(f, n) + c
    <3>1. (n+1)-1 = n /\ n+1 \in 1..N
      OBVIOUS
    <3> QED
      BY <3>1, SumToStep
  <2>2. SumTo(f, n) = n * c /\ (n + 1) * c = n * c + c
    BY <1>2
  <2> HIDE DEF S
  <2>3. SumTo(f, n+1) = (n + 1) * c
    BY <2>1, <2>2
  <2> QED
    BY <2>3 DEF S
<1>3. \A n \in 0..N : n \in S
  BY <1>1, <1>2, UpTo, Zenon
<1>4. QED
  BY <1>3, N \in 0..N

(* A partial sum depends on the terms it adds up and on no other. *)
LEMMA SumToAgree ==
  ASSUME NEW N \in Nat, NEW M \in Nat, NEW f \in [1..N -> Int], NEW g \in [1..M -> Int],
         NEW n \in Nat, n <= N, n <= M, \A i \in 1..n : f[i] = g[i]
  PROVE  SumTo(f, n) = SumTo(g, n)
<1> DEFINE S == {k \in 0..n : SumTo(f, k) = SumTo(g, k)}
<1>1. 0 \in S
  BY SumToZero
<1>2. ASSUME NEW k \in 0..(n-1), k \in S PROVE k+1 \in S
  <2>1. (k+1)-1 = k /\ k+1 \in 1..N /\ k+1 \in 1..M /\ k+1 \in 1..n
    OBVIOUS
  <2>2. SumTo(f, k+1) = SumTo(f, k) + f[k+1]
    BY <2>1, SumToStep
  <2>3. SumTo(g, k+1) = SumTo(g, k) + g[k+1]
    BY <2>1, SumToStep
  <2>4. SumTo(f, k) = SumTo(g, k) /\ f[k+1] = g[k+1]
    BY <1>2, <2>1
  <2> QED
    BY <2>1, <2>2, <2>3, <2>4
<1>3. \A k \in 0..n : k \in S
  BY <1>1, <1>2, UpTo, Zenon
<1>4. QED
  BY <1>3, n \in 0..n

(* Terms that are zero do not count. *)
LEMMA SumToPad ==
  ASSUME NEW N \in Nat, NEW M \in Nat, M <= N, NEW f \in [1..N -> Int],
         \A i \in 1..N : i > M => f[i] = 0
  PROVE  SumTo(f, N) = SumTo(f, M)
<1> DEFINE S == {n \in 0..N : n >= M => SumTo(f, n) = SumTo(f, M)}
<1>1. SUFFICES \A n \in 0..N : n \in S
  OBVIOUS
<1>2. 0 \in S
  <2>1. 0 >= M => M = 0
    OBVIOUS
  <2> QED
    BY <2>1
<1>3. ASSUME NEW n \in 0..(N-1), n \in S PROVE n+1 \in S
  <2>1. n + 1 \in 1..N /\ (n + 1) - 1 = n
    OBVIOUS
  <2>2. SumTo(f, n + 1) = SumTo(f, (n + 1) - 1) + f[n + 1]
    BY <2>1, SumToStep
  <2>3. SumTo(f, n) \in Int
    BY SumToInt
  <2>4. CASE n >= M
    <3>1. f[n + 1] = 0 /\ SumTo(f, n) = SumTo(f, M)
      BY <1>3, <2>1, <2>4
    <3> QED
      BY <2>1, <2>2, <2>3, <3>1
  <2>5. CASE n + 1 = M
    BY <2>1, <2>5
  <2>6. CASE n + 1 < M
    BY <2>1, <2>6
  <2> QED
    BY <2>4, <2>5, <2>6
<1> HIDE DEF S
<1> QED
  BY <1>2, <1>3, UpTo

(* A table of numbers adds up to the same by rows and by columns. *)
LEMMA SumToSwap ==
  ASSUME NEW N \in Nat, NEW M \in Nat, NEW t \in [(1..N) \X (1..M) -> Int]
  PROVE  SumTo([i \in 1..N |-> SumTo([j \in 1..M |-> t[<<i, j>>]], M)], N)
           = SumTo([j \in 1..M |-> SumTo([i \in 1..N |-> t[<<i, j>>]], N)], M)
<1> DEFINE row(i) == [j \in 1..M |-> t[<<i, j>>]]
           col(j) == [i \in 1..N |-> t[<<i, j>>]]
           rows == [i \in 1..N |-> SumTo(row(i), M)]
           upto(n) == [j \in 1..M |-> SumTo(col(j), n)]
           S == {n \in 0..N : SumTo(rows, n) = SumTo(upto(n), M)}
<1>1. \A i \in 1..N : row(i) \in [1..M -> Int]
  OBVIOUS
<1>2. \A j \in 1..M : col(j) \in [1..N -> Int]
  OBVIOUS
<1>3. /\ \A i \in 1..N, j \in 1..M : row(i)[j] = col(j)[i]
      /\ \A n : upto(n) = [j \in 1..M |-> SumTo(col(j), n)]
  OBVIOUS
<1> HIDE DEF row, col
<1>4. rows \in [1..N -> Int]
  BY <1>1, SumToInt, M \in 0..M
<1>5. \A n \in 0..N : upto(n) \in [1..M -> Int]
  BY <1>2, SumToInt
<1>6. 0 \in S
  <2>1. SumTo(rows, 0) = 0
    BY <1>4, SumToZero
  <2>2. \A j \in 1..M : upto(0)[j] = 0
    BY <1>2, SumToZero
  <2>3. 0 \in 0..N
    OBVIOUS
  <2>4. upto(0) \in [1..M -> Int]
    BY <1>5, <2>3
  <2> HIDE DEF upto
  <2>5. SumTo(upto(0), M) = 0
    BY <2>2, <2>4, SumToZeros
  <2> QED
    BY <2>1, <2>3, <2>5
<1>7. ASSUME NEW n \in 0..(N-1), n \in S PROVE n+1 \in S
  <2>1. (n+1)-1 = n /\ n+1 \in 1..N /\ n \in 0..N /\ n+1 \in 0..N
    OBVIOUS
  <2>2. SumTo(rows, n+1) = SumTo(rows, n) + rows[n+1]
    BY <1>4, <2>1, SumToStep
  <2>3. rows[n+1] = SumTo(row(n+1), M)
    BY <2>1
  <2>4. \A j \in 1..M : upto(n+1)[j] = upto(n)[j] + row(n+1)[j]
    <3> TAKE j \in 1..M
    <3>1. SumTo(col(j), n+1) = SumTo(col(j), n) + col(j)[n+1]
      BY <1>2, <2>1, SumToStep
    <3> QED
      BY <1>3, <2>1, <3>1
  <2>5. upto(n) \in [1..M -> Int] /\ upto(n+1) \in [1..M -> Int] /\ row(n+1) \in [1..M -> Int]
    BY <1>1, <1>5, <2>1
  <2>6. SumTo(rows, n) = SumTo(upto(n), M)
    BY <1>7
  <2> HIDE DEF upto, rows
  <2>7. SumTo(upto(n+1), M) = SumTo(upto(n), M) + SumTo(row(n+1), M)
    BY <2>4, <2>5, SumToAdd
  <2>8. SumTo(rows, n+1) = SumTo(upto(n+1), M)
    BY <2>2, <2>3, <2>6, <2>7
  <2> QED
    BY <2>1, <2>8
<1>8. \A n \in 0..N : n \in S
  <2> HIDE DEF S
  <2> QED
    BY <1>6, <1>7, UpTo, Zenon
<1>9. SumTo(rows, N) = SumTo(upto(N), M)
  <2>1. N \in S
    <3> HIDE DEF S
    <3> QED
      BY <1>8, N \in 0..N
  <2> HIDE DEF rows, upto
  <2> QED
    BY <2>1
<1>10. QED
  BY <1>9 DEF row, col

-----------------------------------------------------------------------------
(* Products and division. *)

LEMMA DivMod ==
  ASSUME NEW a \in Nat, NEW n \in Nat \ {0}
  PROVE  a \div n \in Nat /\ a % n \in 0..(n - 1) /\ a = n * (a \div n) + (a % n)
OBVIOUS

LEMMA ProductOrder ==
  ASSUME NEW n \in Nat \ {0}, NEW q \in Int, NEW p \in Int, q < p
  PROVE  n * q + n <= n * p
<1>1. p - q - 1 \in Nat
  OBVIOUS
<1>2. n * (p - q - 1) \in Nat
  BY <1>1
<1>3. n * (p - q - 1) = n * p - n * q - n
  OBVIOUS
<1> QED
  BY <1>2, <1>3

LEMMA Products ==
  ASSUME NEW a \in Int, NEW b \in Int, NEW c \in Int
  PROVE  /\ a * b \in Int /\ a * b = b * a
         /\ a * (b + c) = a * b + a * c /\ a * (b - c) = a * b - a * c
         /\ (a * b) * c = a * (b * c)
OBVIOUS

LEMMA TwiceProduct ==
  ASSUME NEW a \in Nat, NEW b \in Nat
  PROVE  a * b \in Nat /\ (2 * a) * b = 2 * (a * b) /\ (2 * b) * a = 2 * (a * b)
OBVIOUS

LEMMA ProductNat ==
  ASSUME NEW a \in Nat, NEW b \in Nat
  PROVE  a * b \in Nat
OBVIOUS

LEMMA ProductMonotone ==
  ASSUME NEW a \in Nat, NEW b \in Int, NEW c \in Int, b <= c
  PROVE  a * b <= a * c
<1>1. c - b \in Nat
  OBVIOUS
<1>2. a * (c - b) \in Nat
  BY <1>1, ProductNat
<1>3. a * (c - b) = a * c - a * b /\ a * c \in Int /\ a * b \in Int
  BY Products
<1> QED
  BY <1>2, <1>3

LEMMA ProductCancel ==
  ASSUME NEW a \in Nat \ {0}, NEW b \in Int, NEW c \in Int, a * b <= a * c
  PROVE  b <= c
<1> SUFFICES ASSUME c < b PROVE FALSE
  OBVIOUS
<1>1. a * c + a <= a * b
  BY ProductOrder
<1>2. a * b \in Int /\ a * c \in Int
  BY Products
<1> QED
  BY <1>1, <1>2

LEMMA DivUnique ==
  ASSUME NEW n \in Nat \ {0}, NEW q \in Nat, NEW r \in 0..(n - 1)
  PROVE  (n * q + r) \div n = q /\ (n * q + r) % n = r
<1> DEFINE a == n * q + r
           p == a \div n
           s == a % n
<1>1. a \in Nat
  OBVIOUS
<1>2. p \in Nat /\ s \in 0..(n - 1) /\ a = n * p + s
  BY <1>1, DivMod
<1>3. n * q + r = n * p + s /\ n * q \in Nat /\ n * p \in Nat
  BY <1>2
<1> HIDE DEF p, s
<1>4. ~(q < p)
  BY <1>2, <1>3, ProductOrder
<1>5. ~(p < q)
  BY <1>2, <1>3, ProductOrder
<1>6. p = q
  BY <1>2, <1>4, <1>5
<1> QED
  BY <1>2, <1>3, <1>6 DEF p, s

(* Multiples of n, sums of them, and multiples of a multiple. *)
LEMMA MultipleSum ==
  ASSUME NEW n \in Nat \ {0}, NEW a \in Nat, NEW b \in Nat, a % n = 0, b % n = 0
  PROVE  (a + b) % n = 0
<1> DEFINE p == a \div n
           q == b \div n
<1>1. p \in Nat /\ q \in Nat /\ a = n * p /\ b = n * q
  BY DivMod
<1> HIDE DEF p, q
<1>2. a + b = n * (p + q) + 0 /\ p + q \in Nat /\ 0 \in 0..(n - 1)
  BY <1>1
<1> QED
  BY <1>2, DivUnique

LEMMA MultipleOfMultiple ==
  ASSUME NEW n \in Nat \ {0}, NEW m \in Nat \ {0}, m % n = 0, NEW a \in Nat, a % m = 0
  PROVE  a % n = 0
<1> DEFINE p == a \div m
           q == m \div n
<1>1. p \in Nat /\ q \in Nat /\ a = m * p /\ m = n * q
  BY DivMod
<1> HIDE DEF p, q
<1>2. a = n * (q * p) + 0 /\ q * p \in Nat /\ 0 \in 0..(n - 1)
  BY <1>1
<1> QED
  BY <1>2, DivUnique

(* A non-zero multiple is no smaller. *)
LEMMA MultipleAbove ==
  ASSUME NEW n \in Nat \ {0}, NEW a \in Nat \ {0}, a % n = 0
  PROVE  a >= n
<1>1. a \div n \in Nat /\ a = n * (a \div n)
  BY DivMod
<1> DEFINE q == a \div n
<1> HIDE DEF q
<1>2. q \in Nat /\ a = n * q
  BY <1>1 DEF q
<1>3. q # 0
  BY <1>2
<1> QED
  BY <1>2, <1>3, ProductOrder

(* One more: the quotient grows when a multiple is reached, by one. *)
LEMMA DivNext ==
  ASSUME NEW n \in Nat \ {0}, NEW a \in Nat
  PROVE  (a + 1) \div n = IF (a + 1) % n = 0 THEN a \div n + 1 ELSE a \div n
<1> DEFINE q == a \div n
           r == a % n
<1>1. q \in Nat /\ r \in 0..(n - 1) /\ a = n * q + r
  BY DivMod
<1> HIDE DEF q, r
<1>2. CASE r = n - 1
  <2>0. PICK p \in Nat : p = q + 1
    BY <1>1
  <2>1. a + 1 = n * p + 0 /\ 0 \in 0..(n - 1)
    BY <1>1, <1>2, <2>0
  <2>2. (a + 1) \div n = p /\ (a + 1) % n = 0
    BY <2>1, DivUnique
  <2> QED
    BY <2>0, <2>2 DEF q
<1>3. CASE r # n - 1
  <2>1. a + 1 = n * q + (r + 1) /\ r + 1 \in 0..(n - 1) /\ r + 1 # 0
    BY <1>1, <1>3
  <2>2. (a + 1) \div n = q /\ (a + 1) % n = r + 1
    BY <1>1, <2>1, DivUnique
  <2> QED
    BY <1>1, <2>1, <2>2 DEF q
<1> QED
  BY <1>2, <1>3

LEMMA DivBelow ==
  ASSUME NEW n \in Nat \ {0}, NEW a \in Nat
  PROVE  a \div n <= a /\ (a < n => a \div n = 0)
<1> DEFINE q == a \div n
           r == a % n
<1>1. q \in Nat /\ r \in 0..(n - 1) /\ a = n * q + r
  BY DivMod
<1> HIDE DEF q, r
<1>2. n * q = q + (n - 1) * q /\ (n - 1) * q \in Nat
  BY <1>1
<1>3. q > 0 => a >= n
  <2>1. q > 0 => n * 0 + n <= n * q
    BY <1>1, ProductOrder
  <2> QED
    BY <1>1, <2>1
<1> QED
  BY <1>1, <1>2, <1>3 DEF q

-----------------------------------------------------------------------------
(* Rounded shares. *)

(* A part x of T, rounded down to q of P, and a share of p rounded to the  *)
(* nearest.                                                                *)
LEMMA RoundedShare ==
  ASSUME NEW P \in Nat \ {0}, NEW T \in Nat \ {0}, NEW p \in Nat, NEW x \in Nat,
         NEW q, q = (x * P) \div T, NEW m, m = (2 * q * p + P - 1) \div (2 * P)
  PROVE  /\ q \in Nat /\ T * q <= P * x
         /\ m \in Nat /\ (2 * P) * m <= (2 * p) * q + P
<1> DEFINE a == x * P
<1>1. a \in Nat /\ a = P * x /\ q = a \div T
  BY ProductNat, Products
<1> HIDE DEF a
<1>2. q \in Nat /\ a % T \in 0..(T - 1) /\ a = T * q + (a % T)
  BY <1>1, DivMod
<1>3. T * q <= P * x
  <2>1. T * q \in Nat
    BY <1>2, ProductNat
  <2> QED
    BY <1>1, <1>2, <2>1
<1> DEFINE w == q * p
           n == 2 * w + P - 1
           d == 2 * P
<1>4. w \in Nat /\ (2 * q) * p = 2 * w /\ (2 * p) * q = 2 * w
  <2>1. q \in Nat
    BY <1>2
  <2> QED
    BY <2>1, TwiceProduct, Zenon
<1> HIDE DEF w
<1>5. n \in Nat /\ d \in Nat \ {0}
  BY <1>4
<1>6. m = n \div d
  BY <1>4
<1> HIDE DEF n, d
<1>7. m \in Nat /\ n % d \in 0..(d - 1) /\ n = d * m + (n % d)
  BY <1>5, <1>6, DivMod
<1>8. d * m \in Nat
  BY <1>5, <1>7, ProductNat
<1>9. d * m <= n
  BY <1>5, <1>7, <1>8
<1>10. (2 * P) * m <= 2 * w + P
  BY <1>4, <1>8, <1>9 DEF n, d
<1> QED
  BY <1>2, <1>3, <1>4, <1>7, <1>10

(* Of a whole T, a part x gets a rounded share m of no more than r: m is   *)
(* at most r * x / T and half a unit.                                      *)
LEMMA ShareOfWhole ==
  ASSUME NEW P \in Nat \ {0}, NEW T \in Nat \ {0}, NEW p \in Nat, NEW r \in Nat, p <= r, NEW x \in Nat,
         NEW q \in Nat, T * q <= P * x, NEW m \in Nat, (2 * P) * m <= (2 * p) * q + P
  PROVE  2 * (T * m) <= 2 * (r * x) + T
<1>1. /\ q \in Nat /\ m \in Nat /\ T * q <= P * x
  OBVIOUS
<1>2. /\ T * q \in Nat /\ P * x \in Nat /\ p * q \in Nat /\ P * m \in Nat /\ T * m \in Nat
      /\ p * x \in Nat /\ r * x \in Nat /\ T * P \in Nat
  BY <1>1, ProductNat
<1>3. 2 * (P * m) <= 2 * (p * q) + P
  <2>1. (2 * P) * m = 2 * (P * m) /\ (2 * p) * q = 2 * (p * q)
    BY TwiceProduct
  <2> QED
    BY <2>1, Zenon
<1>4. T * (2 * (P * m)) <= T * (2 * (p * q) + P)
  <2>1. 2 * (P * m) \in Int /\ 2 * (p * q) + P \in Int
    BY <1>2
  <2> QED
    BY <1>3, <2>1, ProductMonotone
<1>5. T * (2 * (P * m)) = P * (2 * (T * m))
  BY <1>1
<1>6. T * (2 * (p * q) + P) = 2 * (p * (T * q)) + P * T
  BY <1>1
<1>7. p * (T * q) <= p * (P * x)
  BY <1>1, <1>2, ProductMonotone
<1>8. P * (2 * (p * x) + T) = 2 * (p * (P * x)) + P * T
  OBVIOUS
<1>9. p * (T * q) \in Nat /\ p * (P * x) \in Nat /\ P * T \in Nat
  BY <1>2, ProductNat
<1>10. P * (2 * (T * m)) <= P * (2 * (p * x) + T)
  <2> DEFINE a == p * (T * q)
             b == p * (P * x)
             c == P * T
  <2>1. 2 * a + c <= 2 * b + c
    <3> HIDE DEF a, b, c
    <3>1. a \in Nat /\ b \in Nat /\ c \in Nat /\ a <= b
      BY <1>7, <1>9 DEF a, b, c
    <3> QED
      BY <3>1
  <2> DEFINE l == P * (2 * (T * m))
             h == P * (2 * (p * x) + T)
             k == T * (2 * (p * q) + P)
             g == T * (2 * (P * m))
  <2>2. g <= k /\ g = l /\ k = 2 * a + c /\ h = 2 * b + c /\ a \in Nat /\ b \in Nat /\ c \in Nat
    BY <1>4, <1>5, <1>6, <1>8, <1>9, Zenon
  <2>3. g \in Int
    <3>1. 2 * (P * m) \in Int
      BY <1>2
    <3> QED
      BY <3>1, Products
  <2> HIDE DEF a, b, c, l, h, k, g
  <2>4. l <= h
    BY <2>1, <2>2, <2>3
  <2> QED
    BY <2>4 DEF l, h
<1>11. 2 * (T * m) <= 2 * (p * x) + T
  <2>1. 2 * (T * m) \in Int /\ 2 * (p * x) + T \in Int
    BY <1>2
  <2> QED
    BY <1>10, <2>1, ProductCancel
<1>12. p * x <= r * x
  <2>1. x * p <= x * r /\ x * p = p * x /\ x * r = r * x
    BY ProductMonotone, Products
  <2> QED
    BY <2>1
<1> QED
  BY <1>1, <1>2, <1>11, <1>12

(* Shares of p for the parts of a total exceed p by half a unit each at    *)
(* most.                                                                   *)
LEMMA RoundedShares ==
  ASSUME NEW N \in Nat, NEW P \in Nat \ {0}, NEW T \in Nat \ {0}, NEW p \in Nat,
         NEW x \in [1..N -> Nat], SumTo(x, N) <= T,
         NEW m \in [1..N -> Nat],
         \A i \in 1..N : m[i] = 0 \/ m[i] = (2 * ((x[i] * P) \div T) * p + P - 1) \div (2 * P)
  PROVE  2 * SumTo(m, N) <= 2 * p + N
<1> DEFINE q == [i \in 1..N |-> (x[i] * P) \div T]
<1>1. \A i \in 1..N : /\ q[i] \in Nat /\ x[i] \in Nat /\ m[i] \in Nat
                      /\ T * q[i] <= P * x[i]
                      /\ (2 * P) * m[i] <= (2 * p) * q[i] + P
  <2> TAKE i \in 1..N
  <2>1. x[i] \in Nat /\ m[i] \in Nat /\ q[i] = (x[i] * P) \div T
    OBVIOUS
  <2>2. m[i] = 0 \/ m[i] = (2 * q[i] * p + P - 1) \div (2 * P)
    BY <2>1
  <2> HIDE DEF q
  <2>3. PICK y \in Nat : y = x[i]
    BY <2>1
  <2>4. PICK k : k = (y * P) \div T
    OBVIOUS
  <2>5. PICK n : n = (2 * k * p + P - 1) \div (2 * P)
    OBVIOUS
  <2>6. k \in Nat /\ T * k <= P * y
    BY <2>4, <2>5, RoundedShare
  <2>8. n \in Nat /\ (2 * P) * n <= (2 * p) * k + P
    BY <2>4, <2>5, RoundedShare
  <2>7. k = q[i] /\ y = x[i]
    BY <2>1, <2>3, <2>4
  <2>9. m[i] = 0 \/ m[i] = n
    BY <2>2, <2>5, <2>7, Zenon
  <2>10. (2 * P) * m[i] <= (2 * p) * k + P
    <3>1. CASE m[i] = n
      BY <2>8, <3>1, Zenon
    <3>2. CASE m[i] = 0
      <4>1. (2 * p) * k \in Nat
        BY <2>6, ProductNat
      <4>2. (2 * P) * 0 = 0
        OBVIOUS
      <4>3. 0 <= (2 * p) * k + P
        BY <4>1
      <4> QED
        BY <3>2, <4>2, <4>3, Zenon
    <3> QED
      BY <2>9, <3>1, <3>2
  <2> QED
    BY <2>1, <2>6, <2>7, <2>10, Zenon
<1>2. q \in [1..N -> Int] /\ q \in [1..N -> Nat] /\ m \in [1..N -> Int] /\ x \in [1..N -> Int]
  <2>1. \A i \in 1..N : q[i] \in Nat
    BY <1>1, Zenon
  <2> QED
    BY <2>1
<1> HIDE DEF q
<1>3. SumTo(q, N) \in Nat /\ SumTo(m, N) \in Nat /\ SumTo(x, N) \in Nat
  BY <1>2, SumToNat
<1>4. T * SumTo(q, N) <= P * SumTo(x, N)
  <2> DEFINE y == [i \in 1..N |-> T * q[i]]
             z == [i \in 1..N |-> P * x[i]]
  <2>1. y \in [1..N -> Int] /\ z \in [1..N -> Int]
    <3>1. \A i \in 1..N : T * q[i] \in Int /\ P * x[i] \in Int
      BY <1>2, Products
    <3> QED
      BY <3>1
  <2>2. \A i \in 1..N : y[i] = T * q[i] /\ z[i] = P * x[i] /\ y[i] <= z[i]
    BY <1>1
  <2> HIDE DEF y, z
  <2>3. SumTo(y, N) <= SumTo(z, N)
    BY <2>1, <2>2, SumToMonotone
  <2>4. SumTo(y, N) = T * SumTo(q, N)
    BY T \in Int, <1>2, <2>1, <2>2, SumToScale
  <2>5. SumTo(z, N) = P * SumTo(x, N)
    BY P \in Int, <1>2, <2>1, <2>2, SumToScale
  <2> QED
    BY <2>3, <2>4, <2>5
<1>5. (2 * P) * SumTo(m, N) <= (2 * p) * SumTo(q, N) + N * P
  <2> DEFINE v == [i \in 1..N |-> (2 * P) * m[i]]
             w == [i \in 1..N |-> (2 * p) * q[i]]
             c == [i \in 1..N |-> P]
             e == [i \in 1..N |-> w[i] + P]
  <2>1. v \in [1..N -> Int] /\ w \in [1..N -> Int] /\ c \in [1..N -> Int] /\ e \in [1..N -> Int]
    <3>1. \A i \in 1..N : (2 * P) * m[i] \in Int /\ (2 * p) * q[i] \in Int
      <4>1. 2 * P \in Int /\ 2 * p \in Int
        OBVIOUS
      <4> QED
        BY <1>2, <4>1, Products
    <3>2. \A i \in 1..N : w[i] \in Int
      BY <3>1
    <3> HIDE DEF w
    <3>3. e \in [1..N -> Int]
      BY <3>2
    <3> QED
      BY <3>1, <3>3 DEF w
  <2>2. \A i \in 1..N : v[i] = (2 * P) * m[i] /\ w[i] = (2 * p) * q[i] /\ c[i] = P
    OBVIOUS
  <2>3. \A i \in 1..N : e[i] = w[i] + c[i] /\ v[i] <= e[i]
    <3> TAKE i \in 1..N
    <3>1. (2 * P) * m[i] <= (2 * p) * q[i] + P
      BY <1>1
    <3>2. v[i] = (2 * P) * m[i] /\ w[i] = (2 * p) * q[i] /\ c[i] = P
      BY <2>2
    <3>3. e[i] = w[i] + P
      OBVIOUS
    <3> HIDE DEF v, w, c, e
    <3>4. v[i] <= w[i] + P
      BY <3>1, <3>2, Zenon
    <3> QED
      BY <3>2, <3>3, <3>4
  <2> HIDE DEF v, w, c, e
  <2>4. SumTo(v, N) <= SumTo(e, N)
    <3>1. \A i \in 1..N : v[i] <= e[i]
      BY <2>3
    <3> QED
      BY <2>1, <3>1, SumToMonotone
  <2>5. SumTo(e, N) = SumTo(w, N) + SumTo(c, N)
    <3>1. \A i \in 1..N : e[i] = w[i] + c[i]
      BY <2>3
    <3> QED
      BY <2>1, <3>1, SumToAdd
  <2>6. SumTo(c, N) = N * P
    BY P \in Int, <2>1, <2>2, SumToConstant
  <2>7. SumTo(v, N) = (2 * P) * SumTo(m, N)
    BY 2 * P \in Int, <1>2, <2>1, <2>2, SumToScale
  <2>8. SumTo(w, N) = (2 * p) * SumTo(q, N)
    BY 2 * p \in Int, <1>2, <2>1, <2>2, SumToScale
  <2> QED
    BY <2>4, <2>5, <2>6, <2>7, <2>8
<1> DEFINE Q == SumTo(q, N)
           X == SumTo(x, N)
           Z == SumTo(m, N)
<1>6. Q \in Nat /\ X \in Nat /\ Z \in Nat /\ X <= T
      /\ T * Q <= P * X /\ (2 * P) * Z <= (2 * p) * Q + N * P
  BY <1>3, <1>4, <1>5
<1> HIDE DEF Q, X, Z
<1>7. Q <= P
  <2>1. P * X <= P * T
    BY <1>6, ProductMonotone
  <2>2. P * T = T * P /\ T * Q \in Int /\ P * X \in Int /\ T * P \in Int
    BY <1>6, Products
  <2>3. T * Q <= T * P
    <3> DEFINE i == T * Q
               j == P * X
               k == T * P
    <3>1. i <= j /\ j <= k /\ i \in Int /\ j \in Int /\ k \in Int
      BY <1>6, <2>1, <2>2
    <3> HIDE DEF i, j, k
    <3>2. i <= k
      BY <3>1
    <3> QED
      BY <3>2 DEF i, k
  <2> QED
    BY <1>6, <2>3, ProductCancel
<1>8. P * (2 * Z) <= P * (2 * p + N)
  <2>1. (2 * p) * Q <= (2 * p) * P
    BY <1>6, <1>7, ProductMonotone
  <2>2. (P * 2) * Z = P * (2 * Z) /\ P * 2 = 2 * P
    BY <1>6, Products
  <2>3. P * (2 * p + N) = P * (2 * p) + P * N /\ P * (2 * p) = (2 * p) * P /\ P * N = N * P
    BY Products
  <2>4. (2 * p) * Q \in Int /\ (2 * p) * P \in Int /\ N * P \in Int /\ (2 * P) * Z \in Int
    BY <1>6, Products
  <2> DEFINE i == (2 * p) * Q
             j == (2 * p) * P
             k == N * P
             l == (2 * P) * Z
  <2>5. l <= i + k /\ i <= j /\ i \in Int /\ j \in Int /\ k \in Int /\ l \in Int
    BY <1>6, <2>1, <2>4
  <2>6. P * (2 * Z) = l /\ P * (2 * p + N) = j + k
    BY <2>2, <2>3
  <2> HIDE DEF i, j, k, l
  <2>7. l <= j + k
    BY <2>5
  <2> QED
    BY <2>6, <2>7
<1>9. 2 * Z <= 2 * p + N
  <2>1. 2 * Z \in Int /\ 2 * p + N \in Int
    BY <1>6
  <2> QED
    BY <1>8, <2>1, ProductCancel
<1> QED
  BY <1>9 DEF Z
=============================================================================
