---------------------------- MODULE CommonProofs ----------------------------
(***************************************************************************)
(* Lemmas that the proofs of several components rest on.  First induction  *)
(* and recursion over the natural numbers, in a form that names sets and   *)
(* functions only, and what follows for the functions of Series.  Then     *)
(* what the tables of Contracts guarantee to the code that reads them:     *)
(* labels fill the first lines of the page, signatures are those the       *)
(* parser can follow, and labels stand before entries of their kind.  Then *)
(* texts side by side, and the bytes of an amount: what reads as a number  *)
(* is one of the ways to write it (CallFormat), and each of these reads as *)
(* the number.                                                             *)
(***************************************************************************)
EXTENDS CallFormat, WellFoundedInduction, TLAPS

-----------------------------------------------------------------------------
(* Induction and recursion over the natural numbers.                       *)

Less == {p \in Nat \X Nat : p[1] < p[2]}

\* A set of numbers that is not empty has a least element.
LEMMA LeastElement ==
    ASSUME NEW S \in SUBSET Nat, S # {}
    PROVE  \E n \in S : \A m \in S : n <= m
<1>1. IsWellFoundedOn(Less, Nat)
  BY NatLessThanWellFounded DEF OpToRel, Less
<1>2. \A m, n \in Nat : m < n => <<m, n>> \in Less
  BY DEF Less
<1>3. \E n \in S : \A m \in S : <<m, n>> \notin Less
  BY <1>1, WFMin
<1>4. PICK n \in S : \A m \in S : <<m, n>> \notin Less
  BY <1>3
<1>5. ASSUME NEW m \in S PROVE n <= m
  <2>1. ~(m < n)
    BY <1>2, <1>4
  <2> QED BY <2>1
<1> QED BY <1>5

\* A bounded one has a largest element.
LEMMA LargestElement ==
    ASSUME NEW S \in SUBSET Nat, S # {}, NEW bound \in Nat, \A k \in S : k <= bound
    PROVE  \E n \in S : \A m \in S : n >= m
<1> DEFINE Below == {n \in Nat : bound - n \in S}
<1>1. \A k \in S : k \in Nat /\ bound - k \in Nat /\ bound - (bound - k) = k
  OBVIOUS
<1>2. Below \in SUBSET Nat /\ Below # {}
  <2>1. PICK k : k \in S
    OBVIOUS
  <2>2. bound - k \in Below
    BY <1>1, <2>1
  <2> QED BY <2>2
<1>3. PICK n \in Below : \A m \in Below : n <= m
  <2> HIDE DEF Below
  <2> QED BY <1>2, LeastElement
<1>4. n \in Nat /\ bound - n \in S
  OBVIOUS
<1>5. ASSUME NEW j \in S PROVE bound - n >= j
  <2>1. bound - j \in Below /\ bound - j \in Nat
    BY <1>1
  <2>2. n <= bound - j
    BY <1>3, <2>1
  <2> QED BY <1>1, <1>4, <2>2
<1> QED BY <1>4, <1>5

\* Induction: a set that holds 0 and with each number the next one.
LEMMA Induction ==
    ASSUME NEW T, 0 \in T, \A n \in Nat : n \in T => n + 1 \in T
    PROVE  \A n \in Nat : n \in T
<1> SUFFICES ASSUME NEW k \in Nat, k \notin T PROVE FALSE
  OBVIOUS
<1> DEFINE S == {n \in Nat : n \notin T}
<1>1. S \in SUBSET Nat /\ S # {}
  OBVIOUS
<1>2. PICK n \in S : \A m \in S : n <= m
  BY <1>1, LeastElement
<1>3. n # 0 /\ n - 1 \in Nat /\ n - 1 \notin S
  BY <1>2
<1>4. (n - 1) + 1 \in T
  BY <1>3
<1> QED BY <1>2, <1>4

Iterates(f, a, step) == f[0] = a /\ \A n \in Nat : f[n + 1] = step[<<n, f[n]>>]

IteratesTo(f, L, a, step) ==
    f[0] = a /\ \A n \in 1 .. L : f[n] = step[<<n - 1, f[n - 1]>>]

\* Recursion: each value by a step from the one before.
LEMMA Recursion ==
    ASSUME NEW A, NEW a \in A, NEW step \in [Nat \X A -> A]
    PROVE  \E f \in [Nat -> A] : Iterates(f, a, step)
<1> DEFINE Follows(f, n) == f[0] = a /\ \A k \in 0 .. n - 1 : f[k + 1] = step[<<k, f[k]>>]
           T == {n \in Nat : \E f \in [0 .. n -> A] : Follows(f, n)}
<1>1. 0 \in T
  <2> DEFINE f == [k \in 0 .. 0 |-> a]
  <2>1. f \in [0 .. 0 -> A] /\ Follows(f, 0)
    OBVIOUS
  <2> QED BY <2>1
<1>2. ASSUME NEW n \in Nat, n \in T PROVE n + 1 \in T
  <2>1. PICK f \in [0 .. n -> A] : Follows(f, n)
    BY <1>2
  <2> DEFINE g == [k \in 0 .. n + 1 |-> IF k = n + 1 THEN step[<<n, f[n]>>] ELSE f[k]]
  <2>2. f[n] \in A /\ step[<<n, f[n]>>] \in A
    OBVIOUS
  <2>3. g \in [0 .. n + 1 -> A] /\ g[n + 1] = step[<<n, f[n]>>] /\ \A k \in 0 .. n : g[k] = f[k]
    BY <2>2
  <2> HIDE DEF g
  <2>4. ASSUME NEW k \in 0 .. (n + 1) - 1 PROVE g[k + 1] = step[<<k, g[k]>>]
    BY <2>1, <2>3, SMTT(30)
  <2>5. Follows(g, n + 1)
    BY <2>1, <2>3, <2>4
  <2> QED BY <2>3, <2>5
<1>3. \A n \in Nat : n \in T
  <2> HIDE DEF T
  <2> QED BY <1>1, <1>2, Induction
<1> DEFINE F == [n \in Nat |-> CHOOSE f \in [0 .. n -> A] : Follows(f, n)]
<1>4. \A n \in Nat : F[n] \in [0 .. n -> A] /\ Follows(F[n], n)
  <2> SUFFICES ASSUME NEW n \in Nat PROVE F[n] \in [0 .. n -> A] /\ Follows(F[n], n)
    OBVIOUS
  <2> HIDE DEF Follows
  <2>1. \E f \in [0 .. n -> A] : Follows(f, n)
    BY <1>3
  <2> QED BY <2>1
<1> HIDE DEF F
<1>5. ASSUME NEW n \in Nat PROVE F[n + 1][n] = F[n][n]
  <2> DEFINE U == {k \in Nat : k <= n => F[n + 1][k] = F[n][k]}
  <2>1. 0 \in U
    BY <1>4
  <2>2. ASSUME NEW k \in Nat, k \in U PROVE k + 1 \in U
    <3> SUFFICES ASSUME k + 1 <= n PROVE F[n + 1][k + 1] = F[n][k + 1]
      OBVIOUS
    <3>1. F[n + 1][k] = F[n][k]
      BY <2>2
    <3>2. F[n + 1][k + 1] = step[<<k, F[n + 1][k]>>]
      <4>1. n + 1 \in Nat /\ k \in 0 .. (n + 1) - 1
        OBVIOUS
      <4> QED BY <4>1, <1>4
    <3>3. F[n][k + 1] = step[<<k, F[n][k]>>]
      <4>1. k \in 0 .. n - 1
        OBVIOUS
      <4> QED BY <4>1, <1>4
    <3> QED BY <3>1, <3>2, <3>3
  <2>3. n \in U
    <3> HIDE DEF U
    <3> QED BY <2>1, <2>2, Induction
  <2> QED BY <2>3
<1> DEFINE f == [n \in Nat |-> F[n][n]]
<1>6. f \in [Nat -> A]
  BY <1>4
<1>7. f[0] = a
  BY <1>4
<1>8. ASSUME NEW n \in Nat PROVE f[n + 1] = step[<<n, f[n]>>]
  <2>1. n + 1 \in Nat /\ n \in 0 .. (n + 1) - 1
    OBVIOUS
  <2>2. F[n + 1][n + 1] = step[<<n, F[n + 1][n]>>]
    BY <2>1, <1>4
  <2> QED BY <2>1, <2>2, <1>5
<1> HIDE DEF f
<1> QED BY <1>6, <1>7, <1>8 DEF Iterates

\* The same for a function on the first numbers.
LEMMA BoundedRecursion ==
    ASSUME NEW A, NEW a \in A, NEW step \in [Nat \X A -> A], NEW L \in Nat
    PROVE  \E f \in [0 .. L -> A] : IteratesTo(f, L, a, step)
<1>0. PICK f \in [Nat -> A] : Iterates(f, a, step)
  BY Recursion
<1>1. f[0] = a /\ \A n \in Nat : f[n + 1] = step[<<n, f[n]>>]
  BY <1>0 DEF Iterates
<1> DEFINE g == [n \in 0 .. L |-> f[n]]
<1>2. g \in [0 .. L -> A] /\ g[0] = a
  BY <1>1
<1>3. ASSUME NEW n \in 1 .. L PROVE g[n] = step[<<n - 1, g[n - 1]>>]
  <2>1. n - 1 \in Nat /\ (n - 1) + 1 = n /\ n - 1 \in 0 .. L /\ n \in 0 .. L
    OBVIOUS
  <2>2. f[(n - 1) + 1] = step[<<n - 1, f[n - 1]>>]
    BY <1>1, <2>1
  <2> QED BY <2>1, <2>2
<1> HIDE DEF g
<1> QED BY <1>2, <1>3 DEF IteratesTo

\* Induction on the first numbers.
LEMMA BoundedInduction ==
    ASSUME NEW L \in Nat, NEW T, 0 \in T, \A n \in 1 .. L : n - 1 \in T => n \in T
    PROVE  \A n \in 0 .. L : n \in T
<1> DEFINE U == {n \in Nat : n <= L => n \in T}
<1>1. 0 \in U
  OBVIOUS
<1>2. ASSUME NEW n \in Nat, n \in U PROVE n + 1 \in U
  <2> SUFFICES ASSUME n + 1 <= L PROVE n + 1 \in T
    OBVIOUS
  <2>1. n + 1 \in 1 .. L /\ (n + 1) - 1 = n /\ n \in T
    BY <1>2
  <2> QED BY <2>1
<1>3. \A n \in Nat : n \in U
  <2> HIDE DEF U
  <2> QED BY <1>1, <1>2, Induction
<1> QED BY <1>3
-----------------------------------------------------------------------------
(* Texts joined.                                                           *)

LEMMA JoinedTwo ==
    ASSUME NEW S, NEW s \in Seq(S), NEW t \in Seq(S)
    PROVE  /\ s \o t \in Seq(S)
           /\ Len(s) \in Nat /\ Len(t) \in Nat /\ Len(s \o t) = Len(s) + Len(t)
           /\ \A j \in 1 .. Len(s) : (s \o t)[j] = s[j]
           /\ \A j \in 1 .. Len(t) : (s \o t)[Len(s) + j] = t[j]
  OBVIOUS

\* The same, with the joining out of the provers' sight.
Behind(u, s, t) ==
    /\ Len(u) = Len(s) + Len(t)
    /\ \A j \in 1 .. Len(s) : u[j] = s[j]
    /\ \A j \in 1 .. Len(t) : u[Len(s) + j] = t[j]

LEMMA JoinedBehind ==
    ASSUME NEW S, NEW s \in Seq(S), NEW t \in Seq(S)
    PROVE  s \o t \in Seq(S) /\ Behind(s \o t, s, t)
  BY JoinedTwo DEF Behind

LEMMA BehindTwo ==
    ASSUME NEW u, NEW s, NEW t, Behind(u, s, t), Len(s) = 2, Len(t) \in Nat
    PROVE  /\ Len(u) = 2 + Len(t)
           /\ u[1] = s[1] /\ u[2] = s[2]
           /\ \A j \in 1 .. Len(t) : u[2 + j] = t[j]
<1>1. \A j \in 1 .. Len(t) : u[2 + j] = t[j]
  BY DEF Behind
<1>2. u[1] = s[1] /\ u[2] = s[2] /\ Len(u) = 2 + Len(t)
  BY DEF Behind
<1> QED BY <1>1, <1>2

\* Each part comes behind the ones before.
LEMMA JoinsFacts ==
    ASSUME NEW S, NEW parts \in Seq(Seq(S))
    PROVE  /\ \A n \in 0 .. Len(parts) : Joins(parts)[n] \in Seq(S)
           /\ Joins(parts)[0] = <<>>
           /\ \A n \in 1 .. Len(parts) : Joins(parts)[n] = Joins(parts)[n - 1] \o parts[n]
<1> DEFINE L == Len(parts)
           A == Seq(S)
           empty == <<>>
           Is(f) == f = [n \in 0 .. L |-> IF n = 0 THEN empty ELSE f[n - 1] \o parts[n]]
           step == [p \in Nat \X A |-> IF p[1] < L THEN p[2] \o parts[p[1] + 1] ELSE p[2]]
           J == Joins(parts)
<1>0. L \in Nat /\ empty \in A /\ \A n \in 1 .. L : parts[n] \in A
  OBVIOUS
<1>1. step \in [Nat \X A -> A]
  <2>1. ASSUME NEW p \in Nat \X A
        PROVE  (IF p[1] < L THEN p[2] \o parts[p[1] + 1] ELSE p[2]) \in A
    <3>1. p[2] \in A /\ p[1] \in Nat
      OBVIOUS
    <3>2. CASE p[1] < L
      <4>1. parts[p[1] + 1] \in A
        BY <1>0, <3>1, <3>2
      <4> QED BY <3>1, <3>2, <4>1
    <3> QED BY <3>1, <3>2
  <2> QED BY <2>1
<1>2. \A n \in Nat, s \in A : n < L => step[<<n, s>>] = s \o parts[n + 1]
  OBVIOUS
<1>3. J = CHOOSE h : Is(h)
  BY DEF Joins
<1> HIDE DEF step, A, L, empty, J
<1>3a. PICK f \in [0 .. L -> A] : IteratesTo(f, L, empty, step)
  BY <1>0, <1>1, BoundedRecursion
<1>4. f[0] = empty /\ \A n \in 1 .. L : f[n] = step[<<n - 1, f[n - 1]>>]
  BY <1>3a DEF IteratesTo
<1>5. \A n \in 1 .. L : f[n] = f[n - 1] \o parts[n]
  <2> SUFFICES ASSUME NEW n \in 1 .. L PROVE f[n] = f[n - 1] \o parts[n]
    OBVIOUS
  <2>1. n - 1 \in Nat /\ n - 1 < L /\ (n - 1) + 1 = n /\ n - 1 \in 0 .. L
    BY <1>0
  <2>2. f[n - 1] \in A
    BY <2>1
  <2>3. step[<<n - 1, f[n - 1]>>] = f[n - 1] \o parts[(n - 1) + 1]
    BY <1>2, <2>1, <2>2
  <2> QED BY <1>4, <2>1, <2>3
<1>6. Is(f)
  <2>1. ASSUME NEW n \in 0 .. L PROVE f[n] = IF n = 0 THEN empty ELSE f[n - 1] \o parts[n]
    <3>1. n = 0 \/ n \in 1 .. L
      BY <1>0
    <3>2. CASE n = 0
      BY <1>4, <3>2
    <3>3. CASE n \in 1 .. L
      <4>1. n # 0
        BY <3>3
      <4> QED BY <1>5, <3>3, <4>1
    <3> QED BY <3>1, <3>2, <3>3
  <2> QED BY <2>1
<1>7. Is(J)
  <2> HIDE DEF Is
  <2> QED BY <1>3, <1>6
<1>8. DOMAIN J = 0 .. L /\ J[0] = empty /\ \A n \in 1 .. L : J[n] = J[n - 1] \o parts[n]
  <2>1. \A n \in 1 .. L : n \in 0 .. L /\ n # 0
    BY <1>0
  <2>2. 0 \in 0 .. L
    BY <1>0
  <2> QED BY <1>7, <2>1, <2>2
<1>9. \A n \in 0 .. L : J[n] \in A
  <2> DEFINE T == {n \in 0 .. L : J[n] \in A}
  <2>1. 0 \in T
    BY <1>0, <1>8
  <2>2. ASSUME NEW n \in 1 .. L, n - 1 \in T PROVE n \in T
    <3>1. J[n - 1] \in A /\ parts[n] \in A /\ J[n] = J[n - 1] \o parts[n]
      BY <1>0, <1>8, <2>2
    <3>2. J[n] \in A
      BY <3>1 DEF A
    <3> QED BY <1>0, <3>2
  <2> HIDE DEF T
  <2>3. \A n \in 0 .. L : n \in T
    BY <1>0, <2>1, <2>2, BoundedInduction
  <2> QED BY <2>3 DEF T
<1> QED BY <1>8, <1>9 DEF J, L, A, empty

\* What has been joined stays in front when more is joined.
LEMMA JoinsPrefix ==
    ASSUME NEW S, NEW parts \in Seq(Seq(S)), NEW k \in 0 .. Len(parts)
    PROVE  \A n \in k .. Len(parts) :
               /\ Len(Joins(parts)[k]) <= Len(Joins(parts)[n])
               /\ \A j \in 1 .. Len(Joins(parts)[k]) : Joins(parts)[n][j] = Joins(parts)[k][j]
<1> DEFINE L == Len(parts)
           J == Joins(parts)
           Begins(n) == /\ Len(J[k]) <= Len(J[n])
                        /\ \A j \in 1 .. Len(J[k]) : J[n][j] = J[k][j]
           T == {n \in 0 .. L : k <= n => Begins(n)}
<1>0. L \in Nat
  OBVIOUS
<1>1. /\ \A n \in 0 .. L : J[n] \in Seq(S)
      /\ \A n \in 1 .. L : J[n] = J[n - 1] \o parts[n]
  BY JoinsFacts, Zenon
<1>2. \A n \in 1 .. L : parts[n] \in Seq(S)
  OBVIOUS
<1> HIDE DEF L, J
<1>3. k \in 0 .. L
  BY DEF L
<1>4. Begins(k)
  <2>1. Len(J[k]) \in Nat
    BY <1>0, <1>1, <1>3
  <2> QED BY <2>1
<1>5. 0 \in T
  <2>1. k <= 0 => k = 0
    BY <1>0, <1>1, <1>3
  <2> QED BY <1>0, <1>1, <1>4, <2>1
<1>6. ASSUME NEW n \in 1 .. L, n - 1 \in T PROVE n \in T
  <2> SUFFICES ASSUME k <= n PROVE Begins(n)
    BY <1>0, <1>1
  <2>1. CASE k = n
    BY <1>4, <2>1
  <2>2. CASE k # n
    <3>1. k <= n - 1 /\ n - 1 \in 0 .. L /\ n \in 0 .. L
      BY <1>0, <1>1, <1>3, <2>2
    <3>2. Begins(n - 1)
      BY <1>6, <3>1
    <3>3. /\ J[n - 1] \in Seq(S) /\ J[k] \in Seq(S) /\ parts[n] \in Seq(S)
          /\ J[n] = J[n - 1] \o parts[n]
      BY <1>0, <1>1, <1>2, <1>3, <3>1
    <3>4. /\ Len(J[n]) = Len(J[n - 1]) + Len(parts[n])
          /\ Len(J[n - 1]) \in Nat /\ Len(parts[n]) \in Nat /\ Len(J[k]) \in Nat
          /\ \A j \in 1 .. Len(J[n - 1]) : J[n][j] = J[n - 1][j]
      <4> DEFINE s == J[n - 1]
                 t == parts[n]
                 u == J[k]
      <4>1. s \in Seq(S) /\ t \in Seq(S) /\ u \in Seq(S) /\ J[n] = s \o t
        BY <3>3
      <4> HIDE DEF s, t, u
      <4>2. /\ Len(s \o t) = Len(s) + Len(t) /\ Len(s) \in Nat /\ Len(t) \in Nat /\ Len(u) \in Nat
            /\ \A j \in 1 .. Len(s) : (s \o t)[j] = s[j]
        BY <4>1, JoinedTwo
      <4> QED BY <4>1, <4>2 DEF s, t, u
    <3>5. Len(J[k]) <= Len(J[n])
      <4> DEFINE a == Len(J[k])
                 b == Len(J[n - 1])
                 c == Len(J[n])
                 d == Len(parts[n])
      <4>1. a <= b /\ c = b + d /\ a \in Nat /\ b \in Nat /\ d \in Nat
        BY <3>2, <3>4
      <4> HIDE DEF a, b, c, d
      <4>2. a <= c
        BY <4>1
      <4> QED BY <4>2 DEF a, c
    <3>6. ASSUME NEW j \in 1 .. Len(J[k]) PROVE J[n][j] = J[k][j]
      <4>1. j \in 1 .. Len(J[n - 1])
        BY <3>2, <3>4
      <4> QED BY <3>2, <3>4, <4>1
    <3> QED BY <3>5, <3>6
  <2> QED BY <2>1, <2>2
<1>7. \A n \in 0 .. L : n \in T
  <2> HIDE DEF T
  <2> QED BY <1>0, <1>1, <1>5, <1>6, BoundedInduction
<1>8. ASSUME NEW n \in k .. L PROVE Begins(n)
  <2>1. n \in 0 .. L /\ k <= n
    BY <1>0, <1>1, <1>3
  <2> QED BY <1>7, <2>1
<1> QED BY <1>8 DEF L, J

\* Where each part stands in the whole.
LEMMA PartInWhole ==
    ASSUME NEW S, NEW parts \in Seq(Seq(S)), NEW k \in 1 .. Len(parts)
    PROVE  /\ Concat(parts) \in Seq(S)
           /\ Joins(parts)[k - 1] \in Seq(S) /\ parts[k] \in Seq(S)
           /\ Len(Joins(parts)[k]) = Len(Joins(parts)[k - 1]) + Len(parts[k])
           /\ Len(Joins(parts)[k]) <= Len(Concat(parts))
           /\ \A j \in 1 .. Len(parts[k]) :
                  Concat(parts)[Len(Joins(parts)[k - 1]) + j] = parts[k][j]
<1> DEFINE L == Len(parts)
           J == Joins(parts)
           before == J[k - 1]
           upTo == J[k]
           whole == J[L]
           part == parts[k]
<1>0. L \in Nat
  OBVIOUS
<1>1. /\ \A n \in 0 .. L : J[n] \in Seq(S)
      /\ \A n \in 1 .. L : J[n] = J[n - 1] \o parts[n]
  BY JoinsFacts, Zenon
<1>2. k - 1 \in 0 .. L /\ k \in 0 .. L /\ L \in 0 .. L /\ L \in k .. L
  BY <1>0, <1>1
<1>3. before \in Seq(S) /\ upTo \in Seq(S) /\ whole \in Seq(S) /\ part \in Seq(S)
  BY <1>0, <1>1, <1>2
<1>4. upTo = before \o part
  BY <1>0, <1>1
<1>5. Len(upTo) <= Len(whole) /\ \A j \in 1 .. Len(upTo) : whole[j] = upTo[j]
  <2> HIDE DEF L
  <2>1. k \in 0 .. Len(parts) /\ L \in k .. Len(parts)
    BY <1>2 DEF L
  <2> QED BY <2>1, JoinsPrefix
<1>6. Concat(parts) = whole
  BY DEF Concat
<1> HIDE DEF L, J, before, upTo, whole, part
<1>7. /\ Len(upTo) = Len(before) + Len(part) /\ Len(before) \in Nat /\ Len(part) \in Nat
      /\ \A j \in 1 .. Len(part) : upTo[Len(before) + j] = part[j]
  BY <1>3, <1>4, JoinedTwo
<1>8. ASSUME NEW j \in 1 .. Len(part) PROVE whole[Len(before) + j] = part[j]
  <2>1. Len(before) + j \in 1 .. Len(upTo)
    BY <1>7
  <2> QED BY <1>5, <1>7, <2>1
<1> QED BY <1>3, <1>5, <1>6, <1>7, <1>8 DEF J, before, upTo, part
-----------------------------------------------------------------------------
(* Numbers added.                                                          *)

\* Each number is added to the sum of the ones before.
LEMMA SumsFacts ==
    ASSUME NEW numbers \in Seq(Nat)
    PROVE  /\ \A n \in 0 .. Len(numbers) : Sums(numbers)[n] \in Nat
           /\ Sums(numbers)[0] = 0
           /\ \A n \in 1 .. Len(numbers) : Sums(numbers)[n] = Sums(numbers)[n - 1] + numbers[n]
<1> DEFINE L == Len(numbers)
           Is(f) == f = [n \in 0 .. L |-> IF n = 0 THEN 0 ELSE f[n - 1] + numbers[n]]
           step == [p \in Nat \X Nat |-> IF p[1] < L THEN p[2] + numbers[p[1] + 1] ELSE p[2]]
           J == Sums(numbers)
<1>0. L \in Nat /\ \A n \in 1 .. L : numbers[n] \in Nat
  OBVIOUS
<1>1. step \in [Nat \X Nat -> Nat]
  <2>1. ASSUME NEW p \in Nat \X Nat
        PROVE  (IF p[1] < L THEN p[2] + numbers[p[1] + 1] ELSE p[2]) \in Nat
    <3>1. p[2] \in Nat /\ p[1] \in Nat
      OBVIOUS
    <3>2. p[1] < L => numbers[p[1] + 1] \in Nat
      BY <1>0, <3>1
    <3> QED BY <3>1, <3>2
  <2> QED BY <2>1
<1>2. \A n \in Nat, s \in Nat : n < L => step[<<n, s>>] = s + numbers[n + 1]
  OBVIOUS
<1>3. J = CHOOSE h : Is(h)
  BY DEF Sums
<1> HIDE DEF step, L, J
<1>4. PICK f \in [0 .. L -> Nat] : IteratesTo(f, L, 0, step)
  BY <1>0, <1>1, BoundedRecursion
<1>5. f[0] = 0 /\ \A n \in 1 .. L : f[n] = step[<<n - 1, f[n - 1]>>]
  BY <1>4 DEF IteratesTo
<1>6. ASSUME NEW n \in 1 .. L PROVE f[n] = f[n - 1] + numbers[n] /\ n \in 0 .. L /\ n # 0
  <2>1. n - 1 \in Nat /\ n - 1 < L /\ (n - 1) + 1 = n /\ n - 1 \in 0 .. L
    BY <1>0
  <2>2. f[n - 1] \in Nat
    BY <2>1
  <2>3. step[<<n - 1, f[n - 1]>>] = f[n - 1] + numbers[(n - 1) + 1]
    BY <1>2, <2>1, <2>2
  <2> QED BY <1>5, <2>1, <2>3
<1>7. \A n \in 0 .. L : n = 0 \/ n \in 1 .. L
  BY <1>0
<1>8. Is(f)
  <2>1. ASSUME NEW n \in 0 .. L PROVE f[n] = IF n = 0 THEN 0 ELSE f[n - 1] + numbers[n]
    BY <1>5, <1>6, <1>7
  <2> QED BY <2>1
<1>9. Is(J)
  <2> HIDE DEF Is
  <2> QED BY <1>3, <1>8
<1>10. J[0] = 0 /\ \A n \in 1 .. L : J[n] = J[n - 1] + numbers[n]
  <2>1. 0 \in 0 .. L
    BY <1>0
  <2> QED BY <1>6, <1>9, <2>1
<1>11. \A n \in 0 .. L : J[n] \in Nat
  <2> DEFINE T == {n \in 0 .. L : J[n] \in Nat}
  <2>1. 0 \in T
    BY <1>0, <1>10
  <2>2. ASSUME NEW n \in 1 .. L, n - 1 \in T PROVE n \in T
    <3>1. J[n - 1] \in Nat /\ numbers[n] \in Nat /\ J[n] = J[n - 1] + numbers[n]
      BY <1>0, <1>10, <2>2
    <3> QED BY <1>6, <3>1
  <2> HIDE DEF T
  <2>3. \A n \in 0 .. L : n \in T
    BY <1>0, <2>1, <2>2, BoundedInduction
  <2> QED BY <2>3 DEF T
<1> QED BY <1>10, <1>11 DEF J, L

\* Two series that begin alike have the same sums so far.
LEMMA SumsAgree ==
    ASSUME NEW s \in Seq(Nat), NEW t \in Seq(Nat), NEW k \in 0 .. Len(s), k <= Len(t),
           \A j \in 1 .. k : s[j] = t[j]
    PROVE  Sums(s)[k] = Sums(t)[k]
<1> DEFINE T == {n \in 0 .. k : Sums(s)[n] = Sums(t)[n]}
<1>0. k \in Nat /\ Len(s) \in Nat /\ Len(t) \in Nat
  OBVIOUS
<1>1. /\ Sums(s)[0] = 0
      /\ \A n \in 1 .. Len(s) : Sums(s)[n] = Sums(s)[n - 1] + s[n]
  BY SumsFacts, Zenon
<1>2. /\ Sums(t)[0] = 0
      /\ \A n \in 1 .. Len(t) : Sums(t)[n] = Sums(t)[n - 1] + t[n]
  BY SumsFacts, Zenon
<1>3. 0 \in T
  BY <1>0, <1>1, <1>2
<1>4. ASSUME NEW n \in 1 .. k, n - 1 \in T PROVE n \in T
  <2>1. n \in 1 .. Len(s) /\ n \in 1 .. Len(t) /\ n \in 0 .. k
    BY <1>0
  <2>2. Sums(s)[n] = Sums(s)[n - 1] + s[n]
    BY <1>1, <2>1, Zenon
  <2>3. Sums(t)[n] = Sums(t)[n - 1] + t[n]
    BY <1>2, <2>1, Zenon
  <2>4. Sums(s)[n - 1] = Sums(t)[n - 1] /\ s[n] = t[n]
    BY <1>4
  <2> QED BY <2>1, <2>2, <2>3, <2>4
<1>5. \A n \in 0 .. k : n \in T
  <2> HIDE DEF T
  <2> QED BY <1>0, <1>3, <1>4, BoundedInduction
<1>6. k \in 0 .. k
  BY <1>0
<1> QED BY <1>5, <1>6

LEMMA NumberOf ==
    ASSUME NEW t \in Seq(Nat), NEW n \in 1 .. Len(t)
    PROVE  t[n] \in Nat
OBVIOUS

\* What follows the first k numbers adds a multiple of its own sum, if it is a
\* multiple of another series.
LEMMA SumsScaled ==
    ASSUME NEW s \in Seq(Nat), NEW t \in Seq(Nat), NEW k \in Nat, NEW c \in Nat,
           Len(s) = k + Len(t), \A j \in 1 .. Len(t) : s[k + j] = c * t[j]
    PROVE  SumOf(s) = Sums(s)[k] + c * SumOf(t)
<1> DEFINE L == Len(t)
           T == {n \in 0 .. L : Sums(s)[k + n] = Sums(s)[k] + c * Sums(t)[n]}
<1>0. L \in Nat /\ Len(s) = k + L
  OBVIOUS
<1>1. /\ \A n \in 0 .. Len(s) : Sums(s)[n] \in Nat
      /\ \A n \in 1 .. Len(s) : Sums(s)[n] = Sums(s)[n - 1] + s[n]
  BY SumsFacts, Zenon
<1>2. /\ \A n \in 0 .. L : Sums(t)[n] \in Nat
      /\ Sums(t)[0] = 0
      /\ \A n \in 1 .. L : Sums(t)[n] = Sums(t)[n - 1] + t[n]
  BY SumsFacts, Zenon
<1>3. 0 \in T
  <2>1. k \in 0 .. Len(s) /\ k + 0 = k /\ c * 0 = 0 /\ 0 \in 0 .. L
    BY <1>0
  <2>2. Sums(s)[k] \in Nat
    BY <1>1, <2>1
  <2> QED BY <1>2, <2>1, <2>2
<1>4. ASSUME NEW n \in 1 .. L, n - 1 \in T PROVE n \in T
  <2>1. /\ k + n \in 1 .. Len(s) /\ (k + n) - 1 = k + (n - 1)
        /\ n \in 0 .. L /\ n - 1 \in 0 .. L /\ k \in 0 .. Len(s)
    BY <1>0, SMTT(30)
  <2>2. Sums(s)[k + n] = Sums(s)[k + (n - 1)] + s[k + n]
    BY <1>1, <2>1
  <2>3. Sums(t)[n] = Sums(t)[n - 1] + t[n]
    BY <1>2, Zenon
  <2>4. Sums(s)[k + (n - 1)] = Sums(s)[k] + c * Sums(t)[n - 1]
    BY <1>4
  <2>5. s[k + n] = c * t[n] /\ t[n] \in Nat
    <3>1. n \in 1 .. Len(t)
      BY <1>0
    <3> HIDE DEF T, L
    <3>2. t[n] \in Nat
      BY <3>1, NumberOf, Zenon
    <3>3. s[k + n] = c * t[n]
      BY <3>1
    <3> QED BY <3>2, <3>3
  <2>6. Sums(t)[n - 1] \in Nat /\ Sums(s)[k] \in Nat
    BY <1>1, <1>2, <2>1
  <2> DEFINE a == Sums(s)[k]
             b == Sums(t)[n - 1]
             d == t[n]
  <2>7. a \in Nat /\ b \in Nat /\ d \in Nat
    BY <2>5, <2>6
  <2>8. Sums(s)[k + n] = (a + c * b) + c * d /\ Sums(t)[n] = b + d
    BY <2>2, <2>3, <2>4, <2>5
  <2> HIDE DEF a, b, d
  <2>9. (a + c * b) + c * d = a + c * (b + d)
    BY <2>7
  <2>10. Sums(s)[k + n] = Sums(s)[k] + c * Sums(t)[n]
    BY <2>8, <2>9 DEF a
  <2> QED BY <2>1, <2>10
<1>5. \A n \in 0 .. L : n \in T
  <2> HIDE DEF T, L
  <2> QED BY <1>0, <1>3, <1>4, BoundedInduction
<1>6. L \in 0 .. L
  BY <1>0
<1>7. Sums(s)[k + L] = Sums(s)[k] + c * Sums(t)[L]
  BY <1>5, <1>6
<1> QED BY <1>0, <1>7 DEF SumOf
-----------------------------------------------------------------------------
(* Powers.                                                                 *)

LEMMA PowerFacts ==
    ASSUME NEW b \in Nat
    PROVE  /\ Power(b, 0) = 1
           /\ \A n \in Nat : Power(b, n) \in Nat
           /\ \A n \in Nat : Power(b, n + 1) = b * Power(b, n)
<1> DEFINE Is(f) == f = [n \in Nat |-> IF n = 0 THEN 1 ELSE b * f[n - 1]]
           step == [p \in Nat \X Nat |-> b * p[2]]
           J == Powers(b)
<1>1. step \in [Nat \X Nat -> Nat]
  OBVIOUS
<1>2. \A n \in Nat, s \in Nat : step[<<n, s>>] = b * s
  OBVIOUS
<1>3. J = CHOOSE h : Is(h)
  BY DEF Powers
<1> HIDE DEF step, J
<1>4. PICK f \in [Nat -> Nat] : Iterates(f, 1, step)
  BY <1>1, Recursion
<1>5. f[0] = 1 /\ \A n \in Nat : f[n + 1] = step[<<n, f[n]>>]
  BY <1>4 DEF Iterates
<1>6. \A n \in Nat : f[n + 1] = b * f[n]
  BY <1>2, <1>5
<1>7. Is(f)
  <2>1. ASSUME NEW n \in Nat PROVE f[n] = IF n = 0 THEN 1 ELSE b * f[n - 1]
    <3>1. CASE n = 0
      BY <1>5, <3>1
    <3>2. CASE n # 0
      <4>1. n - 1 \in Nat /\ (n - 1) + 1 = n
        BY <3>2
      <4>2. f[(n - 1) + 1] = b * f[n - 1]
        BY <1>6, <4>1
      <4> QED BY <3>2, <4>1, <4>2
    <3> QED BY <3>1, <3>2
  <2> QED BY <2>1
<1>8. Is(J)
  <2> HIDE DEF Is
  <2> QED BY <1>3, <1>7
<1>9. J[0] = 1
  BY <1>8
<1>10. ASSUME NEW n \in Nat PROVE J[n + 1] = b * J[n]
  <2>1. n + 1 \in Nat /\ n + 1 # 0 /\ (n + 1) - 1 = n
    OBVIOUS
  <2>2. J[n + 1] = b * J[(n + 1) - 1]
    BY <1>8, <2>1
  <2> QED BY <2>1, <2>2
<1>11. \A n \in Nat : J[n] \in Nat
  <2> DEFINE T == {n \in Nat : J[n] \in Nat}
  <2>1. 0 \in T
    BY <1>9
  <2>2. ASSUME NEW n \in Nat, n \in T PROVE n + 1 \in T
    BY <1>10, <2>2
  <2> HIDE DEF T
  <2>3. \A n \in Nat : n \in T
    BY <2>1, <2>2, Induction
  <2> QED BY <2>3 DEF T
<1> QED BY <1>9, <1>10, <1>11 DEF J, Power

LEMMA PowerPositive ==
    ASSUME NEW b \in Nat, b # 0, NEW n \in Nat
    PROVE  Power(b, n) \in Nat /\ Power(b, n) >= 1
<1> DEFINE T == {k \in Nat : Power(b, k) >= 1}
<1>1. 0 \in T
  BY PowerFacts
<1>2. ASSUME NEW k \in Nat, k \in T PROVE k + 1 \in T
  <2> DEFINE p == Power(b, k)
  <2>1. p \in Nat /\ p >= 1 /\ Power(b, k + 1) = b * p
    BY <1>2, PowerFacts
  <2> HIDE DEF p
  <2>2. b * p >= 1
    BY <2>1
  <2> QED BY <2>1, <2>2
<1>3. \A k \in Nat : k \in T
  <2> HIDE DEF T
  <2> QED BY <1>1, <1>2, Induction
<1> QED BY <1>3, PowerFacts

LEMMA PowerSum ==
    ASSUME NEW b \in Nat, NEW m \in Nat, NEW n \in Nat
    PROVE  Power(b, m + n) = Power(b, m) * Power(b, n)
<1> DEFINE T == {k \in Nat : Power(b, m + k) = Power(b, m) * Power(b, k)}
<1>1. 0 \in T
  <2>1. Power(b, 0) = 1 /\ Power(b, m) \in Nat /\ m + 0 = m
    BY PowerFacts
  <2> QED BY <2>1
<1>2. ASSUME NEW k \in Nat, k \in T PROVE k + 1 \in T
  <2> DEFINE p == Power(b, m)
             q == Power(b, k)
  <2>1. p \in Nat /\ q \in Nat /\ Power(b, k + 1) = b * q
    BY PowerFacts
  <2>2. m + k \in Nat /\ m + (k + 1) = (m + k) + 1
    OBVIOUS
  <2>3. Power(b, (m + k) + 1) = b * Power(b, m + k)
    BY <2>2, PowerFacts
  <2>4. Power(b, m + k) = p * q
    BY <1>2
  <2> HIDE DEF p, q
  <2>5. b * (p * q) = p * (b * q)
    BY <2>1
  <2>6. Power(b, m + (k + 1)) = p * Power(b, k + 1)
    BY <2>1, <2>2, <2>3, <2>4, <2>5
  <2> QED BY <2>6 DEF p
<1>3. \A k \in Nat : k \in T
  <2> HIDE DEF T
  <2> QED BY <1>1, <1>2, Induction
<1> QED BY <1>3

LEMMA PowerMonotone ==
    ASSUME NEW b \in Nat, b # 0, NEW m \in Nat, NEW n \in Nat, m <= n
    PROVE  Power(b, m) <= Power(b, n)
<1> DEFINE p == Power(b, m)
           q == Power(b, n - m)
<1>1. n - m \in Nat /\ m + (n - m) = n
  OBVIOUS
<1>2. Power(b, m + (n - m)) = p * q
  BY <1>1, PowerSum
<1>3. p \in Nat /\ p >= 1 /\ q \in Nat /\ q >= 1
  BY <1>1, PowerPositive
<1> HIDE DEF p, q
<1>4. p * q >= p
  BY <1>3
<1> QED BY <1>1, <1>2, <1>4 DEF p
-----------------------------------------------------------------------------
(* Digits to a base, the least significant first.                          *)

LEMMA PowersOf ==
    ASSUME NEW base \in Nat, base # 0, NEW n \in Nat
    PROVE  /\ Power(base, 0) = 1 /\ Power(base, n) \in Nat /\ Power(base, n) >= 1
           /\ Power(base, n + 1) = base * Power(base, n)
           /\ \A m \in Nat : Power(base, m + n) = Power(base, m) * Power(base, n)
           /\ \A m \in Nat : m <= n => Power(base, m) <= Power(base, n)
  BY PowerFacts, PowerPositive, PowerSum, PowerMonotone

LEMMA WeightedFacts ==
    ASSUME NEW base \in Nat, base # 0, NEW digits \in Seq(0 .. base - 1)
    PROVE  /\ Len(digits) \in Nat /\ Weighted(base, digits) \in Seq(Nat)
           /\ Len(Weighted(base, digits)) = Len(digits)
           /\ \A k \in 1 .. Len(digits) :
                  /\ digits[k] \in Nat /\ digits[k] <= base - 1
                  /\ Weighted(base, digits)[k] = digits[k] * Power(base, k - 1)
<1>1. Len(digits) \in Nat /\ \A k \in 1 .. Len(digits) : digits[k] \in Nat /\ digits[k] <= base - 1
  <2>1. \A k \in 1 .. Len(digits) : digits[k] \in 0 .. base - 1
    OBVIOUS
  <2>2. \A d \in 0 .. base - 1 : d \in Nat /\ d <= base - 1
    OBVIOUS
  <2> QED BY <2>1, <2>2
<1>2. ASSUME NEW k \in 1 .. Len(digits) PROVE digits[k] * Power(base, k - 1) \in Nat
  <2>1. k - 1 \in Nat
    BY <1>1
  <2>2. Power(base, k - 1) \in Nat
    BY <2>1, PowersOf
  <2>3. digits[k] \in Nat
    BY <1>1
  <2> QED BY <2>2, <2>3
<1> QED BY <1>1, <1>2 DEF Weighted

\* Digits spell a number of so many digits.
LEMMA WorthBound ==
    ASSUME NEW base \in Nat, base # 0, NEW digits \in Seq(0 .. base - 1)
    PROVE  Worth(base, digits) \in Nat /\ Worth(base, digits) < Power(base, Len(digits))
<1> DEFINE L == Len(digits)
           w == Weighted(base, digits)
           T == {n \in 0 .. L : Sums(w)[n] < Power(base, n)}
<1>1. /\ L \in Nat /\ w \in Seq(Nat) /\ Len(w) = L
      /\ \A k \in 1 .. L : /\ digits[k] \in Nat /\ digits[k] <= base - 1
                           /\ w[k] = digits[k] * Power(base, k - 1)
  BY WeightedFacts
<1> HIDE DEF w
<1>2. /\ \A n \in 0 .. L : Sums(w)[n] \in Nat
      /\ Sums(w)[0] = 0 /\ \A n \in 1 .. L : Sums(w)[n] = Sums(w)[n - 1] + w[n]
  BY <1>1, SumsFacts
<1>3. 0 \in T
  <2>1. Power(base, 0) = 1
    BY PowerFacts
  <2> QED BY <1>1, <1>2, <2>1
<1>4. ASSUME NEW n \in 1 .. L, n - 1 \in T PROVE n \in T
  <2> DEFINE p == Power(base, n - 1)
             d == digits[n]
             s == Sums(w)[n - 1]
  <2>1. n - 1 \in Nat /\ (n - 1) + 1 = n /\ n - 1 \in 0 .. L /\ n \in 0 .. L
    BY <1>1
  <2>2. p \in Nat /\ Power(base, n) = base * p
    <3> DEFINE m == n - 1
    <3>1. m \in Nat /\ m + 1 = n /\ p = Power(base, m)
      BY <2>1
    <3> HIDE DEF m, p
    <3>2. Power(base, m) \in Nat /\ Power(base, m + 1) = base * Power(base, m)
      BY <3>1, PowersOf
    <3> QED BY <3>1, <3>2
  <2>3. d \in Nat /\ d <= base - 1 /\ s \in Nat /\ s < p /\ Sums(w)[n] = s + d * p
    BY <1>1, <1>2, <1>4, <2>1
  <2> HIDE DEF p, d, s
  <2>4. d * p <= base * p - p /\ d * p \in Nat
    BY <2>2, <2>3
  <2>5. s + d * p < base * p
    <3> DEFINE q == d * p
               r == base * p
    <3>1. r \in Nat /\ q \in Nat /\ q <= r - p
      BY <2>2, <2>4
    <3>2. s \in Nat /\ p \in Nat /\ s < p
      BY <2>2, <2>3
    <3> HIDE DEF q, r
    <3>3. s + q < r
      BY <3>1, <3>2
    <3> QED BY <3>3 DEF q, r
  <2> QED BY <2>1, <2>2, <2>3, <2>5
<1>5. \A n \in 0 .. L : n \in T
  <2> HIDE DEF T, L
  <2> QED BY <1>1, <1>3, <1>4, BoundedInduction
<1>6. L \in 0 .. L
  BY <1>1
<1> QED BY <1>1, <1>2, <1>5, <1>6 DEF Worth, SumOf, w

\* Digits behind others count for more.
LEMMA WorthSplit ==
    ASSUME NEW base \in Nat, base # 0,
           NEW whole \in Seq(0 .. base - 1), NEW front \in Seq(0 .. base - 1),
           NEW back \in Seq(0 .. base - 1), Behind(whole, front, back)
    PROVE  Worth(base, whole) = Worth(base, front) + Power(base, Len(front)) * Worth(base, back)
<1> DEFINE w == Weighted(base, whole)
           f == Weighted(base, front)
           g == Weighted(base, back)
           k == Len(front)
           c == Power(base, k)
<1>1. /\ w \in Seq(Nat) /\ Len(w) = Len(whole)
      /\ \A j \in 1 .. Len(whole) : w[j] = whole[j] * Power(base, j - 1)
  BY WeightedFacts
<1>2. /\ f \in Seq(Nat) /\ Len(f) = k /\ k \in Nat
      /\ \A j \in 1 .. k : f[j] = front[j] * Power(base, j - 1)
  BY WeightedFacts
<1>3. /\ g \in Seq(Nat) /\ Len(g) = Len(back) /\ Len(back) \in Nat
      /\ \A j \in 1 .. Len(back) : back[j] \in Nat /\ g[j] = back[j] * Power(base, j - 1)
  BY WeightedFacts
<1>4. /\ Len(whole) = k + Len(back)
      /\ \A j \in 1 .. k : whole[j] = front[j]
      /\ \A j \in 1 .. Len(back) : whole[k + j] = back[j]
  BY DEF Behind
<1> HIDE DEF w, f, g
<1>5. c \in Nat
  BY <1>2, PowersOf
<1>6. Sums(w)[k] = Sums(f)[k]
  <2>1. k \in 0 .. Len(f) /\ k <= Len(w)
    BY <1>1, <1>2, <1>3, <1>4
  <2>2. \A j \in 1 .. k : f[j] = w[j]
    BY <1>1, <1>2, <1>3, <1>4
  <2> HIDE DEF k
  <2>3. Sums(f)[k] = Sums(w)[k]
    BY <1>1, <1>2, <2>1, <2>2, SumsAgree
  <2> QED BY <2>3
<1>7. SumOf(w) = Sums(w)[k] + c * SumOf(g)
  <2>1. Len(w) = k + Len(g)
    BY <1>1, <1>3, <1>4
  <2>2. ASSUME NEW j \in 1 .. Len(g) PROVE w[k + j] = c * g[j]
    <3> DEFINE d == back[j]
               p == Power(base, j - 1)
    <3>1. j \in 1 .. Len(back) /\ k + j \in 1 .. Len(whole) /\ j - 1 \in Nat
          /\ (k + j) - 1 = k + (j - 1)
      BY <1>2, <1>3, <1>4
    <3>2. w[k + j] = d * Power(base, k + (j - 1))
      BY <1>1, <1>4, <3>1
    <3>3. Power(base, k + (j - 1)) = c * p
      BY <1>2, <3>1, PowersOf, ZenonT(30)
    <3>4. g[j] = d * p /\ d \in Nat /\ p \in Nat
      BY <1>3, <3>1, PowersOf
    <3> HIDE DEF d, p, c
    <3>5. d * (c * p) = c * (d * p)
      BY <1>5, <3>4
    <3> QED BY <3>2, <3>3, <3>4, <3>5
  <2>3. w \in Seq(Nat) /\ g \in Seq(Nat) /\ k \in Nat
    BY <1>1, <1>2, <1>3
  <2> HIDE DEF c, k
  <2> QED BY <1>5, <2>1, <2>2, <2>3, SumsScaled, ZenonT(30)
<1> QED BY <1>2, <1>6, <1>7 DEF Worth, SumOf, w, f, g

-----------------------------------------------------------------------------
(* The table of labels.                                                    *)

\* A layout places each of its labels on a line of its own, the first lines of
\* the page, and has at most four.
GoodLayout(layout) ==
    /\ Len(layout) \in 1 .. 4
    /\ \A k \in 1 .. Len(layout) :
           /\ layout[k].item \in Items
           /\ layout[k].pos \in 0 .. Len(layout) - 1
    /\ \A p \in 0 .. Len(layout) - 1 : \E k \in 1 .. Len(layout) : layout[k].pos = p
    /\ \A j, k \in 1 .. Len(layout) : layout[j].pos = layout[k].pos => j = k

Named(label) == label.item \in Items

LEMMA OneLabel ==
    ASSUME NEW l, Len(l) = 1, Named(l[1]), l[1].pos = 0
    PROVE  GoodLayout(l)
  BY DEF GoodLayout, Named

LEMMA TwoLabels ==
    ASSUME NEW l, Len(l) = 2, Named(l[1]), Named(l[2]), l[1].pos = 1, l[2].pos = 0
    PROVE  GoodLayout(l)
  BY DEF GoodLayout, Named

LEMMA ThreeLabels ==
    ASSUME NEW l, Len(l) = 3, Named(l[1]), Named(l[2]), Named(l[3]),
           {l[1].pos, l[2].pos, l[3].pos} = 0 .. 2
    PROVE  GoodLayout(l)
<1>1. \A k \in 1 .. 3 : k = 1 \/ k = 2 \/ k = 3
  OBVIOUS
<1> QED BY <1>1 DEF GoodLayout, Named

LEMMA FourLabels ==
    ASSUME NEW l, Len(l) = 4, Named(l[1]), Named(l[2]), Named(l[3]), Named(l[4]),
           {l[1].pos, l[2].pos, l[3].pos, l[4].pos} = 0 .. 3
    PROVE  GoodLayout(l)
<1>1. \A k \in 1 .. 4 : k = 1 \/ k = 2 \/ k = 3 \/ k = 4
  OBVIOUS
<1> QED BY <1>1 DEF GoodLayout, Named

LEMMA AtFields == \A item, pos : At(item, pos).item = item /\ At(item, pos).pos = pos
  BY DEF At

KnownMethods == UNION {Methods(contract) : contract \in Contracts}

\* Every method has a good layout; the three methods on lists of peers name only
\* the staker's address, a list of transfers the parts of its first transfer.
LEMMA LayoutShape ==
    ASSUME NEW type \in ContractTypes, NEW method \in KnownMethods
    PROVE  LET layout == init_dipslay_pos_and_item(type, method)
           IN  /\ GoodLayout(layout)
               /\ method \in PeerMethods => Len(layout) = 1
               /\ type = "NATIVE_CONTRACT" /\ method \in TransferMethods => Len(layout) = 3
<1> DEFINE layout == init_dipslay_pos_and_item(type, method)
<1>1. method \in TransferMethods \cup TransferFromMethods \cup ApproveMethods \cup GovernanceMethods
  BY DEF KnownMethods, Methods, Contracts, TransferMethods, TransferFromMethods, ApproveMethods,
         GovernanceMethods
<1> HIDE DEF layout
<1> USE DEF TransferMethods, TransferFromMethods, ApproveMethods, PeerMethods
<1>2. CASE Reversed(type, method) /\ method # "transferFrom"
  <2>1. layout = <<At("AMOUNT", 1), At("TO", 2), At("FROM", 0)>>
    BY <1>2 DEF layout, init_dipslay_pos_and_item, Reversed
  <2>2. /\ Len(layout) = 3
        /\ layout[1] = At("AMOUNT", 1) /\ layout[2] = At("TO", 2) /\ layout[3] = At("FROM", 0)
    BY <2>1
  <2>3. /\ Named(layout[1]) /\ Named(layout[2]) /\ Named(layout[3])
        /\ layout[1].pos = 1 /\ layout[2].pos = 2 /\ layout[3].pos = 0
    BY <2>2, AtFields DEF Named, Items
  <2>4. GoodLayout(layout)
    BY <2>2, <2>3, ThreeLabels
  <2> QED BY <2>2, <2>4, <1>2 DEF layout, Reversed
<1>3. CASE Reversed(type, method) /\ method = "transferFrom"
  <2>1. layout = <<At("AMOUNT", 2), At("TO", 3), At("FROM", 1), At("SPENDER", 0)>>
    BY <1>3 DEF layout, init_dipslay_pos_and_item, Reversed
  <2>2. /\ Len(layout) = 4
        /\ layout[1] = At("AMOUNT", 2) /\ layout[2] = At("TO", 3)
        /\ layout[3] = At("FROM", 1) /\ layout[4] = At("SPENDER", 0)
    BY <2>1
  <2>3. /\ Named(layout[1]) /\ Named(layout[2]) /\ Named(layout[3]) /\ Named(layout[4])
        /\ layout[1].pos = 2 /\ layout[2].pos = 3 /\ layout[3].pos = 1 /\ layout[4].pos = 0
    BY <2>2, AtFields DEF Named, Items
  <2>4. GoodLayout(layout)
    BY <2>2, <2>3, FourLabels
  <2> QED BY <2>2, <2>4, <1>3 DEF layout, Reversed
<1>4. CASE ~Reversed(type, method) /\ method \in TransferMethods \cup ApproveMethods
  <2>1. layout = <<At("FROM", 0), At("TO", 2), At("AMOUNT", 1)>>
    BY <1>4 DEF layout, init_dipslay_pos_and_item, Reversed
  <2>2. /\ Len(layout) = 3
        /\ layout[1] = At("FROM", 0) /\ layout[2] = At("TO", 2) /\ layout[3] = At("AMOUNT", 1)
    BY <2>1
  <2>3. /\ Named(layout[1]) /\ Named(layout[2]) /\ Named(layout[3])
        /\ layout[1].pos = 0 /\ layout[2].pos = 2 /\ layout[3].pos = 1
    BY <2>2, AtFields DEF Named, Items
  <2>4. GoodLayout(layout)
    BY <2>2, <2>3, ThreeLabels
  <2> QED BY <2>2, <2>4, <1>4 DEF layout, Reversed
<1>5. CASE ~Reversed(type, method) /\ method \in TransferFromMethods
  <2>1. layout = <<At("SPENDER", 0), At("FROM", 1), At("TO", 3), At("AMOUNT", 2)>>
    BY <1>5 DEF layout, init_dipslay_pos_and_item, Reversed
  <2>2. /\ Len(layout) = 4
        /\ layout[1] = At("SPENDER", 0) /\ layout[2] = At("FROM", 1)
        /\ layout[3] = At("TO", 3) /\ layout[4] = At("AMOUNT", 2)
    BY <2>1
  <2>3. /\ Named(layout[1]) /\ Named(layout[2]) /\ Named(layout[3]) /\ Named(layout[4])
        /\ layout[1].pos = 0 /\ layout[2].pos = 1 /\ layout[3].pos = 3 /\ layout[4].pos = 2
    BY <2>2, AtFields DEF Named, Items
  <2>4. GoodLayout(layout)
    BY <2>2, <2>3, FourLabels
  <2> QED BY <2>2, <2>4, <1>5 DEF layout, Reversed
<1>6. CASE method \in {"registerCandidate", "addInitPos"}
  <2>1. layout = <<At("PEER_PUBKEY", 1), At("STAKE_ADDRESS", 0), At("STAKE_AMOUNT", 2)>>
    BY <1>6 DEF layout, init_dipslay_pos_and_item, Reversed
  <2>2. /\ Len(layout) = 3
        /\ layout[1] = At("PEER_PUBKEY", 1)
        /\ layout[2] = At("STAKE_ADDRESS", 0) /\ layout[3] = At("STAKE_AMOUNT", 2)
    BY <2>1
  <2>3. /\ Named(layout[1]) /\ Named(layout[2]) /\ Named(layout[3])
        /\ layout[1].pos = 1 /\ layout[2].pos = 0 /\ layout[3].pos = 2
    BY <2>2, AtFields DEF Named, Items
  <2>4. GoodLayout(layout)
    BY <2>2, <2>3, ThreeLabels
  <2> QED BY <2>2, <2>4, <1>6 DEF layout, Reversed
<1>7. CASE method = "reduceInitPos"
  <2>1. layout = <<At("PEER_PUBKEY", 1), At("STAKE_ADDRESS", 0), At("AMOUNT", 2)>>
    BY <1>7 DEF layout, init_dipslay_pos_and_item, Reversed
  <2>2. /\ Len(layout) = 3
        /\ layout[1] = At("PEER_PUBKEY", 1)
        /\ layout[2] = At("STAKE_ADDRESS", 0) /\ layout[3] = At("AMOUNT", 2)
    BY <2>1
  <2>3. /\ Named(layout[1]) /\ Named(layout[2]) /\ Named(layout[3])
        /\ layout[1].pos = 1 /\ layout[2].pos = 0 /\ layout[3].pos = 2
    BY <2>2, AtFields DEF Named, Items
  <2>4. GoodLayout(layout)
    BY <2>2, <2>3, ThreeLabels
  <2> QED BY <2>2, <2>4, <1>7 DEF layout, Reversed
<1>8. CASE method = "changeMaxAuthorization"
  <2>1. layout = <<At("PEER_PUBKEY", 1), At("STAKE_ADDRESS", 0), At("MAX_AUTHORIZE", 2)>>
    BY <1>8 DEF layout, init_dipslay_pos_and_item, Reversed
  <2>2. /\ Len(layout) = 3
        /\ layout[1] = At("PEER_PUBKEY", 1)
        /\ layout[2] = At("STAKE_ADDRESS", 0) /\ layout[3] = At("MAX_AUTHORIZE", 2)
    BY <2>1
  <2>3. /\ Named(layout[1]) /\ Named(layout[2]) /\ Named(layout[3])
        /\ layout[1].pos = 1 /\ layout[2].pos = 0 /\ layout[3].pos = 2
    BY <2>2, AtFields DEF Named, Items
  <2>4. GoodLayout(layout)
    BY <2>2, <2>3, ThreeLabels
  <2> QED BY <2>2, <2>4, <1>8 DEF layout, Reversed
<1>9. CASE method = "setFeePercentage"
  <2>1. layout = <<At("PEER_PUBKEY", 1), At("STAKE_ADDRESS", 0),
                   At("PEER_INCENTIVE", 2), At("USER_INCENTIVE", 3)>>
    BY <1>9 DEF layout, init_dipslay_pos_and_item, Reversed
  <2>2. /\ Len(layout) = 4
        /\ layout[1] = At("PEER_PUBKEY", 1) /\ layout[2] = At("STAKE_ADDRESS", 0)
        /\ layout[3] = At("PEER_INCENTIVE", 2) /\ layout[4] = At("USER_INCENTIVE", 3)
    BY <2>1
  <2>3. /\ Named(layout[1]) /\ Named(layout[2]) /\ Named(layout[3]) /\ Named(layout[4])
        /\ layout[1].pos = 1 /\ layout[2].pos = 0 /\ layout[3].pos = 2 /\ layout[4].pos = 3
    BY <2>2, AtFields DEF Named, Items
  <2>4. GoodLayout(layout)
    BY <2>2, <2>3, FourLabels
  <2> QED BY <2>2, <2>4, <1>9 DEF layout, Reversed
<1>10. CASE method = "quitNode"
  <2>1. layout = <<At("PEER_PUBKEY", 1), At("STAKE_ADDRESS", 0)>>
    BY <1>10 DEF layout, init_dipslay_pos_and_item, Reversed
  <2>2. /\ Len(layout) = 2
        /\ layout[1] = At("PEER_PUBKEY", 1) /\ layout[2] = At("STAKE_ADDRESS", 0)
    BY <2>1
  <2>3. /\ Named(layout[1]) /\ Named(layout[2])
        /\ layout[1].pos = 1 /\ layout[2].pos = 0
    BY <2>2, AtFields DEF Named, Items
  <2>4. GoodLayout(layout)
    BY <2>2, <2>3, TwoLabels
  <2> QED BY <2>2, <2>4, <1>10 DEF layout, Reversed
<1>11. CASE method \in PeerMethods \cup {"withdrawFee"}
  <2>1. layout = <<At("STAKE_ADDRESS", 0)>>
    BY <1>11 DEF layout, init_dipslay_pos_and_item, Reversed
  <2>2. /\ Len(layout) = 1
        /\ layout[1] = At("STAKE_ADDRESS", 0)
    BY <2>1
  <2>3. /\ Named(layout[1])
        /\ layout[1].pos = 0
    BY <2>2, AtFields DEF Named, Items
  <2>4. GoodLayout(layout)
    BY <2>2, <2>3, OneLabel
  <2> QED BY <2>2, <2>4, <1>11 DEF layout, Reversed
<1> QED
  BY <1>1, <1>2, <1>3, <1>4, <1>5, <1>6, <1>7, <1>8, <1>9, <1>10, <1>11
     DEF layout, Reversed, GovernanceMethods
-----------------------------------------------------------------------------
(* The table of signatures, and the entries they announce.                 *)

\* A part repeated.
LEMMA TimesFacts ==
    ASSUME NEW S, NEW part \in Seq(S), Len(part) # 0, NEW n \in Nat
    PROVE  /\ Times(n, part) \in Seq(S) /\ Len(Times(n, part)) = n * Len(part)
           /\ \A k \in 1 .. n * Len(part) : Times(n, part)[k] = part[((k - 1) % Len(part)) + 1]
<1> DEFINE m == Len(part)
<1>1. m \in Nat /\ m >= 1 /\ \A k \in 1 .. m : part[k] \in S
  OBVIOUS
<1> HIDE DEF m
<1>2. n * m \in Nat
  BY <1>1
<1>3. ASSUME NEW k \in 1 .. n * m PROVE ((k - 1) % m) + 1 \in 1 .. m
  <2>1. k - 1 \in Nat
    BY <1>2
  <2>2. \A j \in Nat : j % m \in 0 .. m - 1
    BY <1>1
  <2> DEFINE r == (k - 1) % m
  <2>3. r \in 0 .. m - 1
    BY <2>1, <2>2
  <2> HIDE DEF r
  <2>4. r + 1 \in 1 .. m
    BY <1>1, <2>3
  <2> QED BY <2>4 DEF r
<1>4. \A k \in 1 .. n * m : part[((k - 1) % m) + 1] \in S
  BY <1>1, <1>3
<1>5. Times(n, part) = [k \in 1 .. n * m |-> part[((k - 1) % m) + 1]]
  BY DEF Times, m
<1>6. Times(n, part) \in Seq(S) /\ Len(Times(n, part)) = n * m
      /\ \A k \in 1 .. n * m : Times(n, part)[k] = part[((k - 1) % m) + 1]
  <2> DEFINE f == [k \in 1 .. n * m |-> part[((k - 1) % m) + 1]]
  <2>1. f \in [1 .. n * m -> S]
    BY <1>4
  <2>2. f \in Seq(S) /\ Len(f) = n * m
    BY <1>2, <2>1, SMTT(30)
  <2> QED BY <1>5, <2>2
<1> QED BY <1>6 DEF m

\* One entry repeated.
LEMMA Repeated ==
    ASSUME NEW S, NEW x \in S, NEW n \in Nat
    PROVE  /\ Times(n, <<x>>) \in Seq(S) /\ Len(Times(n, <<x>>)) = n
           /\ \A k \in 1 .. n : Times(n, <<x>>)[k] = x
<1> DEFINE one == <<x>>
<1>1. one \in Seq(S) /\ Len(one) = 1 /\ one[1] = x
  OBVIOUS
<1> HIDE DEF one
<1>2. /\ Times(n, one) \in Seq(S) /\ Len(Times(n, one)) = n * Len(one)
      /\ \A k \in 1 .. n * Len(one) : Times(n, one)[k] = one[((k - 1) % Len(one)) + 1]
  <2>1. Len(one) # 0
    BY <1>1
  <2> QED BY <1>1, <2>1, TimesFacts, Zenon
<1>3. \A k \in 1 .. n : Times(n, one)[k] = x
  <2>1. \A k \in 1 .. n : (k - 1) % 1 = 0
    OBVIOUS
  <2>2. n * Len(one) = n
    BY <1>1
  <2>3. ASSUME NEW k \in 1 .. n PROVE Times(n, one)[k] = x
    <3>1. Times(n, one)[k] = one[((k - 1) % 1) + 1]
      BY <1>1, <1>2, <2>2
    <3> QED BY <1>1, <2>1, <3>1
  <2> QED BY <2>3
<1>4. Len(Times(n, one)) = n
  BY <1>1, <1>2
<1> QED BY <1>2, <1>3, <1>4 DEF one

Triple == <<"ADDR", "ADDR", "AMOUNT">>

LEMMA TripleFacts == Triple \in Seq(PARAM_KINDS) /\ Len(Triple) = 3 /\ Len(Triple) # 0
  BY DEF Triple, PARAM_KINDS

\* The kind of the entry with index k, counted from zero, of a list of transfers.
KindInList(k) == Triple[(k % 3) + 1]

LEMMA TransfersFacts ==
    ASSUME NEW n \in Nat
    PROVE  /\ Times(n, Triple) \in Seq(PARAM_KINDS) /\ Len(Times(n, Triple)) = 3 * n
           /\ \A k \in 0 .. 3 * n - 1 : Times(n, Triple)[k + 1] = KindInList(k)
<1>1. /\ Times(n, Triple) \in Seq(PARAM_KINDS) /\ Len(Times(n, Triple)) = n * 3
      /\ \A k \in 1 .. n * 3 : Times(n, Triple)[k] = Triple[((k - 1) % 3) + 1]
  <2>1. /\ Times(n, Triple) \in Seq(PARAM_KINDS) /\ Len(Times(n, Triple)) = n * Len(Triple)
        /\ \A k \in 1 .. n * Len(Triple) :
               Times(n, Triple)[k] = Triple[((k - 1) % Len(Triple)) + 1]
    BY TripleFacts, TimesFacts, Zenon
  <2>2. Len(Triple) = 3
    BY TripleFacts
  <2> QED BY <2>1, <2>2
<1>2. ASSUME NEW k \in 0 .. 3 * n - 1 PROVE Times(n, Triple)[k + 1] = KindInList(k)
  <2>1. k + 1 \in 1 .. n * 3 /\ (k + 1) - 1 = k
    OBVIOUS
  <2> QED BY <1>1, <2>1 DEF KindInList
<1> QED BY <1>1, <1>2

\* The entries of a number of pairs, with the number itself in front.
PairsKinds(n) == <<"AMOUNT">> \o Times(n, <<"PUBKEY">>) \o Times(n, <<"AMOUNT">>)

LEMMA PairsFacts ==
    ASSUME NEW n \in Nat
    PROVE  /\ PairsKinds(n) \in Seq(PARAM_KINDS) /\ Len(PairsKinds(n)) = 2 * n + 1
           /\ PairsKinds(n)[1] = "AMOUNT"
           /\ \A k \in 1 .. n : /\ PairsKinds(n)[1 + k] = "PUBKEY"
                                /\ PairsKinds(n)[1 + n + k] = "AMOUNT"
<1> DEFINE a == <<"AMOUNT">>
           keys == Times(n, <<"PUBKEY">>)
           amounts == Times(n, <<"AMOUNT">>)
           front == a \o keys
           whole == front \o amounts
<1>1. a \in Seq(PARAM_KINDS) /\ Len(a) = 1 /\ a[1] = "AMOUNT"
  BY DEF PARAM_KINDS
<1>2. keys \in Seq(PARAM_KINDS) /\ Len(keys) = n /\ \A k \in 1 .. n : keys[k] = "PUBKEY"
  <2>1. "PUBKEY" \in PARAM_KINDS
    BY DEF PARAM_KINDS
  <2> QED BY <2>1, Repeated
<1>3. amounts \in Seq(PARAM_KINDS) /\ Len(amounts) = n /\ \A k \in 1 .. n : amounts[k] = "AMOUNT"
  <2>1. "AMOUNT" \in PARAM_KINDS
    BY DEF PARAM_KINDS
  <2> QED BY <2>1, Repeated
<1>4. whole = PairsKinds(n)
  BY DEF PairsKinds
<1> HIDE DEF a, keys, amounts
<1>5. front \in Seq(PARAM_KINDS) /\ Behind(front, a, keys)
  BY <1>1, <1>2, JoinedBehind
<1> HIDE DEF front
<1>6. whole \in Seq(PARAM_KINDS) /\ Behind(whole, front, amounts)
  BY <1>3, <1>5, JoinedBehind
<1> HIDE DEF whole
<1>7. Len(front) = 1 + n /\ front[1] = "AMOUNT" /\ \A k \in 1 .. n : front[1 + k] = "PUBKEY"
  <2>1. /\ Len(front) = 1 + n
        /\ \A j \in 1 .. 1 : front[j] = a[j]
        /\ \A j \in 1 .. n : front[1 + j] = keys[j]
    BY <1>1, <1>2, <1>5 DEF Behind
  <2>2. front[1] = "AMOUNT"
    <3>1. 1 \in 1 .. 1
      OBVIOUS
    <3> QED BY <1>1, <2>1, <3>1
  <2>3. ASSUME NEW k \in 1 .. n PROVE front[1 + k] = "PUBKEY"
    <3>1. front[1 + k] = keys[k] /\ keys[k] = "PUBKEY"
      BY <1>2, <2>1
    <3> QED BY <3>1
  <2> QED BY <2>1, <2>2, <2>3
<1>8. /\ Len(whole) = (1 + n) + n
      /\ \A k \in 1 .. 1 + n : whole[k] = front[k]
      /\ \A k \in 1 .. n : whole[(1 + n) + k] = amounts[k]
  BY <1>3, <1>6, <1>7 DEF Behind
<1>9. whole[1] = "AMOUNT" /\ \A k \in 1 .. n : whole[1 + k] = "PUBKEY"
  <2>1. 1 \in 1 .. 1 + n /\ \A k \in 1 .. n : 1 + k \in 1 .. 1 + n
    OBVIOUS
  <2> QED BY <1>7, <1>8, <2>1
<1>10. \A k \in 1 .. n : whole[1 + n + k] = "AMOUNT"
  BY <1>3, <1>8
<1>11. Len(whole) = 2 * n + 1
  BY <1>8
<1> QED BY <1>4, <1>6, <1>9, <1>10, <1>11

LEMMA EntriesFacts ==
    ASSUME NEW p \in ParameterTypes, NEW n \in Nat
    PROVE  /\ Entries(p, n) \in Seq(PARAM_KINDS)
           /\ p \in PARAM_KINDS => Entries(p, n) = <<p>>
           /\ p = "ONTID" => Entries(p, n) = <<>>
           /\ p = "TRANSFER_STATE" => Entries(p, n) = Triple
           /\ p = "TRANSFER_STATE_LIST" => Entries(p, n) = Times(n, Triple)
           /\ p = "PK_AMOUNT_PAIRS" => Entries(p, n) = PairsKinds(n)
<1>1. CASE p \in PARAM_KINDS
  <2>1. Entries(p, n) = <<p>>
    BY <1>1 DEF Entries, PARAM_KINDS
  <2>2. <<p>> \in Seq(PARAM_KINDS)
    BY <1>1
  <2> QED BY <1>1, <2>1, <2>2 DEF PARAM_KINDS
<1>2. CASE p = "ONTID"
  BY <1>2 DEF Entries, PARAM_KINDS
<1>3. CASE p = "TRANSFER_STATE"
  <2>1. Entries(p, n) = Triple
    BY <1>3 DEF Entries, Triple
  <2> QED BY <1>3, <2>1, TripleFacts DEF PARAM_KINDS
<1>4. CASE p = "TRANSFER_STATE_LIST"
  <2>1. Entries(p, n) = Times(n, Triple)
    BY <1>4 DEF Entries, Triple
  <2> QED BY <1>4, <2>1, TransfersFacts DEF PARAM_KINDS
<1>5. CASE p = "PK_AMOUNT_PAIRS"
  <2>1. Entries(p, n) = PairsKinds(n)
    BY <1>5 DEF Entries, PairsKinds
  <2> QED BY <1>5, <2>1, PairsFacts DEF PARAM_KINDS
<1> QED BY <1>1, <1>2, <1>3, <1>4, <1>5 DEF ParameterTypes, PARAM_KINDS

\* A signature's parameters are such that the loops can work through them: those
\* that fill several entries stand alone or come last.
LEMMA SignatureTable ==
    ASSUME NEW contract \in Contracts, NEW method \in Methods(contract)
    PROVE  LET signature == Signature(contract, method)
           IN  /\ signature \in Seq(ParameterTypes)
               /\ (\E k \in 1 .. Len(signature) : signature[k] = "PK_AMOUNT_PAIRS") =>
                      method \in PeerMethods
               /\ method \in PeerMethods => signature = <<"ADDR", "PK_AMOUNT_PAIRS">>
               /\ contract \in {"ONT", "ONG"} /\ method \in TransferMethods =>
                      signature = <<"TRANSFER_STATE_LIST">>
               /\ method \in PeerMethods => contract = "GOV"
<1> DEFINE signature == Signature(contract, method)
           NoPairs(s) == \A k \in 1 .. Len(s) : s[k] # "PK_AMOUNT_PAIRS"
<1>1. /\ <<"TRANSFER_STATE_LIST">> \in Seq(ParameterTypes)
      /\ <<"ADDR", "TRANSFER_STATE">> \in Seq(ParameterTypes)
      /\ <<"ADDR", "ADDR", "AMOUNT">> \in Seq(ParameterTypes)
      /\ <<"PUBKEY", "ADDR", "AMOUNT", "ONTID", "AMOUNT">> \in Seq(ParameterTypes)
      /\ <<"PUBKEY", "ADDR">> \in Seq(ParameterTypes)
      /\ <<"PUBKEY", "ADDR", "AMOUNT">> \in Seq(ParameterTypes)
      /\ <<"PUBKEY", "ADDR", "AMOUNT", "AMOUNT">> \in Seq(ParameterTypes)
      /\ <<"ADDR", "PK_AMOUNT_PAIRS">> \in Seq(ParameterTypes)
      /\ <<"ADDR">> \in Seq(ParameterTypes)
      /\ <<"AMOUNT", "ADDR", "ADDR", "ADDR">> \in Seq(ParameterTypes)
      /\ <<"AMOUNT", "ADDR", "ADDR">> \in Seq(ParameterTypes)
      /\ <<"ADDR", "ADDR", "ADDR", "UINT128">> \in Seq(ParameterTypes)
      /\ <<"ADDR", "ADDR", "UINT128">> \in Seq(ParameterTypes)
  BY DEF ParameterTypes
<1>2. \A k : /\ k \in 1 .. 1 => k = 1
             /\ k \in 1 .. 2 => k = 1 \/ k = 2
             /\ k \in 1 .. 3 => k = 1 \/ k = 2 \/ k = 3
             /\ k \in 1 .. 4 => k = 1 \/ k = 2 \/ k = 3 \/ k = 4
             /\ k \in 1 .. 5 => k = 1 \/ k = 2 \/ k = 3 \/ k = 4 \/ k = 5
  OBVIOUS
<1>3. /\ NoPairs(<<"TRANSFER_STATE_LIST">>)
      /\ NoPairs(<<"ADDR", "TRANSFER_STATE">>)
      /\ NoPairs(<<"ADDR", "ADDR", "AMOUNT">>)
      /\ NoPairs(<<"PUBKEY", "ADDR", "AMOUNT", "ONTID", "AMOUNT">>)
      /\ NoPairs(<<"PUBKEY", "ADDR">>)
      /\ NoPairs(<<"PUBKEY", "ADDR", "AMOUNT">>)
      /\ NoPairs(<<"PUBKEY", "ADDR", "AMOUNT", "AMOUNT">>)
      /\ NoPairs(<<"ADDR">>)
      /\ NoPairs(<<"AMOUNT", "ADDR", "ADDR", "ADDR">>)
      /\ NoPairs(<<"AMOUNT", "ADDR", "ADDR">>)
      /\ NoPairs(<<"ADDR", "ADDR", "ADDR", "UINT128">>)
      /\ NoPairs(<<"ADDR", "ADDR", "UINT128">>)
  BY <1>2
<1> HIDE DEF NoPairs
<1>4. CASE contract \in {"ONT", "ONG"}
  <2>1. signature = native_token(method) /\ method \notin PeerMethods
        /\ method \in TransferMethods \cup TransferFromMethods \cup ApproveMethods
    BY <1>4 DEF Signature, Methods, TransferMethods, TransferFromMethods, ApproveMethods, PeerMethods
  <2>2. signature \in {<<"TRANSFER_STATE_LIST">>, <<"ADDR", "TRANSFER_STATE">>,
                       <<"ADDR", "ADDR", "AMOUNT">>}
    BY <2>1 DEF native_token
  <2>3. method \in TransferMethods => signature = <<"TRANSFER_STATE_LIST">>
    BY <2>1 DEF native_token, TransferMethods, TransferFromMethods, ApproveMethods
  <2>4. signature \in Seq(ParameterTypes) /\ NoPairs(signature)
    BY <1>1, <1>3, <2>2
  <2> QED BY <2>1, <2>3, <2>4 DEF NoPairs
<1>5. CASE contract = "GOV"
  <2>1. signature = native_governance(method) /\ method \in GovernanceMethods
    BY <1>5 DEF Signature, Methods
  <2>2. CASE method \in PeerMethods
    <3>1. signature = <<"ADDR", "PK_AMOUNT_PAIRS">>
      BY <2>1, <2>2 DEF native_governance, PeerMethods
    <3> QED BY <1>1, <1>5, <2>2, <3>1
  <2>3. CASE method \notin PeerMethods
    <3>1. signature \in
              {<<"PUBKEY", "ADDR", "AMOUNT", "ONTID", "AMOUNT">>, <<"PUBKEY", "ADDR">>,
               <<"PUBKEY", "ADDR", "AMOUNT">>, <<"PUBKEY", "ADDR", "AMOUNT", "AMOUNT">>,
               <<"ADDR">>}
      BY <2>1, <2>3 DEF native_governance, GovernanceMethods, PeerMethods
    <3>2. signature \in Seq(ParameterTypes) /\ NoPairs(signature)
      <4> HIDE DEF signature
      <4> QED BY <1>1, <1>3, <3>1
    <3> QED BY <1>5, <2>3, <3>2 DEF NoPairs
  <2> QED BY <2>2, <2>3
<1>6. CASE contract \in {"WING", "MBL"}
  <2>1. signature = neovm_oep4_token(method) /\ method \notin PeerMethods
    BY <1>6 DEF Signature, Methods, PeerMethods
  <2>2. signature \in {<<"AMOUNT", "ADDR", "ADDR", "ADDR">>, <<"AMOUNT", "ADDR", "ADDR">>}
    BY <2>1 DEF neovm_oep4_token
  <2>3. signature \in Seq(ParameterTypes) /\ NoPairs(signature)
    BY <1>1, <1>3, <2>2
  <2> QED BY <1>6, <2>1, <2>3 DEF NoPairs
<1>7. CASE contract = "STONT"
  <2>1. signature = wasmvm_oep4_token(method) /\ method \notin PeerMethods
    BY <1>7 DEF Signature, Methods, PeerMethods
  <2>2. signature \in {<<"ADDR", "ADDR", "ADDR", "UINT128">>, <<"ADDR", "ADDR", "UINT128">>}
    BY <2>1 DEF wasmvm_oep4_token
  <2>3. signature \in Seq(ParameterTypes) /\ NoPairs(signature)
    BY <1>1, <1>3, <2>2
  <2> QED BY <1>7, <2>1, <2>3 DEF NoPairs
<1> QED BY <1>4, <1>5, <1>6, <1>7 DEF Contracts

\* The parts that make up all entries of a call.
Parts(contract, method, n) ==
    LET signature == Signature(contract, method)
    IN  [k \in 1 .. Len(signature) |-> Entries(signature[k], n)]

LEMMA PartsFacts ==
    ASSUME NEW contract \in Contracts, NEW method \in Methods(contract), NEW n \in Nat
    PROVE  LET signature == Signature(contract, method)
               parts == Parts(contract, method, n)
           IN  /\ Len(signature) \in Nat /\ parts \in Seq(Seq(PARAM_KINDS))
               /\ Len(parts) = Len(signature)
               /\ \A k \in 1 .. Len(signature) :
                      signature[k] \in ParameterTypes /\ parts[k] = Entries(signature[k], n)
               /\ AllEntries(contract, method, n) = Joins(parts)[Len(signature)]
               /\ AllEntries(contract, method, n) \in Seq(PARAM_KINDS)
<1> DEFINE signature == Signature(contract, method)
           parts == Parts(contract, method, n)
<1>1. signature \in Seq(ParameterTypes)
  BY SignatureTable
<1>2. parts = [k \in 1 .. Len(signature) |-> Entries(signature[k], n)]
      /\ AllEntries(contract, method, n) = Concat(parts)
  BY DEF Parts, AllEntries
<1> HIDE DEF signature, parts
<1>3. Len(signature) \in Nat /\ \A k \in 1 .. Len(signature) : signature[k] \in ParameterTypes
  BY <1>1
<1>4. \A k \in 1 .. Len(signature) : Entries(signature[k], n) \in Seq(PARAM_KINDS)
  BY <1>3, EntriesFacts
<1>5. parts \in Seq(Seq(PARAM_KINDS)) /\ Len(parts) = Len(signature)
      /\ \A k \in 1 .. Len(signature) : parts[k] = Entries(signature[k], n)
  BY <1>2, <1>3, <1>4
<1>6. AllEntries(contract, method, n) = Joins(parts)[Len(signature)]
  BY <1>2, <1>5 DEF Concat
<1>7. Joins(parts)[Len(signature)] \in Seq(PARAM_KINDS)
  <2>1. Len(parts) \in 0 .. Len(parts)
    BY <1>3, <1>5
  <2> QED BY <1>5, <2>1, JoinsFacts
<1> QED BY <1>3, <1>5, <1>6, <1>7 DEF signature, parts

\* A list of transfers.
LEMMA ListEntries ==
    ASSUME NEW contract \in {"ONT", "ONG"}, NEW method \in TransferMethods, NEW n \in Nat
    PROVE  LET kinds == AllEntries(contract, method, n)
           IN  Len(kinds) = 3 * n /\ \A k \in 0 .. 3 * n - 1 : kinds[k + 1] = KindInList(k)
<1> DEFINE parts == Parts(contract, method, n)
           list == <<"TRANSFER_STATE_LIST">>
<1>1. contract \in Contracts /\ method \in Methods(contract)
  BY DEF Contracts, Methods
<1>2. Signature(contract, method) = list
  BY <1>1, SignatureTable
<1>3. Len(list) = 1 /\ list[1] = "TRANSFER_STATE_LIST" /\ list[1] \in ParameterTypes
  BY DEF ParameterTypes
<1> HIDE DEF list
<1>4. /\ parts \in Seq(Seq(PARAM_KINDS)) /\ Len(parts) = 1
      /\ parts[1] = Entries(list[1], n) /\ AllEntries(contract, method, n) = Joins(parts)[1]
  <2>1. 1 \in 1 .. Len(list)
    BY <1>3
  <2> QED BY <1>1, <1>2, <1>3, <2>1, PartsFacts
<1>5. parts[1] = Times(n, Triple)
  BY <1>3, <1>4, EntriesFacts
<1> HIDE DEF parts
<1>6. Joins(parts)[1] = <<>> \o parts[1]
  <2>1. 1 \in 1 .. Len(parts) /\ 1 - 1 = 0
    BY <1>4
  <2>2. Joins(parts)[1] = Joins(parts)[1 - 1] \o parts[1] /\ Joins(parts)[0] = <<>>
    BY <1>4, <2>1, JoinsFacts
  <2> QED BY <2>1, <2>2
<1> DEFINE t == Times(n, Triple)
<1>7. /\ t \in Seq(PARAM_KINDS) /\ Len(t) = 3 * n
      /\ \A k \in 0 .. 3 * n - 1 : t[k + 1] = KindInList(k)
  BY TransfersFacts
<1> HIDE DEF t
<1>8. <<>> \o t = t
  BY <1>7
<1> QED BY <1>4, <1>5, <1>6, <1>7, <1>8 DEF t

\* The staker's address, the number of peers, their keys and their amounts.
LEMMA PeersEntries ==
    ASSUME NEW method \in PeerMethods, NEW n \in Nat
    PROVE  LET parts == Parts("GOV", method, n)
               kinds == AllEntries("GOV", method, n)
           IN  /\ Joins(parts)[1] = <<"ADDR">>
               /\ kinds = <<"ADDR">> \o PairsKinds(n) /\ Len(kinds) = 2 * n + 2
               /\ kinds[1] = "ADDR" /\ kinds[2] = "AMOUNT"
               /\ \A k \in 1 .. n : kinds[2 + k] = "PUBKEY" /\ kinds[2 + n + k] = "AMOUNT"
<1> DEFINE parts == Parts("GOV", method, n)
           pair == <<"ADDR", "PK_AMOUNT_PAIRS">>
           kinds == AllEntries("GOV", method, n)
           a == <<"ADDR">>
           b == PairsKinds(n)
<1>1. "GOV" \in Contracts /\ method \in Methods("GOV")
  BY DEF Contracts, Methods, GovernanceMethods
<1>2. Signature("GOV", method) = pair
  BY <1>1, SignatureTable
<1>3. /\ Len(pair) = 2 /\ pair[1] = "ADDR" /\ pair[2] = "PK_AMOUNT_PAIRS"
      /\ pair[1] \in ParameterTypes /\ pair[2] \in ParameterTypes /\ pair[1] \in PARAM_KINDS
  BY DEF ParameterTypes, PARAM_KINDS
<1> HIDE DEF pair
<1>4. /\ parts \in Seq(Seq(PARAM_KINDS)) /\ Len(parts) = 2
      /\ parts[1] = Entries(pair[1], n) /\ parts[2] = Entries(pair[2], n)
      /\ kinds = Joins(parts)[2]
  <2>1. 1 \in 1 .. Len(pair) /\ 2 \in 1 .. Len(pair)
    BY <1>3
  <2> QED BY <1>1, <1>2, <1>3, <2>1, PartsFacts
<1>5. parts[1] = a /\ parts[2] = b
  BY <1>3, <1>4, EntriesFacts
<1>6. a \in Seq(PARAM_KINDS) /\ Len(a) = 1 /\ a[1] = "ADDR" /\ <<>> \o a = a
  BY DEF PARAM_KINDS
<1>7. /\ b \in Seq(PARAM_KINDS) /\ Len(b) = 2 * n + 1 /\ b[1] = "AMOUNT"
      /\ \A k \in 1 .. n : b[1 + k] = "PUBKEY" /\ b[1 + n + k] = "AMOUNT"
  BY PairsFacts
<1> HIDE DEF a, b, parts, kinds
<1>8. Joins(parts)[1] = a /\ kinds = a \o b
  <2>1. 1 \in 1 .. Len(parts) /\ 2 \in 1 .. Len(parts) /\ 1 - 1 = 0 /\ 2 - 1 = 1
    BY <1>4
  <2>2. /\ Joins(parts)[0] = <<>>
        /\ Joins(parts)[1] = Joins(parts)[1 - 1] \o parts[1]
        /\ Joins(parts)[2] = Joins(parts)[2 - 1] \o parts[2]
    BY <1>4, <2>1, JoinsFacts
  <2>3. Joins(parts)[1] = a
    BY <1>5, <1>6, <2>1, <2>2
  <2> QED BY <1>4, <1>5, <2>1, <2>2, <2>3
<1>9. Behind(kinds, a, b)
  BY <1>6, <1>7, <1>8, JoinedBehind
<1>10. /\ Len(kinds) = 2 * n + 2 /\ kinds[1] = "ADDR"
       /\ \A j \in 1 .. 2 * n + 1 : kinds[1 + j] = b[j]
  <2>1. 1 \in 1 .. Len(a)
    BY <1>6
  <2> QED BY <1>6, <1>7, <1>9, <2>1 DEF Behind
<1>11. kinds[2] = "AMOUNT"
  <2>1. 1 \in 1 .. 2 * n + 1 /\ 1 + 1 = 2
    OBVIOUS
  <2> QED BY <1>7, <1>10, <2>1
<1>12. ASSUME NEW k \in 1 .. n PROVE kinds[2 + k] = "PUBKEY" /\ kinds[2 + n + k] = "AMOUNT"
  <2>1. /\ 1 + k \in 1 .. 2 * n + 1 /\ 1 + (1 + k) = 2 + k
        /\ 1 + n + k \in 1 .. 2 * n + 1 /\ 1 + (1 + n + k) = 2 + n + k
    OBVIOUS
  <2>2. kinds[1 + (1 + k)] = b[1 + k] /\ kinds[1 + (1 + n + k)] = b[1 + n + k]
    BY <1>10, <2>1
  <2> QED BY <1>7, <2>1, <2>2
<1> QED BY <1>8, <1>10, <1>11, <1>12 DEF parts, kinds, a, b
-----------------------------------------------------------------------------
(* The two tables together: every entry stands under a label of its kind.  *)

FitsLabels(kinds, layout) ==
    \A k \in 1 .. Len(layout) : k <= Len(kinds) => kinds[k] \in Announces(layout[k].item)

LEMMA Announced ==
    /\ \A item \in {"FROM", "TO", "SPENDER", "STAKE_ADDRESS"} : "ADDR" \in Announces(item)
    /\ "PUBKEY" \in Announces("PEER_PUBKEY")
    /\ \A item \in {"AMOUNT", "STAKE_AMOUNT", "MAX_AUTHORIZE", "PEER_INCENTIVE",
                    "USER_INCENTIVE"} : {"AMOUNT", "UINT128"} \subseteq Announces(item)
  BY DEF Announces

LEMMA OneRow ==
    ASSUME NEW a, NEW p, NEW kinds, kinds[1] \in Announces(a)
    PROVE  FitsLabels(kinds, <<At(a, p)>>) /\ Len(<<At(a, p)>>) = 1
<1> DEFINE l == <<At(a, p)>>
<1>1. Len(l) = 1 /\ l[1].item = a
  BY AtFields
<1> HIDE DEF l
<1>2. FitsLabels(kinds, l)
  BY <1>1 DEF FitsLabels
<1> QED BY <1>1, <1>2 DEF l

LEMMA TwoRows ==
    ASSUME NEW a, NEW b, NEW p, NEW q, NEW kinds,
           kinds[1] \in Announces(a), kinds[2] \in Announces(b)
    PROVE  FitsLabels(kinds, <<At(a, p), At(b, q)>>) /\ Len(<<At(a, p), At(b, q)>>) = 2
<1> DEFINE l == <<At(a, p), At(b, q)>>
<1>1. Len(l) = 2 /\ l[1].item = a /\ l[2].item = b
  BY AtFields
<1> HIDE DEF l
<1>2. FitsLabels(kinds, l)
  BY <1>1 DEF FitsLabels
<1> QED BY <1>1, <1>2 DEF l

LEMMA ThreeRows ==
    ASSUME NEW a, NEW b, NEW c, NEW p, NEW q, NEW r, NEW kinds,
           1 <= Len(kinds) => kinds[1] \in Announces(a),
           2 <= Len(kinds) => kinds[2] \in Announces(b),
           3 <= Len(kinds) => kinds[3] \in Announces(c)
    PROVE  /\ FitsLabels(kinds, <<At(a, p), At(b, q), At(c, r)>>)
           /\ Len(<<At(a, p), At(b, q), At(c, r)>>) = 3
<1> DEFINE l == <<At(a, p), At(b, q), At(c, r)>>
<1>1. Len(l) = 3 /\ l[1].item = a /\ l[2].item = b /\ l[3].item = c
  BY AtFields
<1> HIDE DEF l
<1>2. FitsLabels(kinds, l)
  <2>1. \A k \in 1 .. 3 : k = 1 \/ k = 2 \/ k = 3
    OBVIOUS
  <2> QED BY <1>1, <2>1 DEF FitsLabels
<1> QED BY <1>1, <1>2 DEF l

LEMMA FourRows ==
    ASSUME NEW a, NEW b, NEW c, NEW d, NEW p, NEW q, NEW r, NEW s, NEW kinds,
           kinds[1] \in Announces(a), kinds[2] \in Announces(b),
           kinds[3] \in Announces(c), kinds[4] \in Announces(d)
    PROVE  /\ FitsLabels(kinds, <<At(a, p), At(b, q), At(c, r), At(d, s)>>)
           /\ Len(<<At(a, p), At(b, q), At(c, r), At(d, s)>>) = 4
<1> DEFINE l == <<At(a, p), At(b, q), At(c, r), At(d, s)>>
<1>1. Len(l) = 4 /\ l[1].item = a /\ l[2].item = b /\ l[3].item = c /\ l[4].item = d
  BY AtFields
<1> HIDE DEF l
<1>2. FitsLabels(kinds, l)
  <2>1. \A k \in 1 .. 4 : k = 1 \/ k = 2 \/ k = 3 \/ k = 4
    OBVIOUS
  <2> QED BY <1>1, <2>1 DEF FitsLabels
<1> QED BY <1>1, <1>2 DEF l

\* The parameters of one entry each that a signature begins with.
LEMMA PlainStart ==
    ASSUME NEW contract \in Contracts, NEW method \in Methods(contract), NEW n \in Nat,
           NEW m \in 0 .. Len(Signature(contract, method)),
           \A k \in 1 .. m : Signature(contract, method)[k] \in PARAM_KINDS
    PROVE  LET upTo == Joins(Parts(contract, method, n))[m]
           IN  Len(upTo) = m /\ \A k \in 1 .. m : upTo[k] = Signature(contract, method)[k]
<1> DEFINE s == Signature(contract, method)
           parts == Parts(contract, method, n)
           J == Joins(parts)
           T == {j \in 0 .. m : Len(J[j]) = j /\ \A k \in 1 .. j : J[j][k] = s[k]}
<1>1. /\ Len(s) \in Nat /\ parts \in Seq(Seq(PARAM_KINDS)) /\ Len(parts) = Len(s)
      /\ \A k \in 1 .. Len(s) : s[k] \in ParameterTypes /\ parts[k] = Entries(s[k], n)
  BY PartsFacts
<1> HIDE DEF s, parts
<1>2. m \in 0 .. Len(s) /\ \A k \in 1 .. m : s[k] \in PARAM_KINDS
  BY DEF s
<1>3. \A k \in 1 .. m : parts[k] = <<s[k]>> /\ parts[k] \in Seq(PARAM_KINDS)
  <2> SUFFICES ASSUME NEW k \in 1 .. m
               PROVE  parts[k] = <<s[k]>> /\ parts[k] \in Seq(PARAM_KINDS)
    OBVIOUS
  <2>1. k \in 1 .. Len(s) /\ s[k] \in ParameterTypes /\ s[k] \in PARAM_KINDS
    BY <1>1, <1>2
  <2>2. parts[k] = Entries(s[k], n) /\ Entries(s[k], n) = <<s[k]>>
        /\ Entries(s[k], n) \in Seq(PARAM_KINDS)
    BY <1>1, <2>1, EntriesFacts
  <2> QED BY <2>2
<1>4. /\ \A j \in 0 .. Len(s) : J[j] \in Seq(PARAM_KINDS)
      /\ J[0] = <<>> /\ \A j \in 1 .. Len(s) : J[j] = J[j - 1] \o parts[j]
  BY <1>1, JoinsFacts
<1> HIDE DEF J
<1>5. 0 \in T
  <2>1. Len(<<>>) = 0
    OBVIOUS
  <2> QED BY <1>2, <1>4, <2>1
<1>6. ASSUME NEW j \in 1 .. m, j - 1 \in T PROVE j \in T
  <2>1. /\ j \in 1 .. Len(s) /\ j - 1 \in 0 .. Len(s) /\ j \in 0 .. m
        /\ Len(J[j - 1]) = j - 1 /\ \A k \in 1 .. j - 1 : J[j - 1][k] = s[k]
    BY <1>1, <1>2, <1>6, SMTT(30)
  <2>2. J[j] = J[j - 1] \o parts[j] /\ J[j - 1] \in Seq(PARAM_KINDS)
    BY <1>4, <2>1
  <2>3. Behind(J[j], J[j - 1], parts[j])
    BY <1>3, <2>2, JoinedBehind
  <2>4. Len(parts[j]) = 1 /\ parts[j][1] = s[j] /\ 1 \in 1 .. 1
    <3>1. parts[j] = <<s[j]>>
      BY <1>3
    <3>2. Len(<<s[j]>>) = 1 /\ <<s[j]>>[1] = s[j] /\ 1 \in 1 .. 1
      OBVIOUS
    <3> QED BY <3>1, <3>2
  <2>5. /\ Len(J[j]) = (j - 1) + 1
        /\ \A k \in 1 .. j - 1 : J[j][k] = J[j - 1][k]
        /\ J[j][(j - 1) + 1] = s[j]
    BY <2>1, <2>3, <2>4 DEF Behind
  <2>6. (j - 1) + 1 = j /\ \A k \in 1 .. j : k \in 1 .. j - 1 \/ k = j
    BY <2>1
  <2> QED BY <2>1, <2>5, <2>6
<1>7. m \in T
  <2>1. m \in Nat /\ m \in 0 .. m
    BY <1>1, <1>2
  <2> HIDE DEF T
  <2>2. \A k \in 0 .. m : k \in T
    BY <1>5, <1>6, <2>1, BoundedInduction
  <2> QED BY <2>1, <2>2
<1> QED BY <1>7 DEF s, parts, J

LEMMA PlainEntries ==
    ASSUME NEW contract \in Contracts, NEW method \in Methods(contract), NEW n \in Nat,
           \A k \in 1 .. Len(Signature(contract, method)) :
               Signature(contract, method)[k] \in PARAM_KINDS
    PROVE  LET kinds == AllEntries(contract, method, n)
               signature == Signature(contract, method)
           IN  Len(kinds) = Len(signature) /\ \A k \in 1 .. Len(signature) : kinds[k] = signature[k]
<1>1. /\ Len(Signature(contract, method)) \in Nat
      /\ AllEntries(contract, method, n)
             = Joins(Parts(contract, method, n))[Len(Signature(contract, method))]
  BY PartsFacts
<1>2. Len(Signature(contract, method)) \in 0 .. Len(Signature(contract, method))
  BY <1>1
<1> QED BY <1>1, <1>2, PlainStart

\* A call whose parameters are all of one entry each.
LEMMA PlainOne ==
    ASSUME NEW contract \in Contracts, NEW method \in Methods(contract), NEW n \in Nat,
           NEW a \in PARAM_KINDS, Signature(contract, method) = <<a>>
    PROVE  LET kinds == AllEntries(contract, method, n)
           IN  Len(kinds) = 1 /\ kinds[1] = a
<1> DEFINE s == <<a>>
<1>1. Len(s) = 1 /\ s[1] = a
  OBVIOUS
<1>2. Signature(contract, method) = s
  OBVIOUS
<1> HIDE DEF s
<1>3. \A k \in 1 .. Len(s) : s[k] \in PARAM_KINDS
  BY <1>1
<1>4. 1 \in 1 .. Len(s)
  BY <1>1
<1> QED BY <1>1, <1>2, <1>3, <1>4, PlainEntries

LEMMA PlainTwo ==
    ASSUME NEW contract \in Contracts, NEW method \in Methods(contract), NEW n \in Nat,
           NEW a \in PARAM_KINDS, NEW b \in PARAM_KINDS,
           Signature(contract, method) = <<a, b>>
    PROVE  LET kinds == AllEntries(contract, method, n)
           IN  Len(kinds) = 2 /\ kinds[1] = a /\ kinds[2] = b
<1> DEFINE s == <<a, b>>
<1>1. Len(s) = 2 /\ s[1] = a /\ s[2] = b
  OBVIOUS
<1>2. Signature(contract, method) = s
  OBVIOUS
<1> HIDE DEF s
<1>3. \A k \in 1 .. 2 : k = 1 \/ k = 2
  OBVIOUS
<1>4. \A k \in 1 .. Len(s) : s[k] \in PARAM_KINDS
  BY <1>1, <1>3
<1>5. 1 \in 1 .. Len(s) /\ 2 \in 1 .. Len(s)
  BY <1>1
<1> QED BY <1>1, <1>2, <1>4, <1>5, PlainEntries

LEMMA PlainThree ==
    ASSUME NEW contract \in Contracts, NEW method \in Methods(contract), NEW n \in Nat,
           NEW a \in PARAM_KINDS, NEW b \in PARAM_KINDS, NEW c \in PARAM_KINDS,
           Signature(contract, method) = <<a, b, c>>
    PROVE  LET kinds == AllEntries(contract, method, n)
           IN  Len(kinds) = 3 /\ kinds[1] = a /\ kinds[2] = b /\ kinds[3] = c
<1> DEFINE s == <<a, b, c>>
<1>1. Len(s) = 3 /\ s[1] = a /\ s[2] = b /\ s[3] = c
  OBVIOUS
<1>2. Signature(contract, method) = s
  OBVIOUS
<1> HIDE DEF s
<1>3. \A k \in 1 .. 3 : k = 1 \/ k = 2 \/ k = 3
  OBVIOUS
<1>4. \A k \in 1 .. Len(s) : s[k] \in PARAM_KINDS
  BY <1>1, <1>3
<1>5. 1 \in 1 .. Len(s) /\ 2 \in 1 .. Len(s) /\ 3 \in 1 .. Len(s)
  BY <1>1
<1> QED BY <1>1, <1>2, <1>4, <1>5, PlainEntries

LEMMA PlainFour ==
    ASSUME NEW contract \in Contracts, NEW method \in Methods(contract), NEW n \in Nat,
           NEW a \in PARAM_KINDS, NEW b \in PARAM_KINDS, NEW c \in PARAM_KINDS,
           NEW d \in PARAM_KINDS, Signature(contract, method) = <<a, b, c, d>>
    PROVE  LET kinds == AllEntries(contract, method, n)
           IN  Len(kinds) = 4 /\ kinds[1] = a /\ kinds[2] = b /\ kinds[3] = c /\ kinds[4] = d
<1> DEFINE s == <<a, b, c, d>>
<1>1. Len(s) = 4 /\ s[1] = a /\ s[2] = b /\ s[3] = c /\ s[4] = d
  OBVIOUS
<1>2. Signature(contract, method) = s
  OBVIOUS
<1> HIDE DEF s
<1>3. \A k \in 1 .. 4 : k = 1 \/ k = 2 \/ k = 3 \/ k = 4
  OBVIOUS
<1>4. \A k \in 1 .. Len(s) : s[k] \in PARAM_KINDS
  BY <1>1, <1>3
<1>5. 1 \in 1 .. Len(s) /\ 2 \in 1 .. Len(s) /\ 3 \in 1 .. Len(s) /\ 4 \in 1 .. Len(s)
  BY <1>1
<1> QED BY <1>1, <1>2, <1>4, <1>5, PlainEntries

\* A candidate's entries: the index of its key is left out.
LEMMA CandidateEntries ==
    ASSUME NEW n \in Nat
    PROVE  LET kinds == AllEntries("GOV", "registerCandidate", n)
           IN  /\ Len(kinds) = 4
               /\ kinds[1] = "PUBKEY" /\ kinds[2] = "ADDR" /\ kinds[3] = "AMOUNT"
<1> DEFINE method == "registerCandidate"
           s == <<"PUBKEY", "ADDR", "AMOUNT", "ONTID", "AMOUNT">>
           parts == Parts("GOV", method, n)
           J == Joins(parts)
<1>1. "GOV" \in Contracts /\ method \in Methods("GOV")
  BY DEF Contracts, Methods, GovernanceMethods
<1>2. Signature("GOV", method) = s
  <2>1. Signature("GOV", method) = native_governance(method)
    BY DEF Signature
  <2>2. native_governance(method) = s
    BY DEF native_governance, PeerMethods
  <2> QED BY <2>1, <2>2
<1>3. /\ Len(s) = 5 /\ s[1] = "PUBKEY" /\ s[2] = "ADDR" /\ s[3] = "AMOUNT"
      /\ s[4] = "ONTID" /\ s[5] = "AMOUNT"
  OBVIOUS
<1> HIDE DEF s, parts, J, method
<1>4. /\ parts \in Seq(Seq(PARAM_KINDS)) /\ Len(parts) = 5
      /\ parts[4] = Entries(s[4], n) /\ parts[5] = Entries(s[5], n)
      /\ s[4] \in ParameterTypes /\ s[5] \in ParameterTypes
      /\ AllEntries("GOV", method, n) = J[5]
  <2>1. 4 \in 1 .. Len(s) /\ 5 \in 1 .. Len(s)
    BY <1>3
  <2> QED BY <1>1, <1>2, <1>3, <2>1, PartsFacts DEF parts, J
<1>5. parts[4] = <<>> /\ parts[5] = <<"AMOUNT">>
  <2>1. s[5] \in PARAM_KINDS
    BY <1>3 DEF PARAM_KINDS
  <2> QED BY <1>3, <1>4, <2>1, EntriesFacts
<1>6. Len(J[3]) = 3 /\ J[3][1] = "PUBKEY" /\ J[3][2] = "ADDR" /\ J[3][3] = "AMOUNT"
  <2>1. 3 \in 0 .. Len(s) /\ \A k \in 1 .. 3 : k = 1 \/ k = 2 \/ k = 3
    BY <1>3
  <2>2. \A k \in 1 .. 3 : s[k] \in PARAM_KINDS
    BY <1>3, <2>1 DEF PARAM_KINDS
  <2>3. Len(J[3]) = 3 /\ \A k \in 1 .. 3 : J[3][k] = s[k]
    BY <1>1, <1>2, <2>1, <2>2, PlainStart, ZenonT(30) DEF J, parts
  <2>4. 1 \in 1 .. 3 /\ 2 \in 1 .. 3 /\ 3 \in 1 .. 3
    OBVIOUS
  <2> QED BY <1>3, <2>3, <2>4
<1>7. /\ J[3] \in Seq(PARAM_KINDS) /\ J[4] = J[3] \o parts[4] /\ J[5] = J[4] \o parts[5]
  <2>1. /\ 3 \in 0 .. Len(parts) /\ 4 \in 1 .. Len(parts) /\ 5 \in 1 .. Len(parts)
        /\ 4 - 1 = 3 /\ 5 - 1 = 4
    BY <1>4
  <2>2. J[4] = J[4 - 1] \o parts[4] /\ J[5] = J[5 - 1] \o parts[5] /\ J[3] \in Seq(PARAM_KINDS)
    BY <1>4, <2>1, JoinsFacts DEF J
  <2> QED BY <2>1, <2>2
<1>8. J[4] = J[3]
  <2> DEFINE t == J[3]
  <2>1. t \in Seq(PARAM_KINDS)
    BY <1>7
  <2> HIDE DEF t
  <2>2. t \o <<>> = t
    BY <2>1
  <2> QED BY <1>5, <1>7, <2>2 DEF t
<1> DEFINE amount == <<"AMOUNT">>
<1>9. amount \in Seq(PARAM_KINDS) /\ Len(amount) = 1
  BY DEF PARAM_KINDS
<1>10. J[5] = J[3] \o amount
  BY <1>5, <1>7, <1>8
<1> HIDE DEF amount
<1>11. Behind(J[5], J[3], amount)
  BY <1>7, <1>9, <1>10, JoinedBehind
<1>12. Len(J[5]) = 4 /\ J[5][1] = "PUBKEY" /\ J[5][2] = "ADDR" /\ J[5][3] = "AMOUNT"
  <2>1. Len(J[5]) = 4 /\ \A k \in 1 .. 3 : J[5][k] = J[3][k]
    BY <1>6, <1>9, <1>11 DEF Behind
  <2>2. 1 \in 1 .. 3 /\ 2 \in 1 .. 3 /\ 3 \in 1 .. 3
    OBVIOUS
  <2> QED BY <1>6, <2>1, <2>2
<1> QED BY <1>4, <1>12 DEF method

\* The spender in front of one transfer.
LEMMA TransferFromEntries ==
    ASSUME NEW contract \in {"ONT", "ONG"}, NEW method \in TransferFromMethods, NEW n \in Nat
    PROVE  LET kinds == AllEntries(contract, method, n)
           IN  /\ Len(kinds) = 4 /\ kinds[1] = "ADDR" /\ kinds[2] = "ADDR"
               /\ kinds[3] = "ADDR" /\ kinds[4] = "AMOUNT"
<1> DEFINE s == <<"ADDR", "TRANSFER_STATE">>
           parts == Parts(contract, method, n)
           J == Joins(parts)
<1>1. contract \in Contracts /\ method \in Methods(contract)
  BY DEF Contracts, Methods
<1>2. Signature(contract, method) = s
  <2>1. Signature(contract, method) = native_token(method)
    BY DEF Signature
  <2>2. method \notin TransferMethods /\ method \notin ApproveMethods
    BY DEF TransferMethods, TransferFromMethods, ApproveMethods
  <2>3. native_token(method) = s
    BY <2>2 DEF native_token
  <2> QED BY <2>1, <2>3
<1>3. Len(s) = 2 /\ s[1] = "ADDR" /\ s[2] = "TRANSFER_STATE"
  OBVIOUS
<1> HIDE DEF s, parts, J
<1>4. /\ parts \in Seq(Seq(PARAM_KINDS)) /\ Len(parts) = 2
      /\ parts[2] = Entries(s[2], n) /\ s[2] \in ParameterTypes
      /\ AllEntries(contract, method, n) = J[2]
  <2>1. 2 \in 1 .. Len(s)
    BY <1>3
  <2> QED BY <1>1, <1>2, <1>3, <2>1, PartsFacts DEF parts, J
<1>5. parts[2] = Triple
  BY <1>3, <1>4, EntriesFacts
<1>6. Len(J[1]) = 1 /\ J[1][1] = "ADDR"
  <2>1. 1 \in 0 .. Len(s) /\ 1 \in 1 .. 1 /\ \A k \in 1 .. 1 : k = 1
    BY <1>3
  <2>2. \A k \in 1 .. 1 : s[k] \in PARAM_KINDS
    BY <1>3, <2>1 DEF PARAM_KINDS
  <2> DEFINE m == 1
  <2>3. m \in 0 .. Len(s) /\ \A k \in 1 .. m : s[k] \in PARAM_KINDS
    BY <2>1, <2>2
  <2> HIDE DEF m
  <2>4. Len(J[m]) = m /\ \A k \in 1 .. m : J[m][k] = s[k]
    BY <1>1, <1>2, <2>3, PlainStart DEF J, parts
  <2> QED BY <1>3, <2>1, <2>4 DEF m
<1>7. J[1] \in Seq(PARAM_KINDS) /\ J[2] = J[1] \o Triple
  <2>1. 1 \in 0 .. Len(parts) /\ 2 \in 1 .. Len(parts) /\ 2 - 1 = 1
    BY <1>4
  <2>2. J[2] = J[2 - 1] \o parts[2] /\ J[1] \in Seq(PARAM_KINDS)
    BY <1>4, <2>1, JoinsFacts DEF J
  <2> QED BY <1>5, <2>1, <2>2
<1>8. Behind(J[2], J[1], Triple)
  BY <1>7, TripleFacts, JoinedBehind
<1>9. Triple[1] = "ADDR" /\ Triple[2] = "ADDR" /\ Triple[3] = "AMOUNT" /\ Len(Triple) = 3
  BY DEF Triple
<1>10. /\ Len(J[2]) = 4 /\ J[2][1] = "ADDR" /\ J[2][2] = "ADDR" /\ J[2][3] = "ADDR"
       /\ J[2][4] = "AMOUNT"
  <2>1. /\ Len(J[2]) = 4 /\ \A k \in 1 .. 1 : J[2][k] = J[1][k]
        /\ \A k \in 1 .. 3 : J[2][1 + k] = Triple[k]
    BY <1>6, <1>8, <1>9 DEF Behind
  <2>2. /\ 1 \in 1 .. 1 /\ 1 \in 1 .. 3 /\ 2 \in 1 .. 3 /\ 3 \in 1 .. 3
        /\ 1 + 1 = 2 /\ 1 + 2 = 3 /\ 1 + 3 = 4
    OBVIOUS
  <2> QED BY <1>6, <1>9, <2>1, <2>2
<1> QED BY <1>4, <1>10

\* For a call made as one of its contract's type, the table of contract.c and
\* the one of tx_init.c agree: each entry that has a label has one of its kind.
\* A call is labelled whole, but for the second amount of a candidate, the lists
\* of transfers and those of peers.
Listed(contract, method) ==
    method \in PeerMethods \/ (contract \in {"ONT", "ONG"} /\ method \in TransferMethods)

TablesAgree(contract, method, kinds) ==
    LET layout == init_dipslay_pos_and_item(IntendedType(contract), method)
    IN  /\ FitsLabels(kinds, layout)
        /\ ~Listed(contract, method) =>
               Len(kinds) = Len(layout) + (IF method = "registerCandidate" THEN 1 ELSE 0)

LEMMA TokenTables ==
    ASSUME NEW contract \in {"ONT", "ONG"}, NEW method \in Methods(contract), NEW n \in Nat
    PROVE  TablesAgree(contract, method, AllEntries(contract, method, n))
<1> DEFINE kinds == AllEntries(contract, method, n)
           layout == init_dipslay_pos_and_item("NATIVE_CONTRACT", method)
<1>1. contract \in Contracts /\ IntendedType(contract) = "NATIVE_CONTRACT"
  BY DEF Contracts, IntendedType
<1>2. method \in TransferMethods \cup TransferFromMethods \cup ApproveMethods
  BY DEF Methods
<1>3. /\ ~Reversed("NATIVE_CONTRACT", method) /\ method # "registerCandidate"
      /\ "NATIVE_CONTRACT" # "NEOVM_CONTRACT"
  BY <1>2 DEF Reversed, TransferMethods, TransferFromMethods, ApproveMethods
<1>4. kinds = AllEntries(contract, method, n)
  OBVIOUS
<1> HIDE DEF kinds
<1>5. CASE method \in TransferMethods
  <2>1. layout = <<At("FROM", 0), At("TO", 2), At("AMOUNT", 1)>>
    BY <1>3, <1>5
       DEF init_dipslay_pos_and_item, Reversed, TransferMethods, TransferFromMethods,
           ApproveMethods, PeerMethods
  <2>2. Len(kinds) = 3 * n /\ \A k \in 0 .. 3 * n - 1 : kinds[k + 1] = KindInList(k)
    BY <1>4, <1>5, ListEntries
  <2>3. KindInList(0) = "ADDR" /\ KindInList(1) = "ADDR" /\ KindInList(2) = "AMOUNT"
    <3>1. Triple[1] = "ADDR" /\ Triple[2] = "ADDR" /\ Triple[3] = "AMOUNT"
      BY DEF Triple
    <3>2. (0 % 3) + 1 = 1 /\ (1 % 3) + 1 = 2 /\ (2 % 3) + 1 = 3
      OBVIOUS
    <3> QED BY <3>1, <3>2 DEF KindInList
  <2>4. /\ 1 <= Len(kinds) => kinds[1] = "ADDR"
        /\ 2 <= Len(kinds) => kinds[2] = "ADDR"
        /\ 3 <= Len(kinds) => kinds[3] = "AMOUNT"
    <3>1. /\ 1 <= 3 * n => 0 \in 0 .. 3 * n - 1
          /\ 2 <= 3 * n => 1 \in 0 .. 3 * n - 1
          /\ 3 <= 3 * n => 2 \in 0 .. 3 * n - 1
          /\ 0 + 1 = 1 /\ 1 + 1 = 2 /\ 2 + 1 = 3
      OBVIOUS
    <3> QED BY <2>2, <2>3, <3>1
  <2>5. FitsLabels(kinds, layout)
    BY <2>1, <2>4, Announced, ThreeRows
  <2>6. Listed(contract, method)
    BY <1>5 DEF Listed
  <2> QED BY <1>1, <2>5, <2>6 DEF TablesAgree, kinds
<1>6. CASE method \in TransferFromMethods
  <2>1. layout = <<At("SPENDER", 0), At("FROM", 1), At("TO", 3), At("AMOUNT", 2)>>
    BY <1>3, <1>6
       DEF init_dipslay_pos_and_item, Reversed, TransferMethods, TransferFromMethods,
           ApproveMethods, PeerMethods
  <2>2. /\ Len(kinds) = 4 /\ kinds[1] = "ADDR" /\ kinds[2] = "ADDR"
        /\ kinds[3] = "ADDR" /\ kinds[4] = "AMOUNT"
    BY <1>4, <1>6, TransferFromEntries
  <2>3. FitsLabels(kinds, layout) /\ Len(layout) = 4
    BY <2>1, <2>2, Announced, FourRows
  <2> QED BY <1>1, <1>3, <2>2, <2>3 DEF TablesAgree, kinds
<1>7. CASE method \in ApproveMethods
  <2>1. layout = <<At("FROM", 0), At("TO", 2), At("AMOUNT", 1)>>
    BY <1>3, <1>7
       DEF init_dipslay_pos_and_item, Reversed, TransferMethods, TransferFromMethods,
           ApproveMethods, PeerMethods
  <2>2. Signature(contract, method) = <<"ADDR", "ADDR", "AMOUNT">>
    <3>1. Signature(contract, method) = native_token(method)
      BY DEF Signature
    <3>2. method \notin TransferMethods /\ method \notin TransferFromMethods
      BY <1>7 DEF TransferMethods, TransferFromMethods, ApproveMethods
    <3> QED BY <1>7, <3>1, <3>2 DEF native_token
  <2>3. Len(kinds) = 3 /\ kinds[1] = "ADDR" /\ kinds[2] = "ADDR" /\ kinds[3] = "AMOUNT"
    <3>1. "ADDR" \in PARAM_KINDS /\ "AMOUNT" \in PARAM_KINDS
      BY DEF PARAM_KINDS
    <3> QED BY <1>1, <1>4, <2>2, <3>1, PlainThree
  <2>4. FitsLabels(kinds, layout) /\ Len(layout) = 3
    BY <2>1, <2>3, Announced, ThreeRows
  <2> QED BY <1>1, <1>3, <2>3, <2>4 DEF TablesAgree, kinds
<1> QED BY <1>2, <1>5, <1>6, <1>7

LEMMA GovernanceTables ==
    ASSUME NEW method \in Methods("GOV"), NEW n \in Nat
    PROVE  TablesAgree("GOV", method, AllEntries("GOV", method, n))
<1> DEFINE kinds == AllEntries("GOV", method, n)
           layout == init_dipslay_pos_and_item("NATIVE_CONTRACT", method)
           signature == Signature("GOV", method)
<1>1. "GOV" \in Contracts /\ IntendedType("GOV") = "NATIVE_CONTRACT"
  BY DEF Contracts, IntendedType
<1>2. method \in GovernanceMethods /\ method \in Methods("GOV")
  BY DEF Methods
<1>3. /\ ~Reversed("NATIVE_CONTRACT", method)
      /\ method \notin TransferMethods \cup TransferFromMethods \cup ApproveMethods
  BY <1>2 DEF Reversed, TransferMethods, TransferFromMethods, ApproveMethods, GovernanceMethods,
              PeerMethods
<1>4. signature = native_governance(method)
  BY DEF Signature
<1>5. kinds = AllEntries("GOV", method, n)
  OBVIOUS
<1>6. "PUBKEY" \in PARAM_KINDS /\ "ADDR" \in PARAM_KINDS /\ "AMOUNT" \in PARAM_KINDS
  BY DEF PARAM_KINDS
<1> HIDE DEF kinds
<1>7. CASE method = "registerCandidate"
  <2>1. layout = <<At("PEER_PUBKEY", 1), At("STAKE_ADDRESS", 0), At("STAKE_AMOUNT", 2)>>
    BY <1>3, <1>7
       DEF init_dipslay_pos_and_item, Reversed, TransferMethods, TransferFromMethods,
           ApproveMethods, PeerMethods
  <2>2. Len(kinds) = 4 /\ kinds[1] = "PUBKEY" /\ kinds[2] = "ADDR" /\ kinds[3] = "AMOUNT"
    BY <1>5, <1>7, CandidateEntries
  <2>3. FitsLabels(kinds, layout) /\ Len(layout) = 3
    BY <2>1, <2>2, Announced, ThreeRows
  <2>4. Len(kinds) = Len(layout) + (IF method = "registerCandidate" THEN 1 ELSE 0)
    <3>1. (IF method = "registerCandidate" THEN 1 ELSE 0) = 1
      BY <1>7
    <3> HIDE DEF layout
    <3> QED BY <2>2, <2>3, <3>1
  <2> QED BY <1>1, <2>3, <2>4 DEF TablesAgree, kinds
<1>8. CASE method = "quitNode"
  <2>1. layout = <<At("PEER_PUBKEY", 1), At("STAKE_ADDRESS", 0)>>
    BY <1>3, <1>8
       DEF init_dipslay_pos_and_item, Reversed, TransferMethods, TransferFromMethods,
           ApproveMethods, PeerMethods
  <2>2. signature = <<"PUBKEY", "ADDR">>
    BY <1>4, <1>8 DEF native_governance, PeerMethods
  <2>3. Len(kinds) = 2 /\ kinds[1] = "PUBKEY" /\ kinds[2] = "ADDR"
    BY <1>1, <1>2, <1>5, <1>6, <2>2, PlainTwo
  <2>4. FitsLabels(kinds, layout) /\ Len(layout) = 2
    BY <2>1, <2>3, Announced, TwoRows
  <2> QED BY <1>1, <1>8, <2>3, <2>4 DEF TablesAgree, kinds
<1>9. CASE method \in {"addInitPos", "reduceInitPos", "changeMaxAuthorization"}
  <2>1. PICK item \in {"STAKE_AMOUNT", "AMOUNT", "MAX_AUTHORIZE"} :
            layout = <<At("PEER_PUBKEY", 1), At("STAKE_ADDRESS", 0), At(item, 2)>>
    BY <1>3, <1>9
       DEF init_dipslay_pos_and_item, Reversed, TransferMethods, TransferFromMethods,
           ApproveMethods, PeerMethods
  <2>2. signature = <<"PUBKEY", "ADDR", "AMOUNT">>
    BY <1>4, <1>9 DEF native_governance, PeerMethods
  <2>3. Len(kinds) = 3 /\ kinds[1] = "PUBKEY" /\ kinds[2] = "ADDR" /\ kinds[3] = "AMOUNT"
    BY <1>1, <1>2, <1>5, <1>6, <2>2, PlainThree
  <2>4. "AMOUNT" \in Announces(item)
    BY Announced
  <2>5. FitsLabels(kinds, layout) /\ Len(layout) = 3
    BY <2>1, <2>3, <2>4, Announced, ThreeRows
  <2> QED BY <1>1, <1>9, <2>3, <2>5 DEF TablesAgree, kinds
<1>10. CASE method = "setFeePercentage"
  <2>1. layout = <<At("PEER_PUBKEY", 1), At("STAKE_ADDRESS", 0),
                   At("PEER_INCENTIVE", 2), At("USER_INCENTIVE", 3)>>
    BY <1>3, <1>10
       DEF init_dipslay_pos_and_item, Reversed, TransferMethods, TransferFromMethods,
           ApproveMethods, PeerMethods
  <2>2. signature = <<"PUBKEY", "ADDR", "AMOUNT", "AMOUNT">>
    BY <1>4, <1>10 DEF native_governance, PeerMethods
  <2>3. /\ Len(kinds) = 4 /\ kinds[1] = "PUBKEY" /\ kinds[2] = "ADDR"
        /\ kinds[3] = "AMOUNT" /\ kinds[4] = "AMOUNT"
    BY <1>1, <1>2, <1>5, <1>6, <2>2, PlainFour
  <2>4. FitsLabels(kinds, layout) /\ Len(layout) = 4
    BY <2>1, <2>3, Announced, FourRows
  <2> QED BY <1>1, <1>10, <2>3, <2>4 DEF TablesAgree, kinds
<1>11. CASE method = "withdrawFee"
  <2>1. layout = <<At("STAKE_ADDRESS", 0)>>
    BY <1>3, <1>11
       DEF init_dipslay_pos_and_item, Reversed, TransferMethods, TransferFromMethods,
           ApproveMethods, PeerMethods
  <2>2. signature = <<"ADDR">>
    BY <1>4, <1>11 DEF native_governance, PeerMethods
  <2>3. Len(kinds) = 1 /\ kinds[1] = "ADDR"
    BY <1>1, <1>2, <1>5, <1>6, <2>2, PlainOne
  <2>4. FitsLabels(kinds, layout) /\ Len(layout) = 1
    BY <2>1, <2>3, Announced, OneRow
  <2> QED BY <1>1, <1>11, <2>3, <2>4 DEF TablesAgree, kinds
<1>12. CASE method \in PeerMethods
  <2>1. layout = <<At("STAKE_ADDRESS", 0)>>
    BY <1>3, <1>12
       DEF init_dipslay_pos_and_item, Reversed, TransferMethods, TransferFromMethods,
           ApproveMethods, PeerMethods
  <2>2. kinds[1] = "ADDR"
    BY <1>5, <1>12, PeersEntries
  <2>3. FitsLabels(kinds, layout)
    BY <2>1, <2>2, Announced, OneRow
  <2>4. Listed("GOV", method)
    BY <1>12 DEF Listed
  <2> QED BY <1>1, <2>3, <2>4 DEF TablesAgree, kinds
<1> QED BY <1>2, <1>7, <1>8, <1>9, <1>10, <1>11, <1>12 DEF GovernanceMethods

LEMMA OtherTables ==
    ASSUME NEW contract \in {"WING", "STONT", "MBL"}, NEW method \in Methods(contract), NEW n \in Nat
    PROVE  TablesAgree(contract, method, AllEntries(contract, method, n))
<1> DEFINE kinds == AllEntries(contract, method, n)
           layout == init_dipslay_pos_and_item(IntendedType(contract), method)
           signature == Signature(contract, method)
<1>1. /\ contract \in Contracts
      /\ IntendedType(contract) = IF contract = "STONT" THEN "WASMVM_CONTRACT" ELSE "NEOVM_CONTRACT"
  BY DEF Contracts, IntendedType
<1>2. method \in {"transfer", "transferFrom", "approve"} /\ method # "registerCandidate"
  BY DEF Methods
<1>3. kinds = AllEntries(contract, method, n)
  OBVIOUS
<1>4. "UINT128" \in PARAM_KINDS /\ "ADDR" \in PARAM_KINDS /\ "AMOUNT" \in PARAM_KINDS
  BY DEF PARAM_KINDS
<1>5. Reversed(IntendedType(contract), method) <=> contract # "STONT"
  BY <1>1, <1>2 DEF Reversed
<1> HIDE DEF kinds
<1>6. CASE contract # "STONT" /\ method = "transferFrom"
  <2>1. layout = <<At("AMOUNT", 2), At("TO", 3), At("FROM", 1), At("SPENDER", 0)>>
    BY <1>5, <1>6
       DEF init_dipslay_pos_and_item, Reversed, TransferMethods, TransferFromMethods,
           ApproveMethods, PeerMethods
  <2>2. signature = <<"AMOUNT", "ADDR", "ADDR", "ADDR">>
    BY <1>6 DEF Signature, neovm_oep4_token
  <2>3. /\ Len(kinds) = 4 /\ kinds[1] = "AMOUNT" /\ kinds[2] = "ADDR"
        /\ kinds[3] = "ADDR" /\ kinds[4] = "ADDR"
    BY <1>1, <1>3, <1>4, <2>2, PlainFour
  <2>4. FitsLabels(kinds, layout) /\ Len(layout) = 4
    BY <2>1, <2>3, Announced, FourRows
  <2> QED BY <1>2, <2>3, <2>4 DEF TablesAgree, kinds
<1>7. CASE contract # "STONT" /\ method # "transferFrom"
  <2>1. layout = <<At("AMOUNT", 1), At("TO", 2), At("FROM", 0)>>
    BY <1>5, <1>7
       DEF init_dipslay_pos_and_item, Reversed, TransferMethods, TransferFromMethods,
           ApproveMethods, PeerMethods
  <2>2. signature = <<"AMOUNT", "ADDR", "ADDR">>
    BY <1>7 DEF Signature, neovm_oep4_token
  <2>3. Len(kinds) = 3 /\ kinds[1] = "AMOUNT" /\ kinds[2] = "ADDR" /\ kinds[3] = "ADDR"
    BY <1>1, <1>3, <1>4, <2>2, PlainThree
  <2>4. FitsLabels(kinds, layout) /\ Len(layout) = 3
    BY <2>1, <2>3, Announced, ThreeRows
  <2> QED BY <1>2, <2>3, <2>4 DEF TablesAgree, kinds
<1>8. CASE contract = "STONT" /\ method = "transferFrom"
  <2>1. layout = <<At("SPENDER", 0), At("FROM", 1), At("TO", 3), At("AMOUNT", 2)>>
    BY <1>5, <1>8
       DEF init_dipslay_pos_and_item, Reversed, TransferMethods, TransferFromMethods,
           ApproveMethods, PeerMethods
  <2>2. signature = <<"ADDR", "ADDR", "ADDR", "UINT128">>
    BY <1>8 DEF Signature, wasmvm_oep4_token
  <2>3. /\ Len(kinds) = 4 /\ kinds[1] = "ADDR" /\ kinds[2] = "ADDR"
        /\ kinds[3] = "ADDR" /\ kinds[4] = "UINT128"
    BY <1>1, <1>3, <1>4, <2>2, PlainFour
  <2>4. FitsLabels(kinds, layout) /\ Len(layout) = 4
    BY <2>1, <2>3, Announced, FourRows
  <2> QED BY <1>2, <2>3, <2>4 DEF TablesAgree, kinds
<1>9. CASE contract = "STONT" /\ method # "transferFrom"
  <2>1. layout = <<At("FROM", 0), At("TO", 2), At("AMOUNT", 1)>>
    BY <1>2, <1>5, <1>9
       DEF init_dipslay_pos_and_item, Reversed, TransferMethods, TransferFromMethods,
           ApproveMethods, PeerMethods
  <2>2. signature = <<"ADDR", "ADDR", "UINT128">>
    BY <1>9 DEF Signature, wasmvm_oep4_token
  <2>3. Len(kinds) = 3 /\ kinds[1] = "ADDR" /\ kinds[2] = "ADDR" /\ kinds[3] = "UINT128"
    BY <1>1, <1>3, <1>4, <2>2, PlainThree
  <2>4. FitsLabels(kinds, layout) /\ Len(layout) = 3
    BY <2>1, <2>3, Announced, ThreeRows
  <2> QED BY <1>2, <2>3, <2>4 DEF TablesAgree, kinds
<1> QED BY <1>6, <1>7, <1>8, <1>9

LEMMA Tables ==
    ASSUME NEW contract \in Contracts, NEW method \in Methods(contract), NEW n \in Nat
    PROVE  TablesAgree(contract, method, AllEntries(contract, method, n))
  BY TokenTables, GovernanceTables, OtherTables DEF Contracts

-----------------------------------------------------------------------------
(* The shapes of signatures, which the parser follows.                     *)

\* The parameters of a signature that fill several entries come last, and a list
\* of pairs has at most one parameter before it.
CompositeLast(rest, next) ==
    \A k \in 1 .. Len(rest) :
        /\ rest[k] \in {"PK_AMOUNT_PAIRS", "TRANSFER_STATE"} => k = Len(rest)
        /\ rest[k] = "PK_AMOUNT_PAIRS" => next + k <= 2

GoodSignature(signature) == signature \in Seq(ParameterTypes) /\ CompositeLast(signature, 0)

Single == ParameterTypes \ {"PK_AMOUNT_PAIRS", "TRANSFER_STATE"}

LEMMA GoodOne ==
    ASSUME NEW a \in Single
    PROVE  GoodSignature(<<a>>)
BY DEF GoodSignature, CompositeLast, Single

LEMMA GoodTwo ==
    ASSUME NEW a \in Single, NEW b \in ParameterTypes
    PROVE  GoodSignature(<<a, b>>)
<1>1. \A k \in 1 .. 2 : k = 1 \/ k = 2
  OBVIOUS
<1> QED BY <1>1 DEF GoodSignature, CompositeLast, Single

LEMMA GoodThree ==
    ASSUME NEW a \in Single, NEW b \in Single, NEW c \in Single
    PROVE  GoodSignature(<<a, b, c>>)
<1>1. \A k \in 1 .. 3 : k = 1 \/ k = 2 \/ k = 3
  OBVIOUS
<1> QED BY <1>1 DEF GoodSignature, CompositeLast, Single

LEMMA GoodFour ==
    ASSUME NEW a \in Single, NEW b \in Single, NEW c \in Single, NEW d \in Single
    PROVE  GoodSignature(<<a, b, c, d>>)
<1>1. \A k \in 1 .. 4 : k = 1 \/ k = 2 \/ k = 3 \/ k = 4
  OBVIOUS
<1> QED BY <1>1 DEF GoodSignature, CompositeLast, Single

LEMMA GoodFive ==
    ASSUME NEW a \in Single, NEW b \in Single, NEW c \in Single, NEW d \in Single, NEW e \in Single
    PROVE  GoodSignature(<<a, b, c, d, e>>)
<1>1. \A k \in 1 .. 5 : k = 1 \/ k = 2 \/ k = 3 \/ k = 4 \/ k = 5
  OBVIOUS
<1> QED BY <1>1 DEF GoodSignature, CompositeLast, Single

\* Every known method has a signature that the loops can work through.
LEMMA SignaturesGood ==
    ASSUME NEW contract \in Contracts, NEW method \in Methods(contract)
    PROVE  GoodSignature(Signature(contract, method))
<1>1. /\ "ADDR" \in Single /\ "AMOUNT" \in Single /\ "UINT128" \in Single
      /\ "PUBKEY" \in Single /\ "ONTID" \in Single /\ "TRANSFER_STATE_LIST" \in Single
      /\ "TRANSFER_STATE" \in ParameterTypes /\ "PK_AMOUNT_PAIRS" \in ParameterTypes
  BY DEF Single, ParameterTypes
<1>2. CASE contract \in {"ONT", "ONG"}
  <2>1. Signature(contract, method) = native_token(method)
    BY <1>2 DEF Signature
  <2>2. method \in TransferMethods \cup TransferFromMethods \cup ApproveMethods
    BY <1>2 DEF Methods
  <2>3. native_token(method) \in {<<"TRANSFER_STATE_LIST">>, <<"ADDR", "TRANSFER_STATE">>,
                                  <<"ADDR", "ADDR", "AMOUNT">>}
    BY <2>2 DEF native_token
  <2> QED BY <1>1, <2>1, <2>3, GoodOne, GoodTwo, GoodThree
<1>3. CASE contract = "GOV"
  <2>1. Signature(contract, method) = native_governance(method)
    BY <1>3 DEF Signature
  <2>2. method \in GovernanceMethods
    BY <1>3 DEF Methods
  <2>3. native_governance(method) \in
            {<<"PUBKEY", "ADDR", "AMOUNT", "ONTID", "AMOUNT">>, <<"PUBKEY", "ADDR">>,
             <<"PUBKEY", "ADDR", "AMOUNT">>, <<"PUBKEY", "ADDR", "AMOUNT", "AMOUNT">>,
             <<"ADDR", "PK_AMOUNT_PAIRS">>, <<"ADDR">>}
    BY <2>2 DEF native_governance, GovernanceMethods
  <2>4. /\ GoodSignature(<<"PUBKEY", "ADDR", "AMOUNT", "ONTID", "AMOUNT">>)
        /\ GoodSignature(<<"PUBKEY", "ADDR", "AMOUNT", "AMOUNT">>)
    BY <1>1, GoodFour, GoodFive
  <2>5. GoodSignature(<<"ADDR">>)
    BY <1>1, GoodOne
  <2>6. GoodSignature(<<"PUBKEY", "ADDR">>) /\ GoodSignature(<<"ADDR", "PK_AMOUNT_PAIRS">>)
    BY <1>1, GoodTwo DEF Single
  <2>7. GoodSignature(<<"PUBKEY", "ADDR", "AMOUNT">>)
    BY <1>1, GoodThree
  <2> QED BY <2>1, <2>3, <2>4, <2>5, <2>6, <2>7
<1>4. CASE contract \in {"WING", "MBL"}
  <2>1. Signature(contract, method) = neovm_oep4_token(method)
    BY <1>4 DEF Signature
  <2> QED BY <1>1, <2>1, GoodThree, GoodFour DEF neovm_oep4_token
<1>5. CASE contract = "STONT"
  <2>1. Signature(contract, method) = wasmvm_oep4_token(method)
    BY <1>5 DEF Signature
  <2> QED BY <1>1, <2>1, GoodThree, GoodFour DEF wasmvm_oep4_token
<1> QED BY <1>2, <1>3, <1>4, <1>5 DEF Contracts

\* No method of the tables has more than five parameters.
LEMMA SignaturesShort ==
    ASSUME NEW contract \in Contracts, NEW method \in Methods(contract)
    PROVE  Len(Signature(contract, method)) \in 0 .. 5
<1>1. CASE contract \in {"ONT", "ONG"}
  <2>1. method \in TransferMethods \cup TransferFromMethods \cup ApproveMethods
    BY <1>1 DEF Methods
  <2>2. native_token(method) \in {<<"TRANSFER_STATE_LIST">>, <<"ADDR", "TRANSFER_STATE">>,
                                  <<"ADDR", "ADDR", "AMOUNT">>}
    BY <2>1 DEF native_token
  <2>3. Len(native_token(method)) \in 0 .. 5
    BY <2>2
  <2> QED BY <1>1, <2>3 DEF Signature
<1>2. CASE contract = "GOV"
  <2>1. method \in GovernanceMethods
    BY <1>2 DEF Methods
  <2>2. native_governance(method) \in
            {<<"PUBKEY", "ADDR", "AMOUNT", "ONTID", "AMOUNT">>, <<"PUBKEY", "ADDR">>,
             <<"PUBKEY", "ADDR", "AMOUNT">>, <<"PUBKEY", "ADDR", "AMOUNT", "AMOUNT">>,
             <<"ADDR", "PK_AMOUNT_PAIRS">>, <<"ADDR">>}
    BY <2>1 DEF native_governance, GovernanceMethods
  <2>3. Len(native_governance(method)) \in 0 .. 5
    BY <2>2
  <2> QED BY <1>2, <2>3 DEF Signature
<1>3. CASE contract \in {"WING", "MBL"}
  BY <1>3 DEF Signature, neovm_oep4_token
<1>4. CASE contract = "STONT"
  BY <1>4 DEF Signature, wasmvm_oep4_token
<1> QED BY <1>1, <1>2, <1>3, <1>4 DEF Contracts

\* A signature has five parameters at most; an identity is the fourth, behind
\* an amount.
Shaped(s) ==
    /\ Len(s) \in 1 .. 5
    /\ \A k \in 1 .. Len(s) : s[k] = "ONTID" =>
           k = 4 /\ (\A j \in 1 .. 3 : s[j] \in PARAM_KINDS) /\ s[3] = "AMOUNT"

LEMMA SignatureShape ==
    ASSUME NEW contract \in Contracts, NEW method \in Methods(contract)
    PROVE  Shaped(Signature(contract, method))
<1> DEFINE signature == Signature(contract, method)
<1>1. \A k : /\ k \in 1 .. 1 => k = 1
             /\ k \in 1 .. 2 => k = 1 \/ k = 2
             /\ k \in 1 .. 3 => k = 1 \/ k = 2 \/ k = 3
             /\ k \in 1 .. 4 => k = 1 \/ k = 2 \/ k = 3 \/ k = 4
             /\ k \in 1 .. 5 => k = 1 \/ k = 2 \/ k = 3 \/ k = 4 \/ k = 5
  OBVIOUS
<1>2. /\ Shaped(<<"TRANSFER_STATE_LIST">>) /\ Shaped(<<"ADDR">>)
      /\ Shaped(<<"ADDR", "TRANSFER_STATE">>) /\ Shaped(<<"PUBKEY", "ADDR">>)
      /\ Shaped(<<"ADDR", "PK_AMOUNT_PAIRS">>)
  BY <1>1 DEF Shaped
<1>3. /\ Shaped(<<"ADDR", "ADDR", "AMOUNT">>) /\ Shaped(<<"PUBKEY", "ADDR", "AMOUNT">>)
      /\ Shaped(<<"AMOUNT", "ADDR", "ADDR">>) /\ Shaped(<<"ADDR", "ADDR", "UINT128">>)
  BY <1>1 DEF Shaped
<1>4. /\ Shaped(<<"PUBKEY", "ADDR", "AMOUNT", "AMOUNT">>)
      /\ Shaped(<<"AMOUNT", "ADDR", "ADDR", "ADDR">>)
      /\ Shaped(<<"ADDR", "ADDR", "ADDR", "UINT128">>)
  BY <1>1 DEF Shaped
<1>5. Shaped(<<"PUBKEY", "ADDR", "AMOUNT", "ONTID", "AMOUNT">>)
  <2> DEFINE s == <<"PUBKEY", "ADDR", "AMOUNT", "ONTID", "AMOUNT">>
  <2>1. /\ Len(s) = 5 /\ s[1] = "PUBKEY" /\ s[2] = "ADDR" /\ s[3] = "AMOUNT" /\ s[4] = "ONTID"
        /\ s[5] = "AMOUNT"
    OBVIOUS
  <2> HIDE DEF s
  <2>2. \A j \in 1 .. 3 : s[j] \in PARAM_KINDS
    BY <1>1, <2>1 DEF PARAM_KINDS
  <2>3. ASSUME NEW k \in 1 .. Len(s), s[k] = "ONTID" PROVE k = 4
    BY <1>1, <2>1, <2>3
  <2>4. Shaped(s)
    BY <2>1, <2>2, <2>3 DEF Shaped
  <2> QED BY <2>4 DEF s
<1>6. CASE contract \in {"ONT", "ONG"}
  <2>1. signature = native_token(method)
        /\ method \in TransferMethods \cup TransferFromMethods \cup ApproveMethods
    BY <1>6 DEF Signature, Methods
  <2>2. signature \in {<<"TRANSFER_STATE_LIST">>, <<"ADDR", "TRANSFER_STATE">>,
                       <<"ADDR", "ADDR", "AMOUNT">>}
    BY <2>1 DEF native_token
  <2> QED BY <1>2, <1>3, <2>2
<1>7. CASE contract = "GOV"
  <2>1. signature = native_governance(method) /\ method \in GovernanceMethods
    BY <1>7 DEF Signature, Methods
  <2>2. signature \in
            {<<"PUBKEY", "ADDR", "AMOUNT", "ONTID", "AMOUNT">>, <<"PUBKEY", "ADDR">>,
             <<"PUBKEY", "ADDR", "AMOUNT">>, <<"PUBKEY", "ADDR", "AMOUNT", "AMOUNT">>,
             <<"ADDR">>, <<"ADDR", "PK_AMOUNT_PAIRS">>}
    BY <2>1 DEF native_governance, GovernanceMethods
  <2> HIDE DEF signature
  <2>3. Shaped(signature)
    BY <1>2, <1>3, <1>4, <1>5, <2>2
  <2> QED BY <2>3 DEF signature
<1>8. CASE contract \in {"WING", "MBL"}
  <2>1. signature \in {<<"AMOUNT", "ADDR", "ADDR", "ADDR">>, <<"AMOUNT", "ADDR", "ADDR">>}
    BY <1>8 DEF Signature, neovm_oep4_token
  <2> QED BY <1>3, <1>4, <2>1
<1>9. CASE contract = "STONT"
  <2>1. signature \in {<<"ADDR", "ADDR", "ADDR", "UINT128">>, <<"ADDR", "ADDR", "UINT128">>}
    BY <1>9 DEF Signature, wasmvm_oep4_token
  <2> QED BY <1>3, <1>4, <2>1
<1> QED BY <1>6, <1>7, <1>8, <1>9 DEF Contracts

\* A list of transfers is the only parameter of a method on native tokens.
LEMMA ListSignature ==
    ASSUME NEW contract \in Contracts, NEW method \in Methods(contract)
    PROVE  LET s == Signature(contract, method)
           IN  (\E k \in 1 .. Len(s) : s[k] = "TRANSFER_STATE_LIST") =>
                   /\ s = <<"TRANSFER_STATE_LIST">>
                   /\ contract \in {"ONT", "ONG"} /\ method \in TransferMethods
<1> DEFINE s == Signature(contract, method)
<1>1. CASE contract \in {"ONT", "ONG"} /\ method \in TransferMethods
  BY <1>1, SignatureTable
<1>2. CASE contract \in {"ONT", "ONG"} /\ method \notin TransferMethods
  <2>1. \/ method \in TransferFromMethods /\ s = <<"ADDR", "TRANSFER_STATE">>
        \/ method \in ApproveMethods /\ s = <<"ADDR", "ADDR", "AMOUNT">>
    BY <1>2 DEF Methods, Signature, native_token, TransferMethods, TransferFromMethods, ApproveMethods
  <2> QED BY <2>1
<1>3. CASE contract = "GOV"
  <2>1. \/ s = <<"PUBKEY", "ADDR", "AMOUNT", "ONTID", "AMOUNT">>
        \/ s = <<"PUBKEY", "ADDR">> \/ s = <<"PUBKEY", "ADDR", "AMOUNT">>
        \/ s = <<"PUBKEY", "ADDR", "AMOUNT", "AMOUNT">>
        \/ s = <<"ADDR", "PK_AMOUNT_PAIRS">> \/ s = <<"ADDR">>
    BY <1>3 DEF Methods, Signature, native_governance, GovernanceMethods, PeerMethods
  <2> QED BY <2>1
<1>4. CASE contract \in {"WING", "MBL"}
  <2>1. s = <<"AMOUNT", "ADDR", "ADDR", "ADDR">> \/ s = <<"AMOUNT", "ADDR", "ADDR">>
    BY <1>4 DEF Signature, neovm_oep4_token
  <2> QED BY <2>1
<1>5. CASE contract = "STONT"
  <2>1. s = <<"ADDR", "ADDR", "ADDR", "UINT128">> \/ s = <<"ADDR", "ADDR", "UINT128">>
    BY <1>5 DEF Signature, wasmvm_oep4_token
  <2> QED BY <2>1
<1> QED BY <1>1, <1>2, <1>3, <1>4, <1>5 DEF Contracts

\* The identity is not the last of its method's parameters.
LEMMA IdentityFollowed ==
    ASSUME NEW contract \in Contracts, NEW method \in Methods(contract)
    PROVE  LET s == Signature(contract, method)
           IN  \A k \in 1 .. Len(s) : s[k] = "ONTID" =>
                   k + 1 \in 1 .. Len(s) /\ s[k + 1] = "AMOUNT"
<1> DEFINE s == Signature(contract, method)
<1>1. CASE contract = "GOV"
  <2>1. CASE method = "registerCandidate"
    <3>1. s = <<"PUBKEY", "ADDR", "AMOUNT", "ONTID", "AMOUNT">>
      BY <1>1, <2>1 DEF Signature, native_governance, PeerMethods
    <3> QED BY <3>1
  <2>2. CASE method # "registerCandidate"
    <3>1. \/ s = <<"PUBKEY", "ADDR">> \/ s = <<"PUBKEY", "ADDR", "AMOUNT">>
          \/ s = <<"PUBKEY", "ADDR", "AMOUNT", "AMOUNT">>
          \/ s = <<"ADDR", "PK_AMOUNT_PAIRS">> \/ s = <<"ADDR">>
      BY <1>1, <2>2 DEF Methods, Signature, native_governance, GovernanceMethods, PeerMethods
    <3> HIDE DEF s
    <3>2. \A k \in 1 .. Len(s) : s[k] # "ONTID"
      BY <3>1
    <3> QED BY <3>2 DEF s
  <2> QED BY <2>1, <2>2
<1>2. CASE contract \in {"ONT", "ONG"}
  <2>1. s = <<"TRANSFER_STATE_LIST">> \/ s = <<"ADDR", "TRANSFER_STATE">> \/ s = <<"ADDR", "ADDR", "AMOUNT">>
    BY <1>2 DEF Methods, Signature, native_token, TransferMethods, TransferFromMethods, ApproveMethods
  <2> HIDE DEF s
  <2>2. \A k \in 1 .. Len(s) : s[k] # "ONTID"
    BY <2>1
  <2> QED BY <2>2 DEF s
<1>4. CASE contract \in {"WING", "MBL"}
  <2>1. s = <<"AMOUNT", "ADDR", "ADDR", "ADDR">> \/ s = <<"AMOUNT", "ADDR", "ADDR">>
    BY <1>4 DEF Signature, neovm_oep4_token
  <2> HIDE DEF s
  <2>2. \A k \in 1 .. Len(s) : s[k] # "ONTID"
    BY <2>1
  <2> QED BY <2>2 DEF s
<1>5. CASE contract = "STONT"
  <2>1. s = <<"ADDR", "ADDR", "ADDR", "UINT128">> \/ s = <<"ADDR", "ADDR", "UINT128">>
    BY <1>5 DEF Signature, wasmvm_oep4_token
  <2> HIDE DEF s
  <2>2. \A k \in 1 .. Len(s) : s[k] # "ONTID"
    BY <2>1
  <2> QED BY <2>2 DEF s
<1> QED BY <1>1, <1>2, <1>4, <1>5 DEF Contracts

-----------------------------------------------------------------------------
(* Texts side by side.                                                     *)

LEMMA SameElements ==
    ASSUME NEW S, NEW s \in Seq(S), NEW t \in Seq(S), Len(s) = Len(t),
           \A j \in 1 .. Len(s) : s[j] = t[j]
    PROVE  s = t
OBVIOUS

LEMMA ProductMonotonic ==
    ASSUME NEW a \in Nat, NEW b \in Nat, NEW c \in Nat, a <= b
    PROVE  a * c <= b * c
<1> DEFINE d == b - a
<1>1. d \in Nat /\ b = a + d
  OBVIOUS
<1> HIDE DEF d
<1>2. b * c = a * c + d * c
  BY <1>1
<1>3. a * c \in Nat /\ d * c \in Nat
  BY <1>1
<1> QED BY <1>2, <1>3

\* One parameter of each type in the format.
LEMMA PartIs ==
    ASSUME NEW c, NEW values
    PROVE  /\ Part(c, "ADDR", values) =
                  IF c.type = "WASMVM_CONTRACT" THEN values[1] ELSE WithLength(values[1])
           /\ Part(c, "PUBKEY", values) = WithLength(values[1])
           /\ Part(c, "AMOUNT", values) = values[1]
           /\ Part(c, "UINT128", values) = values[1]
           /\ Part(c, "ONTID", values) = WithLength(c.id)
           /\ Part(c, "TRANSFER_STATE", values) =
                  OPCODE_ST_BEGIN
                      \o ClosedAll(<<WithLength(values[1]), WithLength(values[2]), values[3]>>)
                      \o OPCODE_ST_END
           /\ Part(c, "PK_AMOUNT_PAIRS", values) =
                  ClosedAll(<<values[1]>> \o [k \in 1 .. c.n |-> WithLength(values[1 + k])]
                                \o <<c.count>> \o SubSeq(values, 2 + c.n, Len(values) - 1))
                      \o values[Len(values)]
<1>1. Part(c, "ADDR", values) =
          IF c.type = "WASMVM_CONTRACT" THEN values[1] ELSE WithLength(values[1])
  BY DEF Part
<1>2. /\ Part(c, "PUBKEY", values) = WithLength(values[1])
      /\ Part(c, "AMOUNT", values) = values[1] /\ Part(c, "UINT128", values) = values[1]
      /\ Part(c, "ONTID", values) = WithLength(c.id)
  BY DEF Part
<1>3. Part(c, "TRANSFER_STATE", values) =
          OPCODE_ST_BEGIN
              \o ClosedAll(<<WithLength(values[1]), WithLength(values[2]), values[3]>>)
              \o OPCODE_ST_END
  BY DEF Part
<1>4. Part(c, "PK_AMOUNT_PAIRS", values) =
          ClosedAll(<<values[1]>> \o [k \in 1 .. c.n |-> WithLength(values[1 + k])]
                        \o <<c.count>> \o SubSeq(values, 2 + c.n, Len(values) - 1))
              \o values[Len(values)]
  BY DEF Part
<1> QED BY <1>1, <1>2, <1>3, <1>4

InRow(all, n, first, keys, count, rest) ==
    /\ Len(all) = 2 * n + 1 /\ all[1] = first
    /\ \A k \in 1 .. n : all[1 + k] = keys[k]
    /\ all[n + 2] = count
    /\ \A k \in 1 .. n - 1 : all[n + 2 + k] = rest[k]

LEMMA FourJoined ==
    ASSUME NEW S, NEW n \in Nat, n # 0, NEW first \in S, NEW keys \in Seq(S), Len(keys) = n,
           NEW count \in S, NEW rest \in Seq(S), Len(rest) = n - 1
    PROVE  InRow(<<first>> \o keys \o <<count>> \o rest, n, first, keys, count, rest)
<1> DEFINE one == <<first>>
           s == one \o keys
           two == <<count>>
           t == s \o two
           u == t \o rest
<1>1. /\ one \in Seq(S) /\ Len(one) = 1 /\ one[1] = first
      /\ two \in Seq(S) /\ Len(two) = 1 /\ two[1] = count
  OBVIOUS
<1> HIDE DEF one, two
<1>2. /\ s \in Seq(S) /\ Len(s) = n + 1 /\ s[1] = first
      /\ \A k \in 1 .. n : s[1 + k] = keys[k]
  <2>1. s \in Seq(S) /\ Behind(s, one, keys)
    BY <1>1, JoinedBehind
  <2> HIDE DEF s
  <2> QED BY <1>1, <2>1 DEF Behind
<1> HIDE DEF s
<1>3. /\ t \in Seq(S) /\ Len(t) = n + 2
      /\ \A j \in 1 .. n + 1 : t[j] = s[j]
      /\ t[n + 2] = count
  <2>0. t \in Seq(S) /\ Behind(t, s, two)
    BY <1>1, <1>2, JoinedBehind
  <2> HIDE DEF t
  <2>1. /\ t \in Seq(S) /\ Len(t) = Len(s) + Len(two)
        /\ \A j \in 1 .. Len(s) : t[j] = s[j]
        /\ \A j \in 1 .. Len(two) : t[Len(s) + j] = two[j]
    BY <2>0 DEF Behind
  <2>2. 1 \in 1 .. Len(two) /\ Len(s) + 1 = n + 2
    BY <1>1, <1>2
  <2>3. t[n + 2] = count
    BY <1>1, <2>1, <2>2
  <2> QED BY <1>1, <1>2, <2>1, <2>3
<1> HIDE DEF t
<1>4. /\ u \in Seq(S) /\ Len(u) = 2 * n + 1
      /\ \A j \in 1 .. n + 2 : u[j] = t[j]
      /\ \A j \in 1 .. n - 1 : u[n + 2 + j] = rest[j]
  <2>0. u \in Seq(S) /\ Behind(u, t, rest)
    BY <1>3, JoinedBehind
  <2> HIDE DEF u
  <2>1. /\ u \in Seq(S) /\ Len(u) = Len(t) + Len(rest)
        /\ \A j \in 1 .. Len(t) : u[j] = t[j]
        /\ \A j \in 1 .. Len(rest) : u[Len(t) + j] = rest[j]
    BY <2>0 DEF Behind
  <2> QED BY <1>3, <2>1
<1> HIDE DEF u
<1>5. u[1] = first /\ u[n + 2] = count
  <2>1. 1 \in 1 .. n + 1 /\ 1 \in 1 .. n + 2 /\ n + 2 \in 1 .. n + 2
    OBVIOUS
  <2> QED BY <1>2, <1>3, <1>4, <2>1
<1>6. ASSUME NEW k \in 1 .. n PROVE u[1 + k] = keys[k]
  <2>1. 1 + k \in 1 .. n + 1 /\ 1 + k \in 1 .. n + 2
    OBVIOUS
  <2> QED BY <1>2, <1>3, <1>4, <2>1
<1>7. u = <<first>> \o keys \o <<count>> \o rest
  BY DEF u, t, s, one, two
<1> QED BY <1>4, <1>5, <1>6, <1>7 DEF InRow

LEMMA Cut ==
    ASSUME NEW S, NEW s \in Seq(S), NEW m \in Nat, NEW n \in Nat, m + n <= Len(s)
    PROVE  /\ SubSeq(s, m + 1, m + n) \in Seq(S) /\ Len(SubSeq(s, m + 1, m + n)) = n
           /\ \A j \in 1 .. n : SubSeq(s, m + 1, m + n)[j] = s[m + j]
<1> DEFINE t == SubSeq(s, m + 1, m + n)
<1>1. t = [j \in 1 .. n |-> s[m + j]]
  OBVIOUS
<1>2. \A j \in 1 .. n : m + j \in 1 .. Len(s)
  OBVIOUS
<1>3. \A j \in 1 .. n : s[m + j] \in S
  BY <1>2
<1> HIDE DEF t
<1>4. t \in Seq(S) /\ Len(t) = n /\ \A j \in 1 .. n : t[j] = s[m + j]
  BY <1>1, <1>3
<1> QED BY <1>4 DEF t

LEMMA BytesAreNumbers ==
    ASSUME NEW s \in Seq(Bytes)
    PROVE  s \in Seq(Nat)
<1>1. Len(s) \in Nat /\ s = [j \in 1 .. Len(s) |-> s[j]] /\ \A j \in 1 .. Len(s) : s[j] \in Bytes
    OBVIOUS
<1>2. \A x \in Bytes : x \in Nat
    BY DEF Bytes
<1>3. [j \in 1 .. Len(s) |-> s[j]] \in Seq(Nat)
    BY <1>1, <1>2
<1> QED
    BY <1>1, <1>3

LEMMA LengthFirst ==
    ASSUME NEW v \in Seq(Nat)
    PROVE  /\ WithLength(v) \in Seq(Nat) /\ Len(WithLength(v)) = 1 + Len(v) /\ Len(v) \in Nat
           /\ WithLength(v)[1] = Len(v)
<1>1. <<Len(v)>> \in Seq(Nat) /\ Len(<<Len(v)>>) = 1 /\ <<Len(v)>>[1] = Len(v) /\ Len(v) \in Nat
    OBVIOUS
<1> QED
    BY <1>1, JoinedTwo DEF WithLength

LEMMA ConcatText ==
    ASSUME NEW parts \in Seq(Seq(Nat))
    PROVE  Concat(parts) \in Seq(Nat)
<1> DEFINE n == Len(parts)
           upTo == Joins(parts)
<1>1. n \in Nat
  OBVIOUS
<1>2. \A k \in 0 .. n : upTo[k] \in Seq(Nat)
  BY JoinsFacts
<1> HIDE DEF n, upTo
<1>3. upTo[n] \in Seq(Nat)
  BY <1>1, <1>2
<1> QED BY <1>3 DEF Concat, n, upTo

LEMMA ThreeTexts ==
    ASSUME NEW a \in Seq(Nat), NEW b \in Seq(Nat), NEW d \in Seq(Nat)
    PROVE  /\ <<a, b, d>> \in Seq(Seq(Nat)) /\ Len(<<a, b, d>>) = 3
           /\ <<a, b, d>>[1] = a /\ <<a, b, d>>[2] = b /\ <<a, b, d>>[3] = d
OBVIOUS

LEMMA LengthsAdd ==
    ASSUME NEW S, NEW parts \in Seq(Seq(S)), NEW lengths \in Seq(Nat), Len(lengths) = Len(parts),
           \A j \in 1 .. Len(parts) : lengths[j] = Len(parts[j])
    PROVE  \A k \in 0 .. Len(parts) : Sums(lengths)[k] = Len(Joins(parts)[k])
<1> DEFINE L == Len(parts)
           joins == Joins(parts)
           sums == Sums(lengths)
           T == {k \in 0 .. L : sums[k] = Len(joins[k])}
<1>1. L \in Nat /\ \A k \in 1 .. L : parts[k] \in Seq(S)
  OBVIOUS
<1>2. /\ \A n \in 0 .. L : joins[n] \in Seq(S)
      /\ joins[0] = <<>>
      /\ \A n \in 1 .. L : joins[n] = joins[n - 1] \o parts[n]
  BY JoinsFacts
<1>3. sums[0] = 0 /\ \A n \in 1 .. L : sums[n] = sums[n - 1] + lengths[n]
  BY SumsFacts
<1> HIDE DEF joins, sums
<1>4. 0 \in T
  BY <1>1, <1>2, <1>3
<1>5. ASSUME NEW k \in 1 .. L, k - 1 \in T PROVE k \in T
  <2>1. k - 1 \in 0 .. L /\ k \in 0 .. L
    BY <1>1
  <2>2. Len(joins[k - 1] \o parts[k]) = Len(joins[k - 1]) + Len(parts[k])
    BY <1>1, <1>2, <2>1, JoinedTwo
  <2>3. joins[k] = joins[k - 1] \o parts[k] /\ sums[k] = sums[k - 1] + lengths[k]
    BY <1>2, <1>3
  <2>4. sums[k - 1] = Len(joins[k - 1]) /\ lengths[k] = Len(parts[k])
    BY <1>5
  <2>5. sums[k] = Len(joins[k])
    BY <2>2, <2>3, <2>4
  <2> QED BY <2>1, <2>5
<1> HIDE DEF T, L
<1>6. \A k \in 0 .. L : k \in T
  BY <1>1, <1>4, <1>5, BoundedInduction
<1> QED BY <1>6 DEF T, L, joins, sums

LEMMA TextsJoined ==
    ASSUME NEW s \in Seq(Nat), NEW t \in Seq(Nat)
    PROVE  s \o t \in Seq(Nat) /\ Len(s \o t) = Len(s) + Len(t) /\ Len(s) \in Nat /\ Len(t) \in Nat
  BY JoinedTwo

\* The last of several texts, in all.
LEMMA LastOfAll ==
    ASSUME NEW s \in Seq(Seq(Nat)), Len(s) # 0
    PROVE  LET front == Joins(s)[Len(s) - 1]
               last  == s[Len(s)]
           IN  /\ Concat(s) \in Seq(Nat) /\ front \in Seq(Nat) /\ last \in Seq(Nat)
               /\ Len(Concat(s)) = Len(front) + Len(last)
               /\ \A j \in 1 .. Len(last) : Concat(s)[Len(front) + j] = last[j]
<1> DEFINE n == Len(s)
<1>1. n \in 1 .. Len(s)
  OBVIOUS
<1>2. Concat(s) = Joins(s)[n]
  BY Zenon DEF Concat
<1> HIDE DEF n
<1>3. /\ Concat(s) \in Seq(Nat) /\ Joins(s)[n - 1] \in Seq(Nat) /\ s[n] \in Seq(Nat)
      /\ Len(Joins(s)[n]) = Len(Joins(s)[n - 1]) + Len(s[n])
      /\ \A j \in 1 .. Len(s[n]) : Concat(s)[Len(Joins(s)[n - 1]) + j] = s[n][j]
  BY <1>1, PartInWhole, ZenonT(30)
<1>4. Len(Concat(s)) = Len(Joins(s)[n - 1]) + Len(s[n])
  BY <1>2, <1>3, Zenon
<1> QED BY <1>3, <1>4, Zenon DEF n

-----------------------------------------------------------------------------
(* An amount is one of the ways to write its number.                       *)

LEMMA QuotientIs ==
    ASSUME NEW p \in Nat, p # 0, NEW q \in Nat, NEW r \in Nat, r < p
    PROVE  (r + p * q) \div p = q
<1> DEFINE x == r + p * q
           z == x \div p
<1>1. p * q \in Nat /\ q * p = p * q
  OBVIOUS
<1>2. x \in Nat
  BY <1>1
<1> HIDE DEF x
<1>3. z \in Nat /\ z * p <= x /\ x < z * p + p
  BY <1>2
<1> HIDE DEF z
<1>4. z * p \in Nat /\ (z + 1) * p = z * p + p /\ (q + 1) * p = q * p + p
  BY <1>3
<1>5. CASE z <= q /\ q <= z
  BY <1>3, <1>5 DEF z, x
<1>6. CASE z + 1 <= q
  <2>1. (z + 1) * p <= q * p
    BY <1>3, <1>6, ProductMonotonic
  <2> QED BY <1>1, <1>3, <1>4, <2>1 DEF x
<1>7. CASE q + 1 <= z
  <2>1. (q + 1) * p <= z * p
    BY <1>3, <1>7, ProductMonotonic
  <2> QED BY <1>1, <1>3, <1>4, <2>1 DEF x
<1> QED BY <1>3, <1>5, <1>6, <1>7

LEMMA RemainderIs ==
    ASSUME NEW p \in Nat, p # 0, NEW q \in Nat, NEW r \in Nat, r < p
    PROVE  (r + p * q) % p = r
<1> DEFINE x == r + p * q
           z == x \div p
           y == x % p
<1>1. p * q \in Nat
  OBVIOUS
<1>2. x \in Nat
  BY <1>1
<1>3. z = q
  BY QuotientIs
<1>4. x = p * z + y
  BY <1>2
<1> HIDE DEF z
<1> QED BY <1>1, <1>3, <1>4

LEMMA WorthOfOne ==
    ASSUME NEW base \in Nat, base # 0, NEW x \in 0 .. base - 1
    PROVE  <<x>> \in Seq(0 .. base - 1) /\ Worth(base, <<x>>) = x
<1> DEFINE d == <<x>>
           w == Weighted(base, d)
<1>1. d \in Seq(0 .. base - 1) /\ Len(d) = 1 /\ d[1] = x
  OBVIOUS
<1> HIDE DEF d
<1>2. w \in Seq(Nat) /\ Len(w) = 1 /\ w[1] = x * Power(base, 1 - 1)
  <2>1. /\ w \in Seq(Nat) /\ Len(w) = Len(d)
        /\ \A k \in 1 .. Len(d) : w[k] = d[k] * Power(base, k - 1)
    BY <1>1, WeightedFacts
  <2> HIDE DEF w
  <2>2. 1 \in 1 .. Len(d)
    BY <1>1
  <2> QED BY <1>1, <2>1, <2>2
<1>3. Power(base, 1 - 1) = 1
  BY PowersOf
<1> HIDE DEF w
<1>4. Sums(w)[0] = 0 /\ Sums(w)[1] = Sums(w)[1 - 1] + w[1]
  BY <1>2, SumsFacts
<1>5. w[1] = x
  BY <1>2, <1>3
<1>6. SumOf(w) = x
  BY <1>2, <1>4, <1>5 DEF SumOf
<1> QED BY <1>1, <1>6 DEF Worth, w, d

\* A digit of a number is what is left of it, divided by its weight.
LEMMA DigitIs ==
    ASSUME NEW base \in Nat, base # 0, NEW digits \in Seq(0 .. base - 1),
           NEW k \in 1 .. Len(digits)
    PROVE  (Worth(base, digits) \div Power(base, k - 1)) % base = digits[k]
<1> DEFINE D == 0 .. base - 1
           n == Len(digits)
           front == [j \in 1 .. k - 1 |-> digits[j]]
           rest == [j \in 1 .. n - (k - 1) |-> digits[(k - 1) + j]]
           one == <<digits[k]>>
           back == [j \in 1 .. n - k |-> digits[k + j]]
<1>1. /\ front \in Seq(D) /\ Len(front) = k - 1
      /\ \A j \in 1 .. k - 1 : front[j] = digits[j]
  OBVIOUS
<1>2. /\ rest \in Seq(D) /\ Len(rest) = n - (k - 1)
      /\ \A j \in 1 .. n - (k - 1) : rest[j] = digits[(k - 1) + j]
  OBVIOUS
<1>3. /\ back \in Seq(D) /\ Len(back) = n - k
      /\ \A j \in 1 .. n - k : back[j] = digits[k + j]
  OBVIOUS
<1>4. one \in Seq(D) /\ Len(one) = 1 /\ one[1] = digits[k] /\ digits[k] \in D
  OBVIOUS
<1>5. n \in Nat /\ k \in Nat /\ k - 1 \in Nat
  OBVIOUS
<1> HIDE DEF front, rest, one, back, n
<1>6. Behind(digits, front, rest)
  <2>1. n = (k - 1) + (n - (k - 1))
    BY <1>5
  <2> QED BY <1>1, <1>2, <2>1 DEF Behind, n
<1>7. Behind(rest, one, back)
  <2>1. \A j \in 1 .. n - k : 1 + j \in 1 .. n - (k - 1) /\ (k - 1) + (1 + j) = k + j
    BY <1>5
  <2>2. \A j \in 1 .. n - k : rest[1 + j] = back[j]
    BY <1>2, <1>3, <2>1
  <2>3. 1 \in 1 .. n - (k - 1) /\ (k - 1) + 1 = k
    BY <1>5 DEF n
  <2>4. rest[1] = one[1]
    BY <1>2, <1>4, <2>3
  <2>5. n - (k - 1) = 1 + (n - k)
    BY <1>5
  <2> QED BY <1>2, <1>3, <1>4, <2>2, <2>4, <2>5, SMTT(30) DEF Behind
<1> DEFINE P == Power(base, k - 1)
           R == Worth(base, rest)
           F == Worth(base, front)
           B == Worth(base, back)
<1>8. P \in Nat /\ P # 0
  <2> DEFINE m == k - 1
  <2>1. m \in Nat
    BY <1>5
  <2> HIDE DEF m
  <2>2. Power(base, m) \in Nat /\ Power(base, m) >= 1
    BY <2>1, PowersOf
  <2>3. Power(base, m) # 0
    BY <2>2
  <2> QED BY <2>2, <2>3 DEF m
<1>9. R \in Nat /\ F \in Nat /\ B \in Nat /\ F < P
  BY <1>1, <1>2, <1>3, WorthBound
<1>10. Worth(base, digits) = F + P * R
  <2>1. Worth(base, digits) = F + Power(base, Len(front)) * R
    <3>1. front \in Seq(0 .. base - 1) /\ rest \in Seq(0 .. base - 1)
      BY <1>1, <1>2
    <3> QED BY <1>6, <3>1, WorthSplit
  <2> QED BY <1>1, <2>1
<1>11. Power(base, 1) = base
  <2>1. Power(base, 0 + 1) = base * Power(base, 0) /\ Power(base, 0) = 1
    BY PowersOf
  <2> QED BY <2>1
<1>12. R = digits[k] + base * B
  <2>1. R = Worth(base, one) + Power(base, Len(one)) * B
    BY <1>2, <1>3, <1>4, <1>7, WorthSplit
  <2>2. Worth(base, one) = digits[k]
    BY <1>4, WorthOfOne DEF one
  <2> QED BY <1>4, <1>11, <2>1, <2>2
<1> HIDE DEF P, R, F, B
<1>13. (F + P * R) \div P = R
  BY <1>8, <1>9, QuotientIs
<1>14. (digits[k] + base * B) % base = digits[k]
  <2>1. digits[k] \in Nat /\ digits[k] < base
    BY <1>4
  <2> QED BY <1>9, <2>1, RemainderIs
<1> QED BY <1>10, <1>12, <1>13, <1>14 DEF P

LEMMA NumberBytesOf ==
    ASSUME NEW bytes \in Seq(Bytes)
    PROVE  /\ NumberBytes(LittleEndian(bytes), Len(bytes)) = bytes
           /\ LittleEndian(bytes) \in Nat /\ LittleEndian(bytes) < Power(256, Len(bytes))
<1> DEFINE base == 256
           n == Len(bytes)
           number == Worth(base, bytes)
           spelt == NumberBytes(number, n)
<1>1. base \in Nat /\ base # 0 /\ Bytes = 0 .. base - 1 /\ n \in Nat
  BY DEF Bytes
<1>2. LittleEndian(bytes) = number
  BY DEF LittleEndian
<1>3. spelt = [k \in 1 .. n |-> (number \div Power(base, k - 1)) % base]
  BY DEF NumberBytes
<1>0. Len(bytes) = n
  OBVIOUS
<1> HIDE DEF base, n, spelt
<1>4. number \in Nat /\ number < Power(base, n)
  BY <1>0, <1>1, WorthBound
<1>5. \A k \in 1 .. n : (number \div Power(base, k - 1)) % base = bytes[k]
  BY <1>0, <1>1, DigitIs
<1> HIDE DEF number
<1>6. \A k \in 1 .. n : spelt[k] = bytes[k] /\ bytes[k] \in Bytes
  BY <1>0, <1>3, <1>5
<1>7. spelt \in Seq(Bytes) /\ Len(spelt) = n
  <2>1. \A k \in 1 .. n : (number \div Power(base, k - 1)) % base \in Bytes
    BY <1>0, <1>5
  <2> QED BY <1>1, <1>3, <2>1
<1>8. spelt = bytes
  BY <1>0, <1>6, <1>7, SameElements
<1> QED BY <1>0, <1>2, <1>4, <1>8 DEF base, spelt, n

\* What a word can be read from is a way to write the word.
LEMMA FormOf ==
    ASSUME NEW data \in Seq(Bytes), convert_param_to_uint64_le(data)
    PROVE  AsUint64(data) \in Nat /\ data \in AmountForms(AsUint64(data))
<1> DEFINE first == data[1]
           rest == Tail(data)
<1>1. /\ Len(data) \in Nat /\ Len(data) >= 1 /\ first \in Bytes /\ first \in 0 .. 255
      /\ rest \in Seq(Bytes) /\ Len(rest) = Len(data) - 1
  <2>1. Len(data) \in Nat /\ Len(data) >= 1
    BY WordAssumption DEF convert_param_to_uint64_le
  <2>2. data[1] \in Bytes
    BY <2>1
  <2>3. Tail(data) \in Seq(Bytes) /\ Len(Tail(data)) = Len(data) - 1
    BY <2>1
  <2> QED BY <2>1, <2>2, <2>3 DEF Bytes
<1>2. IsPushNumber(first) => first - OPCODE_PUSH_NUMBER \in 1 .. 16 /\ first # 0
  BY <1>1 DEF IsPushNumber, OPCODE_PUSH_NUMBER
<1>3. ASSUME Len(data) = 1 PROVE data = <<first>> /\ rest = <<>>
  <2>1. data = <<first>>
    BY <1>3
  <2>2. rest \in Seq(Bytes) /\ Len(rest) = 0
    BY <1>1, <1>3
  <2> HIDE DEF rest
  <2>3. rest = <<>>
    BY <2>2
  <2> QED BY <2>1, <2>3
<1>4. CASE IsPushNumber(first)
  <2> DEFINE number == first - OPCODE_PUSH_NUMBER
  <2>1. AsUint64(data) = number /\ Len(data) = 1
    BY <1>4 DEF AsUint64, convert_param_to_uint64_le
  <2>2. number \in 1 .. 16 /\ OPCODE_PUSH_NUMBER + number = first
    BY <1>1, <1>2, <1>4, SMTT(30) DEF OPCODE_PUSH_NUMBER
  <2> HIDE DEF number
  <2>3. data = <<OPCODE_PUSH_NUMBER + number>>
    BY <1>3, <2>1, <2>2
  <2>4. data \in AmountForms(number)
    BY <2>2, <2>3 DEF AmountForms
  <2> QED BY <2>1, <2>2, <2>4
<1>5. CASE ~IsPushNumber(first) /\ first = 0
  <2>1. AsUint64(data) = LittleEndian(rest) /\ Len(data) = 1
    BY <1>5 DEF AsUint64, convert_param_to_uint64_le
  <2>2. data = <<0>> /\ rest = <<>>
    BY <1>3, <1>5, <2>1
  <2>3. LittleEndian(rest) = 0
    <3> DEFINE base == 256
    <3>1. base \in Nat /\ base # 0 /\ Bytes = 0 .. base - 1 /\ LittleEndian(rest) = Worth(base, rest)
      BY DEF Bytes, LittleEndian
    <3> HIDE DEF base
    <3>2. Worth(base, rest) \in Nat /\ Worth(base, rest) < Power(base, Len(rest))
      BY <1>1, <3>1, WorthBound
    <3>3. Power(base, 0) = 1 /\ Len(rest) = 0
      BY <1>1, <2>1, <3>1, PowersOf
    <3>4. Worth(base, rest) < 1
      BY <3>2, <3>3
    <3>5. Worth(base, rest) = 0
      BY <3>2, <3>4
    <3> QED BY <3>1, <3>5
  <2>4. data \in AmountForms(0)
    BY <2>2 DEF AmountForms
  <2> QED BY <2>1, <2>3, <2>4
<1>6. CASE ~IsPushNumber(first) /\ first # 0
  <2> DEFINE n == Len(rest)
             number == LittleEndian(rest)
  <2>1. AsUint64(data) = number /\ Len(data) - 1 = first /\ n \in 1 .. U64
    BY <1>6 DEF AsUint64, convert_param_to_uint64_le, convert_bytes_to_uint64_le
  <2>2. NumberBytes(number, n) = rest /\ number \in Nat /\ number < Power(256, n)
    BY <1>1, NumberBytesOf, ZenonT(30)
  <2>3. first = n
    BY <1>1, <2>1
  <2>4. data = <<n>> \o rest
    <3> DEFINE whole == <<n>> \o rest
    <3>1. n \in Bytes /\ <<n>> \in Seq(Bytes) /\ Len(<<n>>) = 1
      <4>1. n \in Bytes
        BY <1>1, <2>3
      <4> QED BY <4>1
    <3>2. /\ whole \in Seq(Bytes) /\ Len(whole) = 1 + n
          /\ \A j \in 1 .. 1 : whole[j] = <<n>>[j]
          /\ \A j \in 1 .. n : whole[1 + j] = rest[j]
      BY <1>1, <3>1, JoinedTwo
    <3>3. \A j \in 1 .. n : data[1 + j] = rest[j]
      BY <1>1
    <3>4. whole[1] = data[1]
      BY <2>3, <3>2
    <3>5. Len(data) = 1 + n /\ n \in Nat
      BY <1>1
    <3> HIDE DEF whole, n
    <3>6. ASSUME NEW j \in 1 .. 1 + n PROVE whole[j] = data[j]
      <4>1. CASE j = 1
        BY <3>4, <4>1
      <4>2. CASE j # 1
        <5>1. j - 1 \in 1 .. n /\ 1 + (j - 1) = j
          BY <3>5, <4>2
        <5> QED BY <3>2, <3>3, <5>1, ZenonT(30)
      <4> QED BY <4>1, <4>2
    <3>7. whole = data
      BY <3>2, <3>5, <3>6, SameElements
    <3> QED BY <3>7 DEF whole
  <2>5. data = WithLength(NumberBytes(number, n))
    BY <2>2, <2>4 DEF WithLength
  <2> HIDE DEF n, number
  <2>6. n \in {l \in 1 .. U64 : number < Power(256, l)}
    BY <2>1, <2>2
  <2>7. data \in AmountForms(number)
    BY <2>5, <2>6 DEF AmountForms
  <2> QED BY <2>1, <2>2, <2>7
<1> QED BY <1>4, <1>5, <1>6

LEMMA FormExists ==
    ASSUME NEW n \in Nat, n < UINT64
    PROVE  \E count : count \in AmountForms(n)
<1>1. U64 \in {l \in 1 .. U64 : n < Power(256, l)}
  BY WordAssumption
<1>2. WithLength(NumberBytes(n, U64)) \in AmountForms(n)
  BY <1>1 DEF AmountForms
<1> QED BY <1>2

\* A number in the form that the parser lets pass is one that the page converts.
LEMMA FormConverts ==
    ASSUME NEW data \in Seq(Bytes), NEW kind \in {"AMOUNT", "UINT128"},
           kind = "AMOUNT" =>
               data # <<>> /\ AmountStarts(data[1]) /\ Len(data) = AmountLength(data[1]),
           kind = "UINT128" => Len(data) = 2 * U64
    PROVE  convert_params_to_uint128_le(kind, kind = "AMOUNT", data)
<1> DEFINE first == data[1]
<1>1. Len(data) \in Nat /\ U64 \in Nat /\ 1 <= U64
  BY WordAssumption
<1>2. CASE kind = "AMOUNT"
  <2>1. data # <<>> /\ AmountStarts(first) /\ Len(data) = AmountLength(first)
    BY <1>2
  <2>2. first \in Nat
    <3>1. \A k \in 1 .. Len(data) : data[k] \in Bytes
      OBVIOUS
    <3>2. 1 \in 1 .. Len(data) /\ Bytes \subseteq Nat
      BY <1>1, <2>1 DEF Bytes
    <3> QED BY <3>1, <3>2
  <2>3. CASE IsPushNumber(first) \/ first = 0
    <3>1. Len(data) = 1
      BY <2>1, <2>3 DEF AmountLength
    <3>2. FitsOneWord(kind, data) /\ convert_param_to_uint64_le(data) /\ 1 <= MaxAmountLength
      BY <1>1, <1>2, <2>3, <3>1 DEF FitsOneWord, convert_param_to_uint64_le, MaxAmountLength
    <3> QED BY <1>2, <3>1, <3>2 DEF convert_params_to_uint128_le
  <2>4. CASE ~(IsPushNumber(first) \/ first = 0)
    <3>1. Len(data) = first + 1 /\ first >= 1 /\ first <= 2 * U64
      BY <2>1, <2>2, <2>4 DEF AmountLength, AmountStarts
    <3>2. Len(data) > 0 /\ Len(data) <= MaxAmountLength
      BY <1>1, <2>2, <3>1 DEF MaxAmountLength
    <3>3. FitsOneWord(kind, data) => convert_param_to_uint64_le(data)
      <4>1. Len(Tail(data)) = Len(data) - 1
        BY <1>1, <2>1
      <4>2. FitsOneWord(kind, data) => Len(data) \in 1 .. U64 + 1 /\ Len(Tail(data)) \in 1 .. U64
        <5> HIDE DEF first
        <5> QED BY <1>1, <2>2, <3>1, <4>1 DEF FitsOneWord
      <4>3. Len(data) - 1 = first
        BY <1>1, <2>2, <3>1
      <4> QED BY <2>4, <4>2, <4>3 DEF convert_param_to_uint64_le, convert_bytes_to_uint64_le
    <3>4. ~FitsOneWord(kind, data) => convert_bytes_to_uint64_le(HighBytes(kind, data))
      <4>1. HighBytes(kind, data) = SubSeq(data, 1 + U64 + 1, Len(data))
        BY <1>2 DEF HighBytes, Skipped
      <4>2. ~FitsOneWord(kind, data) => Len(data) >= U64 + 2
        BY <1>1, <1>2 DEF FitsOneWord
      <4>3. Len(data) >= U64 + 2 =>
                Len(SubSeq(data, 1 + U64 + 1, Len(data))) = Len(data) - (U64 + 1)
        BY <1>1
      <4> DEFINE back == SubSeq(data, 1 + U64 + 1, Len(data))
                 n == Len(data)
      <4>4. n >= U64 + 2 => Len(back) \in 1 .. U64
        <5> HIDE DEF back, first, n
        <5> QED BY <1>1, <2>2, <3>1, <4>3 DEF back, n
      <4> QED BY <4>1, <4>2, <4>4 DEF convert_bytes_to_uint64_le
    <3> QED BY <1>2, <2>1, <3>2, <3>3, <3>4 DEF convert_params_to_uint128_le
  <2> QED BY <2>3, <2>4
<1>3. CASE kind = "UINT128"
  <2>1. Len(data) = 2 * U64
    BY <1>3
  <2>2. HighBytes(kind, data) = SubSeq(data, U64 + 1, 2 * U64)
    BY <1>1, <1>3, <2>1 DEF HighBytes, Skipped
  <2>3. Len(SubSeq(data, U64 + 1, 2 * U64)) = U64
    BY <1>1, <2>1
  <2>4. convert_bytes_to_uint64_le(HighBytes(kind, data)) /\ ~FitsOneWord(kind, data)
    BY <1>1, <1>3, <2>2, <2>3 DEF convert_bytes_to_uint64_le, FitsOneWord
  <2> QED BY <1>1, <1>3, <2>1, <2>4 DEF convert_params_to_uint128_le
<1> QED BY <1>2, <1>3

-----------------------------------------------------------------------------
(* A way to write a number is read as the number.                          *)

\* Every number of so many digits is spelt by some.
LEMMA DigitsFor ==
    ASSUME NEW base \in Nat, base # 0, NEW l \in Nat
    PROVE  \A n \in Nat : n < Power(base, l) =>
               \E digits \in Seq(0 .. base - 1) : Len(digits) = l /\ Worth(base, digits) = n
<1> DEFINE Spelt(m, n) == \E digits \in Seq(0 .. base - 1) : Len(digits) = m /\ Worth(base, digits) = n
           T == {m \in Nat : \A n \in Nat : n < Power(base, m) => Spelt(m, n)}
<1>1. 0 \in T
  <2>1. Power(base, 0) = 1
    BY PowersOf
  <2>2. <<>> \in Seq(0 .. base - 1) /\ Len(<<>>) = 0
    OBVIOUS
  <2>3. Worth(base, <<>>) \in Nat /\ Worth(base, <<>>) < 1
    BY <2>1, <2>2, WorthBound
  <2>4. Worth(base, <<>>) = 0
    BY <2>3
  <2>5. Spelt(0, 0)
    BY <2>2, <2>4
  <2>6. \A n \in Nat : n < Power(base, 0) => n = 0
    BY <2>1
  <2> HIDE DEF Spelt
  <2> QED BY <2>5, <2>6
<1>2. ASSUME NEW m \in Nat, m \in T PROVE m + 1 \in T
  <2> SUFFICES ASSUME NEW n \in Nat, n < Power(base, m + 1) PROVE Spelt(m + 1, n)
    OBVIOUS
  <2> DEFINE x == n % base
             q == n \div base
  <2>1. x \in 0 .. base - 1 /\ x \in Nat /\ q \in Nat /\ n = base * q + x
    OBVIOUS
  <2>2. Power(base, m + 1) = base * Power(base, m) /\ Power(base, m) \in Nat
    BY PowersOf
  <2> HIDE DEF x, q
  <2>3. q < Power(base, m)
    BY <2>1, <2>2
  <2>4. PICK rest \in Seq(0 .. base - 1) : Len(rest) = m /\ Worth(base, rest) = q
    BY <1>2, <2>1, <2>3
  <2>5. <<x>> \in Seq(0 .. base - 1) /\ Worth(base, <<x>>) = x
    BY <2>1, WorthOfOne
  <2>6. <<x>> \o rest \in Seq(0 .. base - 1) /\ Behind(<<x>> \o rest, <<x>>, rest)
    BY <2>4, <2>5, JoinedBehind
  <2>7. Worth(base, <<x>> \o rest) = Worth(base, <<x>>) + Power(base, Len(<<x>>)) * Worth(base, rest)
    BY <2>4, <2>5, <2>6, WorthSplit
  <2>8. Len(<<x>>) = 1 /\ Power(base, 1) = base
    <3>1. Power(base, 0 + 1) = base * Power(base, 0) /\ Power(base, 0) = 1
      BY PowersOf
    <3> QED BY <3>1
  <2>9. Worth(base, <<x>> \o rest) = n
    BY <2>1, <2>4, <2>5, <2>7, <2>8
  <2>10. Len(<<x>> \o rest) = m + 1
    BY <2>4, <2>6, <2>8 DEF Behind
  <2> QED BY <2>6, <2>9, <2>10
<1> HIDE DEF T
<1>3. \A m \in Nat : m \in T
  BY <1>1, <1>2, Induction
<1> QED BY <1>3 DEF T

LEMMA BytesOfNumber ==
    ASSUME NEW n \in Nat, NEW l \in Nat, n < Power(256, l)
    PROVE  /\ NumberBytes(n, l) \in Seq(Bytes) /\ Len(NumberBytes(n, l)) = l
           /\ LittleEndian(NumberBytes(n, l)) = n
<1> DEFINE base == 256
<1>1. base \in Nat /\ base # 0 /\ Bytes = 0 .. base - 1 /\ n < Power(base, l)
  BY DEF Bytes
<1>2. \A bytes : LittleEndian(bytes) = Worth(base, bytes)
  BY DEF LittleEndian
<1> HIDE DEF base
<1>3. PICK bytes \in Seq(0 .. base - 1) : Len(bytes) = l /\ Worth(base, bytes) = n
  BY <1>1, DigitsFor
<1>4. bytes \in Seq(Bytes) /\ LittleEndian(bytes) = n
  BY <1>1, <1>2, <1>3
<1>5. NumberBytes(n, l) = bytes
  BY <1>3, <1>4, NumberBytesOf
<1> QED BY <1>3, <1>4, <1>5

\* The text of an amount.
IsAmountText(v) ==
    v \in Seq(Bytes) /\ v # <<>> /\ AmountStarts(v[1]) /\ Len(v) = AmountLength(v[1])

LEMMA FormReads ==
    ASSUME NEW n \in Nat, NEW v \in AmountForms(n)
    PROVE  /\ IsAmountText(v) /\ convert_param_to_uint64_le(v) /\ AsUint64(v) = n
           /\ v # << 0 >> => v[1] # 0
<1>0. U64 \in Nat /\ 1 <= U64 /\ U64 <= 8
  BY WordAssumption
<1>1. CASE n = 0 /\ v = <<0>>
  <2>1. v \in Seq(Bytes) /\ Len(v) = 1 /\ v[1] = 0 /\ v # <<>>
    BY <1>1 DEF Bytes
  <2>2. ~IsPushNumber(0)
    BY DEF IsPushNumber, OPCODE_PUSH_NUMBER
  <2>3. AmountStarts(0) /\ AmountLength(0) = 1
    BY <1>0, <2>2 DEF AmountStarts, AmountLength
  <2>4. convert_param_to_uint64_le(v)
    BY <1>0, <2>1 DEF convert_param_to_uint64_le
  <2>5. Tail(v) \in Seq(Bytes) /\ Len(Tail(v)) = 0
    BY <2>1
  <2>6. LittleEndian(Tail(v)) \in Nat /\ LittleEndian(Tail(v)) < Power(256, 0)
    BY <2>5, NumberBytesOf, ZenonT(30)
  <2>7. Power(256, 0) = 1
    BY PowerFacts
  <2>8. LittleEndian(Tail(v)) = 0
    BY <2>6, <2>7
  <2>9. AsUint64(v) = 0
    BY <2>1, <2>2, <2>8 DEF AsUint64
  <2> QED BY <1>1, <2>1, <2>3, <2>4, <2>9 DEF IsAmountText
<1>2. CASE n \in 1 .. 16 /\ v = <<OPCODE_PUSH_NUMBER + n>>
  <2>1. v \in Seq(Bytes) /\ Len(v) = 1 /\ v[1] = 80 + n /\ v # <<>> /\ v[1] # 0
    BY <1>2 DEF Bytes, OPCODE_PUSH_NUMBER
  <2>2. IsPushNumber(80 + n)
    BY <1>2 DEF IsPushNumber, OPCODE_PUSH_NUMBER
  <2>3. AmountStarts(v[1]) /\ AmountLength(v[1]) = 1
    BY <2>1, <2>2 DEF AmountStarts, AmountLength
  <2>4. convert_param_to_uint64_le(v)
    BY <1>0, <2>1, <2>2 DEF convert_param_to_uint64_le
  <2>5. AsUint64(v) = n
    BY <2>1, <2>2 DEF AsUint64, OPCODE_PUSH_NUMBER
  <2> QED BY <2>1, <2>3, <2>4, <2>5 DEF IsAmountText
<1>3. ASSUME NEW l \in 1 .. U64, n < Power(256, l), v = WithLength(NumberBytes(n, l))
      PROVE  /\ IsAmountText(v) /\ convert_param_to_uint64_le(v) /\ AsUint64(v) = n /\ v[1] # 0
  <2> DEFINE bytes == NumberBytes(n, l)
  <2>1. l \in Nat /\ bytes \in Seq(Bytes) /\ Len(bytes) = l /\ LittleEndian(bytes) = n
    BY <1>0, <1>3, BytesOfNumber
  <2> HIDE DEF bytes
  <2>2. l \in Bytes /\ <<l>> \in Seq(Bytes) /\ Len(<<l>>) = 1 /\ <<l>>[1] = l
    BY <1>0 DEF Bytes
  <2>3. v = <<l>> \o bytes
    BY <1>3, <2>1 DEF WithLength, bytes
  <2>4. v \in Seq(Bytes) /\ Len(v) = 1 + l /\ v[1] = l /\ \A j \in 1 .. l : v[1 + j] = bytes[j]
    BY <2>1, <2>2, <2>3, JoinedTwo
  <2>5. v # <<>>
    BY <2>4
  <2>6. Tail(v) \in Seq(Bytes) /\ Len(Tail(v)) = l /\ \A j \in 1 .. l : Tail(v)[j] = v[j + 1]
    BY <2>1, <2>4, <2>5
  <2>7. Tail(v) = bytes
    BY <2>1, <2>4, <2>6, SameElements
  <2>8. ~IsPushNumber(l) /\ l # 0
    BY <1>0 DEF IsPushNumber, OPCODE_PUSH_NUMBER
  <2>9. AmountStarts(l) /\ AmountLength(l) = 1 + l
    BY <1>0, <2>8 DEF AmountStarts, AmountLength
  <2>10. convert_param_to_uint64_le(v)
    BY <1>0, <2>1, <2>4, <2>7, <2>8 DEF convert_param_to_uint64_le, convert_bytes_to_uint64_le
  <2>11. AsUint64(v) = n
    BY <2>1, <2>4, <2>7, <2>8 DEF AsUint64
  <2> QED BY <2>4, <2>5, <2>8, <2>9, <2>10, <2>11 DEF IsAmountText
<1>4. \/ n = 0 /\ v = <<0>>
      \/ n \in 1 .. 16 /\ v = <<OPCODE_PUSH_NUMBER + n>>
      \/ \E l \in 1 .. U64 : n < Power(256, l) /\ v = WithLength(NumberBytes(n, l))
  BY DEF AmountForms
<1> QED BY <1>1, <1>2, <1>3, <1>4

=============================================================================
