---------------------------- MODULE JSONSizeProofs --------------------------
(***************************************************************************)
(* ExpectedJSONSize is the length of the document, for every value of      *)
(* every type: strings and lists of any length, numbers of any size.       *)
(*                                                                         *)
(* The recursive functions of JSONSize (Totals, digits and PowerOfTen) are *)
(* defined by choice: that there is a function with the equations of the   *)
(* definition comes first, what it computes follows by induction.  Above   *)
(* the basic types there is no induction, because declarations do not      *)
(* refer to themselves: one lemma for each method.                         *)
(***************************************************************************)
EXTENDS JSONSize, SequenceTheorems, WellFoundedInduction, TLAPS

\* The steps are first-order: Zenon is the backend, and the leaves that reason
\* about numbers or sequences cite SMT.
USE Zenon

-----------------------------------------------------------------------------
(* Induction and recursion on numbers                                      *)

\* A set of numbers has a least one.
LEMMA Least ==
  ASSUME NEW T, T \subseteq Nat, T # {}
  PROVE  \E m \in T : \A n \in T : ~(n < m)
  <1>1. PICK m \in T : \A n \in T : <<n, m>> \notin OpToRel(<, Nat)
    BY NatLessThanWellFounded, WFMin
  <1>2. \A n \in T : ~(n < m)
    BY <1>1 DEF OpToRel
  <1> QED
    BY <1>2

\* A set of numbers that has 0 and the successor of each of its elements has all.
LEMMA Induction ==
  ASSUME NEW S, 0 \in S, \A n \in Nat : n \in S => n + 1 \in S
  PROVE  Nat \subseteq S
  <1> DEFINE T == Nat \ S
  <1> SUFFICES ASSUME T # {} PROVE FALSE
    OBVIOUS
  <1>1. PICK m \in T : \A n \in T : ~(n < m)
    <2>1. T \subseteq Nat
      OBVIOUS
    <2> HIDE DEF T
    <2> QED
      BY <2>1, Least
  <1>2. m \in Nat /\ m # 0
    OBVIOUS
  <1>3. m - 1 \in Nat /\ m - 1 < m /\ (m - 1) + 1 = m
    BY <1>2, SMT
  <1>4. m - 1 \in S
    BY <1>1, <1>3
  <1> QED
    BY <1>3, <1>4

\* f[k] is what m rounds of a loop have computed after k of them.
Rounds(f, m, V, base, step) ==
  /\ f \in [0 .. m -> V]
  /\ f[0] = base
  /\ \A k \in 1 .. m : f[k] = step[k][f[k - 1]]

\* A loop can make any number of rounds.
LEMMA LoopsRun ==
  ASSUME NEW V, NEW base \in V, NEW step \in [Nat -> [V -> V]]
  PROVE  \A m \in Nat : \E f : Rounds(f, m, V, base, step)
  <1> DEFINE S == {m \in Nat : \E f : Rounds(f, m, V, base, step)}
  <1>1. 0 \in S
    <2>1. Rounds([k \in 0 .. 0 |-> base], 0, V, base, step)
      BY SMT DEF Rounds
    <2> QED
      BY <2>1, SMT
  <1>2. ASSUME NEW m \in Nat, m \in S PROVE m + 1 \in S
    <2>1. PICK f : Rounds(f, m, V, base, step)
      BY <1>2
    <2> DEFINE g == [k \in 0 .. m + 1 |-> IF k = m + 1 THEN step[m + 1][f[m]] ELSE f[k]]
    <2>2. f[m] \in V /\ m + 1 \in Nat
      BY <2>1, SMT DEF Rounds
    <2>3. step[m + 1][f[m]] \in V
      BY <2>2, SMT
    <2>4. g \in [0 .. m + 1 -> V]
      BY <2>1, <2>3, SMT DEF Rounds
    <2>5. g[0] = base
      BY <2>1, SMT DEF Rounds
    <2>6. \A k \in 1 .. m + 1 : g[k] = step[k][g[k - 1]]
      BY <2>1, SMT DEF Rounds
    <2> HIDE DEF g
    <2>7. Rounds(g, m + 1, V, base, step)
      BY <2>4, <2>5, <2>6 DEF Rounds
    <2>8. m + 1 \in Nat
      BY SMT
    <2> QED
      BY <2>7, <2>8
  <1> HIDE DEF S
  <1>3. Nat \subseteq S
    BY <1>1, <1>2, Induction
  <1> QED
    BY <1>3 DEF S

\* The first rounds of a loop.
LEMMA ShorterLoop ==
  ASSUME NEW V, NEW base, NEW step, NEW m \in Nat, NEW f, Rounds(f, m + 1, V, base, step)
  PROVE  Rounds([k \in 0 .. m |-> f[k]], m, V, base, step)
  BY SMT DEF Rounds

\* What a loop computes is determined.
LEMMA LoopsAgree ==
  ASSUME NEW V, NEW base, NEW step
  PROVE  \A m \in Nat : \A f, g : Rounds(f, m, V, base, step) /\ Rounds(g, m, V, base, step)
            => f[m] = g[m]
  <1> DEFINE S == {m \in Nat : \A f, g : Rounds(f, m, V, base, step) /\ Rounds(g, m, V, base, step)
            => f[m] = g[m]}
  <1>1. 0 \in S
    BY SMT DEF Rounds
  <1>2. ASSUME NEW m \in Nat, m \in S PROVE m + 1 \in S
    <2>1. ASSUME NEW f, NEW g, Rounds(f, m + 1, V, base, step), Rounds(g, m + 1, V, base, step)
          PROVE  f[m + 1] = g[m + 1]
      <3> DEFINE F == [k \in 0 .. m |-> f[k]]
                 G == [k \in 0 .. m |-> g[k]]
      <3>1. Rounds(F, m, V, base, step) /\ Rounds(G, m, V, base, step)
        BY <2>1, ShorterLoop
      <3>2. F[m] = f[m] /\ G[m] = g[m]
        BY SMT
      <3> HIDE DEF F, G
      <3>3. F[m] = G[m]
        BY <1>2, <3>1
      <3>4. f[m + 1] = step[m + 1][f[m]] /\ g[m + 1] = step[m + 1][g[m]]
        BY <2>1, SMT DEF Rounds
      <3> QED
        BY <3>2, <3>3, <3>4
    <2>2. m + 1 \in Nat
      BY SMT
    <2> QED
      BY <2>1, <2>2
  <1> HIDE DEF S
  <1>3. Nat \subseteq S
    BY <1>1, <1>2, Induction
  <1> QED
    BY <1>3 DEF S

\* One more round.
LEMMA LongerLoop ==
  ASSUME NEW V, NEW base, NEW step, NEW m \in Nat, NEW f, NEW g,
         Rounds(f, m, V, base, step), Rounds(g, m + 1, V, base, step)
  PROVE  g[m + 1] = step[m + 1][f[m]]
  <1> DEFINE h == [k \in 0 .. m |-> g[k]]
  <1>1. Rounds(h, m, V, base, step)
    BY ShorterLoop
  <1>2. h[m] = g[m]
    BY SMT
  <1> HIDE DEF h
  <1>3. h[m] = f[m]
    BY <1>1, LoopsAgree, SMT
  <1>4. g[m + 1] = step[m + 1][g[m]]
    BY SMT DEF Rounds
  <1> QED
    BY <1>2, <1>3, <1>4

\* f[k] is what an endless loop has computed after k rounds.
Loop(f, V, base, step) ==
  /\ f \in [Nat -> V]
  /\ f[0] = base
  /\ \A k \in Nat : f[k + 1] = step[k + 1][f[k]]

\* There is such a function.
LEMMA Recursion ==
  ASSUME NEW V, NEW base \in V, NEW step \in [Nat -> [V -> V]]
  PROVE  \E f : Loop(f, V, base, step)
  <1> DEFINE R(f, m) == Rounds(f, m, V, base, step)
             run(m) == CHOOSE f : R(f, m)
             F == [m \in Nat |-> run(m)[m]]
  <1>1. \A m \in Nat : R(run(m), m)
    BY LoopsRun
  <1>2. \A m \in Nat : F[m] = run(m)[m]
    OBVIOUS
  <1> HIDE DEF run, F
  <1>3. F \in [Nat -> V]
    <2>1. \A m \in Nat : run(m)[m] \in V
      BY <1>1, SMT DEF Rounds
    <2> QED
      BY <2>1 DEF F
  <1>4. F[0] = base
    BY <1>1, <1>2, SMT DEF Rounds
  <1>5. ASSUME NEW m \in Nat PROVE F[m + 1] = step[m + 1][F[m]]
    <2>1. m + 1 \in Nat
      BY SMT
    <2>2. Rounds(run(m + 1), m + 1, V, base, step) /\ Rounds(run(m), m, V, base, step)
      BY <1>1, <2>1
    <2>3. F[m + 1] = run(m + 1)[m + 1] /\ F[m] = run(m)[m]
      BY <1>2, <2>1
    <2> QED
      BY <2>2, <2>3, LongerLoop, SMT
  <1> QED
    BY <1>3, <1>4, <1>5 DEF Loop

-----------------------------------------------------------------------------
(* Sums                                                                    *)

\* What the recursive definition of the sum computes.
LEMMA TotalsFacts ==
  ASSUME NEW s \in Seq(Nat)
  PROVE  /\ Totals(s) \in [0 .. Len(s) -> Nat]
         /\ Totals(s)[0] = 0
         /\ \A n \in 1 .. Len(s) : Totals(s)[n] = Totals(s)[n - 1] + s[n]
  <1> DEFINE add(n, v) == IF n \in 1 .. Len(s) THEN v + s[n] ELSE v
             step == [n \in Nat |-> [v \in Nat |-> add(n, v)]]
             D(f) == [n \in 0 .. Len(s) |-> IF n = 0 THEN 0 ELSE f[n - 1] + s[n]]
  <1>1. Len(s) \in Nat /\ \A n \in 1 .. Len(s) : s[n] \in Nat
    BY SMT
  <1>2. \A n \in Nat : \A v \in Nat : add(n, v) \in Nat
    BY <1>1, SMT
  <1>3. step \in [Nat -> [Nat -> Nat]]
    BY <1>2
  <1>4. \A n \in Nat : \A v \in Nat : step[n][v] = add(n, v)
    OBVIOUS
  <1> HIDE DEF step
  <1>5. PICK f : Rounds(f, Len(s), Nat, 0, step)
    BY <1>1, <1>3, LoopsRun
  <1>6. f \in [0 .. Len(s) -> Nat] /\ f[0] = 0
    BY <1>5 DEF Rounds
  <1>7. \A n \in 1 .. Len(s) : n \in Nat /\ n # 0 /\ n - 1 \in 0 .. Len(s) /\ n \in 0 .. Len(s)
    BY <1>1, SMT
  <1>8. \A n \in 1 .. Len(s) : f[n] = f[n - 1] + s[n]
    BY <1>4, <1>5, <1>6, <1>7 DEF Rounds
  <1>9. \A n \in 0 .. Len(s) : n = 0 \/ n \in 1 .. Len(s)
    BY <1>1, SMT
  <1>10. f = D(f)
    BY <1>6, <1>7, <1>8, <1>9
  <1> DEFINE a == Totals(s)
  <1>11. a = CHOOSE g : g = D(g)
    BY DEF Totals
  <1>12. a = D(a)
    BY <1>10, <1>11
  <1> HIDE DEF a
  <1>13. 0 \in 0 .. Len(s)
    BY <1>1, SMT
  <1>14. a[0] = 0
    BY <1>12, <1>13
  <1>15. \A n \in 1 .. Len(s) : a[n] = a[n - 1] + s[n]
    BY <1>7, <1>12
  <1> DEFINE S == {n \in Nat : n \in 0 .. Len(s) => a[n] \in Nat}
  <1>16. 0 \in S
    BY <1>14, SMT
  <1>17. ASSUME NEW n \in Nat, n \in S PROVE n + 1 \in S
    <2>1. n + 1 \in Nat /\ (n + 1) - 1 = n
      BY SMT
    <2>2. n + 1 \in 0 .. Len(s) => n + 1 \in 1 .. Len(s) /\ n \in 0 .. Len(s)
      BY <1>1, SMT
    <2>3. ASSUME n + 1 \in 0 .. Len(s) PROVE a[n + 1] \in Nat
      <3>1. a[n] \in Nat /\ s[n + 1] \in Nat
        BY <1>1, <1>17, <2>2, <2>3
      <3>2. a[n + 1] = a[n] + s[n + 1]
        BY <1>15, <2>1, <2>2, <2>3
      <3> QED
        BY <3>1, <3>2, SMT
    <2> QED
      BY <2>1, <2>3
  <1> HIDE DEF S
  <1>18. Nat \subseteq S
    BY <1>16, <1>17, Induction
  <1>19. \A n \in 0 .. Len(s) : n \in Nat
    BY <1>1, SMT
  <1>20. \A n \in 0 .. Len(s) : a[n] \in Nat
    BY <1>18, <1>19 DEF S
  <1>21. a \in [0 .. Len(s) -> Nat]
    BY <1>12, <1>20
  <1> QED
    BY <1>14, <1>15, <1>21 DEF a

\* A sum is a number.
LEMMA SumIsNat ==
  ASSUME NEW s \in Seq(Nat)
  PROVE  Sum(s) \in Nat
  <1>1. Len(s) \in 0 .. Len(s)
    BY SMT
  <1> QED
    BY <1>1, TotalsFacts DEF Sum

\* The sums of the short sequences of which objects are made.
LEMMA Sum0 ==
  Sum(<< >>) = 0
  <1>1. << >> \in Seq(Nat) /\ Len(<< >>) = 0
    BY SMT
  <1> QED
    BY <1>1, TotalsFacts DEF Sum

LEMMA Sum1 ==
  ASSUME NEW a \in Nat
  PROVE  Sum(<<a>>) = a
  <1> DEFINE s == <<a>>
             t == Totals(s)
  <1>1. s \in Seq(Nat) /\ Len(s) = 1 /\ s[1] = a
    BY SMT
  <1> HIDE DEF s
  <1>2. t[0] = 0 /\ \A n \in 1 .. 1 : t[n] = t[n - 1] + s[n]
    BY <1>1, TotalsFacts
  <1> HIDE DEF t
  <1>3. t[1] = 0 + a
    BY <1>1, <1>2, SMT
  <1>4. t[1] = a
    BY <1>3, SMT
  <1> QED
    BY <1>1, <1>4 DEF Sum, s, t

LEMMA Sum2 ==
  ASSUME NEW a \in Nat, NEW b \in Nat
  PROVE  Sum(<<a, b>>) = a + b
  <1> DEFINE s == <<a, b>>
             t == Totals(s)
  <1>1. s \in Seq(Nat) /\ Len(s) = 2 /\ s[1] = a /\ s[2] = b
    BY SMT
  <1> HIDE DEF s
  <1>2. t[0] = 0 /\ \A n \in 1 .. 2 : t[n] = t[n - 1] + s[n]
    BY <1>1, TotalsFacts
  <1> HIDE DEF t
  <1>3. t[1] = 0 + a /\ t[2] = t[1] + b
    BY <1>1, <1>2, SMT
  <1>4. t[2] = a + b
    BY <1>3, SMT
  <1> QED
    BY <1>1, <1>4 DEF Sum, s, t

LEMMA Sum3 ==
  ASSUME NEW a \in Nat, NEW b \in Nat, NEW c \in Nat
  PROVE  Sum(<<a, b, c>>) = a + b + c
  <1> DEFINE s == <<a, b, c>>
             t == Totals(s)
  <1>1. s \in Seq(Nat) /\ Len(s) = 3 /\ s[1] = a /\ s[2] = b /\ s[3] = c
    BY SMT
  <1> HIDE DEF s
  <1>2. t[0] = 0 /\ \A n \in 1 .. 3 : t[n] = t[n - 1] + s[n]
    BY <1>1, TotalsFacts
  <1> HIDE DEF t
  <1>3. t[1] = 0 + a /\ t[2] = t[1] + b /\ t[3] = t[2] + c
    BY <1>1, <1>2, SMT
  <1>4. t[3] = a + b + c
    BY <1>3, SMT
  <1> QED
    BY <1>1, <1>4 DEF Sum, s, t

LEMMA Sum5 ==
  ASSUME NEW a \in Nat, NEW b \in Nat, NEW c \in Nat, NEW d \in Nat, NEW e \in Nat
  PROVE  Sum(<<a, b, c, d, e>>) = a + b + c + d + e
  <1> DEFINE s == <<a, b, c, d, e>>
             t == Totals(s)
  <1>1. s \in Seq(Nat) /\ Len(s) = 5 /\ s[1] = a /\ s[2] = b /\ s[3] = c /\ s[4] = d /\ s[5] = e
    BY SMT
  <1> HIDE DEF s
  <1>2. t[0] = 0 /\ \A n \in 1 .. 5 : t[n] = t[n - 1] + s[n]
    BY <1>1, TotalsFacts
  <1> HIDE DEF t
  <1>3. t[1] = 0 + a /\ t[2] = t[1] + b /\ t[3] = t[2] + c
    BY <1>1, <1>2, SMT
  <1>4. t[4] = t[3] + d /\ t[5] = t[4] + e
    BY <1>1, <1>2, SMT
  <1>5. t[5] = a + b + c + d + e
    BY <1>3, <1>4, SMT
  <1> QED
    BY <1>1, <1>5 DEF Sum, s, t

\* Sums of the same length are added term by term.
LEMMA SumsAdd ==
  ASSUME NEW x \in Seq(Nat), NEW y \in Seq(Nat), NEW z \in Seq(Nat),
         Len(x) = Len(z), Len(y) = Len(z),
         \A i \in 1 .. Len(z) : z[i] = x[i] + y[i]
  PROVE  Sum(z) = Sum(x) + Sum(y)
  <1> DEFINE X == Totals(x)
             Y == Totals(y)
             Z == Totals(z)
             S == {n \in Nat : n \in 0 .. Len(z) => Z[n] = X[n] + Y[n]}
  <1>1. /\ X \in [0 .. Len(x) -> Nat] /\ X[0] = 0
        /\ \A n \in 1 .. Len(x) : X[n] = X[n - 1] + x[n]
    BY TotalsFacts
  <1>2. /\ Y \in [0 .. Len(y) -> Nat] /\ Y[0] = 0
        /\ \A n \in 1 .. Len(y) : Y[n] = Y[n - 1] + y[n]
    BY TotalsFacts
  <1>3. /\ Z \in [0 .. Len(z) -> Nat] /\ Z[0] = 0
        /\ \A n \in 1 .. Len(z) : Z[n] = Z[n - 1] + z[n]
    BY TotalsFacts
  <1>4. Len(z) \in Nat /\ \A n \in 1 .. Len(z) : x[n] \in Nat /\ y[n] \in Nat
    <2>1. Len(z) \in Nat
      BY SMT
    <2>2. \A n \in 1 .. Len(z) : x[n] \in Nat
      BY SMTT(30)
    <2>3. \A n \in 1 .. Len(z) : y[n] \in Nat
      BY SMTT(30)
    <2> QED
      BY <2>1, <2>2, <2>3
  <1> HIDE DEF X, Y, Z
  <1>5. 0 \in S
    BY <1>1, <1>2, <1>3, SMT
  <1>6. ASSUME NEW n \in Nat, n \in S PROVE n + 1 \in S
    <2>1. ASSUME n + 1 \in 0 .. Len(z) PROVE Z[n + 1] = X[n + 1] + Y[n + 1]
      <3>1. n \in 0 .. Len(z) /\ n + 1 \in 1 .. Len(z) /\ (n + 1) - 1 = n
        BY <1>4, <2>1, SMT
      <3>2. Z[n] = X[n] + Y[n] /\ X[n] \in Nat /\ Y[n] \in Nat
        BY <1>1, <1>2, <1>6, <3>1
      <3>3. /\ X[n + 1] = X[n] + x[n + 1] /\ Y[n + 1] = Y[n] + y[n + 1]
            /\ Z[n + 1] = Z[n] + z[n + 1] /\ z[n + 1] = x[n + 1] + y[n + 1]
            /\ x[n + 1] \in Nat /\ y[n + 1] \in Nat
        BY <1>1, <1>2, <1>3, <1>4, <3>1
      <3>4. (X[n] + Y[n]) + (x[n + 1] + y[n + 1]) = (X[n] + x[n + 1]) + (Y[n] + y[n + 1])
        <4> DEFINE p == X[n]
                   q == Y[n]
                   r == x[n + 1]
                   s == y[n + 1]
        <4>1. p \in Nat /\ q \in Nat /\ r \in Nat /\ s \in Nat
          BY <3>2, <3>3
        <4> HIDE DEF p, q, r, s
        <4>2. (p + q) + (r + s) = (p + r) + (q + s)
          BY <4>1, SMTT(30)
        <4> QED
          BY <4>2 DEF p, q, r, s
      <3> QED
        BY <3>2, <3>3, <3>4
    <2> QED
      BY <2>1, SMT
  <1> HIDE DEF S
  <1>7. Nat \subseteq S
    BY <1>5, <1>6, Induction
  <1>8. Z[Len(z)] = X[Len(z)] + Y[Len(z)]
    <2>1. Len(z) \in 0 .. Len(z)
      BY <1>4, SMT
    <2> QED
      BY <1>4, <1>7, <2>1 DEF S
  <1> QED
    BY <1>8 DEF Sum, X, Y, Z

\* A sum of greater terms is greater, and equal only if all terms are.
LEMMA SumsCompare ==
  ASSUME NEW x \in Seq(Nat), NEW z \in Seq(Nat), Len(x) = Len(z),
         \A i \in 1 .. Len(z) : x[i] <= z[i]
  PROVE  /\ Sum(x) <= Sum(z)
         /\ Sum(x) = Sum(z) <=> \A i \in 1 .. Len(z) : x[i] = z[i]
  <1> DEFINE X == Totals(x)
             Z == Totals(z)
             P(n) == /\ X[n] <= Z[n]
                     /\ X[n] = Z[n] <=> \A i \in 1 .. n : x[i] = z[i]
             S == {n \in Nat : n \in 0 .. Len(z) => P(n)}
  <1>1. /\ X \in [0 .. Len(x) -> Nat] /\ X[0] = 0
        /\ \A n \in 1 .. Len(x) : X[n] = X[n - 1] + x[n]
    BY TotalsFacts
  <1>2. /\ Z \in [0 .. Len(z) -> Nat] /\ Z[0] = 0
        /\ \A n \in 1 .. Len(z) : Z[n] = Z[n - 1] + z[n]
    BY TotalsFacts
  <1>3. Len(z) \in Nat /\ \A n \in 1 .. Len(z) : x[n] \in Nat /\ z[n] \in Nat
    BY SMTT(30)
  <1> HIDE DEF X, Z
  <1>4. 0 \in S
    BY <1>1, <1>2, SMT
  <1>5. ASSUME NEW n \in Nat, n \in S PROVE n + 1 \in S
    <2>1. ASSUME n + 1 \in 0 .. Len(z) PROVE P(n + 1)
      <3>1. n \in 0 .. Len(z) /\ n + 1 \in 1 .. Len(z) /\ (n + 1) - 1 = n
        BY <1>3, <2>1, SMT
      <3>2. P(n) /\ X[n] \in Nat /\ Z[n] \in Nat
        BY <1>1, <1>2, <1>5, <3>1
      <3>3. /\ X[n + 1] = X[n] + x[n + 1] /\ Z[n + 1] = Z[n] + z[n + 1]
            /\ x[n + 1] \in Nat /\ z[n + 1] \in Nat /\ x[n + 1] <= z[n + 1]
        BY <1>1, <1>2, <1>3, <3>1
      <3>4. /\ X[n + 1] <= Z[n + 1]
            /\ X[n + 1] = Z[n + 1] <=> X[n] = Z[n] /\ x[n + 1] = z[n + 1]
        <4>1. X[n] <= Z[n] /\ X[n] \in Nat /\ Z[n] \in Nat
          BY <3>2
        <4> HIDE DEF P, S
        <4> DEFINE p == X[n]
                   q == Z[n]
                   r == x[n + 1]
                   s == z[n + 1]
        <4>2. p \in Nat /\ q \in Nat /\ r \in Nat /\ s \in Nat /\ p <= q /\ r <= s
          BY <3>3, <4>1
        <4> HIDE DEF p, q, r, s
        <4>3. p + r <= q + s /\ (p + r = q + s <=> p = q /\ r = s)
          BY <4>2, SMTT(30)
        <4> QED
          BY <3>3, <4>3 DEF p, q, r, s
      <3>5. /\ \A i \in 1 .. n + 1 : i \in 1 .. n \/ i = n + 1
            /\ \A i \in 1 .. n : i \in 1 .. n + 1
            /\ n + 1 \in 1 .. n + 1
        BY SMT
      <3> QED
        BY <3>2, <3>4, <3>5
    <2> QED
      BY <2>1, SMT
  <1> HIDE DEF S
  <1>6. Nat \subseteq S
    BY <1>4, <1>5, Induction
  <1>7. P(Len(z))
    <2>1. Len(z) \in 0 .. Len(z)
      BY <1>3, SMT
    <2> QED
      BY <1>3, <1>6, <2>1 DEF S
  <1> QED
    BY <1>7 DEF Sum, X, Z

\* A sequence made of another one, element by element.
LEMMA MappedSeq ==
  ASSUME NEW R, NEW s \in Seq(R), NEW S, NEW f, f \in [1 .. Len(s) -> S]
  PROVE  f \in Seq(S) /\ Len(f) = Len(s)
  BY SMT

-----------------------------------------------------------------------------
(* Strings and byte slices                                                 *)

\* A size and a length of a document: the size is too small unless ok.
Agree(n, m, ok) == n \in Nat /\ m \in Nat /\ n <= m /\ (n = m <=> ok)

CountedChars == Chars \ {"separator", "invalid"}

\* The bytes of a character and what is added for it, and its escape.
LEMMA CharSize ==
  ASSUME NEW c \in Chars
  PROVE  /\ Bytes(c) \in Nat /\ escape(c) \in Nat
         /\ Agree(Bytes(c) + escape(c), Encoded(c), c \in CountedChars)
  BY SMT DEF Chars, CountedChars, Bytes, escape, Encoded, Agree

\* ExpectedJSONSizeString.
LEMMA StringSize ==
  ASSUME NEW s \in Seq(Chars)
  PROVE  Agree(ExpectedJSONSizeString(s), Marshal_string(s), s \in Seq(CountedChars))
  <1> DEFINE x == [i \in DOMAIN s |-> Bytes(s[i])]
             y == [i \in DOMAIN s |-> escape(s[i])]
             b == [i \in DOMAIN s |-> Bytes(s[i]) + escape(s[i])]
             m == [i \in DOMAIN s |-> Encoded(s[i])]
  <1>1. DOMAIN s = 1 .. Len(s) /\ Len(s) \in Nat /\ \A i \in 1 .. Len(s) : s[i] \in Chars
    BY SMT
  <1>2. \A i \in 1 .. Len(s) :
          /\ Bytes(s[i]) \in Nat /\ escape(s[i]) \in Nat
          /\ Agree(Bytes(s[i]) + escape(s[i]), Encoded(s[i]), s[i] \in CountedChars)
    BY <1>1, CharSize
  <1>3. /\ x \in [1 .. Len(s) -> Nat] /\ y \in [1 .. Len(s) -> Nat]
        /\ b \in [1 .. Len(s) -> Nat] /\ m \in [1 .. Len(s) -> Nat]
    BY <1>1, <1>2 DEF Agree
  <1>4. /\ \A i \in 1 .. Len(s) : b[i] = x[i] + y[i] /\ b[i] <= m[i]
        /\ \A i \in 1 .. Len(s) : b[i] = m[i] <=> s[i] \in CountedChars
    BY <1>1, <1>2 DEF Agree
  <1>5. /\ ExpectedJSONSizeString(s) = 2 + Sum(x) + Sum(y)
        /\ Marshal_string(s) = 2 + Sum(m)
    BY DEF ExpectedJSONSizeString, quotes, Marshal_string
  <1> HIDE DEF x, y, b, m
  <1>6. /\ x \in Seq(Nat) /\ y \in Seq(Nat) /\ b \in Seq(Nat) /\ m \in Seq(Nat)
        /\ Len(x) = Len(s) /\ Len(y) = Len(s) /\ Len(b) = Len(s) /\ Len(m) = Len(s)
    BY <1>3, MappedSeq
  <1>7. Sum(b) = Sum(x) + Sum(y)
    <2>1. Len(x) = Len(b) /\ Len(y) = Len(b) /\ \A i \in 1 .. Len(b) : b[i] = x[i] + y[i]
      BY <1>4, <1>6
    <2> QED
      BY <1>6, <2>1, SumsAdd
  <1>8. Sum(b) <= Sum(m) /\ (Sum(b) = Sum(m) <=> \A i \in 1 .. Len(s) : b[i] = m[i])
    <2>1. Len(b) = Len(m) /\ \A i \in 1 .. Len(m) : b[i] <= m[i]
      BY <1>4, <1>6
    <2>2. Sum(b) <= Sum(m) /\ (Sum(b) = Sum(m) <=> \A i \in 1 .. Len(m) : b[i] = m[i])
      BY <1>6, <2>1, SumsCompare
    <2> QED
      BY <1>6, <2>2
  <1>9. Sum(b) = Sum(m) <=> s \in Seq(CountedChars)
    <2>1. s \in Seq(CountedChars) <=> \A i \in 1 .. Len(s) : s[i] \in CountedChars
      BY SMT
    <2> QED
      BY <1>4, <1>8, <2>1
  <1>10. Sum(x) \in Nat /\ Sum(y) \in Nat /\ Sum(m) \in Nat
    BY <1>6, SumIsNat
  <1>11. /\ 2 + Sum(x) + Sum(y) \in Nat /\ 2 + Sum(m) \in Nat
         /\ 2 + Sum(x) + Sum(y) <= 2 + Sum(m)
         /\ 2 + Sum(x) + Sum(y) = 2 + Sum(m) <=> Sum(b) = Sum(m)
    <2>1. Sum(x) + Sum(y) <= Sum(m)
      BY <1>7, <1>8
    <2> HIDE <1>8
    <2> QED
      BY <1>7, <1>10, <2>1, SMT
  <1> QED
    BY <1>5, <1>9, <1>11 DEF Agree

\* ExpectedJSONSizeBinary.
LEMMA BinarySize ==
  ASSUME NEW b \in Pointer(Nat)
  PROVE  ExpectedJSONSizeBinary(b) \in Nat /\ ExpectedJSONSizeBinary(b) = Marshal_bytes(b)
  <1>1. CASE b = Nil
    BY <1>1, NameLengths, SMT DEF ExpectedJSONSizeBinary, Marshal_bytes, Marshal_null, null
  <1>2. CASE b # Nil
    <2>1. b \in Nat
      BY <1>2 DEF Pointer
    <2>2. /\ ((4 * b) \div 3 + 3) - (((4 * b) \div 3 + 3) % 4) = 4 * ((b + 2) \div 3)
          /\ 4 * ((b + 2) \div 3) \in Nat
      <3>1. PICK q \in Nat : b = 3 * q \/ b = 3 * q + 1 \/ b = 3 * q + 2
        <4>1. b \div 3 \in Nat /\ (\/ b = 3 * (b \div 3) \/ b = 3 * (b \div 3) + 1
                                   \/ b = 3 * (b \div 3) + 2)
          BY <2>1, SMT
        <4> QED
          BY <4>1
      <3>2. CASE b = 3 * q
        <4>1. (4 * b) \div 3 = 4 * q /\ (b + 2) \div 3 = q
          BY <3>2, SMT
        <4>2. (4 * q + 3) % 4 = 3
          BY SMT
        <4> QED
          BY <4>1, <4>2, SMT
      <3>3. CASE b = 3 * q + 1
        <4>1. (4 * b) \div 3 = 4 * q + 1 /\ (b + 2) \div 3 = q + 1
          BY <3>3, SMT
        <4>2. ((4 * q + 1) + 3) % 4 = 0
          BY SMT
        <4> QED
          BY <4>1, <4>2, SMT
      <3>4. CASE b = 3 * q + 2
        <4>1. (4 * b) \div 3 = 4 * q + 2 /\ (b + 2) \div 3 = q + 1
          BY <3>4, SMT
        <4>2. ((4 * q + 2) + 3) % 4 = 1
          BY SMT
        <4> QED
          BY <4>1, <4>2, SMT
      <3> QED
        BY <3>1, <3>2, <3>3, <3>4
    <2> DEFINE n == (4 * b) \div 3 + 3
               g == (b + 2) \div 3
    <2>3. n - (n % 4) = 4 * g /\ 4 * g \in Nat
      BY <2>2
    <2>4. ExpectedJSONSizeBinary(b) = (n - (n % 4)) + 2 /\ Marshal_bytes(b) = 2 + 4 * g
      BY <1>2 DEF ExpectedJSONSizeBinary, Marshal_bytes, quotes
    <2> HIDE DEF n, g
    <2> QED
      BY <2>3, <2>4, SMT
  <1> QED
    BY <1>1, <1>2

-----------------------------------------------------------------------------
(* Numbers                                                                 *)

\* What the recursive definition of the powers computes.
LEMMA PowerFacts ==
  /\ \A k \in Nat : PowerOfTen[k] \in Nat
  /\ PowerOfTen[0] = 1
  /\ \A k \in Nat : PowerOfTen[k + 1] = 10 * PowerOfTen[k]
  <1> DEFINE step == [k \in Nat |-> [v \in Nat |-> 10 * v]]
             D(f) == [k \in Nat |-> IF k = 0 THEN 1 ELSE 10 * f[k - 1]]
  <1>1. step \in [Nat -> [Nat -> Nat]] /\ 1 \in Nat
    BY SMT
  <1>2. \A k \in Nat : \A v \in Nat : step[k][v] = 10 * v
    OBVIOUS
  <1> HIDE DEF step
  <1>3. PICK f : Loop(f, Nat, 1, step)
    BY <1>1, Recursion
  <1>4. \A k \in Nat : k # 0 => k - 1 \in Nat /\ (k - 1) + 1 = k
    BY SMT
  <1>5. f \in [Nat -> Nat] /\ f[0] = 1
    BY <1>3 DEF Loop
  <1>6. ASSUME NEW k \in Nat, k # 0 PROVE f[k] = 10 * f[k - 1]
    <2>1. k - 1 \in Nat /\ (k - 1) + 1 = k
      BY <1>4, <1>6
    <2>2. f[(k - 1) + 1] = step[(k - 1) + 1][f[k - 1]] /\ f[k - 1] \in Nat
      BY <1>3, <1>5, <2>1 DEF Loop
    <2> QED
      BY <1>2, <2>1, <2>2
  <1>7. f = D(f)
    BY <1>5, <1>6
  <1> DEFINE p == PowerOfTen
  <1>8. p = CHOOSE g : g = D(g)
    BY DEF PowerOfTen
  <1>9. p = D(p)
    BY <1>7, <1>8
  <1> HIDE DEF p
  <1>10. \A k \in Nat : p[k] = IF k = 0 THEN 1 ELSE 10 * p[k - 1]
    BY <1>9
  <1>11. p[0] = 1
    BY <1>10, SMT
  <1>12. \A k \in Nat : p[k + 1] = 10 * p[k]
    <2> TAKE k \in Nat
    <2>1. k + 1 \in Nat /\ k + 1 # 0 /\ (k + 1) - 1 = k
      BY SMT
    <2> QED
      BY <1>10, <2>1
  <1> DEFINE S == {k \in Nat : p[k] \in Nat}
  <1>13. 0 \in S
    BY <1>11, SMT
  <1>14. \A k \in Nat : k \in S => k + 1 \in S
    BY <1>12, SMT
  <1> HIDE DEF S
  <1>15. Nat \subseteq S
    BY <1>13, <1>14, Induction
  <1> QED
    BY <1>11, <1>12, <1>15 DEF S, p

\* A power is at least ten times each smaller one.
LEMMA PowersGrow ==
  ASSUME NEW j \in Nat, NEW k \in Nat, k < j
  PROVE  10 * PowerOfTen[k] <= PowerOfTen[j]
  <1> DEFINE p == PowerOfTen
             S == {n \in Nat : k < n => 10 * p[k] <= p[n]}
  <1>1. (\A n \in Nat : p[n] \in Nat) /\ (\A n \in Nat : p[n + 1] = 10 * p[n])
    BY PowerFacts
  <1> HIDE DEF p
  <1>2. 0 \in S
    BY SMT
  <1>3. ASSUME NEW n \in Nat, n \in S PROVE n + 1 \in S
    <2>1. p[n] \in Nat /\ p[k] \in Nat /\ p[n + 1] = 10 * p[n]
      BY <1>1
    <2>2. k < n + 1 => k = n \/ k < n
      BY SMT
    <2>3. k < n => 10 * p[k] <= p[n]
      BY <1>3
    <2>4. k < n => 10 * p[k] <= p[n + 1]
      BY <2>1, <2>3, SMT
    <2>5. k = n => 10 * p[k] <= p[n + 1]
      BY <2>1, SMT
    <2> QED
      BY <2>2, <2>4, <2>5, SMT
  <1> HIDE DEF S
  <1>4. Nat \subseteq S
    BY <1>2, <1>3, Induction
  <1> QED
    BY <1>4 DEF S, p

\* A number has one digit more than without its last one.
LEMMA LastDigit ==
  ASSUME NEW n \in Nat, n # 0
  PROVE  /\ n \div 10 \in Nat /\ n \div 10 < n
         /\ n \div 10 = 0 => 1 \in 1 .. n /\ Digits(n, 1)
         /\ \A k \in 1 .. n \div 10 :
              Digits(n \div 10, k) => k + 1 \in 1 .. n /\ Digits(n, k + 1)
  <1> DEFINE m == n \div 10
  <1>1. m \in Nat /\ m < n /\ 10 * m <= n
    BY SMT
  <1>2. ASSUME m = 0 PROVE 1 \in 1 .. n /\ Digits(n, 1)
    <2>1. PowerOfTen[1 - 1] = 1
      BY PowerFacts, SMT
    <2> QED
      BY <1>2, <2>1, SMT DEF Digits
  <1>3. ASSUME NEW k \in 1 .. m, Digits(m, k) PROVE k + 1 \in 1 .. n /\ Digits(n, k + 1)
    <2> DEFINE p == PowerOfTen[k - 1]
    <2>1. k - 1 \in Nat /\ (k - 1) + 1 = k /\ (k + 1) - 1 = k /\ k + 1 \in 1 .. n
      BY <1>1, SMT
    <2>2. p \in Nat /\ PowerOfTen[(k + 1) - 1] = 10 * p
      BY <2>1, PowerFacts
    <2>3. p <= m /\ m \div 10 < p
      BY <1>3 DEF Digits
    <2> HIDE DEF p
    <2>4. m < 10 * p
      <3> HIDE DEF m
      <3> QED
        BY <1>1, <2>2, <2>3, SMT
    <2>5. 10 * p <= n
      <3> HIDE DEF m
      <3> QED
        BY <1>1, <2>2, <2>3, SMT
    <2> QED
      BY <2>1, <2>2, <2>4, <2>5 DEF Digits
  <1> QED
    BY <1>1, <1>2, <1>3

\* So each number has a number of digits,
LEMMA DigitsExist ==
  \A n \in Nat \ {0} : \E k \in 1 .. n : Digits(n, k)
  <1> DEFINE T == {n \in Nat \ {0} : ~\E k \in 1 .. n : Digits(n, k)}
  <1> SUFFICES ASSUME T # {} PROVE FALSE
    OBVIOUS
  <1>1. PICK n \in T : \A m \in T : ~(m < n)
    <2>1. T \subseteq Nat
      OBVIOUS
    <2> HIDE DEF T
    <2> QED
      BY <2>1, Least
  <1>2. n \in Nat /\ n # 0 /\ ~\E k \in 1 .. n : Digits(n, k)
    OBVIOUS
  <1>3. n \div 10 \in Nat /\ n \div 10 < n
    BY <1>2, LastDigit
  <1>4. n \div 10 # 0
    BY <1>2, LastDigit
  <1>5. n \div 10 \notin T
    BY <1>1, <1>3
  <1>6. PICK k \in 1 .. n \div 10 : Digits(n \div 10, k)
    BY <1>3, <1>4, <1>5
  <1> QED
    BY <1>2, <1>6, LastDigit

\* and only one.
LEMMA DigitsUnique ==
  ASSUME NEW n \in Nat, NEW j \in 1 .. n, NEW k \in 1 .. n, Digits(n, j), Digits(n, k)
  PROVE  j = k
  <1>1. ASSUME NEW a \in 1 .. n, NEW b \in 1 .. n, Digits(n, a), Digits(n, b), a < b
        PROVE  FALSE
    <2>1. a - 1 \in Nat /\ b - 1 \in Nat /\ a - 1 < b - 1
      BY <1>1, SMT
    <2> DEFINE p == PowerOfTen[a - 1]
               q == PowerOfTen[b - 1]
    <2>2. p \in Nat /\ q \in Nat /\ 10 * p <= q
      BY <2>1, PowersGrow, PowerFacts
    <2>3. q <= n /\ n \div 10 < p
      BY <1>1 DEF Digits
    <2> HIDE DEF p, q
    <2> QED
      BY <2>2, <2>3, SMT
  <1>2. ~(j < k) /\ ~(k < j)
    BY <1>1
  <1> QED
    BY <1>2, SMT

\* Numeral loses one with the last digit.
LEMMA NumeralStep ==
  ASSUME NEW n \in Nat, n # 0
  PROVE  /\ Numeral(n) \in Nat
         /\ Numeral(n) = 1 + (IF n \div 10 = 0 THEN 0 ELSE Numeral(n \div 10))
  <1> DEFINE m == n \div 10
  <1>1. Numeral(n) \in 1 .. n /\ Digits(n, Numeral(n))
    BY DigitsExist DEF Numeral
  <1>2. m \in Nat
    BY LastDigit
  <1>3. CASE m = 0
    BY <1>1, <1>3, LastDigit, DigitsUnique, SMT
  <1>4. CASE m # 0
    <2>1. Numeral(m) \in 1 .. m /\ Digits(m, Numeral(m))
      BY <1>2, <1>4, DigitsExist DEF Numeral
    <2>2. Numeral(m) + 1 \in 1 .. n /\ Digits(n, Numeral(m) + 1)
      BY <2>1, LastDigit
    <2>3. Numeral(n) = Numeral(m) + 1
      BY <1>1, <2>2, DigitsUnique
    <2> QED
      BY <1>1, <1>2, <1>4, <2>1, <2>3, SMT
  <1> QED
    BY <1>3, <1>4

\* The loop of ExpectedJSONSizeInt and ExpectedJSONSizeUint64 counts the digits.
LEMMA LoopCounts ==
  ASSUME NEW n \in Nat
  PROVE  digits[n] = IF n = 0 THEN 0 ELSE Numeral(n)
  <1> DEFINE F == [i \in Nat |-> IF i = 0 THEN 0 ELSE Numeral(i)]
             D(f) == [i \in Nat |-> IF i = 0 THEN 0 ELSE 1 + f[i \div 10]]
             d == digits
  <1>1. \A i \in Nat : i # 0 => i \div 10 \in Nat /\ i \div 10 < i
    BY LastDigit
  <1>2. \A i \in Nat : i # 0 => F[i] = 1 + F[i \div 10]
    BY <1>1, NumeralStep
  <1>3. \A i \in Nat : F[i] = IF i = 0 THEN 0 ELSE Numeral(i)
    OBVIOUS
  <1>4. F = D(F)
    BY <1>2
  <1>5. d = CHOOSE f : f = D(f)
    BY DEF digits
  <1>6. d = D(d)
    BY <1>4, <1>5
  <1> HIDE DEF F, d
  <1>7. \A i \in Nat : d[i] = IF i = 0 THEN 0 ELSE 1 + d[i \div 10]
    BY <1>6
  <1> DEFINE T == {i \in Nat : d[i] # F[i]}
  <1>8. T = {}
    <2> SUFFICES ASSUME T # {} PROVE FALSE
      OBVIOUS
    <2>1. PICK i \in T : \A m \in T : ~(m < i)
      <3>1. T \subseteq Nat
        OBVIOUS
      <3> HIDE DEF T
      <3> QED
        BY <3>1, Least
    <2>2. i \in Nat /\ d[i] # F[i]
      OBVIOUS
    <2>3. i # 0
      BY <1>3, <1>7, <2>2
    <2>4. d[i \div 10] = F[i \div 10]
      BY <1>1, <2>1, <2>2, <2>3
    <2> QED
      BY <1>2, <1>7, <2>2, <2>3, <2>4
  <1> QED
    BY <1>3, <1>8 DEF d

\* ExpectedJSONSizeUint64.
LEMMA Uint64Size ==
  ASSUME NEW n \in Nat
  PROVE  ExpectedJSONSizeUint64(n) \in Nat /\ ExpectedJSONSizeUint64(n) = Marshal_int(n)
  <1>1. ~(n < 0)
    BY SMT
  <1>2. Marshal_int(n) = Numeral(n)
    BY <1>1 DEF Marshal_int
  <1>3. CASE n = 0
    BY <1>2, <1>3, SMT DEF ExpectedJSONSizeUint64, Numeral
  <1>4. CASE n # 0
    BY <1>2, <1>4, LoopCounts, NumeralStep DEF ExpectedJSONSizeUint64
  <1> QED
    BY <1>3, <1>4

\* ExpectedJSONSizeInt: the loop does not run for the least int.
LEMMA IntSize ==
  ASSUME NEW i \in AllValues.int
  PROVE  Agree(ExpectedJSONSizeInt(i), Marshal_int(i), i \in Counted.int)
  <1>1. MinInt \in Int /\ MinInt < 0
    BY JSONSizeAssumption
  <1>2. i \in Int /\ MinInt <= i
    BY <1>1, SMT DEF AllValues, Basic
  <1>3. i \in Counted.int <=> i # MinInt
    BY <1>1, SMT DEF AllValues, Counted, Basic
  <1>4. CASE i > 0
    <2>1. i \in Nat /\ i # 0 /\ ~(i <= 0) /\ ~(i < 0) /\ i # MinInt
      BY <1>1, <1>2, <1>4, SMT
    <2>2. Numeral(i) \in Nat /\ digits[i] = Numeral(i)
      BY <2>1, NumeralStep, LoopCounts
    <2>3. ExpectedJSONSizeInt(i) = 0 + digits[i] /\ Marshal_int(i) = Numeral(i)
      BY <1>4, <2>1 DEF ExpectedJSONSizeInt, Marshal_int
    <2> QED
      BY <1>3, <2>1, <2>2, <2>3, SMT DEF Agree
  <1>5. CASE i = 0
    <2>1. ~(-i > 0) /\ i <= 0 /\ ~(i > 0) /\ ~(i < 0) /\ i # MinInt
      BY <1>1, <1>2, <1>5, SMT
    <2>2. ExpectedJSONSizeInt(i) = 1 + 0 /\ Marshal_int(i) = 1
      BY <1>5, <2>1 DEF ExpectedJSONSizeInt, Marshal_int, negate, Numeral
    <2> QED
      BY <1>3, <2>1, <2>2, SMT DEF Agree
  <1>6. CASE i < 0 /\ i # MinInt
    <2>1. -i \in Nat /\ -i # 0 /\ -i > 0 /\ i <= 0
      BY <1>2, <1>6, SMT
    <2>2. Numeral(-i) \in Nat /\ digits[-i] = Numeral(-i)
      BY <2>1, NumeralStep, LoopCounts
    <2>3. ExpectedJSONSizeInt(i) = 1 + digits[-i] /\ Marshal_int(i) = 1 + Numeral(-i)
      BY <1>6, <2>1 DEF ExpectedJSONSizeInt, Marshal_int, negate
    <2> QED
      BY <1>3, <1>6, <2>2, <2>3, SMT DEF Agree
  <1>7. CASE i = MinInt
    <2>1. -i \in Nat /\ -i # 0 /\ i <= 0 /\ i < 0 /\ ~(i > 0)
      BY <1>1, <1>7, SMT
    <2>2. Numeral(-i) \in Nat /\ Numeral(-i) # 0
      <3>1. Numeral(-i) \in 1 .. -i
        BY <2>1, DigitsExist DEF Numeral
      <3> QED
        BY <2>1, <3>1, SMT
    <2>3. ExpectedJSONSizeInt(i) = 1 + 0 /\ Marshal_int(i) = 1 + Numeral(-i)
      BY <1>7, <2>1 DEF ExpectedJSONSizeInt, Marshal_int, negate
    <2> QED
      BY <1>3, <1>7, <2>2, <2>3, SMT DEF Agree
  <1> QED
    BY <1>2, <1>4, <1>5, <1>6, <1>7, SMT

\* The basic types.
LEMMA stringSize ==
  ASSUME NEW s \in AllValues.string
  PROVE  Agree(ExpectedJSONSizeString(s), Marshal_string(s), s \in Counted.string)
  BY StringSize DEF AllValues, Counted, Basic, CountedChars

LEMMA bytesSize ==
  ASSUME NEW b \in AllValues.bytes
  PROVE  Agree(ExpectedJSONSizeBinary(b), Marshal_bytes(b), b \in Counted.bytes)
  <1>1. b \in Pointer(Nat) /\ b \in Counted.bytes
    BY DEF AllValues, Counted, Basic
  <1>2. ExpectedJSONSizeBinary(b) \in Nat /\ ExpectedJSONSizeBinary(b) = Marshal_bytes(b)
    BY <1>1, BinarySize
  <1> QED
    BY <1>1, <1>2, SMT DEF Agree

LEMMA uint64Size ==
  ASSUME NEW n \in AllValues.uint64
  PROVE  Agree(ExpectedJSONSizeUint64(n), Marshal_int(n), n \in Counted.uint64)
  <1>1. n \in Nat /\ n \in Counted.uint64
    BY DEF AllValues, Counted, Basic
  <1>2. ExpectedJSONSizeUint64(n) \in Nat /\ ExpectedJSONSizeUint64(n) = Marshal_int(n)
    BY <1>1, Uint64Size
  <1> QED
    BY <1>1, <1>2, SMT DEF Agree

LEMMA boolSize ==
  ASSUME NEW b \in AllValues.bool
  PROVE  Agree(ExpectedJSONSizeBool(b), Marshal_bool(b), b \in Counted.bool)
  <1>1. b \in BOOLEAN /\ b \in Counted.bool
    BY DEF AllValues, Counted, Basic
  <1>2. Marshal_bool(b) = ExpectedJSONSizeBool(b)
    BY NameLengths DEF Marshal_bool, ExpectedJSONSizeBool
  <1>3. ExpectedJSONSizeBool(b) \in Nat
    BY SMT DEF ExpectedJSONSizeBool
  <1> QED
    BY <1>1, <1>2, <1>3, SMT DEF Agree

-----------------------------------------------------------------------------
(* Structs                                                                 *)

\* The objects with the given members.
LEMMA Object0 ==
  Joined(<< >>) = 2
  BY Sum0, SMT DEF Joined

LEMMA Object1 ==
  ASSUME NEW a \in Nat
  PROVE  Joined(<<a>>) = 2 + a
  <1>1. Sum(<<a>>) = a
    BY Sum1
  <1> QED
    BY <1>1, SMT DEF Joined

LEMMA Object2 ==
  ASSUME NEW a \in Nat, NEW b \in Nat
  PROVE  Joined(<<a, b>>) = 2 + (a + b) + 1
  <1>1. Sum(<<a, b>>) = a + b
    BY Sum2
  <1> QED
    BY <1>1, SMT DEF Joined

LEMMA Object3 ==
  ASSUME NEW a \in Nat, NEW b \in Nat, NEW c \in Nat
  PROVE  Joined(<<a, b, c>>) = 2 + (a + b + c) + 2
  <1>1. Sum(<<a, b, c>>) = a + b + c
    BY Sum3
  <1> QED
    BY <1>1, SMT DEF Joined

LEMMA Object5 ==
  ASSUME NEW a \in Nat, NEW b \in Nat, NEW c \in Nat, NEW d \in Nat, NEW e \in Nat
  PROVE  Joined(<<a, b, c, d, e>>) = 2 + (a + b + c + d + e) + 4
  <1>1. Sum(<<a, b, c, d, e>>) = a + b + c + d + e
    BY Sum5, SMTT(30)
  <1> QED
    BY <1>1, SMT DEF Joined

\* What omitted members leave.
LEMMA Concatenations ==
  ASSUME NEW a \in Nat, NEW b \in Nat, NEW c \in Nat
  PROVE  /\ <<a>> \o << >> = <<a>> /\ << >> \o <<a>> = <<a>>
         /\ <<a>> \o <<b>> = <<a, b>>
         /\ <<a, b>> \o << >> = <<a, b>>
         /\ <<a, b>> \o <<c>> = <<a, b, c>>
  <1>1. <<a>> \o << >> = <<a>> /\ << >> \o <<a>> = <<a>> /\ <<a, b>> \o << >> = <<a, b>>
    BY SMT
  <1>2. <<a>> \o <<b>> = <<a, b>>
    <2> DEFINE s == <<a>> \o <<b>>
               t == <<a, b>>
    <2>1. s \in Seq(Nat) /\ t \in Seq(Nat) /\ Len(s) = Len(t)
      BY SMT
    <2>2. \A i \in 1 .. Len(s) : s[i] = t[i]
      BY SMT
    <2> HIDE DEF s, t
    <2>3. s = t
      BY <2>1, <2>2, SeqEqual
    <2> QED
      BY <2>3 DEF s, t
  <1>3. <<a, b>> \o <<c>> = <<a, b, c>>
    <2> DEFINE s == <<a, b>> \o <<c>>
               t == <<a, b, c>>
    <2>1. s \in Seq(Nat) /\ t \in Seq(Nat) /\ Len(s) = Len(t)
      BY SMT
    <2>2. \A i \in 1 .. Len(s) : s[i] = t[i]
      BY SMT
    <2> HIDE DEF s, t
    <2>3. s = t
      BY <2>1, <2>2, SeqEqual
    <2> QED
      BY <2>3 DEF s, t
  <1> QED
    BY <1>1, <1>2, <1>3

\* Coin.ExpectedJSONSize.
LEMMA CoinSize ==
  ASSUME NEW t \in Coin(AllValues.string)
  PROVE  Agree(Size_Coin(t), Marshal_Coin(t),
               t \in Coin(Counted.string))
  <1> DEFINE n1 == ExpectedJSONSizeString(t.Denom)
             m1 == Marshal_string(t.Denom)
             n2 == ExpectedJSONSizeString(t.Amount)
             m2 == Marshal_string(t.Amount)
  <1>1. /\ t.Denom \in AllValues.string
        /\ t.Amount \in AllValues.string
    BY DEF Coin
  <1>2. t \in Coin(Counted.string) <=>
          /\ t.Denom \in Counted.string
          /\ t.Amount \in Counted.string
    BY DEF Coin
  <1>3. /\ Agree(n1, m1, t.Denom \in Counted.string)
        /\ Agree(n2, m2, t.Amount \in Counted.string)
    BY <1>1, stringSize
  <1>4. Size_Coin(t) = 2 + 7 + 1 + n1 + 1
               + 8 + 1 + n2
    BY DEF Size_Coin, brackets, colon, comma
  <1>5. Marshal_Coin(t) =
          Joined(<<2 + 5 + 1 + m1, 2 + 6 + 1 + m2>>)
    BY NameLengths DEF Marshal_Coin, Member
  <1> HIDE DEF n1, m1, n2, m2
  <1>6. /\ n1 \in Nat /\ m1 \in Nat /\ n1 <= m1
        /\ n2 \in Nat /\ m2 \in Nat /\ n2 <= m2
    BY <1>3 DEF Agree
  <1>7. Marshal_Coin(t) =
          2 + ((2 + 5 + 1 + m1) + (2 + 6 + 1 + m2)) + 1
    <2>1. 2 + 5 + 1 + m1 \in Nat /\ 2 + 6 + 1 + m2 \in Nat
      BY <1>6, SMT
    <2> QED
      BY <1>5, <2>1, Object2
  <1>8. /\ Size_Coin(t) \in Nat /\ Marshal_Coin(t) \in Nat
        /\ Size_Coin(t) <= Marshal_Coin(t)
        /\ Size_Coin(t) = Marshal_Coin(t) <=>
             n1 = m1 /\ n2 = m2
    BY <1>4, <1>6, <1>7, SMTT(30)
  <1> QED
    BY <1>2, <1>3, <1>8 DEF Agree

\* ExpectedJSONSizeArray.
LEMMA CoinsSize ==
  ASSUME NEW a \in AllValues.Coins
  PROVE  Agree(ExpectedJSONSizeArray(a), Marshal_Coins(a), a \in Counted.Coins)
  <1> DEFINE x == [i \in DOMAIN a |-> Size_Coin(a[i])]
             m == [i \in DOMAIN a |-> Marshal_Coin(a[i])]
             A == Coin(AllValues.string)
             C == Coin(Counted.string)
  <1>1. a \in Seq(A) /\ (a \in Counted.Coins <=> a \in Seq(C))
    BY DEF AllValues, Counted, Basic
  <1> HIDE DEF A, C
  <1>2. /\ DOMAIN a = 1 .. Len(a) /\ Len(a) \in Nat
        /\ \A i \in 1 .. Len(a) : a[i] \in A
    BY <1>1, SMT
  <1>3. \A i \in 1 .. Len(a) : Agree(Size_Coin(a[i]), Marshal_Coin(a[i]), a[i] \in C)
    BY <1>2, CoinSize DEF A, C
  <1>4. x \in [1 .. Len(a) -> Nat] /\ m \in [1 .. Len(a) -> Nat]
    BY <1>2, <1>3 DEF Agree
  <1>5. \A i \in 1 .. Len(a) : x[i] <= m[i] /\ (x[i] = m[i] <=> a[i] \in C)
    BY <1>2, <1>3 DEF Agree
  <1> DEFINE k == IF a = << >> THEN 0 ELSE Len(a) - 1
  <1>6. /\ ExpectedJSONSizeArray(a) = 2 + (IF a = << >> THEN 0 ELSE 1 * (Len(a) - 1)) + Sum(x)
        /\ Marshal_Coins(a) = 2 + Sum(m) + (IF m = << >> THEN 0 ELSE Len(m) - 1)
    BY DEF ExpectedJSONSizeArray, Marshal_Coins, Joined, brackets, comma
  <1> HIDE DEF x, m
  <1>7. /\ x \in Seq(Nat) /\ m \in Seq(Nat) /\ Len(x) = Len(a) /\ Len(m) = Len(a)
    BY <1>1, <1>4, MappedSeq
  <1>8. Sum(x) \in Nat /\ Sum(m) \in Nat
    BY <1>7, SumIsNat
  <1>9. Sum(x) <= Sum(m) /\ (Sum(x) = Sum(m) <=> \A i \in 1 .. Len(a) : x[i] = m[i])
    <2>1. Len(x) = Len(m) /\ \A i \in 1 .. Len(m) : x[i] <= m[i]
      BY <1>5, <1>7
    <2>2. Sum(x) <= Sum(m) /\ (Sum(x) = Sum(m) <=> \A i \in 1 .. Len(m) : x[i] = m[i])
      BY <1>7, <2>1, SumsCompare
    <2> QED
      BY <1>7, <2>2
  <1>10. Sum(x) = Sum(m) <=> a \in Counted.Coins
    <2>1. a \in Seq(C) <=> \A i \in 1 .. Len(a) : a[i] \in C
      BY <1>1, SMT
    <2> QED
      BY <1>1, <1>5, <1>9, <2>1
  <1>11. k \in Nat /\ (IF m = << >> THEN 0 ELSE Len(m) - 1) = k
    <2>1. (a = << >> <=> Len(a) = 0) /\ (m = << >> <=> Len(m) = 0)
      BY <1>1, <1>7, SMT
    <2> QED
      BY <1>2, <1>7, <2>1, SMT
  <1>12. (IF a = << >> THEN 0 ELSE 1 * (Len(a) - 1)) = k
    BY <1>2, SMT
  <1> HIDE DEF k
  <1>13. ExpectedJSONSizeArray(a) = 2 + k + Sum(x) /\ Marshal_Coins(a) = 2 + Sum(m) + k
    BY <1>6, <1>11, <1>12
  <1>14. /\ 2 + k + Sum(x) \in Nat /\ 2 + Sum(m) + k \in Nat /\ 2 + k + Sum(x) <= 2 + Sum(m) + k
         /\ 2 + k + Sum(x) = 2 + Sum(m) + k <=> Sum(x) = Sum(m)
    <2>1. Sum(x) <= Sum(m) /\ k \in Nat
      BY <1>9, <1>11
    <2> QED
      BY <1>8, <2>1, SMT
  <1> QED
    BY <1>10, <1>13, <1>14 DEF Agree

\* The messages with two pointers.
LEMMA VariantsAgree ==
  ASSUME NEW x, NEW y, NEW a, NEW b, NEW c, NEW d,
         x # Nil => a \in Nat /\ c \in Nat /\ a <= c,
         y # Nil => b \in Nat /\ d \in Nat /\ b <= d
  PROVE  Agree(Variants(x, a, y, b), Joined(OmitEmpty(c, x, Nil) \o OmitEmpty(d, y, Nil)),
               (x # Nil => a = c) /\ (y # Nil => b = d))
  <1>1. CASE x = Nil /\ y = Nil
    <2>1. Variants(x, a, y, b) = 2 + 0 + 0 + 0
      BY <1>1 DEF Variants, brackets
    <2>2. OmitEmpty(c, x, Nil) \o OmitEmpty(d, y, Nil) = << >>
      BY <1>1, SMT DEF OmitEmpty
    <2>3. Joined(<< >>) = 2
      BY Object0
    <2> QED
      BY <1>1, <2>1, <2>2, <2>3, SMT DEF Agree
  <1>2. CASE x # Nil /\ y = Nil
    <2>1. Variants(x, a, y, b) = 2 + a + 0 + 0
      BY <1>2 DEF Variants, brackets
    <2>2. OmitEmpty(c, x, Nil) \o OmitEmpty(d, y, Nil) = <<c>>
      BY <1>2, Concatenations DEF OmitEmpty
    <2>3. Joined(<<c>>) = 2 + c
      BY <1>2, Object1
    <2> QED
      BY <1>2, <2>1, <2>2, <2>3, SMT DEF Agree
  <1>3. CASE x = Nil /\ y # Nil
    <2>1. Variants(x, a, y, b) = 2 + 0 + 0 + b
      BY <1>3 DEF Variants, brackets
    <2>2. OmitEmpty(c, x, Nil) \o OmitEmpty(d, y, Nil) = <<d>>
      BY <1>3, Concatenations DEF OmitEmpty
    <2>3. Joined(<<d>>) = 2 + d
      BY <1>3, Object1
    <2> QED
      BY <1>3, <2>1, <2>2, <2>3, SMT DEF Agree
  <1>4. CASE x # Nil /\ y # Nil
    <2>1. Variants(x, a, y, b) = 2 + a + 1 + b
      BY <1>4 DEF Variants, brackets, comma
    <2>2. OmitEmpty(c, x, Nil) \o OmitEmpty(d, y, Nil) = <<c, d>>
      BY <1>4, Concatenations DEF OmitEmpty
    <2>3. Joined(<<c, d>>) = 2 + (c + d) + 1
      BY <1>4, Object2
    <2> QED
      BY <1>4, <2>1, <2>2, <2>3, SMTT(30) DEF Agree
  <1> QED
    BY <1>1, <1>2, <1>3, <1>4

\* IBCEndpoint.ExpectedJSONSize.
LEMMA IBCEndpointSize ==
  ASSUME NEW t \in IBCEndpoint(AllValues)
  PROVE  Agree(Size_IBCEndpoint(t), Marshal_IBCEndpoint(t),
               t \in IBCEndpoint(Counted))
  <1> DEFINE n1 == ExpectedJSONSizeString(t.PortID)
             m1 == Marshal_string(t.PortID)
             n2 == ExpectedJSONSizeString(t.ChannelID)
             m2 == Marshal_string(t.ChannelID)
  <1>1. /\ t.PortID \in AllValues.string
        /\ t.ChannelID \in AllValues.string
    BY DEF IBCEndpoint
  <1>2. t \in IBCEndpoint(Counted) <=>
          /\ t.PortID \in Counted.string
          /\ t.ChannelID \in Counted.string
    BY DEF IBCEndpoint
  <1>3. /\ Agree(n1, m1, t.PortID \in Counted.string)
        /\ Agree(n2, m2, t.ChannelID \in Counted.string)
    BY <1>1, stringSize
  <1>4. Size_IBCEndpoint(t) = 2 + 9 + 1 + n1 + 1
               + 12 + 1 + n2
    BY DEF Size_IBCEndpoint, brackets, colon, comma
  <1>5. Marshal_IBCEndpoint(t) =
          Joined(<<2 + 7 + 1 + m1, 2 + 10 + 1 + m2>>)
    BY NameLengths DEF Marshal_IBCEndpoint, Member
  <1> HIDE DEF n1, m1, n2, m2
  <1>6. /\ n1 \in Nat /\ m1 \in Nat /\ n1 <= m1
        /\ n2 \in Nat /\ m2 \in Nat /\ n2 <= m2
    BY <1>3 DEF Agree
  <1>7. Marshal_IBCEndpoint(t) =
          2 + ((2 + 7 + 1 + m1) + (2 + 10 + 1 + m2)) + 1
    <2>1. 2 + 7 + 1 + m1 \in Nat /\ 2 + 10 + 1 + m2 \in Nat
      BY <1>6, SMT
    <2> QED
      BY <1>5, <2>1, Object2
  <1>8. /\ Size_IBCEndpoint(t) \in Nat /\ Marshal_IBCEndpoint(t) \in Nat
        /\ Size_IBCEndpoint(t) <= Marshal_IBCEndpoint(t)
        /\ Size_IBCEndpoint(t) = Marshal_IBCEndpoint(t) <=>
             n1 = m1 /\ n2 = m2
    BY <1>4, <1>6, <1>7, SMTT(30)
  <1> QED
    BY <1>2, <1>3, <1>8 DEF Agree

\* IBCChannel.ExpectedJSONSize.
LEMMA IBCChannelSize ==
  ASSUME NEW t \in IBCChannel(AllValues)
  PROVE  Agree(Size_IBCChannel(t), Marshal_IBCChannel(t),
               t \in IBCChannel(Counted))
  <1> DEFINE n1 == Size_IBCEndpoint(t.Endpoint)
             m1 == Marshal_IBCEndpoint(t.Endpoint)
             n2 == Size_IBCEndpoint(t.CounterpartyEndpoint)
             m2 == Marshal_IBCEndpoint(t.CounterpartyEndpoint)
             n3 == ExpectedJSONSizeString(t.Order)
             m3 == Marshal_string(t.Order)
             n4 == ExpectedJSONSizeString(t.Version)
             m4 == Marshal_string(t.Version)
             n5 == ExpectedJSONSizeString(t.ConnectionID)
             m5 == Marshal_string(t.ConnectionID)
  <1>1. /\ t.Endpoint \in IBCEndpoint(AllValues)
        /\ t.CounterpartyEndpoint \in IBCEndpoint(AllValues)
        /\ t.Order \in AllValues.string
        /\ t.Version \in AllValues.string
        /\ t.ConnectionID \in AllValues.string
    BY DEF IBCChannel
  <1>2. t \in IBCChannel(Counted) <=>
          /\ t.Endpoint \in IBCEndpoint(Counted)
          /\ t.CounterpartyEndpoint \in IBCEndpoint(Counted)
          /\ t.Order \in Counted.string
          /\ t.Version \in Counted.string
          /\ t.ConnectionID \in Counted.string
    BY DEF IBCChannel
  <1>3. /\ Agree(n1, m1, t.Endpoint \in IBCEndpoint(Counted))
        /\ Agree(n2, m2, t.CounterpartyEndpoint \in IBCEndpoint(Counted))
        /\ Agree(n3, m3, t.Order \in Counted.string)
        /\ Agree(n4, m4, t.Version \in Counted.string)
        /\ Agree(n5, m5, t.ConnectionID \in Counted.string)
    BY <1>1, IBCEndpointSize, stringSize
  <1>4. Size_IBCChannel(t) = 2 + 10 + 1 + n1 + 1
               + 23 + 1 + n2 + 1
               + 7 + 1 + n3 + 1
               + 9 + 1 + n4 + 1
               + 15 + 1 + n5
    BY DEF Size_IBCChannel, brackets, colon, comma
  <1>5. Marshal_IBCChannel(t) =
          Joined(<<2 + 8 + 1 + m1, 2 + 21 + 1 + m2, 2 + 5 + 1 + m3,
                   2 + 7 + 1 + m4, 2 + 13 + 1 + m5>>)
    BY NameLengths DEF Marshal_IBCChannel, Member
  <1> HIDE DEF n1, m1, n2, m2, n3, m3, n4, m4, n5, m5
  <1>6. /\ n1 \in Nat /\ m1 \in Nat /\ n1 <= m1
        /\ n2 \in Nat /\ m2 \in Nat /\ n2 <= m2
        /\ n3 \in Nat /\ m3 \in Nat /\ n3 <= m3
        /\ n4 \in Nat /\ m4 \in Nat /\ n4 <= m4
        /\ n5 \in Nat /\ m5 \in Nat /\ n5 <= m5
    BY <1>3 DEF Agree
  <1>7. Marshal_IBCChannel(t) =
          2 + ((2 + 8 + 1 + m1) + (2 + 21 + 1 + m2) + (2 + 5 + 1 + m3)
               + (2 + 7 + 1 + m4) + (2 + 13 + 1 + m5)) + 4
    <2> DEFINE q1 == 2 + 8 + 1 + m1
               q2 == 2 + 21 + 1 + m2
               q3 == 2 + 5 + 1 + m3
               q4 == 2 + 7 + 1 + m4
               q5 == 2 + 13 + 1 + m5
    <2>1. q1 \in Nat /\ q2 \in Nat /\ q3 \in Nat /\ q4 \in Nat /\ q5 \in Nat
      BY <1>6, SMT
    <2>2. Marshal_IBCChannel(t) = Joined(<<q1, q2, q3, q4, q5>>)
      BY <1>5
    <2> HIDE DEF q1, q2, q3, q4, q5
    <2>3. Joined(<<q1, q2, q3, q4, q5>>) = 2 + (q1 + q2 + q3 + q4 + q5) + 4
      BY <2>1, Object5, SMTT(30)
    <2> QED
      BY <2>2, <2>3 DEF q1, q2, q3, q4, q5
  <1>8. /\ Size_IBCChannel(t) \in Nat /\ Marshal_IBCChannel(t) \in Nat
        /\ Size_IBCChannel(t) <= Marshal_IBCChannel(t)
        /\ Size_IBCChannel(t) = Marshal_IBCChannel(t) <=>
             n1 = m1 /\ n2 = m2 /\ n3 = m3 /\ n4 = m4 /\ n5 = m5
    BY <1>4, <1>6, <1>7, SMTT(30)
  <1> QED
    BY <1>2, <1>3, <1>8 DEF Agree

\* IBCOpenInit.ExpectedJSONSize.
LEMMA IBCOpenInitSize ==
  ASSUME NEW t \in IBCOpenInit(AllValues)
  PROVE  Agree(Size_IBCOpenInit(t), Marshal_IBCOpenInit(t),
               t \in IBCOpenInit(Counted))
  <1> DEFINE n1 == Size_IBCChannel(t.Channel)
             m1 == Marshal_IBCChannel(t.Channel)
  <1>1. /\ t.Channel \in IBCChannel(AllValues)
    BY DEF IBCOpenInit
  <1>2. t \in IBCOpenInit(Counted) <=>
          /\ t.Channel \in IBCChannel(Counted)
    BY DEF IBCOpenInit
  <1>3. /\ Agree(n1, m1, t.Channel \in IBCChannel(Counted))
    BY <1>1, IBCChannelSize
  <1>4. Size_IBCOpenInit(t) = 2 + 9 + 1 + n1
    BY DEF Size_IBCOpenInit, brackets, colon, comma
  <1>5. Marshal_IBCOpenInit(t) =
          Joined(<<2 + 7 + 1 + m1>>)
    BY NameLengths DEF Marshal_IBCOpenInit, Member
  <1> HIDE DEF n1, m1
  <1>6. /\ n1 \in Nat /\ m1 \in Nat /\ n1 <= m1
    BY <1>3 DEF Agree
  <1>7. Marshal_IBCOpenInit(t) =
          2 + (2 + 7 + 1 + m1)
    <2>1. 2 + 7 + 1 + m1 \in Nat
      BY <1>6, SMT
    <2> QED
      BY <1>5, <2>1, Object1
  <1>8. /\ Size_IBCOpenInit(t) \in Nat /\ Marshal_IBCOpenInit(t) \in Nat
        /\ Size_IBCOpenInit(t) <= Marshal_IBCOpenInit(t)
        /\ Size_IBCOpenInit(t) = Marshal_IBCOpenInit(t) <=>
             n1 = m1
    BY <1>4, <1>6, <1>7, SMTT(30)
  <1> QED
    BY <1>2, <1>3, <1>8 DEF Agree

\* IBCOpenTry.ExpectedJSONSize.
LEMMA IBCOpenTrySize ==
  ASSUME NEW t \in IBCOpenTry(AllValues)
  PROVE  Agree(Size_IBCOpenTry(t), Marshal_IBCOpenTry(t),
               t \in IBCOpenTry(Counted))
  <1> DEFINE n1 == Size_IBCChannel(t.Channel)
             m1 == Marshal_IBCChannel(t.Channel)
             n2 == ExpectedJSONSizeString(t.CounterpartyVersion)
             m2 == Marshal_string(t.CounterpartyVersion)
  <1>1. /\ t.Channel \in IBCChannel(AllValues)
        /\ t.CounterpartyVersion \in AllValues.string
    BY DEF IBCOpenTry
  <1>2. t \in IBCOpenTry(Counted) <=>
          /\ t.Channel \in IBCChannel(Counted)
          /\ t.CounterpartyVersion \in Counted.string
    BY DEF IBCOpenTry
  <1>3. /\ Agree(n1, m1, t.Channel \in IBCChannel(Counted))
        /\ Agree(n2, m2, t.CounterpartyVersion \in Counted.string)
    BY <1>1, IBCChannelSize, stringSize
  <1>4. Size_IBCOpenTry(t) = 2 + 9 + 1 + n1 + 1
               + 22 + 1 + n2
    BY DEF Size_IBCOpenTry, brackets, colon, comma
  <1>5. Marshal_IBCOpenTry(t) =
          Joined(<<2 + 7 + 1 + m1, 2 + 20 + 1 + m2>>)
    BY NameLengths DEF Marshal_IBCOpenTry, Member
  <1> HIDE DEF n1, m1, n2, m2
  <1>6. /\ n1 \in Nat /\ m1 \in Nat /\ n1 <= m1
        /\ n2 \in Nat /\ m2 \in Nat /\ n2 <= m2
    BY <1>3 DEF Agree
  <1>7. Marshal_IBCOpenTry(t) =
          2 + ((2 + 7 + 1 + m1) + (2 + 20 + 1 + m2)) + 1
    <2>1. 2 + 7 + 1 + m1 \in Nat /\ 2 + 20 + 1 + m2 \in Nat
      BY <1>6, SMT
    <2> QED
      BY <1>5, <2>1, Object2
  <1>8. /\ Size_IBCOpenTry(t) \in Nat /\ Marshal_IBCOpenTry(t) \in Nat
        /\ Size_IBCOpenTry(t) <= Marshal_IBCOpenTry(t)
        /\ Size_IBCOpenTry(t) = Marshal_IBCOpenTry(t) <=>
             n1 = m1 /\ n2 = m2
    BY <1>4, <1>6, <1>7, SMTT(30)
  <1> QED
    BY <1>2, <1>3, <1>8 DEF Agree

\* IBCChannelOpenMsg.ExpectedJSONSize.
LEMMA IBCChannelOpenMsgSize ==
  ASSUME NEW t \in IBCChannelOpenMsg(AllValues)
  PROVE  Agree(Size_IBCChannelOpenMsg(t), Marshal_IBCChannelOpenMsg(t),
               t \in IBCChannelOpenMsg(Counted))
  <1> DEFINE n1 == Size_IBCOpenInit(t.OpenInit)
             m1 == Marshal_IBCOpenInit(t.OpenInit)
             n2 == Size_IBCOpenTry(t.OpenTry)
             m2 == Marshal_IBCOpenTry(t.OpenTry)
  <1>1. /\ t.OpenInit \in Pointer(IBCOpenInit(AllValues))
        /\ t.OpenTry \in Pointer(IBCOpenTry(AllValues))
    BY DEF IBCChannelOpenMsg
  <1>2. t \in IBCChannelOpenMsg(Counted) <=>
          /\ t.OpenInit \in Pointer(IBCOpenInit(Counted))
          /\ t.OpenTry \in Pointer(IBCOpenTry(Counted))
    BY DEF IBCChannelOpenMsg
  <1>3. t.OpenInit # Nil => Agree(n1, m1, t.OpenInit \in IBCOpenInit(Counted))
    BY <1>1, IBCOpenInitSize DEF Pointer
  <1>4. t.OpenTry # Nil => Agree(n2, m2, t.OpenTry \in IBCOpenTry(Counted))
    BY <1>1, IBCOpenTrySize DEF Pointer
  <1>5. Size_IBCChannelOpenMsg(t) =
          Variants(t.OpenInit, 11 + 1 + n1, t.OpenTry, 10 + 1 + n2)
    BY DEF Size_IBCChannelOpenMsg, colon
  <1>6. Marshal_IBCChannelOpenMsg(t) =
          Joined(OmitEmpty(2 + 9 + 1 + m1, t.OpenInit, Nil)
                 \o OmitEmpty(2 + 8 + 1 + m2, t.OpenTry, Nil))
    BY NameLengths DEF Marshal_IBCChannelOpenMsg, Member
  <1> HIDE DEF n1, m1, n2, m2
  <1>7. /\ t.OpenInit # Nil => n1 \in Nat /\ m1 \in Nat /\ n1 <= m1
        /\ t.OpenTry # Nil => n2 \in Nat /\ m2 \in Nat /\ n2 <= m2
    BY <1>3, <1>4 DEF Agree
  <1> DEFINE a == 11 + 1 + n1
             b == 10 + 1 + n2
             c == 2 + 9 + 1 + m1
             d == 2 + 8 + 1 + m2
  <1>8. /\ t.OpenInit # Nil => a \in Nat /\ c \in Nat /\ a <= c
        /\ t.OpenTry # Nil => b \in Nat /\ d \in Nat /\ b <= d
        /\ t.OpenInit # Nil => (a = c <=> n1 = m1)
        /\ t.OpenTry # Nil => (b = d <=> n2 = m2)
    BY <1>7, SMT
  <1>9. /\ Size_IBCChannelOpenMsg(t) = Variants(t.OpenInit, a, t.OpenTry, b)
        /\ Marshal_IBCChannelOpenMsg(t) =
             Joined(OmitEmpty(c, t.OpenInit, Nil) \o OmitEmpty(d, t.OpenTry, Nil))
    BY <1>5, <1>6
  <1> HIDE DEF a, b, c, d
  <1>10. Agree(Variants(t.OpenInit, a, t.OpenTry, b),
               Joined(OmitEmpty(c, t.OpenInit, Nil) \o OmitEmpty(d, t.OpenTry, Nil)),
               (t.OpenInit # Nil => a = c) /\ (t.OpenTry # Nil => b = d))
    BY <1>8, VariantsAgree
  <1>11. /\ t.OpenInit \in Pointer(IBCOpenInit(Counted)) <=> (t.OpenInit # Nil => a = c)
         /\ t.OpenTry \in Pointer(IBCOpenTry(Counted)) <=> (t.OpenTry # Nil => b = d)
    <2>1. t.OpenInit \in Pointer(IBCOpenInit(Counted)) <=> (t.OpenInit # Nil => a = c)
      BY <1>3, <1>8 DEF Agree, Pointer
    <2>2. t.OpenTry \in Pointer(IBCOpenTry(Counted)) <=> (t.OpenTry # Nil => b = d)
      BY <1>4, <1>8 DEF Agree, Pointer
    <2> QED
      BY <2>1, <2>2
  <1> QED
    BY <1>2, <1>9, <1>10, <1>11 DEF Agree

\* IBCOpenAck.ExpectedJSONSize, as IBCOpenTry.
LEMMA IBCOpenAckSize ==
  ASSUME NEW t \in IBCOpenAck(AllValues)
  PROVE  Agree(Size_IBCOpenAck(t), Marshal_IBCOpenAck(t),
               t \in IBCOpenAck(Counted))
  <1>1. /\ IBCOpenAck(AllValues) = IBCOpenTry(AllValues)
        /\ IBCOpenAck(Counted) = IBCOpenTry(Counted)
    BY DEF IBCOpenAck, IBCOpenTry
  <1>2. Size_IBCOpenAck(t) = Size_IBCOpenTry(t)
    BY DEF Size_IBCOpenAck, Size_IBCOpenTry
  <1>3. Marshal_IBCOpenAck(t) = Marshal_IBCOpenTry(t)
    BY DEF Marshal_IBCOpenAck, Marshal_IBCOpenTry
  <1> QED
    BY <1>1, <1>2, <1>3, IBCOpenTrySize

\* IBCOpenConfirm.ExpectedJSONSize, as IBCOpenInit.
LEMMA IBCOpenConfirmSize ==
  ASSUME NEW t \in IBCOpenConfirm(AllValues)
  PROVE  Agree(Size_IBCOpenConfirm(t), Marshal_IBCOpenConfirm(t),
               t \in IBCOpenConfirm(Counted))
  <1>1. /\ IBCOpenConfirm(AllValues) = IBCOpenInit(AllValues)
        /\ IBCOpenConfirm(Counted) = IBCOpenInit(Counted)
    BY DEF IBCOpenConfirm, IBCOpenInit
  <1>2. Size_IBCOpenConfirm(t) = Size_IBCOpenInit(t)
    BY DEF Size_IBCOpenConfirm, Size_IBCOpenInit
  <1>3. Marshal_IBCOpenConfirm(t) = Marshal_IBCOpenInit(t)
    BY DEF Marshal_IBCOpenConfirm, Marshal_IBCOpenInit
  <1> QED
    BY <1>1, <1>2, <1>3, IBCOpenInitSize

\* IBCChannelConnectMsg.ExpectedJSONSize.
LEMMA IBCChannelConnectMsgSize ==
  ASSUME NEW t \in IBCChannelConnectMsg(AllValues)
  PROVE  Agree(Size_IBCChannelConnectMsg(t), Marshal_IBCChannelConnectMsg(t),
               t \in IBCChannelConnectMsg(Counted))
  <1> DEFINE n1 == Size_IBCOpenAck(t.OpenAck)
             m1 == Marshal_IBCOpenAck(t.OpenAck)
             n2 == Size_IBCOpenConfirm(t.OpenConfirm)
             m2 == Marshal_IBCOpenConfirm(t.OpenConfirm)
  <1>1. /\ t.OpenAck \in Pointer(IBCOpenAck(AllValues))
        /\ t.OpenConfirm \in Pointer(IBCOpenConfirm(AllValues))
    BY DEF IBCChannelConnectMsg
  <1>2. t \in IBCChannelConnectMsg(Counted) <=>
          /\ t.OpenAck \in Pointer(IBCOpenAck(Counted))
          /\ t.OpenConfirm \in Pointer(IBCOpenConfirm(Counted))
    BY DEF IBCChannelConnectMsg
  <1>3. t.OpenAck # Nil => Agree(n1, m1, t.OpenAck \in IBCOpenAck(Counted))
    BY <1>1, IBCOpenAckSize DEF Pointer
  <1>4. t.OpenConfirm # Nil => Agree(n2, m2, t.OpenConfirm \in IBCOpenConfirm(Counted))
    BY <1>1, IBCOpenConfirmSize DEF Pointer
  <1>5. Size_IBCChannelConnectMsg(t) =
          Variants(t.OpenAck, 10 + 1 + n1, t.OpenConfirm, 14 + 1 + n2)
    BY DEF Size_IBCChannelConnectMsg, colon
  <1>6. Marshal_IBCChannelConnectMsg(t) =
          Joined(OmitEmpty(2 + 8 + 1 + m1, t.OpenAck, Nil)
                 \o OmitEmpty(2 + 12 + 1 + m2, t.OpenConfirm, Nil))
    BY NameLengths DEF Marshal_IBCChannelConnectMsg, Member
  <1> HIDE DEF n1, m1, n2, m2
  <1>7. /\ t.OpenAck # Nil => n1 \in Nat /\ m1 \in Nat /\ n1 <= m1
        /\ t.OpenConfirm # Nil => n2 \in Nat /\ m2 \in Nat /\ n2 <= m2
    BY <1>3, <1>4 DEF Agree
  <1> DEFINE a == 10 + 1 + n1
             b == 14 + 1 + n2
             c == 2 + 8 + 1 + m1
             d == 2 + 12 + 1 + m2
  <1>8. /\ t.OpenAck # Nil => a \in Nat /\ c \in Nat /\ a <= c
        /\ t.OpenConfirm # Nil => b \in Nat /\ d \in Nat /\ b <= d
        /\ t.OpenAck # Nil => (a = c <=> n1 = m1)
        /\ t.OpenConfirm # Nil => (b = d <=> n2 = m2)
    BY <1>7, SMT
  <1>9. /\ Size_IBCChannelConnectMsg(t) = Variants(t.OpenAck, a, t.OpenConfirm, b)
        /\ Marshal_IBCChannelConnectMsg(t) =
             Joined(OmitEmpty(c, t.OpenAck, Nil) \o OmitEmpty(d, t.OpenConfirm, Nil))
    BY <1>5, <1>6
  <1> HIDE DEF a, b, c, d
  <1>10. Agree(Variants(t.OpenAck, a, t.OpenConfirm, b),
               Joined(OmitEmpty(c, t.OpenAck, Nil) \o OmitEmpty(d, t.OpenConfirm, Nil)),
               (t.OpenAck # Nil => a = c) /\ (t.OpenConfirm # Nil => b = d))
    BY <1>8, VariantsAgree
  <1>11. /\ t.OpenAck \in Pointer(IBCOpenAck(Counted)) <=> (t.OpenAck # Nil => a = c)
         /\ t.OpenConfirm \in Pointer(IBCOpenConfirm(Counted)) <=> (t.OpenConfirm # Nil => b = d)
    <2>1. t.OpenAck \in Pointer(IBCOpenAck(Counted)) <=> (t.OpenAck # Nil => a = c)
      BY <1>3, <1>8 DEF Agree, Pointer
    <2>2. t.OpenConfirm \in Pointer(IBCOpenConfirm(Counted)) <=> (t.OpenConfirm # Nil => b = d)
      BY <1>4, <1>8 DEF Agree, Pointer
    <2> QED
      BY <2>1, <2>2
  <1> QED
    BY <1>2, <1>9, <1>10, <1>11 DEF Agree

\* IBCCloseInit.ExpectedJSONSize, as IBCOpenInit.
LEMMA IBCCloseInitSize ==
  ASSUME NEW t \in IBCCloseInit(AllValues)
  PROVE  Agree(Size_IBCCloseInit(t), Marshal_IBCCloseInit(t),
               t \in IBCCloseInit(Counted))
  <1>1. /\ IBCCloseInit(AllValues) = IBCOpenInit(AllValues)
        /\ IBCCloseInit(Counted) = IBCOpenInit(Counted)
    BY DEF IBCCloseInit, IBCOpenInit
  <1>2. Size_IBCCloseInit(t) = Size_IBCOpenInit(t)
    BY DEF Size_IBCCloseInit, Size_IBCOpenInit
  <1>3. Marshal_IBCCloseInit(t) = Marshal_IBCOpenInit(t)
    BY DEF Marshal_IBCCloseInit, Marshal_IBCOpenInit
  <1> QED
    BY <1>1, <1>2, <1>3, IBCOpenInitSize

\* IBCCloseConfirm.ExpectedJSONSize, as IBCOpenInit.
LEMMA IBCCloseConfirmSize ==
  ASSUME NEW t \in IBCCloseConfirm(AllValues)
  PROVE  Agree(Size_IBCCloseConfirm(t), Marshal_IBCCloseConfirm(t),
               t \in IBCCloseConfirm(Counted))
  <1>1. /\ IBCCloseConfirm(AllValues) = IBCOpenInit(AllValues)
        /\ IBCCloseConfirm(Counted) = IBCOpenInit(Counted)
    BY DEF IBCCloseConfirm, IBCOpenInit
  <1>2. Size_IBCCloseConfirm(t) = Size_IBCOpenInit(t)
    BY DEF Size_IBCCloseConfirm, Size_IBCOpenInit
  <1>3. Marshal_IBCCloseConfirm(t) = Marshal_IBCOpenInit(t)
    BY DEF Marshal_IBCCloseConfirm, Marshal_IBCOpenInit
  <1> QED
    BY <1>1, <1>2, <1>3, IBCOpenInitSize

\* IBCChannelCloseMsg.ExpectedJSONSize.
LEMMA IBCChannelCloseMsgSize ==
  ASSUME NEW t \in IBCChannelCloseMsg(AllValues)
  PROVE  Agree(Size_IBCChannelCloseMsg(t), Marshal_IBCChannelCloseMsg(t),
               t \in IBCChannelCloseMsg(Counted))
  <1> DEFINE n1 == Size_IBCCloseInit(t.CloseInit)
             m1 == Marshal_IBCCloseInit(t.CloseInit)
             n2 == Size_IBCCloseConfirm(t.CloseConfirm)
             m2 == Marshal_IBCCloseConfirm(t.CloseConfirm)
  <1>1. /\ t.CloseInit \in Pointer(IBCCloseInit(AllValues))
        /\ t.CloseConfirm \in Pointer(IBCCloseConfirm(AllValues))
    BY DEF IBCChannelCloseMsg
  <1>2. t \in IBCChannelCloseMsg(Counted) <=>
          /\ t.CloseInit \in Pointer(IBCCloseInit(Counted))
          /\ t.CloseConfirm \in Pointer(IBCCloseConfirm(Counted))
    BY DEF IBCChannelCloseMsg
  <1>3. t.CloseInit # Nil => Agree(n1, m1, t.CloseInit \in IBCCloseInit(Counted))
    BY <1>1, IBCCloseInitSize DEF Pointer
  <1>4. t.CloseConfirm # Nil => Agree(n2, m2, t.CloseConfirm \in IBCCloseConfirm(Counted))
    BY <1>1, IBCCloseConfirmSize DEF Pointer
  <1>5. Size_IBCChannelCloseMsg(t) =
          Variants(t.CloseInit, 12 + 1 + n1, t.CloseConfirm, 15 + 1 + n2)
    BY DEF Size_IBCChannelCloseMsg, colon
  <1>6. Marshal_IBCChannelCloseMsg(t) =
          Joined(OmitEmpty(2 + 10 + 1 + m1, t.CloseInit, Nil)
                 \o OmitEmpty(2 + 13 + 1 + m2, t.CloseConfirm, Nil))
    BY NameLengths DEF Marshal_IBCChannelCloseMsg, Member
  <1> HIDE DEF n1, m1, n2, m2
  <1>7. /\ t.CloseInit # Nil => n1 \in Nat /\ m1 \in Nat /\ n1 <= m1
        /\ t.CloseConfirm # Nil => n2 \in Nat /\ m2 \in Nat /\ n2 <= m2
    BY <1>3, <1>4 DEF Agree
  <1> DEFINE a == 12 + 1 + n1
             b == 15 + 1 + n2
             c == 2 + 10 + 1 + m1
             d == 2 + 13 + 1 + m2
  <1>8. /\ t.CloseInit # Nil => a \in Nat /\ c \in Nat /\ a <= c
        /\ t.CloseConfirm # Nil => b \in Nat /\ d \in Nat /\ b <= d
        /\ t.CloseInit # Nil => (a = c <=> n1 = m1)
        /\ t.CloseConfirm # Nil => (b = d <=> n2 = m2)
    BY <1>7, SMT
  <1>9. /\ Size_IBCChannelCloseMsg(t) = Variants(t.CloseInit, a, t.CloseConfirm, b)
        /\ Marshal_IBCChannelCloseMsg(t) =
             Joined(OmitEmpty(c, t.CloseInit, Nil) \o OmitEmpty(d, t.CloseConfirm, Nil))
    BY <1>5, <1>6
  <1> HIDE DEF a, b, c, d
  <1>10. Agree(Variants(t.CloseInit, a, t.CloseConfirm, b),
               Joined(OmitEmpty(c, t.CloseInit, Nil) \o OmitEmpty(d, t.CloseConfirm, Nil)),
               (t.CloseInit # Nil => a = c) /\ (t.CloseConfirm # Nil => b = d))
    BY <1>8, VariantsAgree
  <1>11. /\ t.CloseInit \in Pointer(IBCCloseInit(Counted)) <=> (t.CloseInit # Nil => a = c)
         /\ t.CloseConfirm \in Pointer(IBCCloseConfirm(Counted)) <=> (t.CloseConfirm # Nil => b = d)
    <2>1. t.CloseInit \in Pointer(IBCCloseInit(Counted)) <=> (t.CloseInit # Nil => a = c)
      BY <1>3, <1>8 DEF Agree, Pointer
    <2>2. t.CloseConfirm \in Pointer(IBCCloseConfirm(Counted)) <=> (t.CloseConfirm # Nil => b = d)
      BY <1>4, <1>8 DEF Agree, Pointer
    <2> QED
      BY <2>1, <2>2
  <1> QED
    BY <1>2, <1>9, <1>10, <1>11 DEF Agree

\* IBCTimeoutBlock.ExpectedJSONSize.
LEMMA IBCTimeoutBlockSize ==
  ASSUME NEW t \in IBCTimeoutBlock(AllValues)
  PROVE  Agree(Size_IBCTimeoutBlock(t), Marshal_IBCTimeoutBlock(t),
               t \in IBCTimeoutBlock(Counted))
  <1> DEFINE n1 == ExpectedJSONSizeUint64(t.Revision)
             m1 == Marshal_int(t.Revision)
             n2 == ExpectedJSONSizeUint64(t.Height)
             m2 == Marshal_int(t.Height)
  <1>1. /\ t.Revision \in AllValues.uint64
        /\ t.Height \in AllValues.uint64
    BY DEF IBCTimeoutBlock
  <1>2. t \in IBCTimeoutBlock(Counted) <=>
          /\ t.Revision \in Counted.uint64
          /\ t.Height \in Counted.uint64
    BY DEF IBCTimeoutBlock
  <1>3. /\ Agree(n1, m1, t.Revision \in Counted.uint64)
        /\ Agree(n2, m2, t.Height \in Counted.uint64)
    BY <1>1, uint64Size
  <1>4. Size_IBCTimeoutBlock(t) = 2 + 10 + 1 + n1 + 1
               + 8 + 1 + n2
    BY DEF Size_IBCTimeoutBlock, brackets, colon, comma
  <1>5. Marshal_IBCTimeoutBlock(t) =
          Joined(<<2 + 8 + 1 + m1, 2 + 6 + 1 + m2>>)
    BY NameLengths DEF Marshal_IBCTimeoutBlock, Member
  <1> HIDE DEF n1, m1, n2, m2
  <1>6. /\ n1 \in Nat /\ m1 \in Nat /\ n1 <= m1
        /\ n2 \in Nat /\ m2 \in Nat /\ n2 <= m2
    BY <1>3 DEF Agree
  <1>7. Marshal_IBCTimeoutBlock(t) =
          2 + ((2 + 8 + 1 + m1) + (2 + 6 + 1 + m2)) + 1
    <2>1. 2 + 8 + 1 + m1 \in Nat /\ 2 + 6 + 1 + m2 \in Nat
      BY <1>6, SMT
    <2> QED
      BY <1>5, <2>1, Object2
  <1>8. /\ Size_IBCTimeoutBlock(t) \in Nat /\ Marshal_IBCTimeoutBlock(t) \in Nat
        /\ Size_IBCTimeoutBlock(t) <= Marshal_IBCTimeoutBlock(t)
        /\ Size_IBCTimeoutBlock(t) = Marshal_IBCTimeoutBlock(t) <=>
             n1 = m1 /\ n2 = m2
    BY <1>4, <1>6, <1>7, SMTT(30)
  <1> QED
    BY <1>2, <1>3, <1>8 DEF Agree

\* IBCTimeout.ExpectedJSONSize: Block is never omitted, Timestamp is if it is 0.
LEMMA IBCTimeoutSize ==
  ASSUME NEW t \in IBCTimeout(AllValues)
  PROVE  Agree(Size_IBCTimeout(t), Marshal_IBCTimeout(t), t \in IBCTimeout(Counted))
  <1> DEFINE n1 == IF t.Block # Nil THEN Size_IBCTimeoutBlock(t.Block) ELSE 4
             m1 == IF t.Block = Nil THEN Marshal_null ELSE Marshal_IBCTimeoutBlock(t.Block)
             n2 == ExpectedJSONSizeUint64(t.Timestamp)
             m2 == Marshal_int(t.Timestamp)
  <1>1. t.Block \in Pointer(IBCTimeoutBlock(AllValues)) /\ t.Timestamp \in AllValues.uint64
    BY DEF IBCTimeout
  <1>2. t \in IBCTimeout(Counted) <=>
          t.Block \in Pointer(IBCTimeoutBlock(Counted)) /\ t.Timestamp \in Counted.uint64
    BY DEF IBCTimeout
  <1>3. Agree(n1, m1, t.Block \in Pointer(IBCTimeoutBlock(Counted)))
    <2>1. CASE t.Block = Nil
      <3>1. n1 = 4 /\ m1 = 4 /\ t.Block \in Pointer(IBCTimeoutBlock(Counted))
        BY <2>1, NameLengths DEF Marshal_null, Pointer
      <3> HIDE DEF n1, m1
      <3> QED
        BY <3>1, SMT DEF Agree
    <2>2. CASE t.Block # Nil
      <3>1. t.Block \in IBCTimeoutBlock(AllValues)
        BY <1>1, <2>2 DEF Pointer
      <3>2. Agree(Size_IBCTimeoutBlock(t.Block), Marshal_IBCTimeoutBlock(t.Block),
                  t.Block \in IBCTimeoutBlock(Counted))
        BY <3>1, IBCTimeoutBlockSize
      <3>3. n1 = Size_IBCTimeoutBlock(t.Block) /\ m1 = Marshal_IBCTimeoutBlock(t.Block)
        BY <2>2
      <3>4. t.Block \in Pointer(IBCTimeoutBlock(Counted)) <=> t.Block \in IBCTimeoutBlock(Counted)
        BY <2>2 DEF Pointer
      <3> HIDE DEF n1, m1
      <3> QED
        BY <3>2, <3>3, <3>4 DEF Agree
    <2> QED
      BY <2>1, <2>2
  <1>4. Agree(n2, m2, t.Timestamp \in Counted.uint64)
    BY <1>1, uint64Size
  <1>5. n2 = m2 /\ t.Timestamp \in Counted.uint64
    <2>1. t.Timestamp \in Counted.uint64
      BY <1>1 DEF AllValues, Counted, Basic
    <2> QED
      BY <1>4, <2>1 DEF Agree
  <1> DEFINE ts == t.Timestamp
  <1>6. Size_IBCTimeout(t) = 2 + 7 + 1 + n1 + (IF ts # 0 THEN 1 + 11 + 1 + n2 + 2 ELSE 0)
    BY DEF Size_IBCTimeout, brackets, colon, comma, quotes, null
  <1>7. Marshal_IBCTimeout(t) =
          Joined(<<2 + 5 + 1 + m1>> \o OmitEmpty(2 + 9 + 1 + (2 + m2), ts, 0))
    BY NameLengths DEF Marshal_IBCTimeout, Member
  <1> HIDE DEF n1, m1, n2, m2, ts
  <1>8. /\ n1 \in Nat /\ m1 \in Nat /\ n1 <= m1 /\ n2 \in Nat /\ m2 \in Nat /\ n2 = m2
        /\ 2 + 5 + 1 + m1 \in Nat /\ 2 + 9 + 1 + (2 + m2) \in Nat
    <2>1. n1 \in Nat /\ m1 \in Nat /\ n1 <= m1 /\ n2 \in Nat /\ m2 \in Nat /\ n2 = m2
      BY <1>3, <1>4, <1>5 DEF Agree
    <2> QED
      BY <2>1, SMT
  <1>9. /\ Size_IBCTimeout(t) \in Nat /\ Marshal_IBCTimeout(t) \in Nat
        /\ Size_IBCTimeout(t) <= Marshal_IBCTimeout(t)
        /\ Size_IBCTimeout(t) = Marshal_IBCTimeout(t) <=> n1 = m1
    <2>1. CASE ts = 0
      <3>1. <<2 + 5 + 1 + m1>> \o OmitEmpty(2 + 9 + 1 + (2 + m2), ts, 0) = <<2 + 5 + 1 + m1>>
        BY <1>8, <2>1, Concatenations DEF OmitEmpty
      <3>2. Marshal_IBCTimeout(t) = 2 + (2 + 5 + 1 + m1)
        BY <1>7, <1>8, <3>1, Object1
      <3>3. Size_IBCTimeout(t) = 2 + 7 + 1 + n1 + 0
        BY <1>6, <2>1
      <3> QED
        BY <1>8, <3>2, <3>3, SMT
    <2>2. CASE ts # 0
      <3>1. <<2 + 5 + 1 + m1>> \o OmitEmpty(2 + 9 + 1 + (2 + m2), ts, 0) =
              <<2 + 5 + 1 + m1, 2 + 9 + 1 + (2 + m2)>>
        BY <1>8, <2>2, Concatenations DEF OmitEmpty
      <3>2. Marshal_IBCTimeout(t) = 2 + ((2 + 5 + 1 + m1) + (2 + 9 + 1 + (2 + m2))) + 1
        <4> DEFINE q1 == 2 + 5 + 1 + m1
                   q2 == 2 + 9 + 1 + (2 + m2)
        <4>1. q1 \in Nat /\ q2 \in Nat /\ Marshal_IBCTimeout(t) = Joined(<<q1, q2>>)
          BY <1>7, <1>8, <3>1
        <4> HIDE DEF q1, q2
        <4>2. Joined(<<q1, q2>>) = 2 + (q1 + q2) + 1
          BY <4>1, Object2
        <4> QED
          BY <4>1, <4>2 DEF q1, q2
      <3>3. Size_IBCTimeout(t) = 2 + 7 + 1 + n1 + (1 + 11 + 1 + n2 + 2)
        BY <1>6, <2>2
      <3> QED
        BY <1>8, <3>2, <3>3, SMT
    <2> QED
      BY <2>1, <2>2
  <1> QED
    BY <1>2, <1>3, <1>5, <1>9 DEF Agree

\* IBCAcknowledgement.ExpectedJSONSize.
LEMMA IBCAcknowledgementSize ==
  ASSUME NEW t \in IBCAcknowledgement(AllValues)
  PROVE  Agree(Size_IBCAcknowledgement(t), Marshal_IBCAcknowledgement(t),
               t \in IBCAcknowledgement(Counted))
  <1> DEFINE n1 == ExpectedJSONSizeBinary(t.Data)
             m1 == Marshal_bytes(t.Data)
  <1>1. /\ t.Data \in AllValues.bytes
    BY DEF IBCAcknowledgement
  <1>2. t \in IBCAcknowledgement(Counted) <=>
          /\ t.Data \in Counted.bytes
    BY DEF IBCAcknowledgement
  <1>3. /\ Agree(n1, m1, t.Data \in Counted.bytes)
    BY <1>1, bytesSize
  <1>4. Size_IBCAcknowledgement(t) = 2 + 6 + 1 + n1
    BY DEF Size_IBCAcknowledgement, brackets, colon, comma
  <1>5. Marshal_IBCAcknowledgement(t) =
          Joined(<<2 + 4 + 1 + m1>>)
    BY NameLengths DEF Marshal_IBCAcknowledgement, Member
  <1> HIDE DEF n1, m1
  <1>6. /\ n1 \in Nat /\ m1 \in Nat /\ n1 <= m1
    BY <1>3 DEF Agree
  <1>7. Marshal_IBCAcknowledgement(t) =
          2 + (2 + 4 + 1 + m1)
    <2>1. 2 + 4 + 1 + m1 \in Nat
      BY <1>6, SMT
    <2> QED
      BY <1>5, <2>1, Object1
  <1>8. /\ Size_IBCAcknowledgement(t) \in Nat /\ Marshal_IBCAcknowledgement(t) \in Nat
        /\ Size_IBCAcknowledgement(t) <= Marshal_IBCAcknowledgement(t)
        /\ Size_IBCAcknowledgement(t) = Marshal_IBCAcknowledgement(t) <=>
             n1 = m1
    BY <1>4, <1>6, <1>7, SMTT(30)
  <1> QED
    BY <1>2, <1>3, <1>8 DEF Agree

\* IBCPacket.ExpectedJSONSize.
LEMMA IBCPacketSize ==
  ASSUME NEW t \in IBCPacket(AllValues)
  PROVE  Agree(Size_IBCPacket(t), Marshal_IBCPacket(t),
               t \in IBCPacket(Counted))
  <1> DEFINE n1 == ExpectedJSONSizeBinary(t.Data)
             m1 == Marshal_bytes(t.Data)
             n2 == Size_IBCEndpoint(t.Src)
             m2 == Marshal_IBCEndpoint(t.Src)
             n3 == Size_IBCEndpoint(t.Dest)
             m3 == Marshal_IBCEndpoint(t.Dest)
             n4 == ExpectedJSONSizeUint64(t.Sequence)
             m4 == Marshal_int(t.Sequence)
             n5 == Size_IBCTimeout(t.Timeout)
             m5 == Marshal_IBCTimeout(t.Timeout)
  <1>1. /\ t.Data \in AllValues.bytes
        /\ t.Src \in IBCEndpoint(AllValues)
        /\ t.Dest \in IBCEndpoint(AllValues)
        /\ t.Sequence \in AllValues.uint64
        /\ t.Timeout \in IBCTimeout(AllValues)
    BY DEF IBCPacket
  <1>2. t \in IBCPacket(Counted) <=>
          /\ t.Data \in Counted.bytes
          /\ t.Src \in IBCEndpoint(Counted)
          /\ t.Dest \in IBCEndpoint(Counted)
          /\ t.Sequence \in Counted.uint64
          /\ t.Timeout \in IBCTimeout(Counted)
    BY DEF IBCPacket
  <1>3. /\ Agree(n1, m1, t.Data \in Counted.bytes)
        /\ Agree(n2, m2, t.Src \in IBCEndpoint(Counted))
        /\ Agree(n3, m3, t.Dest \in IBCEndpoint(Counted))
        /\ Agree(n4, m4, t.Sequence \in Counted.uint64)
        /\ Agree(n5, m5, t.Timeout \in IBCTimeout(Counted))
    BY <1>1, IBCEndpointSize, IBCTimeoutSize, bytesSize, uint64Size
  <1>4. Size_IBCPacket(t) = 2 + 6 + 1 + n1 + 1
               + 5 + 1 + n2 + 1
               + 6 + 1 + n3 + 1
               + 10 + 1 + n4 + 1
               + 9 + 1 + n5
    BY DEF Size_IBCPacket, brackets, colon, comma
  <1>5. Marshal_IBCPacket(t) =
          Joined(<<2 + 4 + 1 + m1, 2 + 3 + 1 + m2, 2 + 4 + 1 + m3,
                   2 + 8 + 1 + m4, 2 + 7 + 1 + m5>>)
    BY NameLengths DEF Marshal_IBCPacket, Member
  <1> HIDE DEF n1, m1, n2, m2, n3, m3, n4, m4, n5, m5
  <1>6. /\ n1 \in Nat /\ m1 \in Nat /\ n1 <= m1
        /\ n2 \in Nat /\ m2 \in Nat /\ n2 <= m2
        /\ n3 \in Nat /\ m3 \in Nat /\ n3 <= m3
        /\ n4 \in Nat /\ m4 \in Nat /\ n4 <= m4
        /\ n5 \in Nat /\ m5 \in Nat /\ n5 <= m5
    BY <1>3 DEF Agree
  <1>7. Marshal_IBCPacket(t) =
          2 + ((2 + 4 + 1 + m1) + (2 + 3 + 1 + m2) + (2 + 4 + 1 + m3)
               + (2 + 8 + 1 + m4) + (2 + 7 + 1 + m5)) + 4
    <2> DEFINE q1 == 2 + 4 + 1 + m1
               q2 == 2 + 3 + 1 + m2
               q3 == 2 + 4 + 1 + m3
               q4 == 2 + 8 + 1 + m4
               q5 == 2 + 7 + 1 + m5
    <2>1. q1 \in Nat /\ q2 \in Nat /\ q3 \in Nat /\ q4 \in Nat /\ q5 \in Nat
      BY <1>6, SMT
    <2>2. Marshal_IBCPacket(t) = Joined(<<q1, q2, q3, q4, q5>>)
      BY <1>5
    <2> HIDE DEF q1, q2, q3, q4, q5
    <2>3. Joined(<<q1, q2, q3, q4, q5>>) = 2 + (q1 + q2 + q3 + q4 + q5) + 4
      BY <2>1, Object5, SMTT(30)
    <2> QED
      BY <2>2, <2>3 DEF q1, q2, q3, q4, q5
  <1>8. /\ Size_IBCPacket(t) \in Nat /\ Marshal_IBCPacket(t) \in Nat
        /\ Size_IBCPacket(t) <= Marshal_IBCPacket(t)
        /\ Size_IBCPacket(t) = Marshal_IBCPacket(t) <=>
             n1 = m1 /\ n2 = m2 /\ n3 = m3 /\ n4 = m4 /\ n5 = m5
    BY <1>4, <1>6, <1>7, SMTT(30)
  <1> QED
    BY <1>2, <1>3, <1>8 DEF Agree

\* IBCPacketReceiveMsg.ExpectedJSONSize.
LEMMA IBCPacketReceiveMsgSize ==
  ASSUME NEW t \in IBCPacketReceiveMsg(AllValues)
  PROVE  Agree(Size_IBCPacketReceiveMsg(t), Marshal_IBCPacketReceiveMsg(t),
               t \in IBCPacketReceiveMsg(Counted))
  <1> DEFINE n1 == Size_IBCPacket(t.Packet)
             m1 == Marshal_IBCPacket(t.Packet)
             n2 == ExpectedJSONSizeString(t.Relayer)
             m2 == Marshal_string(t.Relayer)
  <1>1. /\ t.Packet \in IBCPacket(AllValues)
        /\ t.Relayer \in AllValues.string
    BY DEF IBCPacketReceiveMsg
  <1>2. t \in IBCPacketReceiveMsg(Counted) <=>
          /\ t.Packet \in IBCPacket(Counted)
          /\ t.Relayer \in Counted.string
    BY DEF IBCPacketReceiveMsg
  <1>3. /\ Agree(n1, m1, t.Packet \in IBCPacket(Counted))
        /\ Agree(n2, m2, t.Relayer \in Counted.string)
    BY <1>1, IBCPacketSize, stringSize
  <1>4. Size_IBCPacketReceiveMsg(t) = 2 + 8 + 1 + n1 + 1
               + 9 + 1 + n2
    BY DEF Size_IBCPacketReceiveMsg, brackets, colon, comma
  <1>5. Marshal_IBCPacketReceiveMsg(t) =
          Joined(<<2 + 6 + 1 + m1, 2 + 7 + 1 + m2>>)
    BY NameLengths DEF Marshal_IBCPacketReceiveMsg, Member
  <1> HIDE DEF n1, m1, n2, m2
  <1>6. /\ n1 \in Nat /\ m1 \in Nat /\ n1 <= m1
        /\ n2 \in Nat /\ m2 \in Nat /\ n2 <= m2
    BY <1>3 DEF Agree
  <1>7. Marshal_IBCPacketReceiveMsg(t) =
          2 + ((2 + 6 + 1 + m1) + (2 + 7 + 1 + m2)) + 1
    <2>1. 2 + 6 + 1 + m1 \in Nat /\ 2 + 7 + 1 + m2 \in Nat
      BY <1>6, SMT
    <2> QED
      BY <1>5, <2>1, Object2
  <1>8. /\ Size_IBCPacketReceiveMsg(t) \in Nat /\ Marshal_IBCPacketReceiveMsg(t) \in Nat
        /\ Size_IBCPacketReceiveMsg(t) <= Marshal_IBCPacketReceiveMsg(t)
        /\ Size_IBCPacketReceiveMsg(t) = Marshal_IBCPacketReceiveMsg(t) <=>
             n1 = m1 /\ n2 = m2
    BY <1>4, <1>6, <1>7, SMTT(30)
  <1> QED
    BY <1>2, <1>3, <1>8 DEF Agree

\* IBCPacketAckMsg.ExpectedJSONSize.
LEMMA IBCPacketAckMsgSize ==
  ASSUME NEW t \in IBCPacketAckMsg(AllValues)
  PROVE  Agree(Size_IBCPacketAckMsg(t), Marshal_IBCPacketAckMsg(t),
               t \in IBCPacketAckMsg(Counted))
  <1> DEFINE n1 == Size_IBCAcknowledgement(t.Acknowledgement)
             m1 == Marshal_IBCAcknowledgement(t.Acknowledgement)
             n2 == Size_IBCPacket(t.OriginalPacket)
             m2 == Marshal_IBCPacket(t.OriginalPacket)
             n3 == ExpectedJSONSizeString(t.Relayer)
             m3 == Marshal_string(t.Relayer)
  <1>1. /\ t.Acknowledgement \in IBCAcknowledgement(AllValues)
        /\ t.OriginalPacket \in IBCPacket(AllValues)
        /\ t.Relayer \in AllValues.string
    BY DEF IBCPacketAckMsg
  <1>2. t \in IBCPacketAckMsg(Counted) <=>
          /\ t.Acknowledgement \in IBCAcknowledgement(Counted)
          /\ t.OriginalPacket \in IBCPacket(Counted)
          /\ t.Relayer \in Counted.string
    BY DEF IBCPacketAckMsg
  <1>3. /\ Agree(n1, m1, t.Acknowledgement \in IBCAcknowledgement(Counted))
        /\ Agree(n2, m2, t.OriginalPacket \in IBCPacket(Counted))
        /\ Agree(n3, m3, t.Relayer \in Counted.string)
    BY <1>1, IBCAcknowledgementSize, IBCPacketSize, stringSize
  <1>4. Size_IBCPacketAckMsg(t) = 2 + 17 + 1 + n1 + 1
               + 17 + 1 + n2 + 1
               + 9 + 1 + n3
    BY DEF Size_IBCPacketAckMsg, brackets, colon, comma
  <1>5. Marshal_IBCPacketAckMsg(t) =
          Joined(<<2 + 15 + 1 + m1, 2 + 15 + 1 + m2, 2 + 7 + 1 + m3>>)
    BY NameLengths DEF Marshal_IBCPacketAckMsg, Member
  <1> HIDE DEF n1, m1, n2, m2, n3, m3
  <1>6. /\ n1 \in Nat /\ m1 \in Nat /\ n1 <= m1
        /\ n2 \in Nat /\ m2 \in Nat /\ n2 <= m2
        /\ n3 \in Nat /\ m3 \in Nat /\ n3 <= m3
    BY <1>3 DEF Agree
  <1>7. Marshal_IBCPacketAckMsg(t) =
          2 + ((2 + 15 + 1 + m1) + (2 + 15 + 1 + m2) + (2 + 7 + 1 + m3)) + 2
    <2> DEFINE q1 == 2 + 15 + 1 + m1
               q2 == 2 + 15 + 1 + m2
               q3 == 2 + 7 + 1 + m3
    <2>1. q1 \in Nat /\ q2 \in Nat /\ q3 \in Nat
      BY <1>6, SMT
    <2>2. Marshal_IBCPacketAckMsg(t) = Joined(<<q1, q2, q3>>)
      BY <1>5
    <2> HIDE DEF q1, q2, q3
    <2>3. Joined(<<q1, q2, q3>>) = 2 + (q1 + q2 + q3) + 2
      BY <2>1, Object3, SMTT(30)
    <2> QED
      BY <2>2, <2>3 DEF q1, q2, q3
  <1>8. /\ Size_IBCPacketAckMsg(t) \in Nat /\ Marshal_IBCPacketAckMsg(t) \in Nat
        /\ Size_IBCPacketAckMsg(t) <= Marshal_IBCPacketAckMsg(t)
        /\ Size_IBCPacketAckMsg(t) = Marshal_IBCPacketAckMsg(t) <=>
             n1 = m1 /\ n2 = m2 /\ n3 = m3
    BY <1>4, <1>6, <1>7, SMTT(30)
  <1> QED
    BY <1>2, <1>3, <1>8 DEF Agree

\* IBCPacketTimeoutMsg.ExpectedJSONSize, as IBCPacketReceiveMsg.
LEMMA IBCPacketTimeoutMsgSize ==
  ASSUME NEW t \in IBCPacketTimeoutMsg(AllValues)
  PROVE  Agree(Size_IBCPacketTimeoutMsg(t), Marshal_IBCPacketTimeoutMsg(t),
               t \in IBCPacketTimeoutMsg(Counted))
  <1>1. /\ IBCPacketTimeoutMsg(AllValues) = IBCPacketReceiveMsg(AllValues)
        /\ IBCPacketTimeoutMsg(Counted) = IBCPacketReceiveMsg(Counted)
    BY DEF IBCPacketTimeoutMsg, IBCPacketReceiveMsg
  <1>2. Size_IBCPacketTimeoutMsg(t) = Size_IBCPacketReceiveMsg(t)
    BY DEF Size_IBCPacketTimeoutMsg, Size_IBCPacketReceiveMsg
  <1>3. Marshal_IBCPacketTimeoutMsg(t) = Marshal_IBCPacketReceiveMsg(t)
    BY DEF Marshal_IBCPacketTimeoutMsg, Marshal_IBCPacketReceiveMsg
  <1> QED
    BY <1>1, <1>2, <1>3, IBCPacketReceiveMsgSize

\* IBCAckCallbackMsg.ExpectedJSONSize, as IBCPacketAckMsg.
LEMMA IBCAckCallbackMsgSize ==
  ASSUME NEW t \in IBCAckCallbackMsg(AllValues)
  PROVE  Agree(Size_IBCAckCallbackMsg(t), Marshal_IBCAckCallbackMsg(t),
               t \in IBCAckCallbackMsg(Counted))
  <1>1. /\ IBCAckCallbackMsg(AllValues) = IBCPacketAckMsg(AllValues)
        /\ IBCAckCallbackMsg(Counted) = IBCPacketAckMsg(Counted)
    BY DEF IBCAckCallbackMsg, IBCPacketAckMsg
  <1>2. Size_IBCAckCallbackMsg(t) = Size_IBCPacketAckMsg(t)
    BY DEF Size_IBCAckCallbackMsg, Size_IBCPacketAckMsg
  <1>3. Marshal_IBCAckCallbackMsg(t) = Marshal_IBCPacketAckMsg(t)
    BY DEF Marshal_IBCAckCallbackMsg, Marshal_IBCPacketAckMsg
  <1> QED
    BY <1>1, <1>2, <1>3, IBCPacketAckMsgSize

\* IBCTimeoutCallbackMsg.ExpectedJSONSize, as IBCPacketReceiveMsg.
LEMMA IBCTimeoutCallbackMsgSize ==
  ASSUME NEW t \in IBCTimeoutCallbackMsg(AllValues)
  PROVE  Agree(Size_IBCTimeoutCallbackMsg(t), Marshal_IBCTimeoutCallbackMsg(t),
               t \in IBCTimeoutCallbackMsg(Counted))
  <1>1. /\ IBCTimeoutCallbackMsg(AllValues) = IBCPacketReceiveMsg(AllValues)
        /\ IBCTimeoutCallbackMsg(Counted) = IBCPacketReceiveMsg(Counted)
    BY DEF IBCTimeoutCallbackMsg, IBCPacketReceiveMsg
  <1>2. Size_IBCTimeoutCallbackMsg(t) = Size_IBCPacketReceiveMsg(t)
    BY DEF Size_IBCTimeoutCallbackMsg, Size_IBCPacketReceiveMsg
  <1>3. Marshal_IBCTimeoutCallbackMsg(t) = Marshal_IBCPacketReceiveMsg(t)
    BY DEF Marshal_IBCTimeoutCallbackMsg, Marshal_IBCPacketReceiveMsg
  <1> QED
    BY <1>1, <1>2, <1>3, IBCPacketReceiveMsgSize

\* IBCSourceCallbackMsg.ExpectedJSONSize.
LEMMA IBCSourceCallbackMsgSize ==
  ASSUME NEW t \in IBCSourceCallbackMsg(AllValues)
  PROVE  Agree(Size_IBCSourceCallbackMsg(t), Marshal_IBCSourceCallbackMsg(t),
               t \in IBCSourceCallbackMsg(Counted))
  <1> DEFINE n1 == Size_IBCAckCallbackMsg(t.Acknowledgement)
             m1 == Marshal_IBCAckCallbackMsg(t.Acknowledgement)
             n2 == Size_IBCTimeoutCallbackMsg(t.Timeout)
             m2 == Marshal_IBCTimeoutCallbackMsg(t.Timeout)
  <1>1. /\ t.Acknowledgement \in Pointer(IBCAckCallbackMsg(AllValues))
        /\ t.Timeout \in Pointer(IBCTimeoutCallbackMsg(AllValues))
    BY DEF IBCSourceCallbackMsg
  <1>2. t \in IBCSourceCallbackMsg(Counted) <=>
          /\ t.Acknowledgement \in Pointer(IBCAckCallbackMsg(Counted))
          /\ t.Timeout \in Pointer(IBCTimeoutCallbackMsg(Counted))
    BY DEF IBCSourceCallbackMsg
  <1>3. t.Acknowledgement # Nil => Agree(n1, m1, t.Acknowledgement \in IBCAckCallbackMsg(Counted))
    BY <1>1, IBCAckCallbackMsgSize DEF Pointer
  <1>4. t.Timeout # Nil => Agree(n2, m2, t.Timeout \in IBCTimeoutCallbackMsg(Counted))
    BY <1>1, IBCTimeoutCallbackMsgSize DEF Pointer
  <1>5. Size_IBCSourceCallbackMsg(t) =
          Variants(t.Acknowledgement, 17 + 1 + n1, t.Timeout, 9 + 1 + n2)
    BY DEF Size_IBCSourceCallbackMsg, colon
  <1>6. Marshal_IBCSourceCallbackMsg(t) =
          Joined(OmitEmpty(2 + 15 + 1 + m1, t.Acknowledgement, Nil)
                 \o OmitEmpty(2 + 7 + 1 + m2, t.Timeout, Nil))
    BY NameLengths DEF Marshal_IBCSourceCallbackMsg, Member
  <1> HIDE DEF n1, m1, n2, m2
  <1>7. /\ t.Acknowledgement # Nil => n1 \in Nat /\ m1 \in Nat /\ n1 <= m1
        /\ t.Timeout # Nil => n2 \in Nat /\ m2 \in Nat /\ n2 <= m2
    BY <1>3, <1>4 DEF Agree
  <1> DEFINE a == 17 + 1 + n1
             b == 9 + 1 + n2
             c == 2 + 15 + 1 + m1
             d == 2 + 7 + 1 + m2
  <1>8. /\ t.Acknowledgement # Nil => a \in Nat /\ c \in Nat /\ a <= c
        /\ t.Timeout # Nil => b \in Nat /\ d \in Nat /\ b <= d
        /\ t.Acknowledgement # Nil => (a = c <=> n1 = m1)
        /\ t.Timeout # Nil => (b = d <=> n2 = m2)
    BY <1>7, SMT
  <1>9. /\ Size_IBCSourceCallbackMsg(t) = Variants(t.Acknowledgement, a, t.Timeout, b)
        /\ Marshal_IBCSourceCallbackMsg(t) =
             Joined(OmitEmpty(c, t.Acknowledgement, Nil) \o OmitEmpty(d, t.Timeout, Nil))
    BY <1>5, <1>6
  <1> HIDE DEF a, b, c, d
  <1>10. Agree(Variants(t.Acknowledgement, a, t.Timeout, b),
               Joined(OmitEmpty(c, t.Acknowledgement, Nil) \o OmitEmpty(d, t.Timeout, Nil)),
               (t.Acknowledgement # Nil => a = c) /\ (t.Timeout # Nil => b = d))
    BY <1>8, VariantsAgree
  <1>11. /\ t.Acknowledgement \in Pointer(IBCAckCallbackMsg(Counted))
               <=> (t.Acknowledgement # Nil => a = c)
         /\ t.Timeout \in Pointer(IBCTimeoutCallbackMsg(Counted)) <=> (t.Timeout # Nil => b = d)
    <2>1. t.Acknowledgement \in Pointer(IBCAckCallbackMsg(Counted))
            <=> (t.Acknowledgement # Nil => a = c)
      BY <1>3, <1>8 DEF Agree, Pointer
    <2>2. t.Timeout \in Pointer(IBCTimeoutCallbackMsg(Counted)) <=> (t.Timeout # Nil => b = d)
      BY <1>4, <1>8 DEF Agree, Pointer
    <2> QED
      BY <2>1, <2>2
  <1> QED
    BY <1>2, <1>9, <1>10, <1>11 DEF Agree

\* IBCTransferCallback.ExpectedJSONSize.
LEMMA IBCTransferCallbackSize ==
  ASSUME NEW t \in IBCTransferCallback(AllValues)
  PROVE  Agree(Size_IBCTransferCallback(t), Marshal_IBCTransferCallback(t),
               t \in IBCTransferCallback(Counted))
  <1> DEFINE n1 == ExpectedJSONSizeArray(t.Funds)
             m1 == Marshal_Coins(t.Funds)
             n2 == ExpectedJSONSizeString(t.Receiver)
             m2 == Marshal_string(t.Receiver)
             n3 == ExpectedJSONSizeString(t.Sender)
             m3 == Marshal_string(t.Sender)
  <1>1. /\ t.Funds \in AllValues.Coins
        /\ t.Receiver \in AllValues.string
        /\ t.Sender \in AllValues.string
    BY DEF IBCTransferCallback
  <1>2. t \in IBCTransferCallback(Counted) <=>
          /\ t.Funds \in Counted.Coins
          /\ t.Receiver \in Counted.string
          /\ t.Sender \in Counted.string
    BY DEF IBCTransferCallback
  <1>3. /\ Agree(n1, m1, t.Funds \in Counted.Coins)
        /\ Agree(n2, m2, t.Receiver \in Counted.string)
        /\ Agree(n3, m3, t.Sender \in Counted.string)
    BY <1>1, CoinsSize, stringSize
  <1>4. Size_IBCTransferCallback(t) = 2 + 7 + 1 + n1 + 1
               + 10 + 1 + n2 + 1
               + 8 + 1 + n3
    BY DEF Size_IBCTransferCallback, brackets, colon, comma
  <1>5. Marshal_IBCTransferCallback(t) =
          Joined(<<2 + 5 + 1 + m1, 2 + 8 + 1 + m2, 2 + 6 + 1 + m3>>)
    BY NameLengths DEF Marshal_IBCTransferCallback, Member
  <1> HIDE DEF n1, m1, n2, m2, n3, m3
  <1>6. /\ n1 \in Nat /\ m1 \in Nat /\ n1 <= m1
        /\ n2 \in Nat /\ m2 \in Nat /\ n2 <= m2
        /\ n3 \in Nat /\ m3 \in Nat /\ n3 <= m3
    BY <1>3 DEF Agree
  <1>7. Marshal_IBCTransferCallback(t) =
          2 + ((2 + 5 + 1 + m1) + (2 + 8 + 1 + m2) + (2 + 6 + 1 + m3)) + 2
    <2> DEFINE q1 == 2 + 5 + 1 + m1
               q2 == 2 + 8 + 1 + m2
               q3 == 2 + 6 + 1 + m3
    <2>1. q1 \in Nat /\ q2 \in Nat /\ q3 \in Nat
      BY <1>6, SMT
    <2>2. Marshal_IBCTransferCallback(t) = Joined(<<q1, q2, q3>>)
      BY <1>5
    <2> HIDE DEF q1, q2, q3
    <2>3. Joined(<<q1, q2, q3>>) = 2 + (q1 + q2 + q3) + 2
      BY <2>1, Object3, SMTT(30)
    <2> QED
      BY <2>2, <2>3 DEF q1, q2, q3
  <1>8. /\ Size_IBCTransferCallback(t) \in Nat /\ Marshal_IBCTransferCallback(t) \in Nat
        /\ Size_IBCTransferCallback(t) <= Marshal_IBCTransferCallback(t)
        /\ Size_IBCTransferCallback(t) = Marshal_IBCTransferCallback(t) <=>
             n1 = m1 /\ n2 = m2 /\ n3 = m3
    BY <1>4, <1>6, <1>7, SMTT(30)
  <1> QED
    BY <1>2, <1>3, <1>8 DEF Agree

\* IBCDestinationCallbackMsg.ExpectedJSONSize: Transfer may be omitted.
LEMMA IBCDestinationCallbackMsgSize ==
  ASSUME NEW t \in IBCDestinationCallbackMsg(AllValues)
  PROVE  Agree(Size_IBCDestinationCallbackMsg(t), Marshal_IBCDestinationCallbackMsg(t),
               t \in IBCDestinationCallbackMsg(Counted))
  <1> DEFINE n1 == Size_IBCAcknowledgement(t.Ack)
             m1 == Marshal_IBCAcknowledgement(t.Ack)
             n2 == Size_IBCPacket(t.Packet)
             m2 == Marshal_IBCPacket(t.Packet)
             n3 == Size_IBCTransferCallback(t.Transfer)
             m3 == Marshal_IBCTransferCallback(t.Transfer)
             x == t.Transfer
             n == Size_IBCDestinationCallbackMsg(t)
             m == Marshal_IBCDestinationCallbackMsg(t)
  <1>1. /\ t.Ack \in IBCAcknowledgement(AllValues)
        /\ t.Packet \in IBCPacket(AllValues)
        /\ t.Transfer \in Pointer(IBCTransferCallback(AllValues))
    BY DEF IBCDestinationCallbackMsg
  <1>2. t \in IBCDestinationCallbackMsg(Counted) <=>
          /\ t.Ack \in IBCAcknowledgement(Counted)
          /\ t.Packet \in IBCPacket(Counted)
          /\ t.Transfer \in Pointer(IBCTransferCallback(Counted))
    BY DEF IBCDestinationCallbackMsg
  <1>3. /\ Agree(n1, m1, t.Ack \in IBCAcknowledgement(Counted))
        /\ Agree(n2, m2, t.Packet \in IBCPacket(Counted))
    BY <1>1, IBCAcknowledgementSize, IBCPacketSize
  <1>4. x # Nil => Agree(n3, m3, x \in IBCTransferCallback(Counted))
    BY <1>1, IBCTransferCallbackSize DEF Pointer
  <1>5. n = 2 + 5 + 1 + n1 + 1 + 8 + 1 + n2 + (IF x # Nil THEN 1 + 10 + 1 + n3 ELSE 0)
    BY DEF Size_IBCDestinationCallbackMsg, brackets, colon, comma
  <1>6. m = Joined(<<2 + 3 + 1 + m1, 2 + 6 + 1 + m2>> \o OmitEmpty(2 + 8 + 1 + m3, x, Nil))
    BY NameLengths DEF Marshal_IBCDestinationCallbackMsg, Member
  <1>7. x \in Pointer(IBCTransferCallback(Counted)) <=> (x # Nil => n3 = m3)
    BY <1>4 DEF Agree, Pointer
  <1> HIDE DEF n1, m1, n2, m2, n3, m3, n, m
  <1>8. /\ n1 \in Nat /\ m1 \in Nat /\ n1 <= m1 /\ n2 \in Nat /\ m2 \in Nat /\ n2 <= m2
        /\ x # Nil => n3 \in Nat /\ m3 \in Nat /\ n3 <= m3
    BY <1>3, <1>4 DEF Agree
  <1>9. 2 + 3 + 1 + m1 \in Nat /\ 2 + 6 + 1 + m2 \in Nat
    BY <1>8, SMT
  <1>10. n \in Nat /\ m \in Nat /\ n <= m /\ (n = m <=> n1 = m1 /\ n2 = m2 /\ (x # Nil => n3 = m3))
    <2>1. CASE x = Nil
      <3>1. <<2 + 3 + 1 + m1, 2 + 6 + 1 + m2>> \o OmitEmpty(2 + 8 + 1 + m3, x, Nil) =
              <<2 + 3 + 1 + m1, 2 + 6 + 1 + m2>>
        BY <1>9, <2>1, Concatenations DEF OmitEmpty
      <3>2. m = 2 + ((2 + 3 + 1 + m1) + (2 + 6 + 1 + m2)) + 1
        BY <1>6, <1>9, <3>1, Object2
      <3>3. n = 2 + 5 + 1 + n1 + 1 + 8 + 1 + n2 + 0
        BY <1>5, <2>1
      <3> QED
        BY <1>8, <2>1, <3>2, <3>3, SMT
    <2>2. CASE x # Nil
      <3>1. 2 + 8 + 1 + m3 \in Nat
        BY <1>8, <2>2, SMT
      <3>2. <<2 + 3 + 1 + m1, 2 + 6 + 1 + m2>> \o OmitEmpty(2 + 8 + 1 + m3, x, Nil) =
              <<2 + 3 + 1 + m1, 2 + 6 + 1 + m2, 2 + 8 + 1 + m3>>
        BY <1>9, <2>2, <3>1, Concatenations DEF OmitEmpty
      <3>3. m = 2 + ((2 + 3 + 1 + m1) + (2 + 6 + 1 + m2) + (2 + 8 + 1 + m3)) + 2
        <4> DEFINE q1 == 2 + 3 + 1 + m1
                   q2 == 2 + 6 + 1 + m2
                   q3 == 2 + 8 + 1 + m3
        <4>1. q1 \in Nat /\ q2 \in Nat /\ q3 \in Nat /\ m = Joined(<<q1, q2, q3>>)
          BY <1>6, <1>9, <3>1, <3>2
        <4> HIDE DEF q1, q2, q3
        <4>2. Joined(<<q1, q2, q3>>) = 2 + (q1 + q2 + q3) + 2
          BY <4>1, Object3, SMT
        <4> QED
          BY <4>1, <4>2 DEF q1, q2, q3
      <3>4. n = 2 + 5 + 1 + n1 + 1 + 8 + 1 + n2 + (1 + 10 + 1 + n3)
        BY <1>5, <2>2
      <3> QED
        BY <1>8, <2>2, <3>3, <3>4, SMT
    <2> QED
      BY <2>1, <2>2
  <1> QED
    BY <1>2, <1>3, <1>7, <1>10 DEF Agree, n, m

-----------------------------------------------------------------------------
(* All types                                                               *)

LEMMA TypeNames ==
  Types = {"string", "bytes", "int", "uint64", "bool", "Coins", "Coin",
           "IBCEndpoint", "IBCChannel", "IBCOpenInit", "IBCOpenTry",
           "IBCChannelOpenMsg", "IBCOpenAck", "IBCOpenConfirm",
           "IBCChannelConnectMsg", "IBCCloseInit", "IBCCloseConfirm",
           "IBCChannelCloseMsg", "IBCTimeoutBlock", "IBCTimeout",
           "IBCAcknowledgement", "IBCPacket", "IBCPacketReceiveMsg",
           "IBCPacketAckMsg", "IBCPacketTimeoutMsg", "IBCAckCallbackMsg",
           "IBCTimeoutCallbackMsg", "IBCSourceCallbackMsg",
           "IBCTransferCallback", "IBCDestinationCallbackMsg"}
  BY DEF Types, Declared

\* Every method of types/json_size.go: the size is the length of the document
\* that encoding/json makes of the declaration, for all values that have no
\* string with U+2028, U+2029 or a byte that is not UTF-8 and are not the least
\* int, and smaller than it for all others.
THEOREM EverySizeIsExact ==
  ASSUME NEW t \in Types, NEW v \in Declared(AllValues)[t]
  PROVE  Agree(ExpectedJSONSize(t, v), Marshal(t, v), v \in Declared(Counted)[t])
  <1>1. CASE t = "string"
    BY <1>1, stringSize, SMTT(30) DEF Declared, ExpectedJSONSize, Marshal
  <1>2. CASE t = "bytes"
    BY <1>2, bytesSize, SMTT(30) DEF Declared, ExpectedJSONSize, Marshal
  <1>3. CASE t = "int"
    BY <1>3, IntSize, SMTT(30) DEF Declared, ExpectedJSONSize, Marshal
  <1>4. CASE t = "uint64"
    BY <1>4, uint64Size, SMTT(30) DEF Declared, ExpectedJSONSize, Marshal
  <1>5. CASE t = "bool"
    BY <1>5, boolSize, SMTT(30) DEF Declared, ExpectedJSONSize, Marshal
  <1>6. CASE t = "Coins"
    BY <1>6, CoinsSize, SMTT(30) DEF Declared, ExpectedJSONSize, Marshal
  <1>7. CASE t = "Coin"
    BY <1>7, CoinSize, SMTT(30) DEF Declared, ExpectedJSONSize, Marshal
  <1>8. CASE t = "IBCEndpoint"
    BY <1>8, IBCEndpointSize, SMTT(30) DEF Declared, ExpectedJSONSize, Marshal
  <1>9. CASE t = "IBCChannel"
    BY <1>9, IBCChannelSize, SMTT(30) DEF Declared, ExpectedJSONSize, Marshal
  <1>10. CASE t = "IBCOpenInit"
    BY <1>10, IBCOpenInitSize, SMTT(30) DEF Declared, ExpectedJSONSize, Marshal
  <1>11. CASE t = "IBCOpenTry"
    BY <1>11, IBCOpenTrySize, SMTT(30) DEF Declared, ExpectedJSONSize, Marshal
  <1>12. CASE t = "IBCChannelOpenMsg"
    BY <1>12, IBCChannelOpenMsgSize, SMTT(30) DEF Declared, ExpectedJSONSize, Marshal
  <1>13. CASE t = "IBCOpenAck"
    BY <1>13, IBCOpenAckSize, SMTT(30) DEF Declared, ExpectedJSONSize, Marshal
  <1>14. CASE t = "IBCOpenConfirm"
    BY <1>14, IBCOpenConfirmSize, SMTT(30) DEF Declared, ExpectedJSONSize, Marshal
  <1>15. CASE t = "IBCChannelConnectMsg"
    BY <1>15, IBCChannelConnectMsgSize, SMTT(30) DEF Declared, ExpectedJSONSize, Marshal
  <1>16. CASE t = "IBCCloseInit"
    BY <1>16, IBCCloseInitSize, SMTT(30) DEF Declared, ExpectedJSONSize, Marshal
  <1>17. CASE t = "IBCCloseConfirm"
    BY <1>17, IBCCloseConfirmSize, SMTT(30) DEF Declared, ExpectedJSONSize, Marshal
  <1>18. CASE t = "IBCChannelCloseMsg"
    BY <1>18, IBCChannelCloseMsgSize, SMTT(30) DEF Declared, ExpectedJSONSize, Marshal
  <1>19. CASE t = "IBCTimeoutBlock"
    BY <1>19, IBCTimeoutBlockSize, SMTT(30) DEF Declared, ExpectedJSONSize, Marshal
  <1>20. CASE t = "IBCTimeout"
    BY <1>20, IBCTimeoutSize, SMTT(30) DEF Declared, ExpectedJSONSize, Marshal
  <1>21. CASE t = "IBCAcknowledgement"
    BY <1>21, IBCAcknowledgementSize, SMTT(30) DEF Declared, ExpectedJSONSize, Marshal
  <1>22. CASE t = "IBCPacket"
    BY <1>22, IBCPacketSize, SMTT(30) DEF Declared, ExpectedJSONSize, Marshal
  <1>23. CASE t = "IBCPacketReceiveMsg"
    BY <1>23, IBCPacketReceiveMsgSize, SMTT(30) DEF Declared, ExpectedJSONSize, Marshal
  <1>24. CASE t = "IBCPacketAckMsg"
    BY <1>24, IBCPacketAckMsgSize, SMTT(30) DEF Declared, ExpectedJSONSize, Marshal
  <1>25. CASE t = "IBCPacketTimeoutMsg"
    BY <1>25, IBCPacketTimeoutMsgSize, SMTT(30) DEF Declared, ExpectedJSONSize, Marshal
  <1>26. CASE t = "IBCAckCallbackMsg"
    BY <1>26, IBCAckCallbackMsgSize, SMTT(30) DEF Declared, ExpectedJSONSize, Marshal
  <1>27. CASE t = "IBCTimeoutCallbackMsg"
    BY <1>27, IBCTimeoutCallbackMsgSize, SMTT(30) DEF Declared, ExpectedJSONSize, Marshal
  <1>28. CASE t = "IBCSourceCallbackMsg"
    BY <1>28, IBCSourceCallbackMsgSize, SMTT(30) DEF Declared, ExpectedJSONSize, Marshal
  <1>29. CASE t = "IBCTransferCallback"
    BY <1>29, IBCTransferCallbackSize, SMTT(30) DEF Declared, ExpectedJSONSize, Marshal
  <1>30. CASE t = "IBCDestinationCallbackMsg"
    BY <1>30, IBCDestinationCallbackMsgSize, SMTT(30) DEF Declared, ExpectedJSONSize, Marshal
  <1> QED
    BY TypeNames, <1>1, <1>2, <1>3, <1>4, <1>5, <1>6, <1>7, <1>8, <1>9, <1>10,
       <1>11, <1>12, <1>13, <1>14, <1>15, <1>16, <1>17, <1>18, <1>19, <1>20,
       <1>21, <1>22, <1>23, <1>24, <1>25, <1>26, <1>27, <1>28, <1>29, <1>30

\* A call returns the size of the value it was given.
IInv ==
  /\ type \in Types /\ value \in Measured[type]
  /\ size = Nil \/ size = ExpectedJSONSize(type, value)

\* Only Measure sets the size, once.
LEMMA IInvInvariant ==
  Spec => []IInv
  <1>1. Init => IInv
    BY DEF Init, IInv
  <1>2. IInv /\ [Next]_vars => IInv'
    BY DEF IInv, Next, Measure, vars
  <1> QED
    BY <1>1, <1>2, PTL DEF Spec

\* Whatever value a call of ExpectedJSONSize is given, what it returns is the
\* length of the document, except for the values the methods do not count, for
\* which it is too small.
THEOREM SizesAlwaysExact ==
  Spec => []SizesAreExact
  <1>1. IInv => SizesAreExact
    <2> SUFFICES ASSUME IInv, size # Nil
                 PROVE  /\ size <= Marshal(type, value)
                        /\ size = Marshal(type, value) <=> value \in Declared(Counted)[type]
      BY DEF SizesAreExact
    <2>1. type \in Types /\ value \in Declared(AllValues)[type]
      BY JSONSizeAssumption DEF IInv
    <2>2. size = ExpectedJSONSize(type, value)
      BY DEF IInv
    <2>3. Agree(ExpectedJSONSize(type, value), Marshal(type, value),
                value \in Declared(Counted)[type])
      BY <2>1, EverySizeIsExact
    <2> QED
      BY <2>2, <2>3 DEF Agree
  <1> QED
    BY <1>1, IInvInvariant, PTL

=============================================================================
