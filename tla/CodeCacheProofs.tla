--------------------------- MODULE CodeCacheProofs ---------------------------
(***************************************************************************)
(* Theorems about CodeCache, for any codes, lengths, prices, limits and    *)
(* length of checksums.  SyncPinsList is about what the loop over a list   *)
(* computes: an induction over its rounds.  The library's theorems on      *)
(* induction take a predicate as a parameter, which the provers cannot     *)
(* instantiate; that < is well-founded, and that a set of numbers then has *)
(* a least one (WFMin), are statements about sets, and give the same.      *)
(***************************************************************************)
EXTENDS CodeCache, WellFoundedInduction, TLAPS

\* The inductive invariant: both properties, as each step changes the files
\* together with what was paid for or answered.
IInv == OnlyPaidCodesStored /\ StoredCodesStay

\* If a step stores at most the code c, which is then allowed, and every code
\* it returns is stored, the invariant is kept.
LEMMA FilesStep ==
  ASSUME IInv, NEW c, stored' \in {stored, stored \cup {c}}, allowed \subseteq allowed',
         c \in stored' => c \in stored \/ c \in allowed',
         returned' \subseteq returned \cup {c}, c \in returned' => c \in returned \/ c \in stored'
  PROVE  IInv'
  BY DEF IInv, OnlyPaidCodesStored, StoredCodesStay

\* store_code of cache.rs: without persisting, only the simulation returns no
\* code; otherwise a code that is returned has been written.
LEMMA StoreStep ==
  ASSUME IInv, NEW op, NEW view, NEW checked \in BOOLEAN, NEW persist \in BOOLEAN,
         store_code(op, view, checked, persist),
         allowed \subseteq allowed',
         persist /\ read(view) # Nil => read(view) \in allowed',
         ~persist => op = "SimulateStoreCode"
  PROVE  IInv'
<1> DEFINE c == read(view)
<1>1. CASE c = Nil
  BY <1>1 DEF store_code, IInv, OnlyPaidCodesStored, StoredCodesStay
<1>2. CASE c # Nil
  <2>1. cache_store_code(op, c, checked, persist)
    BY <1>2 DEF store_code
  <2> HIDE DEF c
  <2>2. /\ stored' \in {stored, stored \cup {c}}
        /\ ~persist => stored' = stored
        /\ returned' \subseteq returned \cup {c}
        /\ ~persist => returned' = returned
        /\ c \in returned' => c \in returned \/ c \in stored'
    BY <2>1, Zenon DEF cache_store_code
  <2>3. persist => c \in allowed'
    BY <1>2 DEF c
  <2> QED BY <2>2, <2>3, FilesStep
<1> QED BY <1>1, <1>2

LEMMA NextStep ==
  ASSUME IInv, [Next]_vars
  PROVE  IInv'
<1>1. ASSUME NEW c \in Codes \cup {Nil}, NEW gasLimit \in GasLimits, StoreCode(c, gasLimit)
      PROVE  IInv'
  <2>1. CASE gasLimit < compileCost(c)
    BY <1>1, <2>1 DEF StoreCode, OutOfGas, IInv, OnlyPaidCodesStored, StoredCodesStay
  <2>2. CASE ~(gasLimit < compileCost(c))
    <3>1. compileCost(c) \in Nat /\ gasLimit \in Nat
      BY CodeCacheAssumption DEF CodeCacheAssumption, compileCost
    <3>2. allowed' = allowed \cup ({c} \ {Nil})
      BY <1>1, <2>2, <3>1 DEF StoreCode
    <3>3. store_code("StoreCode", makeView(c), TRUE, TRUE)
      BY <1>1, <2>2, Zenon DEF StoreCode, api_StoreCode
    <3>4. read(makeView(c)) = c
      BY DEF read, makeView
    <3> QED BY <3>2, <3>3, <3>4, StoreStep, Zenon
  <2> QED BY <2>1, <2>2
<1>2. ASSUME NEW c \in Codes \cup {Nil}, NEW gasLimit \in GasLimits,
             SimulateStoreCode(c, gasLimit)
      PROVE  IInv'
  <2>1. CASE gasLimit < compileCost(c)
    BY <1>2, <2>1 DEF SimulateStoreCode, OutOfGas, IInv, OnlyPaidCodesStored, StoredCodesStay
  <2>2. CASE ~(gasLimit < compileCost(c))
    <3>1. store_code("SimulateStoreCode", makeView(c), TRUE, FALSE) /\ allowed' = allowed
      BY <1>2, <2>2, Zenon DEF SimulateStoreCode, api_StoreCode
    <3> QED BY <3>1, StoreStep, Zenon
  <2> QED BY <2>1, <2>2
<1>3. ASSUME NEW c \in Codes \cup {Nil}, StoreCodeUnchecked(c)
      PROVE  IInv'
  <2>1. /\ store_code("StoreCodeUnchecked", makeView(c), FALSE, TRUE)
        /\ allowed' = allowed \cup ({c} \ {Nil})
    BY <1>3, Zenon DEF StoreCodeUnchecked, api_StoreCodeUnchecked
  <2>2. read(makeView(c)) = c
    BY DEF read, makeView
  <2> QED BY <2>1, <2>2, StoreStep, Zenon
<1>4. ASSUME NEW cs \in Arguments, RemoveCode(cs)
      PROVE  IInv'
  <2> DEFINE found == IF isChecksum(makeView(cs)) THEN codesWith(cs) \cap stored ELSE {}
  <2>1. /\ stored' \in {stored, stored \ found}
        /\ returned' = returned \ found /\ allowed' = allowed
    BY <1>4, Zenon DEF RemoveCode
  <2> HIDE DEF found
  <2> QED BY <2>1 DEF IInv, OnlyPaidCodesStored, StoredCodesStay
<1>5. ASSUME UNCHANGED <<stored, allowed, returned>>
      PROVE  IInv'
  BY <1>5 DEF IInv, OnlyPaidCodesStored, StoredCodesStay
<1>6. ASSUME NEW cs \in Arguments, GetCode(cs) \/ Pin(cs) \/ Unpin(cs)
      PROVE  IInv'
  BY <1>5, <1>6, Zenon DEF GetCode, Pin, Unpin
<1>7. ASSUME NEW list, SyncPinnedCodes(list)
      PROVE  IInv'
  BY <1>5, <1>7 DEF SyncPinnedCodes
<1>8. CASE Restart \/ UNCHANGED vars
  BY <1>5, <1>8, Zenon DEF Restart, vars
<1> QED BY <1>1, <1>2, <1>3, <1>4, <1>6, <1>7, <1>8, SMT DEF Next

LEMMA Invariance == Spec => []IInv
<1>1. Init => IInv
  BY DEF Init, IInv, OnlyPaidCodesStored, StoredCodesStay
<1> QED BY <1>1, NextStep, PTL DEF Spec

\* Only codes for which a StoreCode had the gas, or which were stored
\* unchecked, are ever on disk, whatever fails and is retried.
THEOREM OnlyPaidCodesEverStored == Spec => []OnlyPaidCodesStored
<1>1. IInv => OnlyPaidCodesStored
  BY DEF IInv
<1> QED BY <1>1, Invariance, PTL

\* A code whose checksum was returned stays on disk until it is removed.
THEOREM StoredCodesAlwaysStay == Spec => []StoredCodesStay
<1>1. IInv => StoredCodesStay
  BY DEF IInv
<1> QED BY <1>1, Invariance, PTL

-----------------------------------------------------------------------------
(* Induction.                                                              *)

\* From here on the steps are first-order: Zenon is the backend, and the leaves
\* that reason about numbers or sequences cite SMT.
USE Zenon

\* A set of numbers that has 0 and, with each number, the next one has them all:
\* otherwise the least number it does not have would be neither.
LEMMA Induction ==
  ASSUME NEW S, 0 \in S, \A n \in Nat : n \in S => n + 1 \in S
  PROVE  Nat \subseteq S
  <1> DEFINE T == Nat \ S
  <1> SUFFICES ASSUME T # {} PROVE FALSE
    OBVIOUS
  <1>1. PICK m \in T : \A n \in T : <<n, m>> \notin OpToRel(<, Nat)
    <2>1. T \subseteq Nat
      OBVIOUS
    <2> HIDE DEF T
    <2> QED
      BY <2>1, NatLessThanWellFounded, WFMin
  <1>2. \A n \in T : ~(n < m)
    BY <1>1 DEF OpToRel
  <1>3. m \in Nat /\ m # 0
    OBVIOUS
  <1>4. m - 1 \in Nat /\ m - 1 < m /\ (m - 1) + 1 = m
    BY <1>3, SMT
  <1>5. m - 1 \in S
    BY <1>2, <1>4
  <1> QED
    BY <1>4, <1>5

\* f[k] is what m rounds of a loop have computed after k of them.
Rounds(f, m, V, base, step) ==
  /\ f \in [0 .. m -> V]
  /\ f[0] = base
  /\ \A k \in 1 .. m : f[k] = step[k][f[k - 1]]

\* A loop can make any number of rounds.
LEMMA LoopsRun ==
  ASSUME NEW V, NEW base \in V, NEW step \in [Nat -> [V -> V]]
  PROVE  \A m \in Nat : \E f : Rounds(f, m, V, base, step)
  <1> DEFINE S == {m \in Nat : \E f : Rounds(f, m, V, base, step)}
  <1>1. 0 \in S
    <2>1. Rounds([k \in 0 .. 0 |-> base], 0, V, base, step)
      BY SMT DEF Rounds
    <2> QED
      BY <2>1, SMT
  <1>2. ASSUME NEW m \in Nat, m \in S PROVE m + 1 \in S
    <2>1. PICK f : Rounds(f, m, V, base, step)
      BY <1>2
    <2> DEFINE g == [k \in 0 .. m + 1 |-> IF k = m + 1 THEN step[m + 1][f[m]] ELSE f[k]]
    <2>2. f[m] \in V /\ m + 1 \in Nat
      BY <2>1, SMT DEF Rounds
    <2>3. step[m + 1][f[m]] \in V
      BY <2>2, SMT
    <2>4. g \in [0 .. m + 1 -> V]
      BY <2>1, <2>3, SMT DEF Rounds
    <2>5. g[0] = base
      BY <2>1, SMT DEF Rounds
    <2>6. \A k \in 1 .. m + 1 : g[k] = step[k][g[k - 1]]
      BY <2>1, SMT DEF Rounds
    <2> HIDE DEF g
    <2>7. Rounds(g, m + 1, V, base, step)
      BY <2>4, <2>5, <2>6 DEF Rounds
    <2>8. m + 1 \in Nat
      BY SMT
    <2> QED
      BY <2>7, <2>8
  <1> HIDE DEF S
  <1>3. Nat \subseteq S
    BY <1>1, <1>2, Induction
  <1> QED
    BY <1>3 DEF S


-----------------------------------------------------------------------------
(* The list of SyncPinnedCodes on its way to Rust.                         *)

\* The bytes of checksums, and slices of them.
Bytes == Codes \X (1 .. ChecksumLen)

Slices == Seq(Bytes)

Checksums == {checksumOf(c) : c \in Codes}

\* A checksum is a slice of ChecksumLen bytes that tell what they are.
LEMMA ChecksumFacts ==
  ASSUME NEW c \in Codes
  PROVE  /\ checksumOf(c) \in Slices /\ Len(checksumOf(c)) = ChecksumLen
         /\ checksumOf(c) # Nil
         /\ \A i \in 1 .. ChecksumLen : checksumOf(c)[i] = <<c, i>>
  <1> USE CodeCacheAssumption DEF CodeCacheAssumption
  <1>1. checksumOf(c) \in [1 .. ChecksumLen -> Bytes]
    BY DEF checksumOf, Bytes
  <1>2. checksumOf(c) \in Slices /\ Len(checksumOf(c)) = ChecksumLen
    BY <1>1, SMT DEF Slices
  <1>3. \A i \in 1 .. ChecksumLen : checksumOf(c)[i] = <<c, i>>
    BY DEF checksumOf
  <1> QED
    BY <1>2, <1>3 DEF Slices, Bytes

\* So is one that is cut off, but for its last byte.
LEMMA CutOffFacts ==
  ASSUME NEW c \in Codes
  PROVE  LET cs == Front(checksumOf(c)) IN
         /\ cs \in Slices /\ Len(cs) = ChecksumLen - 1
         /\ \A i \in 1 .. Len(cs) : cs[i] = <<c, i>>
  <1> DEFINE s == checksumOf(c)
  <1>1. ChecksumLen \in Nat /\ ChecksumLen > 0
    BY CodeCacheAssumption, SMT DEF CodeCacheAssumption
  <1>2. s \in Slices /\ Len(s) = ChecksumLen /\ \A i \in 1 .. ChecksumLen : s[i] = <<c, i>>
    BY ChecksumFacts
  <1> HIDE DEF s
  <1>3. /\ SubSeq(s, 1, Len(s) - 1) \in Slices
        /\ Len(SubSeq(s, 1, Len(s) - 1)) = Len(s) - 1
        /\ \A i \in 1 .. Len(s) - 1 : SubSeq(s, 1, Len(s) - 1)[i] = s[i]
    BY <1>1, <1>2, SMT DEF Slices
  <1>4. \A i \in 1 .. ChecksumLen - 1 : i \in 1 .. ChecksumLen
    BY <1>1, SMT
  <1> QED
    BY <1>2, <1>3, <1>4 DEF Front, s

\* What an element of the list is that is not nil.
LEMMA ArgumentFacts ==
  ASSUME NEW cs \in Arguments, cs # Nil
  PROVE  /\ cs \in Slices
         /\ \E c \in Codes : /\ cs = checksumOf(c) \/ Len(cs) < ChecksumLen
                             /\ \A i \in 1 .. Len(cs) : cs[i] = <<c, i>>
  <1>1. CASE \E c \in Codes : cs = checksumOf(c)
    BY <1>1, ChecksumFacts
  <1>2. CASE \E c \in Codes : cs = Front(checksumOf(c))
    <2>1. \A n \in Int : n - 1 < n
      BY SMT
    <2>2. ChecksumLen \in Int
      BY CodeCacheAssumption, SMT DEF CodeCacheAssumption
    <2> QED
      BY <1>2, <2>1, <2>2, CutOffFacts
  <1> QED
    BY <1>1, <1>2 DEF Arguments

\* The recursive definition of appended has a solution, so that it holds.
LEMMA Appending ==
  ASSUME NEW list \in Seq(Arguments)
  PROVE  /\ appended(list) \in [0 .. Len(list) -> Slices]
         /\ appended(list)[0] = << >>
         /\ \A n \in 1 .. Len(list) :
              appended(list)[n] = IF list[n] = Nil THEN appended(list)[n - 1]
                                  ELSE appended(list)[n - 1] \o list[n]
  <1> DEFINE grow(n, bytes) == IF n \in 1 .. Len(list) /\ list[n] # Nil THEN bytes \o list[n] ELSE bytes
             step == [n \in Nat |-> [bytes \in Slices |-> grow(n, bytes)]]
             D(f) == [n \in 0 .. Len(list) |->
                       IF n = 0 THEN << >> ELSE IF list[n] = Nil THEN f[n - 1] ELSE f[n - 1] \o list[n]]
  <1>1. \A n \in 1 .. Len(list) : list[n] \in Arguments
    BY SMT
  <1>2. Len(list) \in Nat /\ << >> \in Slices
    BY SMT DEF Slices
  <1>3. \A a, b \in Slices : a \o b \in Slices
    BY SMT DEF Slices
  <1>4. \A n \in Nat : \A bytes \in Slices : grow(n, bytes) \in Slices
    BY <1>1, <1>3, ArgumentFacts
  <1>5. step \in [Nat -> [Slices -> Slices]]
    BY <1>4
  <1>6. \A n \in Nat : \A bytes \in Slices : step[n][bytes] = grow(n, bytes)
    OBVIOUS
  <1> HIDE DEF step
  <1>7. PICK f : Rounds(f, Len(list), Slices, << >>, step)
    BY <1>2, <1>5, LoopsRun
  <1>8. \A n \in 1 .. Len(list) : n \in Nat /\ n # 0 /\ n - 1 \in 0 .. Len(list)
    BY <1>2, SMT
  <1>9. \A n \in 0 .. Len(list) : n = 0 \/ n \in 1 .. Len(list)
    BY <1>2, SMT
  <1>10. f \in [0 .. Len(list) -> Slices] /\ f[0] = << >>
    BY <1>7 DEF Rounds
  <1>11. \A n \in 1 .. Len(list) :
           f[n] = IF list[n] = Nil THEN f[n - 1] ELSE f[n - 1] \o list[n]
    <2> TAKE n \in 1 .. Len(list)
    <2>1. f[n] = step[n][f[n - 1]] /\ f[n - 1] \in Slices
      BY <1>7, <1>8, <1>10 DEF Rounds
    <2>2. step[n][f[n - 1]] = grow(n, f[n - 1])
      BY <1>6, <1>8, <2>1
    <2> QED
      BY <2>1, <2>2
  <1>12. \A n \in 0 .. Len(list) : f[n] = D(f)[n]
    BY <1>9, <1>10, <1>11, <1>8
  <1>13. f = D(f)
    BY <1>10, <1>12
  <1>14. appended(list) = CHOOSE g : g = D(g)
    BY DEF appended
  <1> DEFINE a == appended(list)
  <1>15. a = D(a)
    BY <1>13, <1>14
  <1> HIDE DEF a
  <1>16. a[0] = << >>
    <2>1. 0 \in 0 .. Len(list)
      BY <1>2, SMT
    <2> QED
      BY <1>15, <2>1
  <1>17. \A n \in 1 .. Len(list) :
           a[n] = IF list[n] = Nil THEN a[n - 1] ELSE a[n - 1] \o list[n]
    <2>1. \A n \in 1 .. Len(list) : n \in 0 .. Len(list)
      BY <1>2, SMT
    <2> QED
      BY <1>15, <1>8, <2>1
  <1> DEFINE S == {n \in Nat : n \in 0 .. Len(list) => a[n] \in Slices}
  <1>18. 0 \in S
    BY <1>16, <1>2
  <1>19. ASSUME NEW n \in Nat, n \in S PROVE n + 1 \in S
    <2>1. n + 1 \in Nat /\ (n + 1) - 1 = n
      BY SMT
    <2>2. n + 1 \in 0 .. Len(list) => n + 1 \in 1 .. Len(list) /\ n \in 0 .. Len(list)
      BY <1>2, SMT
    <2>3. ASSUME n + 1 \in 0 .. Len(list) PROVE a[n + 1] \in Slices
      <3>1. a[n] \in Slices
        BY <1>19, <2>2, <2>3
      <3>2. a[n + 1] = IF list[n + 1] = Nil THEN a[n] ELSE a[n] \o list[n + 1]
        BY <1>17, <2>1, <2>2, <2>3
      <3>3. list[n + 1] # Nil => list[n + 1] \in Slices
        BY <1>1, <2>2, <2>3, ArgumentFacts
      <3> QED
        BY <3>1, <3>2, <3>3, <1>3
    <2> QED
      BY <2>1, <2>3
  <1>20. Nat \subseteq S
    <2> HIDE DEF S
    <2> QED
      BY <1>18, <1>19, Induction
  <1>21. \A n \in 0 .. Len(list) : n \in Nat
    BY <1>2, SMT
  <1>22. \A n \in 0 .. Len(list) : a[n] \in Slices
    BY <1>20, <1>21
  <1>23. a \in [0 .. Len(list) -> Slices]
    BY <1>15, <1>22
  <1> QED
    BY <1>16, <1>17, <1>23 DEF a


\* Every byte of the slice comes from a checksum of the list.
LEMMA EveryByteIsListed ==
  ASSUME NEW list \in Seq(Arguments)
  PROVE  \A n \in 0 .. Len(list) : \A p \in 1 .. Len(appended(list)[n]) :
           \E k \in 1 .. Len(list) :
             list[k] # Nil /\ \E i \in 1 .. Len(list[k]) : appended(list)[n][p] = list[k][i]
  <1> DEFINE a == appended(list)
             From(b) == \E k \in 1 .. Len(list) :
                          list[k] # Nil /\ \E i \in 1 .. Len(list[k]) : b = list[k][i]
             All(bytes) == \A p \in 1 .. Len(bytes) : From(bytes[p])
             S == {n \in Nat : n \in 0 .. Len(list) => All(a[n])}
  <1>1. /\ a \in [0 .. Len(list) -> Slices] /\ a[0] = << >>
        /\ \A n \in 1 .. Len(list) :
             a[n] = IF list[n] = Nil THEN a[n - 1] ELSE a[n - 1] \o list[n]
    BY Appending
  <1> HIDE DEF a
  <1>2. 0 \in S
    <2>1. 1 .. Len(<< >>) = {}
      BY SMT
    <2> QED
      BY <1>1, <2>1
  <1>3. ASSUME NEW n \in Nat, n \in S, n + 1 \in 0 .. Len(list) PROVE All(a[n + 1])
    <2>1. n + 1 \in 1 .. Len(list) /\ n \in 0 .. Len(list) /\ (n + 1) - 1 = n
      BY <1>3, SMT
    <2>2. All(a[n]) /\ a[n] \in Slices
      BY <1>1, <1>3, <2>1
    <2>3. CASE list[n + 1] = Nil
      <3>1. a[n + 1] = a[n]
        BY <1>1, <2>1, <2>3
      <3> HIDE DEF All
      <3> QED
        BY <2>2, <3>1
    <2>4. CASE list[n + 1] # Nil
      <3>1. a[n + 1] = a[n] \o list[n + 1]
        BY <1>1, <2>1, <2>4
      <3>2. list[n + 1] \in Slices
        <4>1. list[n + 1] \in Arguments
          BY <2>1, SMT
        <4> QED
          BY <4>1, <2>4, ArgumentFacts
      <3>3. ASSUME NEW u \in Slices, NEW v \in Slices, NEW p \in 1 .. Len(u \o v)
            PROVE  \/ p \in 1 .. Len(u) /\ (u \o v)[p] = u[p]
                   \/ p - Len(u) \in 1 .. Len(v) /\ (u \o v)[p] = v[p - Len(u)]
        BY SMT DEF Slices
      <3>4. \A i \in 1 .. Len(list[n + 1]) : From(list[n + 1][i])
        BY <2>1, <2>4
      <3> HIDE DEF From
      <3> SUFFICES ASSUME NEW p \in 1 .. Len(a[n + 1]) PROVE From(a[n + 1][p])
        OBVIOUS
      <3>5. \/ p \in 1 .. Len(a[n]) /\ a[n + 1][p] = a[n][p]
            \/ \E i \in 1 .. Len(list[n + 1]) : a[n + 1][p] = list[n + 1][i]
        <4> DEFINE u == a[n]
                   v == list[n + 1]
        <4>1. u \in Slices /\ v \in Slices /\ a[n + 1] = u \o v
          BY <2>2, <3>1, <3>2
        <4> HIDE DEF u, v
        <4>2. \/ p \in 1 .. Len(u) /\ (u \o v)[p] = u[p]
              \/ p - Len(u) \in 1 .. Len(v) /\ (u \o v)[p] = v[p - Len(u)]
          BY <3>3, <4>1
        <4> QED
          BY <4>1, <4>2 DEF u, v
      <3> QED
        BY <3>4, <3>5, <2>2
    <2> QED
      BY <2>3, <2>4
  <1>4. \A n \in Nat : n + 1 \in Nat
    BY SMT
  <1>5. \A n \in Nat : n \in S => n + 1 \in S
    BY <1>3, <1>4
  <1>6. Nat \subseteq S
    <2> HIDE DEF S
    <2> QED
      BY <1>2, <1>5, Induction
  <1>7. \A n \in 0 .. Len(list) : n \in Nat
    BY SMT
  <1> QED
    BY <1>6, <1>7 DEF a

\* A checksum of the list stays where the loop has put it.
LEMMA ChecksumsArePlaced ==
  ASSUME NEW list \in Seq(Arguments), NEW k \in 1 .. Len(list), list[k] # Nil
  PROVE  \E o \in Nat : /\ o + Len(list[k]) <= Len(buffer(list))
                        /\ \A i \in 1 .. Len(list[k]) : buffer(list)[o + i] = list[k][i]
  <1> DEFINE a == appended(list)
             o == Len(a[k - 1])
             cs == list[k]
             Placed(bytes) == /\ o + Len(cs) <= Len(bytes)
                              /\ \A i \in 1 .. Len(cs) : bytes[o + i] = cs[i]
             S == {n \in Nat : n \in k .. Len(list) => Placed(a[n])}
  <1>1. /\ a \in [0 .. Len(list) -> Slices]
        /\ \A n \in 1 .. Len(list) :
             a[n] = IF list[n] = Nil THEN a[n - 1] ELSE a[n - 1] \o list[n]
    BY Appending
  <1> HIDE DEF a
  <1>2. k \in Nat /\ k # 0 /\ k - 1 \in 0 .. Len(list) /\ Len(list) \in k .. Len(list)
        /\ Len(list) \in Nat
    BY SMT
  <1>3. \A n \in 1 .. Len(list) : list[n] # Nil => list[n] \in Slices
    <2>1. \A n \in 1 .. Len(list) : list[n] \in Arguments
      BY SMT
    <2> QED
      BY <2>1, ArgumentFacts
  <1>4. a[k - 1] \in Slices /\ cs \in Slices
    BY <1>1, <1>2, <1>3
  <1>5. o \in Nat /\ Len(cs) \in Nat
    BY <1>4, SMT DEF Slices
  <1>6. Placed(a[k])
    <2>1. a[k] = a[k - 1] \o cs
      BY <1>1
    <2>2. ASSUME NEW u \in Slices, NEW v \in Slices
          PROVE  /\ Len(u) + Len(v) <= Len(u \o v)
                 /\ \A i \in 1 .. Len(v) : (u \o v)[Len(u) + i] = v[i]
      BY SMT DEF Slices
    <2>3. /\ Len(a[k - 1]) + Len(cs) <= Len(a[k])
          /\ \A i \in 1 .. Len(cs) : a[k][Len(a[k - 1]) + i] = cs[i]
      <3> DEFINE u == a[k - 1]
      <3>1. u \in Slices /\ a[k] = u \o cs
        BY <1>4, <2>1
      <3> HIDE DEF u, cs
      <3>2. /\ Len(u) + Len(cs) <= Len(u \o cs)
            /\ \A i \in 1 .. Len(cs) : (u \o cs)[Len(u) + i] = cs[i]
        BY <1>4, <2>2, <3>1
      <3>3. /\ Len(u) + Len(cs) <= Len(a[k])
            /\ \A i \in 1 .. Len(cs) : a[k][Len(u) + i] = cs[i]
        BY <3>1, <3>2
      <3> QED
        BY <3>3 DEF u
    <2> QED
      BY <2>3
  <1> HIDE DEF o, cs
  <1>7. 0 \in S
    BY <1>2, SMT
  <1>8. ASSUME NEW n \in Nat, n \in S, n + 1 \in k .. Len(list) PROVE Placed(a[n + 1])
    <2>1. CASE n + 1 = k
      BY <1>6, <2>1
    <2>2. CASE n + 1 # k
      <3>1. n \in k .. Len(list) /\ n + 1 \in 1 .. Len(list) /\ (n + 1) - 1 = n
            /\ n \in 0 .. Len(list)
        BY <1>2, <1>8, <2>2, SMT
      <3>2. Placed(a[n]) /\ a[n] \in Slices
        <4> HIDE DEF Placed
        <4> QED
          BY <1>1, <1>8, <3>1
      <3>3. ASSUME NEW u \in Slices, NEW v \in Slices, Placed(u) PROVE Placed(u \o v)
        <4>1. /\ Len(u) \in Nat /\ Len(u) <= Len(u \o v) /\ Len(u \o v) \in Nat
              /\ \A p \in 1 .. Len(u) : (u \o v)[p] = u[p]
          BY SMT DEF Slices
        <4>2. \A i \in 1 .. Len(cs) : o + i \in 1 .. Len(u)
          BY <1>5, <3>3, <4>1, SMT
        <4>3. o + Len(cs) <= Len(u \o v)
          BY <1>5, <3>3, <4>1, SMT
        <4> QED
          BY <3>3, <4>1, <4>2, <4>3
      <3>4. a[n + 1] = IF list[n + 1] = Nil THEN a[n] ELSE a[n] \o list[n + 1]
        BY <1>1, <3>1
      <3> HIDE DEF Placed
      <3> QED
        BY <1>3, <3>1, <3>2, <3>3, <3>4
    <2> QED
      BY <2>1, <2>2
  <1>9. \A n \in Nat : n + 1 \in Nat
    BY SMT
  <1>10. \A n \in Nat : n \in S => n + 1 \in S
    BY <1>8, <1>9
  <1>11. Nat \subseteq S
    <2> HIDE DEF S
    <2> QED
      BY <1>7, <1>10, Induction
  <1>12. Placed(a[Len(list)])
    BY <1>2, <1>11
  <1>13. Placed(buffer(list))
    BY <1>12 DEF a, buffer
  <1> QED
    BY <1>5, <1>13 DEF cs

\* A chunk ends within the slice.
LEMMA ChunkBounds ==
  ASSUME NEW L \in Nat, L > 0, NEW len \in Nat, NEW n \in 1 .. len \div L
  PROVE  (n - 1) * L \in Nat /\ n * L = (n - 1) * L + L /\ n * L <= len
  <1> DEFINE q == len \div L
  <1>1. q \in Nat /\ q * L <= len
    BY SMT
  <1> HIDE DEF q
  <1>2. n \in Nat /\ n > 0 /\ n <= q
    BY <1>1, SMT DEF q
  <1>3. n * L <= q * L
    BY <1>1, <1>2, SMT
  <1>4. (n - 1) * L \in Nat /\ n * L = (n - 1) * L + L
    BY <1>2, SMT
  <1> QED
    BY <1>1, <1>2, <1>3, <1>4, SMT

\* Bytes for a whole checksum begin within a chunk.
LEMMA ChunkAround ==
  ASSUME NEW L \in Nat, L > 0, NEW len \in Nat, NEW o \in Nat, o + L <= len
  PROVE  \E n \in 1 .. len \div L : \E r \in 0 .. L - 1 : o = (n - 1) * L + r
  <1> DEFINE q == o \div L
             r == o % L
  <1>1. q \in Nat /\ r \in 0 .. L - 1 /\ o = q * L + r
    BY SMT
  <1> HIDE DEF q, r
  <1>2. (q + 1) * L <= len
    BY <1>1, SMT
  <1>3. q + 1 <= len \div L
    BY <1>1, <1>2, SMT
  <1>4. q + 1 \in 1 .. len \div L /\ o = ((q + 1) - 1) * L + r
    BY <1>1, <1>3, SMT
  <1> QED
    BY <1>1, <1>4


\* The chunks of a slice.
LEMMA ChunkFacts ==
  ASSUME NEW bytes \in Slices, NEW n \in 1 .. Len(bytes) \div ChecksumLen
  PROVE  LET chunk == SubSeq(bytes, (n - 1) * ChecksumLen + 1, n * ChecksumLen) IN
         /\ chunk \in Slices /\ Len(chunk) = ChecksumLen
         /\ \A i \in 1 .. ChecksumLen :
              /\ (n - 1) * ChecksumLen + i \in 1 .. Len(bytes)
              /\ chunk[i] = bytes[(n - 1) * ChecksumLen + i]
  <1> DEFINE m == (n - 1) * ChecksumLen
             e == n * ChecksumLen
  <1>1. ChecksumLen \in Nat /\ ChecksumLen > 0 /\ Len(bytes) \in Nat
    BY CodeCacheAssumption, SMT DEF CodeCacheAssumption, Slices
  <1>2. m \in Nat /\ e = m + ChecksumLen /\ e <= Len(bytes)
    BY <1>1, ChunkBounds
  <1> HIDE DEF m, e
  <1>3. SubSeq(bytes, m + 1, e) \in Slices
    BY <1>1, <1>2, SMT DEF Slices
  <1>4. Len(SubSeq(bytes, m + 1, e)) = ChecksumLen
    BY <1>1, <1>2, SMT DEF Slices
  <1>5. ASSUME NEW i \in 1 .. ChecksumLen
        PROVE  /\ m + i \in 1 .. Len(bytes)
               /\ SubSeq(bytes, m + 1, e)[i] = bytes[m + i]
    <2>1. i \in Nat /\ i > 0 /\ m + i <= e
      BY <1>1, <1>2, <1>5, SMT
    <2>2. m + i \in 1 .. Len(bytes)
      BY <1>1, <1>2, <2>1, SMT
    <2>3. SubSeq(bytes, m + 1, e)[i] = bytes[m + i]
      BY <1>1, <1>2, <2>1, SMTT(30) DEF Slices
    <2> QED
      BY <2>2, <2>3
  <1> QED
    BY <1>3, <1>4, <1>5 DEF m, e

\* If all chunks are checksums, they are the checksums of the list: the last
\* byte of a chunk tells which checksum of the list it is from, and a checksum
\* that did not begin with a chunk would put its first byte into the middle of
\* another one.
LEMMA ChunksAreListed ==
  ASSUME NEW list \in Seq(Arguments), chunks_exact(buffer(list)) \subseteq Checksums
  PROVE  chunks_exact(buffer(list)) = Checksums \cap ToSet(list)
  <1> DEFINE bytes == buffer(list)
             chunk(n) == SubSeq(bytes, (n - 1) * ChecksumLen + 1, n * ChecksumLen)
             Count == 1 .. Len(bytes) \div ChecksumLen
  <1>1. ChecksumLen \in Nat /\ ChecksumLen > 0 /\ ChecksumLen \in 1 .. ChecksumLen
    BY CodeCacheAssumption, SMT DEF CodeCacheAssumption
  <1>2. bytes \in Slices
    <2>1. Len(list) \in 0 .. Len(list)
      BY SMT
    <2> QED
      BY <2>1, Appending DEF buffer
  <1>3. \A k \in 1 .. Len(list) : list[k] \in Arguments
    BY SMT
  <1>4. DOMAIN list = 1 .. Len(list)
    BY SMT
  <1>5. \A n \in Count : chunk(n) \in Checksums
    BY DEF chunks_exact
  <1>6. ASSUME NEW n \in Count PROVE chunk(n) \in ToSet(list)
    <2>1. PICK d \in Codes : chunk(n) = checksumOf(d)
      BY <1>5 DEF Checksums
    <2> DEFINE p == (n - 1) * ChecksumLen + ChecksumLen
    <2>2. p \in 1 .. Len(bytes) /\ chunk(n)[ChecksumLen] = bytes[p]
      BY <1>1, <1>2, ChunkFacts
    <2>3. bytes[p] = <<d, ChecksumLen>>
      BY <1>1, <2>1, <2>2, ChecksumFacts
    <2>4. PICK k \in 1 .. Len(list) :
            list[k] # Nil /\ \E i \in 1 .. Len(list[k]) : bytes[p] = list[k][i]
      <3>1. Len(list) \in 0 .. Len(list)
        BY SMT
      <3> QED
        BY <2>2, <3>1, EveryByteIsListed DEF buffer
    <2>5. PICK i \in 1 .. Len(list[k]) : bytes[p] = list[k][i]
      BY <2>4
    <2>6. PICK c \in Codes : /\ list[k] = checksumOf(c) \/ Len(list[k]) < ChecksumLen
                             /\ \A j \in 1 .. Len(list[k]) : list[k][j] = <<c, j>>
      BY <1>3, <2>4, ArgumentFacts
    <2>7. <<c, i>> = <<d, ChecksumLen>>
      BY <2>3, <2>5, <2>6
    <2>8. c = d /\ i = ChecksumLen
      BY <2>7
    <2>9. list[k] \in Slices
      BY <1>3, <2>4, ArgumentFacts
    <2>10. ~(Len(list[k]) < ChecksumLen)
      BY <1>1, <2>8, <2>9, SMT DEF Slices
    <2>11. list[k] = chunk(n)
      BY <2>1, <2>6, <2>8, <2>10
    <2> QED
      BY <1>4, <2>11 DEF ToSet
  <1>7. ASSUME NEW cs \in Checksums \cap ToSet(list) PROVE \E n \in Count : cs = chunk(n)
    <2>1. PICK k \in 1 .. Len(list) : list[k] = cs
      BY <1>4, <1>7 DEF ToSet
    <2>2. PICK c \in Codes : cs = checksumOf(c)
      BY <1>7 DEF Checksums
    <2>3. /\ cs # Nil /\ cs \in Slices /\ Len(cs) = ChecksumLen
          /\ \A i \in 1 .. ChecksumLen : cs[i] = <<c, i>>
      BY <2>2, ChecksumFacts
    <2>4. PICK o \in Nat : /\ o + ChecksumLen <= Len(bytes)
                           /\ \A i \in 1 .. ChecksumLen : bytes[o + i] = cs[i]
      BY <2>1, <2>3, ChecksumsArePlaced
    <2>5. PICK n \in Count, r \in 0 .. ChecksumLen - 1 : o = (n - 1) * ChecksumLen + r
      <3>1. Len(bytes) \in Nat
        BY <1>2, SMT DEF Slices
      <3> QED
        BY <1>1, <2>4, <3>1, ChunkAround
    <2> DEFINE m == (n - 1) * ChecksumLen
    <2>6. /\ chunk(n) \in Slices /\ Len(chunk(n)) = ChecksumLen
          /\ \A i \in 1 .. ChecksumLen : m + i \in 1 .. Len(bytes) /\ chunk(n)[i] = bytes[m + i]
      BY <1>2, ChunkFacts
    <2>7. PICK d \in Codes : chunk(n) = checksumOf(d)
      BY <1>5 DEF Checksums
    <2>8. \A i \in 1 .. ChecksumLen : chunk(n)[i] = <<d, i>>
      BY <2>7, ChecksumFacts
    <2>9. m \in Int
      BY <1>1, <2>5, SMT
    <2> HIDE DEF m
    <2>10. r + 1 \in 1 .. ChecksumLen /\ 1 \in 1 .. ChecksumLen /\ o + 1 = m + (r + 1)
      BY <1>1, <2>5, <2>9, SMT DEF m
    <2>11. <<d, r + 1>> = <<c, 1>>
      <3>1. bytes[o + 1] = <<c, 1>>
        BY <2>3, <2>4, <2>10
      <3>2. bytes[m + (r + 1)] = <<d, r + 1>>
        BY <2>6, <2>8, <2>10
      <3> QED
        BY <2>10, <3>1, <3>2
    <2>12. d = c
      BY <2>11
    <2> QED
      BY <2>2, <2>7, <2>12
  <1> QED
    BY <1>5, <1>6, <1>7 DEF chunks_exact

-----------------------------------------------------------------------------
\* What is pinned are checksums of codes, which SyncPinsList needs: a chunk may be
\* available only because it is pinned already.
PinInv == pinned \subseteq Checksums /\ SyncPinsList

\* What can be pinned is the checksum of a code.
LEMMA AvailableIsCode ==
  ASSUME pinned \subseteq Checksums, NEW cs, available(cs)
  PROVE  cs \in Checksums
  BY DEF available, codesWith, Checksums

\* Every operation keeps PinInv.
LEMMA PinStep == PinInv /\ [Next]_vars => PinInv'
  <1> SUFFICES ASSUME PinInv, [Next]_vars PROVE PinInv'
    OBVIOUS
  <1>1. ASSUME NEW op, NEW ok, Returns(op, ok), op # "SyncPinnedCodes" \/ ~ok,
               pinned' \subseteq Checksums
        PROVE  PinInv'
    BY <1>1 DEF PinInv, SyncPinsList, Returns
  <1>2. ASSUME NEW c \in Codes \cup {Nil}, NEW gasLimit \in GasLimits,
               StoreCode(c, gasLimit) \/ SimulateStoreCode(c, gasLimit)
        PROVE  PinInv'
    <2>1. pinned' = pinned /\ \E op \in {"StoreCode", "SimulateStoreCode"}, ok \in BOOLEAN : Returns(op, ok)
      BY <1>2 DEF StoreCode, SimulateStoreCode, OutOfGas, api_StoreCode, store_code, cache_store_code
    <2> QED
      BY <1>1, <2>1 DEF PinInv
  <1>3. ASSUME NEW c \in Codes \cup {Nil}, StoreCodeUnchecked(c) PROVE PinInv'
    <2>1. pinned' = pinned /\ \E ok \in BOOLEAN : Returns("StoreCodeUnchecked", ok)
      BY <1>3 DEF StoreCodeUnchecked, api_StoreCodeUnchecked, store_code, cache_store_code
    <2> QED
      BY <1>1, <2>1 DEF PinInv
  <1>4. ASSUME NEW cs \in Arguments, RemoveCode(cs) PROVE PinInv'
    <2>1. pinned' \subseteq pinned /\ \E ok \in BOOLEAN : Returns("RemoveCode", ok)
      BY <1>4 DEF RemoveCode
    <2> QED
      BY <1>1, <2>1 DEF PinInv
  <1>5. ASSUME NEW cs \in Arguments, GetCode(cs) PROVE PinInv'
    <2>1. pinned' = pinned /\ \E ok \in BOOLEAN : Returns("GetCode", ok)
      BY <1>5 DEF GetCode
    <2> QED
      BY <1>1, <2>1 DEF PinInv
  <1>6. ASSUME NEW cs \in Arguments, Pin(cs) PROVE PinInv'
    <2>1. /\ pinned' = pinned \/ (available(cs) /\ pinned' = pinned \cup {cs})
          /\ \E ok \in BOOLEAN : Returns("Pin", ok)
      BY <1>6 DEF Pin
    <2> QED
      BY <1>1, <2>1, AvailableIsCode DEF PinInv
  <1>7. ASSUME NEW cs \in Arguments, Unpin(cs) PROVE PinInv'
    <2>1. pinned' \subseteq pinned /\ \E ok \in BOOLEAN : Returns("Unpin", ok)
      BY <1>7 DEF Unpin
    <2> QED
      BY <1>1, <2>1 DEF PinInv
  <1>8. ASSUME NEW list \in SeqOf(Arguments, MaxList), SyncPinnedCodes(list) PROVE PinInv'
    <2> DEFINE bytes == read(makeView(buffer(list)))
    <2>1. CASE bytes = Nil
      <3>1. Returns("SyncPinnedCodes", FALSE) /\ pinned' = pinned
        BY <1>8, <2>1 DEF SyncPinnedCodes
      <3> QED
        BY <1>1, <3>1 DEF PinInv
    <2>2. CASE bytes # Nil
      <3>1. list \in Seq(Arguments)
        BY SMT DEF SeqOf
      <3>2. bytes = buffer(list)
        BY <2>2 DEF read, makeView
      <3> DEFINE checksums == chunks_exact(buffer(list))
      <3>3. PICK ok \in BOOLEAN :
              /\ ok => \A cs \in checksums : available(cs)
              /\ IF ok
                 THEN pinned' = checksums
                 ELSE pinned' \in SUBSET (pinned \cup {cs \in checksums : available(cs)})
              /\ last' = [op |-> "SyncPinnedCodes", ok |-> ok, list |-> list]
        BY <1>8, <2>2, <3>2 DEF SyncPinnedCodes, cache_sync_pinned_codes
      <3> HIDE DEF checksums
      <3>4. \A cs \in checksums : available(cs) => cs \in Checksums
        BY AvailableIsCode DEF PinInv
      <3>5. pinned' \subseteq Checksums
        BY <3>3, <3>4 DEF PinInv
      <3>6. ok => pinned' = Checksums \cap ToSet(list)
        <4> SUFFICES ASSUME ok PROVE checksums = Checksums \cap ToSet(list)
          BY <3>3
        <4>1. checksums \subseteq Checksums
          BY <3>3, <3>4
        <4> QED
          BY <3>1, <4>1, ChunksAreListed DEF checksums
      <3>7. last'.ok = ok /\ last'.list = list
        BY <3>3
      <3> QED
        BY <3>5, <3>6, <3>7 DEF PinInv, SyncPinsList, Checksums
    <2> QED
      BY <2>1, <2>2
  <1>9. CASE Restart
    <2>1. pinned' = {} /\ Returns("NewVM", TRUE)
      BY <1>9 DEF Restart
    <2> QED
      BY <1>1, <2>1
  <1>10. CASE UNCHANGED vars
    BY <1>10 DEF vars, PinInv, SyncPinsList
  <1> QED
    BY <1>2, <1>3, <1>4, <1>5, <1>6, <1>7, <1>8, <1>9, <1>10 DEF Next

\* A SyncPinnedCodes that succeeds pins exactly the codes of its list, for lists
\* and checksums of any length: what chunks_exact cuts out of the slice is what
\* the loop over the list has put into it.
THEOREM SyncAlwaysPinsList == Spec => []SyncPinsList
  <1>1. Init => PinInv
    <2>1. Init => last.op # "SyncPinnedCodes"
      BY SMT DEF Init
    <2> QED
      BY <2>1 DEF Init, PinInv, SyncPinsList
  <1>2. PinInv => SyncPinsList
    BY DEF PinInv
  <1> QED
    BY <1>1, <1>2, PinStep, PTL DEF Spec

=============================================================================
