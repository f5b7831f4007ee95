----------------------------- MODULE FinanceProofs -----------------------------
(***************************************************************************)
(* Proofs about the finance modules, for any number of journals, workers,  *)
(* months, period rows and documents.                                      *)
(*                                                                         *)
(* First Ledger: type correctness, that the mark "reversed" is exact, and  *)
(* that the booked journals implement the append-only book of module Book. *)
(*                                                                         *)
(* Then SubLedger, whose theorems rest on those: seen from the general     *)
(* ledger all its steps are operations of module Ledger, but for           *)
(* CreateAsset, which appends a balanced entry of its own; so the two      *)
(* together implement the append-only Book.  The documents are well typed  *)
(* and what they say is booked.                                            *)
(*                                                                         *)
(* The argument.  A journal a call has created keeps its purpose, for only *)
(* a journal that is not there yet gets one, and what is booked stays      *)
(* booked.  So a call that is past PostJournal holds a booked journal made *)
(* for its document (Linked), whatever the journal page, the period page   *)
(* and other calls have done since, and that is what its last statement    *)
(* writes.  No transaction is needed for that; RecordReceipt's status      *)
(* needs that amount_received never shrinks (InvoiceInv).                  *)
(*                                                                         *)
(* Last, the money: what the documents claim is no more than what was      *)
(* posted for them, reversed since or not, and is exactly that as long as  *)
(* the calls on a document do not overlap or die; an invoice shown paid is *)
(* cleared.  See "The documents and what was posted for them" below.       *)
(***************************************************************************)
EXTENDS SubLedger, FiniteSetTheorems, TLAPS

-----------------------------------------------------------------------------
(***************************************************************************)
(* Sums over finite sets.                                                  *)
(***************************************************************************)

\* Natural numbers have a least element in each set of them: what the inductions
\* below use, on the numbers for which a claim would fail.
LEMMA Least == ASSUME NEW N \in SUBSET Nat, N # {} PROVE \E m \in N : \A n \in N : m <= n
<1>1. \E m \in N : \A n \in N : ~(<<n, m>> \in OpToRel(<, Nat))
  BY WFMin, NatLessThanWellFounded
<1>2. \A m, n \in Nat : <<n, m>> \in OpToRel(<, Nat) <=> n < m
  BY DEF OpToRel
<1>3. \E m \in N : \A n \in N : ~(n < m)
  BY <1>1, <1>2, Zenon
<1> QED
  BY <1>3

Pick(s) == CHOOSE x \in s : TRUE

\* g gives each subset of S its sum.
Table(S, F, g) ==
    g = [s \in SUBSET S |-> IF s = {} THEN 0 ELSE F[Pick(s)] + g[s \ {Pick(s)}]]

LEMMA SumUnfolds ==
    ASSUME NEW S, NEW F, NEW h, Table(S, F, h)
    PROVE  \E g : Table(S, F, g) /\ SumOf(S, F) = g[S]
<1> DEFINE G == CHOOSE g : g = [s \in SUBSET S |->
                  IF s = {} THEN 0
                  ELSE F[CHOOSE x \in s : TRUE] + g[s \ {CHOOSE x \in s : TRUE}]]
<1>1. \E g : g = [s \in SUBSET S |->
                  IF s = {} THEN 0
                  ELSE F[CHOOSE x \in s : TRUE] + g[s \ {CHOOSE x \in s : TRUE}]]
  BY DEF Table, Pick
<1>2. G = [s \in SUBSET S |->
                  IF s = {} THEN 0
                  ELSE F[CHOOSE x \in s : TRUE] + G[s \ {CHOOSE x \in s : TRUE}]]
  BY <1>1, Zenon
<1>3. SumOf(S,F) = G[S]
  BY Zenon DEF SumOf, MapThenSumSet, MapThenFoldSet
<1> HIDE DEF G
<1> QED
  BY <1>2, <1>3 DEF Table, Pick

\* Every finite set has a table: one for the subsets of at most n elements, n = 0, 1, ...
Upto(S, n) == {s \in SUBSET S : Cardinality(s) <= n}
Partial(S, F, n, g) ==
    \A s \in Upto(S, n) : g[s] = IF s = {} THEN 0 ELSE F[Pick(s)] + g[s \ {Pick(s)}]

LEMMA Smaller ==
    ASSUME NEW S, IsFiniteSet(S), NEW s \in SUBSET S
    PROVE  /\ IsFiniteSet(s) /\ Cardinality(s) \in Nat
           /\ Cardinality(s) = 0 <=> s = {}
           /\ s # {} => Pick(s) \in s
           /\ \A x \in s : /\ s \ {x} \in SUBSET S /\ IsFiniteSet(s \ {x})
                           /\ Cardinality(s \ {x}) = Cardinality(s) - 1
           /\ Cardinality(s) <= Cardinality(S)
<1>1. IsFiniteSet(s) /\ Cardinality(s) <= Cardinality(S)
  BY FS_Subset
<1>2. Cardinality(s) \in Nat /\ (Cardinality(s) = 0 <=> s = {})
  BY <1>1, FS_CardinalityType, FS_EmptySet
<1>3. s # {} => Pick(s) \in s
  BY DEF Pick
<1>4. \A x \in s : IsFiniteSet(s \ {x}) /\ Cardinality(s \ {x}) = Cardinality(s) - 1
  BY <1>1, FS_RemoveElement
<1> QED
  BY <1>1, <1>2, <1>3, <1>4

LEMMA PartialExists ==
    ASSUME NEW S, IsFiniteSet(S), NEW F
    PROVE  \A n \in Nat : \E g : Partial(S, F, n, g)
<1> DEFINE Bad == {n \in Nat : ~ \E g : Partial(S, F, n, g)}
<1> SUFFICES ASSUME Bad # {} PROVE FALSE
  OBVIOUS
<1>1. PICK n \in Bad : \A k \in Bad : n <= k
  BY Least
<1>2. n \in Nat /\ ~ \E g : Partial(S, F, n, g)
  BY <1>1
<1>3. CASE n = 0
  <2>1. \A s \in Upto(S, 0) : s = {}
    BY Smaller DEF Upto
  <2>2. Partial(S, F, 0, [s \in SUBSET S |-> 0])
    BY <2>1 DEF Partial, Upto
  <2> QED
    BY <1>2, <1>3, <2>2
<1>4. CASE n # 0
  <2>1. n - 1 \in Nat /\ n - 1 \notin Bad
    BY <1>1, <1>2, <1>4
  <2>2. PICK g : Partial(S, F, n - 1, g)
    BY <2>1
  <2> DEFINE h == [s \in SUBSET S |-> IF Cardinality(s) <= n - 1 THEN g[s]
                                      ELSE F[Pick(s)] + g[s \ {Pick(s)}]]
  <2>3. ASSUME NEW s \in Upto(S, n)
        PROVE  h[s] = IF s = {} THEN 0 ELSE F[Pick(s)] + h[s \ {Pick(s)}]
    <3>1. s \in SUBSET S /\ Cardinality(s) \in Nat /\ Cardinality(s) <= n
      BY <2>3, Smaller DEF Upto
    <3>2. CASE s = {}
      <4>1. s \in Upto(S, n - 1)
        BY <3>1, <3>2, <2>1, Smaller DEF Upto
      <4> QED
        BY <3>1, <3>2, <4>1, <2>2 DEF Partial, Upto
    <3>3. CASE s # {}
      <4>1. /\ s \ {Pick(s)} \in SUBSET S
            /\ Cardinality(s \ {Pick(s)}) = Cardinality(s) - 1
        BY <3>1, <3>3, Smaller
      <4>2. h[s \ {Pick(s)}] = g[s \ {Pick(s)}]
        BY <4>1, <3>1, <1>2
      <4>3. h[s] = F[Pick(s)] + g[s \ {Pick(s)}]
        <5>1. CASE Cardinality(s) <= n - 1
          BY <5>1, <3>1, <3>3, <2>2 DEF Partial, Upto
        <5>2. CASE ~(Cardinality(s) <= n - 1)
          BY <5>2, <3>1
        <5> QED
          BY <5>1, <5>2
      <4> QED
        BY <3>3, <4>2, <4>3
    <3> QED
      BY <3>2, <3>3
  <2>4. Partial(S, F, n, h)
    BY <2>3 DEF Partial
  <2> QED
    BY <1>2, <2>4
<1> QED
  BY <1>3, <1>4

LEMMA TableExists ==
    ASSUME NEW S, IsFiniteSet(S), NEW F
    PROVE  \E g : Table(S, F, g)
<1>1. Cardinality(S) \in Nat
  BY FS_CardinalityType
<1>2. PICK g : Partial(S, F, Cardinality(S), g)
  BY <1>1, PartialExists
<1> DEFINE h == [s \in SUBSET S |-> IF s = {} THEN 0 ELSE F[Pick(s)] + g[s \ {Pick(s)}]]
<1>3. \A s \in SUBSET S : g[s] = h[s]
  <2>1. \A s \in SUBSET S : s \in Upto(S, Cardinality(S))
    BY Smaller DEF Upto
  <2> QED
    BY <2>1, <1>2 DEF Partial
<1>4. ASSUME NEW s \in SUBSET S
      PROVE  h[s] = IF s = {} THEN 0 ELSE F[Pick(s)] + h[s \ {Pick(s)}]
  <2>1. s \ {Pick(s)} \in SUBSET S
    OBVIOUS
  <2> QED
    BY <1>3, <2>1
<1>5. Table(S, F, h)
  BY <1>4, Zenon DEF Table
<1> QED
  BY <1>5

\* What a table says of a subset, whichever element is taken out.
Sums(F, g, s) == /\ g[s] \in Nat
                 /\ s = {} => g[s] = 0
                 /\ \A x \in s : g[s] = F[x] + g[s \ {x}]

LEMMA TableValues ==
    ASSUME NEW S, IsFiniteSet(S), NEW F, \A x \in S : F[x] \in Nat, NEW g, Table(S, F, g)
    PROVE  \A s \in SUBSET S : Sums(F, g, s)
<1> DEFINE Bad == {n \in Nat : \E s \in SUBSET S : Cardinality(s) = n /\ ~Sums(F, g, s)}
<1>0. \A s \in SUBSET S : g[s] = IF s = {} THEN 0 ELSE F[Pick(s)] + g[s \ {Pick(s)}]
  BY Zenon DEF Table
<1> SUFFICES ASSUME Bad # {} PROVE FALSE
  BY Smaller
<1>1. PICK n \in Bad : \A k \in Bad : n <= k
  BY Least
<1>2. PICK s \in SUBSET S : Cardinality(s) = n /\ ~Sums(F, g, s)
  BY <1>1
<1>3. n \in Nat /\ \A t \in SUBSET S : Cardinality(t) < n => Sums(F, g, t)
  BY <1>1, Smaller
<1>4. CASE s = {}
  <2>1. g[s] = 0
    BY <1>0, <1>4
  <2> QED
    BY <1>2, <1>4, <2>1 DEF Sums
<1>5. CASE s # {}
  <2>1. PICK y \in s : g[s] = F[y] + g[s \ {y}]
    BY <1>0, <1>5, Smaller
  <2>2. ASSUME NEW x \in s
        PROVE  /\ s \ {x} \in SUBSET S /\ F[x] \in Nat /\ Sums(F, g, s \ {x})
               /\ \A z \in s \ {x} : Sums(F, g, (s \ {x}) \ {z})
    <3>1. s \ {x} \in SUBSET S /\ F[x] \in Nat /\ Cardinality(s \ {x}) = n - 1
      BY <1>2, Smaller
    <3>2. ASSUME NEW z \in s \ {x} PROVE Sums(F, g, (s \ {x}) \ {z})
      <4>0. IsFiniteSet(s \ {x})
        BY Smaller
      <4>1. /\ (s \ {x}) \ {z} \in SUBSET S
            /\ Cardinality((s \ {x}) \ {z}) = Cardinality(s \ {x}) - 1
        BY <4>0, FS_RemoveElement
      <4>2. Cardinality((s \ {x}) \ {z}) < n
        BY <4>1, <3>1, <1>3
      <4> QED
        BY <4>1, <4>2, <1>3
    <3> QED
      BY <3>1, <3>2, <1>3
  <2>3. g[s] \in Nat
    <3>1. F[y] \in Nat /\ g[s \ {y}] \in Nat
      BY <2>2 DEF Sums
    <3> QED
      BY <2>1, <3>1
  <2>4. ASSUME NEW x \in s PROVE g[s] = F[x] + g[s \ {x}]
    <3>1. CASE x = y
      BY <3>1, <2>1
    <3>2. CASE x # y
      <4>1. g[s \ {y}] = F[x] + g[(s \ {y}) \ {x}]
        BY <2>2, <3>2 DEF Sums
      <4>2. g[s \ {x}] = F[y] + g[(s \ {x}) \ {y}]
        BY <2>2, <3>2 DEF Sums
      <4>3. (s \ {x}) \ {y} = (s \ {y}) \ {x}
        OBVIOUS
      <4>4. g[(s \ {x}) \ {y}] \in Nat /\ F[x] \in Nat /\ F[y] \in Nat
        BY <2>2, <3>2 DEF Sums
      <4> DEFINE rest == g[(s \ {x}) \ {y}]
      <4>5. g[s \ {y}] = F[x] + rest /\ g[s \ {x}] = F[y] + rest /\ rest \in Nat
        BY <4>1, <4>2, <4>3, <4>4
      <4> HIDE DEF rest
      <4> QED
        BY <2>1, <4>4, <4>5
    <3> QED
      BY <3>1, <3>2
  <2> QED
    BY <1>2, <1>5, <2>3, <2>4 DEF Sums
<1> QED
  BY <1>4, <1>5

\* Tables of two functions that agree are the same where both are given.
LEMMA TablesAgree ==
    ASSUME NEW S, IsFiniteSet(S), NEW F, \A x \in S : F[x] \in Nat, NEW g, Table(S, F, g),
           NEW T, IsFiniteSet(T), NEW G, \A x \in T : G[x] \in Nat, NEW h, Table(T, G, h),
           \A x \in S \cap T : F[x] = G[x]
    PROVE  \A s \in SUBSET (S \cap T) : g[s] = h[s]
<1> DEFINE Bad == {n \in Nat : \E s \in SUBSET (S \cap T) : Cardinality(s) = n /\ g[s] # h[s]}
<1> SUFFICES ASSUME Bad # {} PROVE FALSE
  BY Smaller
<1>2. PICK n \in Bad : \A k \in Bad : n <= k
  BY Least
<1>3. PICK s \in SUBSET (S \cap T) : Cardinality(s) = n /\ g[s] # h[s]
  BY <1>2
<1>4. n \in Nat /\ \A t \in SUBSET (S \cap T) : IsFiniteSet(t) /\ Cardinality(t) < n => g[t] = h[t]
  BY <1>2, Smaller
<1>5. s \in SUBSET S /\ s \in SUBSET T
  OBVIOUS
<1>6. CASE s = {}
  BY <1>3, <1>5, <1>6, TableValues DEF Sums
<1>7. CASE s # {}
  <2>1. PICK x \in s : TRUE
    BY <1>7
  <2>2. g[s] = F[x] + g[s \ {x}] /\ h[s] = G[x] + h[s \ {x}]
    BY <1>5, <2>1, TableValues DEF Sums
  <2>3. s \ {x} \in SUBSET (S \cap T) /\ IsFiniteSet(s \ {x}) /\ Cardinality(s \ {x}) < n
    BY <1>3, <1>4, <1>5, <2>1, Smaller
  <2>4. F[x] = G[x] /\ g[s \ {x}] = h[s \ {x}]
    BY <2>1, <2>3, <1>4
  <2> QED
    BY <1>3, <2>2, <2>4
<1> QED
  BY <1>6, <1>7

-----------------------------------------------------------------------------
LEMMA SumEmpty == ASSUME NEW F PROVE SumOf({}, F) = 0
<1>1. PICK g : Table({}, F, g) /\ SumOf({}, F) = g[{}]
  BY FS_EmptySet, TableExists, SumUnfolds
<1>2. \A x \in {} : F[x] \in Nat
  OBVIOUS
<1> QED
  BY <1>1, <1>2, FS_EmptySet, TableValues DEF Sums

LEMMA SumNat ==
    ASSUME NEW S, IsFiniteSet(S), NEW F, \A x \in S : F[x] \in Nat
    PROVE  SumOf(S, F) \in Nat
<1>1. PICK g : Table(S, F, g) /\ SumOf(S, F) = g[S]
  BY TableExists, SumUnfolds
<1> QED
  BY <1>1, TableValues DEF Sums

LEMMA SumSame ==
    ASSUME NEW S, IsFiniteSet(S), NEW F, NEW G, \A x \in S : F[x] \in Nat /\ G[x] = F[x]
    PROVE  SumOf(S, G) = SumOf(S, F)
<1>1. PICK g : Table(S, F, g) /\ SumOf(S, F) = g[S]
  BY TableExists, SumUnfolds
<1>2. PICK h : Table(S, G, h) /\ SumOf(S, G) = h[S]
  BY TableExists, SumUnfolds
<1>3. S \in SUBSET (S \cap S) /\ \A x \in S : G[x] \in Nat
  OBVIOUS
<1> QED
  BY <1>1, <1>2, <1>3, TablesAgree

LEMMA SumWithout ==
    ASSUME NEW S, IsFiniteSet(S), NEW F, \A y \in S : F[y] \in Nat, NEW x \in S
    PROVE  SumOf(S, F) = F[x] + SumOf(S \ {x}, F)
<1>0. IsFiniteSet(S \ {x})
  BY FS_RemoveElement
<1>1. PICK g : Table(S, F, g) /\ SumOf(S, F) = g[S]
  BY TableExists, SumUnfolds
<1>2. PICK h : Table(S \ {x}, F, h) /\ SumOf(S \ {x}, F) = h[S \ {x}]
  BY <1>0, TableExists, SumUnfolds
<1>3. g[S \ {x}] = h[S \ {x}]
  <2>1. S \ {x} \in SUBSET (S \cap (S \ {x})) /\ \A y \in S \ {x} : F[y] \in Nat
    OBVIOUS
  <2> QED
    BY <1>0, <1>1, <1>2, <2>1, TablesAgree
<1>4. g[S] = F[x] + g[S \ {x}]
  BY <1>1, TableValues DEF Sums
<1> QED
  BY <1>1, <1>2, <1>3, <1>4

LEMMA SumWith ==
    ASSUME NEW S, IsFiniteSet(S), NEW x, x \notin S, NEW F, \A y \in S \cup {x} : F[y] \in Nat
    PROVE  /\ SumOf(S \cup {x}, F) = SumOf(S, F) + F[x]
           /\ SumOf(S, F) \in Nat
<1>1. IsFiniteSet(S \cup {x}) /\ (S \cup {x}) \ {x} = S
  BY FS_AddElement
<1>2. SumOf(S, F) \in Nat
  BY SumNat
<1>3. SumOf(S \cup {x}, F) = F[x] + SumOf(S, F)
  BY <1>1, SumWithout
<1> QED
  BY <1>2, <1>3

\* A part adds up to no more than the whole.
LEMMA SumPart ==
    ASSUME NEW S, IsFiniteSet(S), NEW F, \A x \in S : F[x] \in Nat
    PROVE  \A T \in SUBSET S : SumOf(T, F) <= SumOf(S, F)
<1> DEFINE Bad == {n \in Nat : \E T \in SUBSET S : /\ Cardinality(S \ T) = n
                                                    /\ ~(SumOf(T, F) <= SumOf(S, F))}
<1>0. \A T \in SUBSET S : IsFiniteSet(S \ T) /\ Cardinality(S \ T) \in Nat
  BY FS_Subset, FS_CardinalityType
<1> SUFFICES ASSUME Bad # {} PROVE FALSE
  BY <1>0
<1>1. PICK n \in Bad : \A k \in Bad : n <= k
  BY Least
<1>2. PICK T \in SUBSET S : Cardinality(S \ T) = n /\ ~(SumOf(T, F) <= SumOf(S, F))
  BY <1>1
<1>3. SumOf(S, F) \in Nat
  BY SumNat
<1>4. PICK x \in S \ T : TRUE
  <2>1. T # S
    BY <1>2, <1>3
  <2> QED
    BY <2>1
<1> DEFINE U == T \cup {x}
<1>5. U \in SUBSET S /\ S \ U = (S \ T) \ {x}
  BY <1>4
<1>6. Cardinality(S \ U) = n - 1 /\ n \in Nat
  <2>1. IsFiniteSet(S \ T) /\ x \in S \ T
    BY <1>0, <1>4
  <2>2. Cardinality((S \ T) \ {x}) = Cardinality(S \ T) - 1
    BY <2>1, FS_RemoveElement
  <2> QED
    BY <1>2, <1>5, <2>2
<1>7. SumOf(U, F) <= SumOf(S, F)
  <2>1. n - 1 \notin Bad
    BY <1>1, <1>6
  <2>2. n - 1 \in Nat
    BY <1>0, <1>5, <1>6
  <2> QED
    BY <1>5, <1>6, <2>1, <2>2
<1>8. SumOf(U, F) = SumOf(T, F) + F[x] /\ SumOf(T, F) \in Nat
  <2>1. IsFiniteSet(T) /\ x \notin T /\ \A y \in T \cup {x} : F[y] \in Nat
    BY <1>4, FS_Subset
  <2> QED
    BY <2>1, SumWith
<1> HIDE DEF U
<1> QED
  BY <1>2, <1>3, <1>4, <1>7, <1>8

\* A value added to every element counts once for each.
Shifted(S, F, G, c) == \A x \in S : G[x] \in Nat /\ F[x] = G[x] + c

LEMMA SumShift ==
    ASSUME NEW S, IsFiniteSet(S), NEW F, NEW G, NEW c \in Nat, Shifted(S, F, G, c)
    PROVE  SumOf(S, F) = SumOf(S, G) + Cardinality(S) * c
<1>0. \A x \in S : G[x] \in Nat /\ F[x] = G[x] + c
  BY DEF Shifted
<1> DEFINE Shifts(s) == SumOf(s, F) = SumOf(s, G) + Cardinality(s) * c
           Bad == {n \in Nat : \E s \in SUBSET S : Cardinality(s) = n /\ ~Shifts(s)}
<1> SUFFICES ASSUME Bad # {} PROVE FALSE
  <2>1. Cardinality(S) \in Nat
    BY FS_CardinalityType
  <2> QED
    BY <2>1
<1>1. PICK n \in Bad : \A k \in Bad : n <= k
  BY Least
<1>2. PICK s \in SUBSET S : Cardinality(s) = n /\ ~Shifts(s)
  BY <1>1
<1>3. n \in Nat /\ IsFiniteSet(s) /\ \A t \in SUBSET S : Cardinality(t) = n - 1 => n = 0 \/ Shifts(t)
  BY <1>1, Smaller
<1>4. CASE s = {}
  <2>1. Cardinality(s) = 0 /\ SumOf(s, F) = 0 /\ SumOf(s, G) = 0
    BY <1>4, SumEmpty, FS_EmptySet
  <2> QED
    BY <1>2, <2>1
<1>5. CASE s # {}
  <2>1. PICK x \in s : TRUE
    BY <1>5
  <2> DEFINE t == s \ {x}
  <2>2. t \in SUBSET S /\ IsFiniteSet(t) /\ Cardinality(t) = n - 1 /\ n # 0
    BY <1>2, <1>3, <2>1, Smaller
  <2>3. Shifts(t)
    BY <1>3, <2>2
  <2>4. SumOf(s, F) = F[x] + SumOf(t, F)
    <3>1. \A y \in s : F[y] \in Nat
      BY <1>0
    <3> QED
      BY <1>3, <2>1, <3>1, SumWithout
  <2>5. SumOf(s, G) = G[x] + SumOf(t, G)
    <3>1. \A y \in s : G[y] \in Nat
      BY <1>0
    <3> QED
      BY <1>3, <2>1, <3>1, SumWithout
  <2>6. SumOf(t, G) \in Nat
    <3>1. \A y \in t : G[y] \in Nat
      BY <1>0, <1>2
    <3> QED
      BY <2>2, <3>1, SumNat
  <2>7. n * c = (n - 1) * c + c /\ (n - 1) * c \in Nat
    BY <1>3, <2>2
  <2> DEFINE rest == (n - 1) * c
  <2>8. SumOf(t, F) = SumOf(t, G) + rest /\ n * c = rest + c /\ rest \in Nat
    BY <2>2, <2>3, <2>7
  <2>9. F[x] = G[x] + c /\ G[x] \in Nat
    BY <1>0, <1>2, <2>1
  <2> HIDE DEF t, rest
  <2>10. SumOf(s, F) = SumOf(s, G) + n * c
    BY <1>0, <2>4, <2>5, <2>6, <2>8, <2>9
  <2> QED
    BY <1>2, <2>10
<1> QED
  BY <1>4, <1>5

-----------------------------------------------------------------------------
(* The general ledger.                                                     *)

\* What the statements between a worker's read and its write rely on.
ReversalInv ==
    /\ \A k \in Journals : reversalOf[k] # NoJournal =>
           /\ status[k] \in {"posted", "reversed"}
           /\ status[reversalOf[k]] = "reversed"
    /\ \A j \in Journals : status[j] = "reversed" =>
           \E k \in Journals : reversalOf[k] = j

WorkerInv ==
    \A w \in Workers :
        /\ op[w].pc # "idle" => op[w].journal \in Journals
        /\ op[w].pc = "reverse" => status[op[w].journal] \in {"posted", "reversed"}
        /\ op[w].pc \in {"post", "approve"} => /\ status[op[w].journal] # "none"
                                               /\ MayBalance(totals[op[w].journal])

LedgerInv == TypeOK /\ ReversalInv /\ WorkerInv

-----------------------------------------------------------------------------
(* Facts about the workers' locals and the statuses.                       *)

\* Beginning and finishing a call touch one worker and keep the types.
LEMMA BeginTyped ==
    ASSUME TypeOK, NEW w \in Workers, NEW label \in {"post", "approve", "reverse"},
           NEW j \in Journals, Begin(w, label, j)
    PROVE  /\ op' \in [Workers -> [pc : {"idle", "post", "approve", "reverse"},
                                   journal : Journals \cup {NoJournal}]]
           /\ op'[w].pc = label /\ op'[w].journal = j
           /\ \A v \in Workers \ {w} : op'[v] = op[v]
  BY DEF Begin, TypeOK

\* Ending a call frees the worker and touches no other.
LEMMA FinishTyped ==
    ASSUME TypeOK, NEW w \in Workers, Finish(w)
    PROVE  /\ op' \in [Workers -> [pc : {"idle", "post", "approve", "reverse"},
                                   journal : Journals \cup {NoJournal}]]
           /\ op'[w].pc = "idle"
           /\ \A v \in Workers \ {w} : op'[v] = op[v]
  BY DEF Finish, NoOp, TypeOK

\* The initial state satisfies the invariant.
LEMMA InitLedgerInv == Init => LedgerInv
<1> SUFFICES ASSUME Init PROVE LedgerInv
  OBVIOUS
<1>1. TypeOK
  BY LedgerAssumption DEF Init, TypeOK, Statuses, NoOp
<1>2. ReversalInv
  BY DEF Init, ReversalInv
<1>3. WorkerInv
  BY DEF Init, WorkerInv, NoOp
<1> QED
  BY <1>1, <1>2, <1>3 DEF LedgerInv

\* A change of one journal from an unbooked status to another one that is not
\* "reversed" keeps the invariant, whoever makes it.
LEMMA UnbookedChange ==
    ASSUME LedgerInv, NEW j \in Journals, NEW s \in Statuses \ {"none", "reversed"},
           status[j] \notin {"none", "posted", "reversed"},
           status' = [status EXCEPT ![j] = s],
           UNCHANGED <<totals, month, reversalOf, period, today, late>>,
           UNCHANGED op
    PROVE  LedgerInv'
<1>1. TypeOK'
  BY DEF LedgerInv, TypeOK
<1>2. ReversalInv'
  BY DEF LedgerInv, ReversalInv, TypeOK
<1>3. WorkerInv'
  BY DEF LedgerInv, WorkerInv, TypeOK, MayBalance
<1> QED
  BY <1>1, <1>2, <1>3 DEF LedgerInv

-----------------------------------------------------------------------------
(* One lemma per kind of step.                                             *)

\* CreateJournal only touches a journal that nobody refers to yet.
LEMMA CreateKeeps ==
    ASSUME LedgerInv, NEW j \in Journals, NEW t \in Totals, NEW m \in Months,
           CreateJournal(j, t, m)
    PROVE  LedgerInv'
<1>1. TypeOK'
  BY LedgerAssumption DEF CreateJournal, LedgerInv, TypeOK, Statuses
<1>2. ReversalInv'
  BY DEF CreateJournal, LedgerInv, ReversalInv, TypeOK
<1>3. WorkerInv'
  BY DEF CreateJournal, LedgerInv, WorkerInv, TypeOK, MayBalance
<1> QED
  BY <1>1, <1>2, <1>3 DEF LedgerInv

\* PostJournal's and ApproveJournal's reads.
LEMMA CheckKeeps ==
    ASSUME LedgerInv, NEW w \in Workers, NEW j \in Journals,
           NEW label \in {"post", "approve"}, CheckJournal(w, j, label)
    PROVE  LedgerInv'
<1>1. /\ Begin(w, label, j)
      /\ status[j] # "none" /\ MayBalance(totals[j])
      /\ UNCHANGED <<status, totals, month, reversalOf, period, today, late>>
  BY DEF CheckJournal
<1>2. TypeOK
  BY DEF LedgerInv
<1>3. TypeOK'
  BY <1>1, <1>2, BeginTyped DEF TypeOK
<1>4. ReversalInv'
  BY <1>1 DEF LedgerInv, ReversalInv
<1>5. WorkerInv'
  BY <1>1, <1>2, BeginTyped DEF LedgerInv, WorkerInv, MayBalance
<1> QED
  BY <1>3, <1>4, <1>5 DEF LedgerInv

\* Their UPDATE moves a journal that is not booked to "posted", or none.
LEMMA PostKeeps ==
    ASSUME LedgerInv, NEW w \in Workers, NEW label \in {"post", "approve"},
           NEW from \in SUBSET {"draft", "pending_approval"}, Post(w, label, from)
    PROVE  LedgerInv'
<1> DEFINE j == op[w].journal
<1>1. TypeOK
  BY DEF LedgerInv
<1>2. /\ op[w].pc = label /\ j \in Journals
      /\ Finish(w)
      /\ UNCHANGED <<totals, month, reversalOf, period, today>>
  BY DEF Post, LedgerInv, WorkerInv
<1>3. \/ UNCHANGED <<status, late>>
      \/ /\ status[j] \in {"draft", "pending_approval"}
         /\ status' = [status EXCEPT ![j] = "posted"]
         /\ late' = BookedLate(j, month[j])
  BY DEF Post
<1>4. BookedLate(j, month[j]) \subseteq Journals
  BY <1>1, <1>2 DEF BookedLate, TypeOK
<1>5. TypeOK'
  BY <1>1, <1>2, <1>3, <1>4, FinishTyped DEF TypeOK, Statuses
<1>6. ReversalInv'
  <2>1. \A i \in Journals : /\ status[i] = "reversed" <=> status'[i] = "reversed"
                            /\ status[i] = "posted" => status'[i] = "posted"
    BY <1>1, <1>2, <1>3 DEF TypeOK
  <2>2. \A k \in Journals : reversalOf[k] # NoJournal => reversalOf[k] \in Journals
    BY <1>1 DEF TypeOK
  <2> QED
    BY <1>2, <2>1, <2>2 DEF LedgerInv, ReversalInv
<1>7. WorkerInv'
  <2>1. op'[w].pc = "idle" /\ \A v \in Workers \ {w} : op'[v] = op[v]
    BY <1>1, <1>2, FinishTyped
  <2>2. \A i \in Journals :
            /\ status[i] # "none" => status'[i] # "none"
            /\ status[i] \in {"posted", "reversed"} => status'[i] \in {"posted", "reversed"}
    BY <1>1, <1>2, <1>3 DEF TypeOK
  <2> QED
    BY <1>2, <2>1, <2>2 DEF LedgerInv, WorkerInv, MayBalance
<1> QED
  BY <1>5, <1>6, <1>7 DEF LedgerInv

\* ReverseJournal's read, outside its transaction.
LEMMA ReadOriginalKeeps ==
    ASSUME LedgerInv, NEW w \in Workers, NEW j \in Journals, ReadOriginal(w, j)
    PROVE  LedgerInv'
<1>1. /\ Begin(w, "reverse", j)
      /\ status[j] = "posted"
      /\ UNCHANGED <<status, totals, month, reversalOf, period, today, late>>
  BY DEF ReadOriginal
<1>2. TypeOK
  BY DEF LedgerInv
<1>3. TypeOK'
  BY <1>1, <1>2, BeginTyped DEF TypeOK
<1>4. ReversalInv'
  BY <1>1 DEF LedgerInv, ReversalInv
<1>5. WorkerInv'
  BY <1>1, <1>2, BeginTyped DEF LedgerInv, WorkerInv, MayBalance
<1> QED
  BY <1>3, <1>4, <1>5 DEF LedgerInv

\* ReverseJournal's transaction: the mirror k is new, so it is not the original.
LEMMA ReverseEffect ==
    ASSUME LedgerInv, NEW w \in Workers, NEW k \in Journals, ReverseJournal(w, k)
    PROVE  LET j == op[w].journal
           IN  /\ j \in Journals /\ j # k /\ j # NoJournal
               /\ status[j] \in {"posted", "reversed"}
               /\ status[k] = "none" /\ reversalOf[k] = NoJournal
               /\ status'[k] = "posted" /\ status'[j] = "reversed"
               /\ \A i \in Journals \ {j, k} : status'[i] = status[i]
               /\ reversalOf'[k] = j
               /\ \A i \in Journals \ {k} : reversalOf'[i] = reversalOf[i]
               /\ totals'[k].debit = totals[j].credit
               /\ totals'[k].credit = totals[j].debit
               /\ \A i \in Journals \ {k} : totals'[i] = totals[i]
<1> DEFINE j == op[w].journal
<1>1. op[w].pc = "reverse" /\ status[k] = "none"
  BY DEF ReverseJournal
<1>2. j \in Journals /\ status[j] \in {"posted", "reversed"} /\ j # k /\ j # NoJournal
  BY <1>1, LedgerAssumption DEF LedgerInv, WorkerInv
<1>3. reversalOf[k] = NoJournal
  BY <1>1 DEF LedgerInv, ReversalInv
<1>4. /\ status' = [status EXCEPT ![k] = "posted", ![j] = "reversed"]
      /\ totals' = [totals EXCEPT ![k] = [debit |-> totals[j].credit,
                                          credit |-> totals[j].debit]]
      /\ reversalOf' = [reversalOf EXCEPT ![k] = j]
  BY DEF ReverseJournal
<1> QED
  BY <1>1, <1>2, <1>3, <1>4 DEF LedgerInv, TypeOK

\* ReverseJournal keeps the invariant.
LEMMA ReverseKeeps ==
    ASSUME LedgerInv, NEW w \in Workers, NEW k \in Journals, ReverseJournal(w, k)
    PROVE  LedgerInv'
<1> DEFINE j == op[w].journal
<1>1. TypeOK
  BY DEF LedgerInv
<1>2. j \in Journals
  BY ReverseEffect
<1>3. TypeOK'
  <2>1. BookedLate(k, today) \subseteq Journals
    BY <1>1 DEF BookedLate, TypeOK
  <2>2. totals[j].credit \in Nat /\ totals[j].debit \in Nat
    BY <1>1, <1>2 DEF TypeOK
  <2>3. Finish(w)
    BY DEF ReverseJournal
  <2>4. month' = [month EXCEPT ![k] = today] /\ late' = BookedLate(k, today)
    BY DEF ReverseJournal
  <2>5. /\ status' = [status EXCEPT ![k] = "posted", ![j] = "reversed"]
        /\ totals' = [totals EXCEPT ![k] = [debit |-> totals[j].credit,
                                            credit |-> totals[j].debit]]
        /\ reversalOf' = [reversalOf EXCEPT ![k] = j]
        /\ UNCHANGED <<period, today>>
    BY DEF ReverseJournal
  <2> QED
    BY <1>1, <1>2, <2>1, <2>2, <2>3, <2>4, <2>5, FinishTyped DEF TypeOK, Statuses
<1> USE ReverseEffect
<1>4. ReversalInv'
  <2>1. ASSUME NEW i \in Journals, reversalOf'[i] # NoJournal
        PROVE  /\ status'[i] \in {"posted", "reversed"}
               /\ status'[reversalOf'[i]] = "reversed"
    <3>1. CASE i = k
      BY <3>1
    <3>2. CASE i # k
      <4>1. /\ reversalOf'[i] = reversalOf[i]
            /\ reversalOf[i] \in Journals
            /\ status[i] \in {"posted", "reversed"}
            /\ status[reversalOf[i]] = "reversed"
        BY <1>1, <2>1, <3>2 DEF LedgerInv, ReversalInv, TypeOK
      <4>2. status'[i] = status[i] \/ status'[i] = "reversed"
        BY <3>2
      <4>3. reversalOf[i] # k
        BY <4>1
      <4>4. status'[reversalOf[i]] = "reversed"
        BY <4>1, <4>3
      <4> QED
        BY <4>1, <4>2, <4>4
    <3> QED
      BY <3>1, <3>2
  <2>2. ASSUME NEW i \in Journals, status'[i] = "reversed"
        PROVE  \E h \in Journals : reversalOf'[h] = i
    <3>1. CASE i = j
      BY <3>1
    <3>2. CASE i # j
      <4>1. status[i] = "reversed"
        BY <2>2, <3>2
      <4>2. PICK h \in Journals : reversalOf[h] = i
        BY <4>1 DEF LedgerInv, ReversalInv
      <4>3. h # k
        BY <4>2, LedgerAssumption
      <4> QED
        BY <4>2, <4>3
    <3> QED
      BY <3>1, <3>2
  <2> QED
    BY <2>1, <2>2 DEF ReversalInv
<1>5. WorkerInv'
  <2>1. Finish(w)
    BY DEF ReverseJournal
  <2>2. op'[w].pc = "idle" /\ \A v \in Workers \ {w} : op'[v] = op[v]
    BY <1>1, <2>1, FinishTyped
  <2>3. ASSUME NEW i \in Journals, status[i] # "none"
        PROVE  /\ status'[i] # "none"
               /\ status[i] \in {"posted", "reversed"} => status'[i] \in {"posted", "reversed"}
               /\ totals'[i] = totals[i]
    BY <2>3
  <2>4. \A i \in Journals : status[i] \in {"posted", "reversed"} => status[i] # "none"
    OBVIOUS
  <2> QED
    BY <2>2, <2>3, <2>4 DEF LedgerInv, WorkerInv, MayBalance
<1> QED
  BY <1>3, <1>4, <1>5 DEF LedgerInv

\* The periods and the calendar do not touch the journals.
LEMMA PeriodKeeps ==
    ASSUME LedgerInv, NEW p \in Periods, PeriodCall(p)
    PROVE  LedgerInv'
<1>1. UNCHANGED <<status, totals, month, reversalOf, today, op, late>>
  BY DEF PeriodCall, CreatePeriod, SetPeriodStatus
<1>2. period' \in [Periods -> {"none", "open", "closed", "locked"}]
  BY DEF PeriodCall, CreatePeriod, SetPeriodStatus, LedgerInv, TypeOK
<1> QED
  BY <1>1, <1>2 DEF LedgerInv, TypeOK, ReversalInv, WorkerInv, MayBalance

\* Every step keeps the invariant.
LEMMA NextLedgerInv == LedgerInv /\ [Next]_ledgerVars => LedgerInv'
<1> SUFFICES ASSUME LedgerInv, [Next]_ledgerVars PROVE LedgerInv'
  OBVIOUS
<1>1. CASE UNCHANGED ledgerVars
  BY <1>1 DEF ledgerVars, LedgerInv, TypeOK, ReversalInv, WorkerInv, MayBalance
<1>2. ASSUME NEW j \in Journals, JournalCall(j) PROVE LedgerInv'
  <2>1. CASE \E t \in Totals, m \in Months : CreateJournal(j, t, m)
    BY <2>1, CreateKeeps
  <2>2. CASE SubmitForApproval(j)
    BY <2>2, UnbookedChange DEF SubmitForApproval, Statuses
  <2>3. CASE RejectJournal(j)
    BY <2>3, UnbookedChange DEF RejectJournal, Statuses
  <2>4. CASE DeleteDraft(j)
    BY <2>4, UnbookedChange DEF DeleteDraft, Statuses
  <2> QED
    BY <1>2, <2>1, <2>2, <2>3, <2>4 DEF JournalCall
<1>3. ASSUME NEW w \in Workers, WorkerStep(w) PROVE LedgerInv'
  <2>1. CASE \E j \in Journals : CheckJournal(w, j, "post")
    BY <2>1, CheckKeeps
  <2>2. CASE \E j \in Journals : CheckJournal(w, j, "approve")
    BY <2>2, CheckKeeps
  <2>3. CASE PostJournal(w)
    BY <2>3, PostKeeps DEF PostJournal
  <2>4. CASE ApproveJournal(w)
    BY <2>4, PostKeeps DEF ApproveJournal
  <2>5. CASE \E j \in Journals : ReadOriginal(w, j)
    BY <2>5, ReadOriginalKeeps
  <2>6. CASE \E k \in Journals : ReverseJournal(w, k)
    BY <2>6, ReverseKeeps
  <2> QED
    BY <1>3, <2>1, <2>2, <2>3, <2>4, <2>5, <2>6 DEF WorkerStep
<1>4. ASSUME NEW p \in Periods, PeriodCall(p) PROVE LedgerInv'
  BY <1>4, PeriodKeeps
<1>5. CASE NextMonth
  BY <1>5 DEF NextMonth, LedgerInv, TypeOK, ReversalInv, WorkerInv, MayBalance
<1> QED
  BY <1>1, <1>2, <1>3, <1>4, <1>5 DEF Next

-----------------------------------------------------------------------------
\* The inductive invariant holds in every reachable state.
THEOREM LedgerInvariant == Spec => []LedgerInv
  BY InitLedgerInv, NextLedgerInv, PTL DEF Spec

\* Every reachable state of the ledger is well typed.
THEOREM LedgerTypeCorrect == Spec => []TypeOK
<1>1. LedgerInv => TypeOK
  BY DEF LedgerInv
<1> QED
  BY <1>1, LedgerInvariant, PTL

\* What the ledger's invariant says of the mark.
LEMMA MarkIsExact == LedgerInv => ReversedIffMirrored
  BY LedgerAssumption DEF LedgerInv, ReversalInv, ReversedIffMirrored, Booked

\* The mark "reversed" is exact, although ReverseJournal reads the original
\* outside the transaction that marks it: the read stays true because nothing
\* ever leaves the booked statuses.
THEOREM ReversedIffMirroredHolds == Spec => []ReversedIffMirrored
<1>1. LedgerInv => ReversedIffMirrored
  BY MarkIsExact
<1> QED
  BY <1>1, LedgerInvariant, PTL

-----------------------------------------------------------------------------
(* The booked journals implement Book.                                     *)

\* Appending to the book what the booked journals gain: enough that booked
\* journals stay booked and unchanged, and that what is new is legitimate.
LEMMA AppendIntro ==
    ASSUME \A j \in Booked : j \in Booked' /\ EntryOf(j)' = EntryOf(j),
           \A j \in Booked' \ Booked : B!Legitimate(EntryOf(j)')
    PROVE  B!Append
<1>1. \A e \in Entries' : \E j \in Booked' : e = EntryOf(j)'
  BY DEF Entries
<1>2. \A e \in Entries : \E j \in Booked : e = EntryOf(j)
  BY DEF Entries
<1>3. Entries \subseteq Entries'
  <2> SUFFICES ASSUME NEW j \in Booked PROVE EntryOf(j) \in Entries'
    BY <1>2
  <2> QED
    BY DEF Entries
<1>4. ASSUME NEW e \in Entries' \ Entries
      PROVE  B!Legitimate(e) /\ \A o \in Entries : o.id # e.id
  <2>1. PICK j \in Booked' : e = EntryOf(j)'
    BY <1>1
  <2>2. j \notin Booked
    BY <1>4, <2>1 DEF Entries
  <2>3. \A i : (EntryOf(i)).id = i /\ (EntryOf(i)').id = i
    BY DEF EntryOf
  <2> QED
    BY <1>2, <2>1, <2>2, <2>3
<1> QED
  BY <1>3, <1>4 DEF B!Append

\* When nothing booked changes the book does not either.
LEMMA EntriesKept ==
    ASSUME Booked' = Booked, \A j \in Booked : EntryOf(j)' = EntryOf(j)
    PROVE  UNCHANGED Entries
  BY DEF Entries

\* A step that only moves unbooked journals about leaves the book alone.
LEMMA UnbookedKept ==
    ASSUME LedgerInv, NEW j \in Journals, status[j] \notin {"posted", "reversed"},
           NEW s, s \notin {"posted", "reversed"}, status' = [status EXCEPT ![j] = s],
           \A i \in Journals \ {j} : totals'[i] = totals[i],
           UNCHANGED reversalOf
    PROVE  UNCHANGED Entries
<1>1. Booked' = Booked
  BY DEF Booked, LedgerInv, TypeOK
<1>2. \A i \in Booked : EntryOf(i)' = EntryOf(i)
  BY DEF Booked, EntryOf
<1> QED
  BY <1>1, <1>2, EntriesKept

\* A posting appends a balanced entry, or nothing.
LEMMA PostAppends ==
    ASSUME LedgerInv, NEW w \in Workers, NEW label \in {"post", "approve"},
           NEW from \in SUBSET {"draft", "pending_approval"}, Post(w, label, from)
    PROVE  B!Append \/ UNCHANGED Entries
<1>0. PICK j \in Journals : j = op[w].journal
  BY DEF Post, LedgerInv, WorkerInv
<1>1. MayBalance(totals[j]) /\ UNCHANGED <<totals, reversalOf>>
  BY <1>0 DEF Post, LedgerInv, WorkerInv
<1>2. CASE status[j] \notin from
  <2>1. UNCHANGED status
    BY <1>0, <1>2 DEF Post
  <2>2. Booked' = Booked /\ \A i \in Booked : EntryOf(i)' = EntryOf(i)
    BY <1>1, <2>1 DEF Booked, EntryOf
  <2> QED
    BY <2>2, EntriesKept
<1>3. CASE status[j] \in from
  <2>1. status' = [status EXCEPT ![j] = "posted"] /\ status[j] \notin {"posted", "reversed"}
    BY <1>0, <1>3 DEF Post
  <2>2. Booked' = Booked \cup {j} /\ j \notin Booked
    BY <1>1, <2>1 DEF Booked, LedgerInv, TypeOK
  <2>3. \A i \in Booked : EntryOf(i)' = EntryOf(i)
    BY <1>1 DEF EntryOf
  <2>4. reversalOf[j] = NoJournal
    BY <1>1, <2>1 DEF LedgerInv, ReversalInv
  <2>5. /\ (EntryOf(j)').mirrors = NoJournal
        /\ (EntryOf(j)').debit = totals[j].debit /\ (EntryOf(j)').credit = totals[j].credit
    BY <1>1, <2>4 DEF EntryOf
  <2>6. B!Legitimate(EntryOf(j)')
    BY <1>1, <2>5 DEF B!Legitimate, B!WithinTolerance, MayBalance
  <2>7. \A i \in Booked : i \in Booked' /\ EntryOf(i)' = EntryOf(i)
    BY <2>2, <2>3
  <2>8. \A i \in Booked' \ Booked : B!Legitimate(EntryOf(i)')
    BY <2>2, <2>6
  <2> QED
    BY <2>7, <2>8, AppendIntro
<1> QED
  BY <1>2, <1>3

\* A reversal appends the mirror of an entry of the book.
LEMMA ReverseAppends ==
    ASSUME LedgerInv, NEW w \in Workers, NEW k \in Journals, ReverseJournal(w, k)
    PROVE  B!Append
<1>0. PICK j \in Journals : j = op[w].journal
  BY ReverseEffect
<1> USE <1>0, ReverseEffect
<1>1. Booked' = Booked \cup {k} /\ k \notin Booked /\ j \in Booked
  BY DEF Booked
<1>2. \A i \in Booked : EntryOf(i)' = EntryOf(i)
  BY <1>1 DEF EntryOf, Booked
<1>3. EntryOf(j) \in Entries
  BY <1>1 DEF Entries
<1>4. /\ (EntryOf(k)').mirrors = j /\ EntryOf(j).id = j
      /\ (EntryOf(k)').debit = EntryOf(j).credit
      /\ (EntryOf(k)').credit = EntryOf(j).debit
  BY DEF EntryOf
<1>5. B!Mirrors(EntryOf(k)', EntryOf(j))
  BY <1>4 DEF B!Mirrors
<1>6. B!Legitimate(EntryOf(k)')
  BY <1>3, <1>4, <1>5 DEF B!Legitimate
<1>7. \A i \in Booked : i \in Booked' /\ EntryOf(i)' = EntryOf(i)
  BY <1>1, <1>2
<1>8. \A i \in Booked' \ Booked : B!Legitimate(EntryOf(i)')
  BY <1>1, <1>6
<1> QED
  BY <1>7, <1>8, AppendIntro

\* Every step of the ledger appends to the book or leaves it alone.
LEMMA StepAppends == LedgerInv /\ [Next]_ledgerVars => [B!Append]_Entries
<1> SUFFICES ASSUME LedgerInv, [Next]_ledgerVars PROVE B!Append \/ UNCHANGED Entries
  OBVIOUS
<1>0. ASSUME UNCHANGED <<status, totals, reversalOf>> PROVE UNCHANGED Entries
  BY <1>0, EntriesKept DEF Booked, EntryOf
<1>1. CASE UNCHANGED ledgerVars
  BY <1>0, <1>1 DEF ledgerVars
<1>2. ASSUME NEW j \in Journals, JournalCall(j) PROVE UNCHANGED Entries
  <2>1. ASSUME NEW t \in Totals, NEW m \in Months, CreateJournal(j, t, m)
        PROVE  UNCHANGED Entries
    BY <2>1, UnbookedKept DEF CreateJournal, LedgerInv, TypeOK
  <2>2. CASE SubmitForApproval(j)
    BY <2>2, UnbookedKept DEF SubmitForApproval
  <2>3. CASE RejectJournal(j)
    BY <2>3, UnbookedKept DEF RejectJournal
  <2>4. CASE DeleteDraft(j)
    BY <2>4, UnbookedKept DEF DeleteDraft
  <2> QED
    BY <1>2, <2>1, <2>2, <2>3, <2>4 DEF JournalCall
<1>3. ASSUME NEW w \in Workers, WorkerStep(w) PROVE B!Append \/ UNCHANGED Entries
  <2>1. CASE \E j \in Journals : CheckJournal(w, j, "post") \/ CheckJournal(w, j, "approve")
    BY <1>0, <2>1 DEF CheckJournal
  <2>2. CASE PostJournal(w)
    BY <2>2, PostAppends DEF PostJournal
  <2>3. CASE ApproveJournal(w)
    BY <2>3, PostAppends DEF ApproveJournal
  <2>4. CASE \E j \in Journals : ReadOriginal(w, j)
    BY <1>0, <2>4 DEF ReadOriginal
  <2>5. CASE \E k \in Journals : ReverseJournal(w, k)
    BY <2>5, ReverseAppends
  <2> QED
    BY <1>3, <2>1, <2>2, <2>3, <2>4, <2>5 DEF WorkerStep
<1>4. ASSUME NEW p \in Periods, PeriodCall(p) PROVE UNCHANGED Entries
  BY <1>0, <1>4 DEF PeriodCall, CreatePeriod, SetPeriodStatus
<1>5. CASE NextMonth
  BY <1>0, <1>5 DEF NextMonth
<1> QED
  BY <1>1, <1>2, <1>3, <1>4, <1>5 DEF Next

\* The ledger implements the append-only book: whatever races, an entry that
\* was booked keeps its totals for ever, and a new one balances or mirrors an
\* earlier entry.
THEOREM LedgerImplementsBook == Spec => ImplementsBook
<1>1. Init => B!BookInit
  BY DEF Init, B!BookInit, Entries, Booked
<1> QED
  BY <1>1, StepAppends, LedgerInvariant, PTL DEF Spec, ImplementsBook, B!BookSpec

-----------------------------------------------------------------------------
(* The sub-ledgers.                                                        *)

USE LedgerAssumption, SubLedgerAssumption

CallType ==
    [stage : {"idle", "read", "drafted", "checked", "booked", "wrote"},
     kind : Kinds \cup {"none"}, doc : Docs \cup {NoJournal},
     at : Months \cup {0}, amount : Nat,
     totals : [debit : Nat, credit : Nat], seen : Nat, journal : Ref]

\* Which document a kind of call is about, and what it computed from it.
Fits(c) ==
    /\ c.kind \in Kinds /\ c.at \in Months
    /\ c.kind \in {"approve", "pay"} => c.doc \in Bills
    /\ c.kind \in {"raise", "receive"} => c.doc \in Invoices
    /\ c.kind \in {"depreciate", "dispose"} => c.doc \in Assets
    /\ c.kind = "depreciate" => c.amount <= c.seen /\ c.seen <= Cost[c.doc]

Shape == \A w \in Workers : call[w].stage # "idle" => Fits(call[w])

Purpose(c) == [kind |-> c.kind, doc |-> c.doc]

\* The journal of a call in progress.
LinkedAt(w) ==
    /\ call[w].stage \in {"drafted", "checked", "booked", "wrote"} =>
           /\ call[w].journal \in Journals
           /\ madeFor[call[w].journal] = Purpose(call[w])
           /\ status[call[w].journal] # "none"
    /\ call[w].stage = "checked" => op[w].journal = call[w].journal
    /\ call[w].stage \in {"booked", "wrote"} => call[w].journal \in Booked

Linked ==
    /\ \A w \in Workers : LinkedAt(w)
    /\ \A j \in Journals : madeFor[j] = NoPurpose \/ madeFor[j].doc \in Docs

\* Amounts stay within the document's.
DocBounds ==
    /\ \A b \in Bills : bill[b].paid <= Due[b]
    /\ \A a \in Assets : asset[a].book <= Cost[a]

Raising(w, i) == call[w].stage # "idle" /\ call[w].kind = "raise" /\ call[w].doc = i
Receiving(w, i) == call[w].stage # "idle" /\ call[w].kind = "receive" /\ call[w].doc = i

\* Who pays a bill has seen it approved.
PayingInv ==
    \A w \in Workers : call[w].stage # "idle" /\ call[w].kind = "pay"
                          => bill[call[w].doc].status # "pending"

\* An invoice is inserted once, and a receipt call has read an amount that is
\* still covered by what was received.
InvoiceInv ==
    \A i \in Invoices, w \in Workers :
        /\ Raising(w, i) => /\ invoice[i].status = "none"
                            /\ \A v \in Workers : Raising(v, i) => v = w
        /\ Receiving(w, i) => /\ invoice[i].status # "none"
                              /\ call[w].seen <= invoice[i].received

\* Who depreciates or disposes of an asset has seen it registered.
UsingInv ==
    \A w \in Workers : call[w].stage # "idle" /\ call[w].kind \in {"depreciate", "dispose"}
                          => asset[call[w].doc].status # "none"

\* What is shown paid was received in full, but for a kobo.
PaidIsReceived ==
    \A i \in Invoices : invoice[i].status = "paid" => invoice[i].received >= Gross[i] - 1

CallInv == Shape /\ Linked
DocInv == DocBounds /\ StatusIsBooked /\ PayingInv /\ UsingInv /\ InvoiceInv /\ PaidIsReceived
SubInv == LedgerInv /\ SubTypeOK /\ CallInv /\ DocInv

-----------------------------------------------------------------------------
(* Every step is one of the general ledger's.                              *)

\* Ledger takes any totals a user may enter, so those of the documents, too.
AnyTotals == Totals = [debit : Nat, credit : Nat]

LEMMA StartStutters ==
    ASSUME NEW w \in Workers,
           \/ \E b \in Bills : BillCall(w, b)
           \/ \E i \in Invoices : InvoiceCall(w, i)
           \/ \E a \in Assets : AssetCall(w, a)
    PROVE  UNCHANGED <<ledgerVars, docVars, madeFor>>
<1>1. \A kind, d, m, t, x, s : Start(w, kind, d, m, t, x, s) =>
          UNCHANGED <<ledgerVars, docVars, madeFor>>
  BY DEF Start
<1>2. CASE \E b \in Bills : BillCall(w, b)
  BY <1>1, <1>2 DEF BillCall, ApprovePayable, ApproveRun, PayPayable
<1>3. CASE \E i \in Invoices : InvoiceCall(w, i)
  BY <1>1, <1>3 DEF InvoiceCall, CreateReceivable, RecordReceipt
<1>4. CASE \E a \in Assets : AssetCall(w, a)
  BY <1>1, <1>4 DEF AssetCall, DepreciateAsset, DisposeAsset
<1> QED
  BY <1>2, <1>3, <1>4

LEMMA StepMaps ==
    ASSUME AnyTotals, SubInv, [ThroughLedger]_subVars PROVE [Next]_ledgerVars
<1>1. ASSUME NEW w \in Workers, CallStep(w) PROVE Next \/ UNCHANGED ledgerVars
  <2>1. ASSUME NEW j \in Journals, Draft(w, j) PROVE Next
    <3>1. call[w].totals \in Totals
      BY DEF SubInv, SubTypeOK, AnyTotals
    <3>2. call[w].at \in Months
      BY <2>1 DEF Draft, SubInv, CallInv, Shape, Fits
    <3> QED
      BY <2>1, <3>1, <3>2 DEF Draft, Next, JournalCall
  <2>2. CASE Check(w)
    <3>1. call[w].journal \in Journals
      BY <2>2 DEF Check, SubInv, CallInv, Linked, LinkedAt
    <3> QED
      BY <2>2, <3>1 DEF Check, Next, WorkerStep
  <2>3. CASE PostMade(w)
    BY <2>3 DEF PostMade, Next, WorkerStep
  <2>4. CASE GiveUp(w) \/ Die(w)
    BY <2>4 DEF GiveUp, Die
  <2>5. CASE WriteApproval(w) \/ WritePayment(w) \/ InsertInvoice(w) \/ AddReceipt(w)
             \/ InsertReceipt(w) \/ InsertDepRun(w) \/ UpdateAsset(w) \/ WriteDisposal(w)
    BY <2>5 DEF WriteApproval, WritePayment, InsertInvoice, AddReceipt, InsertReceipt,
       InsertDepRun, UpdateAsset, WriteDisposal, Writing
  <2> QED
    BY <1>1, <2>1, <2>2, <2>3, <2>4, <2>5 DEF CallStep
<1>2. CASE PageStep
  BY <1>2 DEF PageStep, Next, JournalCall
<1>3. CASE UNCHANGED subVars
  BY <1>3 DEF subVars
<1> QED
  BY <1>1, <1>2, <1>3, StartStutters DEF ThroughLedger

-----------------------------------------------------------------------------
(* What the steps do.                                                      *)

\* A journal that is there stays, if only as deleted, and a booked one stays
\* booked.
LEMMA JournalsStay ==
    ASSUME LedgerInv, [Next]_ledgerVars
    PROVE  \A j \in Journals : /\ status[j] # "none" => status'[j] # "none"
                               /\ j \in Booked => j \in Booked'
<1> USE DEF Booked
<1>0. TypeOK
  BY DEF LedgerInv
<1>1. ASSUME NEW k \in Journals, NEW s, s # "none", status[k] \notin {"posted", "reversed"},
             status' = [status EXCEPT ![k] = s]
      PROVE  \A j \in Journals : /\ status[j] # "none" => status'[j] # "none"
                                 /\ j \in Booked => j \in Booked'
  BY <1>0, <1>1 DEF TypeOK
<1>2. ASSUME NEW j \in Journals, JournalCall(j)
      PROVE  \E s : /\ s # "none" /\ status[j] \notin {"posted", "reversed"}
                    /\ status' = [status EXCEPT ![j] = s]
  BY <1>2 DEF JournalCall, CreateJournal, SubmitForApproval, RejectJournal, DeleteDraft
<1>3. ASSUME NEW w \in Workers, WorkerStep(w)
      PROVE  \A j \in Journals : /\ status[j] # "none" => status'[j] # "none"
                                 /\ j \in Booked => j \in Booked'
  <2>1. CASE \E k \in Journals : ReverseJournal(w, k)
    <3>1. PICK k \in Journals : ReverseJournal(w, k)
      BY <2>1
    <3> QED
      BY <3>1, ReverseEffect
  <2>2. CASE PostJournal(w) \/ ApproveJournal(w)
    <3>1. op[w].journal \in Journals
      BY <2>2 DEF PostJournal, ApproveJournal, Post, LedgerInv, WorkerInv
    <3>2. \/ UNCHANGED status
          \/ /\ status[op[w].journal] \in {"draft", "pending_approval"}
             /\ status' = [status EXCEPT ![op[w].journal] = "posted"]
      BY <2>2 DEF PostJournal, ApproveJournal, Post
    <3> QED
      BY <1>1, <3>1, <3>2
  <2>3. CASE \E k \in Journals : ReadOriginal(w, k) \/ CheckJournal(w, k, "post")
                                 \/ CheckJournal(w, k, "approve")
    BY <2>3 DEF ReadOriginal, CheckJournal
  <2> QED
    BY <1>3, <2>1, <2>2, <2>3 DEF WorkerStep
<1>4. CASE (\E p \in Periods : PeriodCall(p)) \/ NextMonth \/ UNCHANGED ledgerVars
  BY <1>4 DEF PeriodCall, CreatePeriod, SetPeriodStatus, NextMonth, ledgerVars
<1> QED
  BY <1>1, <1>2, <1>3, <1>4 DEF Next

\* A worker of the ledger changes its own entry only.
LEMMA WorkerAlone ==
    ASSUME LedgerInv, NEW w \in Workers, WorkerStep(w)
    PROVE  \A v \in Workers \ {w} : op'[v] = op[v]
<1>1. (\E j \in Journals : \E label \in {"post", "approve", "reverse"} : Begin(w, label, j)) \/ Finish(w)
  BY DEF WorkerStep, CheckJournal, PostJournal, ApproveJournal, Post, ReadOriginal, ReverseJournal
<1> QED
  BY <1>1, BeginTyped, FinishTyped DEF LedgerInv

LEMMA CallSet ==
    ASSUME SubTypeOK, NEW w \in Workers, NEW c \in CallType, call' = [call EXCEPT ![w] = c]
    PROVE  /\ call' \in [Workers -> CallType] /\ call'[w] = c
           /\ \A v \in Workers \ {w} : call'[v] = call[v]
  BY DEF SubTypeOK, CallType

LEMMA CallEnded ==
    ASSUME SubTypeOK, NEW w \in Workers, Ended(w)
    PROVE  /\ call' \in [Workers -> CallType] /\ call'[w].stage = "idle"
           /\ \A v \in Workers \ {w} : call'[v] = call[v]
<1>1. NoCall \in CallType /\ NoCall.stage = "idle"
  BY DEF NoCall, CallType, Ref
<1> QED
  BY <1>1, CallSet DEF Ended

\* A call moves on to another stage.
LEMMA CallMoved ==
    ASSUME SubTypeOK, NEW w \in Workers, NEW s \in {"drafted", "checked", "booked", "wrote"},
           call' = [call EXCEPT ![w].stage = s]
    PROVE  /\ call' \in [Workers -> CallType] /\ call'[w].stage = s
           /\ \A v \in Workers \ {w} : call'[v] = call[v]
           /\ call'[w].kind = call[w].kind /\ call'[w].doc = call[w].doc
           /\ call'[w].at = call[w].at /\ call'[w].amount = call[w].amount
           /\ call'[w].seen = call[w].seen /\ call'[w].journal = call[w].journal
<1>1. call[w] \in CallType
  BY DEF SubTypeOK, CallType
<1> DEFINE c == [call[w] EXCEPT !.stage = s]
<1>2. c \in CallType /\ call' = [call EXCEPT ![w] = c]
  BY <1>1 DEF CallType
<1>3. /\ c.stage = s /\ c.kind = call[w].kind /\ c.doc = call[w].doc /\ c.at = call[w].at
      /\ c.amount = call[w].amount /\ c.seen = call[w].seen /\ c.journal = call[w].journal
  BY <1>1 DEF CallType
<1> HIDE DEF c
<1> QED
  BY <1>2, <1>3, CallSet

\* What a call begins with.
Begun(w, c) ==
    /\ call[w].stage = "idle" /\ c.stage = "read" /\ Fits(c)
    /\ call' = [call EXCEPT ![w] = c]
    /\ disturbed' \subseteq disturbed \cup {c.doc}
    /\ c.kind = "pay" => bill[c.doc].status # "pending"
    /\ c.kind = "raise" => invoice[c.doc].status = "none" /\ ~Busy(c.doc)
    /\ c.kind = "receive" => /\ invoice[c.doc].status # "none"
                             /\ c.seen = invoice[c.doc].received
    /\ c.kind \in {"depreciate", "dispose"} => asset[c.doc].status # "none"

LEMMA StartBegins ==
    ASSUME NEW w \in Workers, NEW kind \in Kinds, NEW d \in Docs, NEW m \in Months,
           NEW t \in [debit : Nat, credit : Nat], NEW x \in Nat, NEW s \in Nat,
           Start(w, kind, d, m, t, x, s),
           kind \in {"approve", "pay"} => d \in Bills,
           kind \in {"raise", "receive"} => d \in Invoices,
           kind \in {"depreciate", "dispose"} => d \in Assets,
           kind = "depreciate" => x <= s /\ s <= Cost[d],
           kind = "pay" => bill[d].status # "pending",
           kind = "raise" => invoice[d].status = "none" /\ ~Busy(d),
           kind = "receive" => invoice[d].status # "none" /\ s = invoice[d].received,
           kind \in {"depreciate", "dispose"} => asset[d].status # "none"
    PROVE  \E c \in CallType : Begun(w, c)
<1> DEFINE c == [stage |-> "read", kind |-> kind, doc |-> d, at |-> m, amount |-> x,
                 totals |-> t, seen |-> s, journal |-> NoJournal]
<1>1. c \in CallType
  BY DEF CallType, Ref
<1>2. /\ c.stage = "read" /\ c.kind = kind /\ c.doc = d /\ c.at = m /\ c.amount = x
      /\ c.seen = s
  OBVIOUS
<1>3. call' = [call EXCEPT ![w] = c] /\ call[w].stage = "idle"
  BY DEF Start
<1>4. disturbed' \subseteq disturbed \cup {d}
  BY DEF Start
<1>5. Fits(c)
  BY <1>2 DEF Fits
<1>6. Begun(w, c)
  BY <1>2, <1>3, <1>4, <1>5 DEF Begun
<1> QED
  BY <1>1, <1>6

LEMMA EvenType == \A x \in Nat : Even(x) \in [debit : Nat, credit : Nat]
  BY DEF Even

LEMMA Difference == \A x, y \in Nat : (IF x < y THEN y - x ELSE 0) \in Nat
  OBVIOUS

LEMMA KindsDocs ==
    /\ Payables \subseteq Docs /\ PayRuns \subseteq Docs /\ Bills \subseteq Docs
    /\ Invoices \subseteq Docs /\ Assets \subseteq Docs
    /\ {"approve", "pay", "raise", "receive", "depreciate", "dispose"} = Kinds
  BY DEF Docs, Bills, Kinds

LEMMA BillBegins ==
    ASSUME SubInv, NEW w \in Workers, NEW b \in Bills, BillCall(w, b)
    PROVE  \E c \in CallType : Begun(w, c)
<1>1. /\ bill[b].paid \in Nat /\ Due[b] \in Nat /\ bill[b].paid <= Due[b] /\ today \in Months
      /\ Due[b] - bill[b].paid \in Nat
  BY DEF SubInv, SubTypeOK, TypeOK, DocInv, DocBounds
<1>2. CASE ApprovePayable(w, b)
  BY <1>1, <1>2, EvenType, KindsDocs, StartBegins DEF ApprovePayable
<1>3. ASSUME NEW m \in Dates, ApproveRun(w, b, m) PROVE \E c \in CallType : Begun(w, c)
  BY <1>1, <1>3, EvenType, KindsDocs, StartBegins DEF ApproveRun
<1>4. ASSUME NEW m \in Dates, PayPayable(w, b, m) PROVE \E c \in CallType : Begun(w, c)
  BY <1>1, <1>4, EvenType, KindsDocs, StartBegins DEF PayPayable
<1> QED
  BY <1>2, <1>3, <1>4 DEF BillCall

LEMMA InvoiceBegins ==
    ASSUME SubInv, NEW w \in Workers, NEW i \in Invoices, InvoiceCall(w, i)
    PROVE  \E c \in CallType : Begun(w, c)
<1>1. invoice[i].received \in Nat /\ Gross[i] \in Nat /\ Withheld[i] \in Nat /\ 0 \in Nat
  BY DEF SubInv, SubTypeOK
<1>2. ASSUME NEW m \in Dates, CreateReceivable(w, i, m) PROVE \E c \in CallType : Begun(w, c)
  BY <1>1, <1>2, EvenType, KindsDocs, StartBegins DEF CreateReceivable
<1>3. ASSUME NEW m \in Dates, NEW x \in Amounts, RecordReceipt(w, i, m, x)
      PROVE  \E c \in CallType : Begun(w, c)
  <2>1. x \in Nat /\ x + Withheld[i] \in Nat
    BY <1>1
  <2> QED
    BY <1>1, <1>3, <2>1, EvenType, KindsDocs, StartBegins DEF RecordReceipt
<1> QED
  BY <1>2, <1>3 DEF InvoiceCall

LEMMA AssetBegins ==
    ASSUME SubInv, NEW w \in Workers, NEW a \in Assets, AssetCall(w, a)
    PROVE  \E c \in CallType : Begun(w, c)
<1>1. /\ asset[a].book \in Nat /\ asset[a].accum \in Nat /\ asset[a].book <= Cost[a]
      /\ Cost[a] \in Nat /\ Salvage[a] \in Nat /\ Charge[a][asset[a].book] \in Nat
  BY DEF SubInv, SubTypeOK, DocInv, DocBounds
<1>2. ASSUME NEW m \in Months, DepreciateAsset(w, a, m) PROVE \E c \in CallType : Begun(w, c)
  <2>1. PICK x : x = DepAmount(a, asset[a].book)
    OBVIOUS
  <2>2. /\ x > 0 /\ Start(w, "depreciate", a, m, Even(x), x, asset[a].book)
        /\ asset[a].status # "none"
    BY <1>2, <2>1 DEF DepreciateAsset
  <2>3. x \in Nat /\ x <= asset[a].book
    BY <1>1, <2>1, <2>2 DEF DepAmount
  <2> QED
    BY <1>1, <2>2, <2>3, EvenType, KindsDocs, StartBegins
<1>3. ASSUME NEW m \in Dates, NEW y \in Amounts, DisposeAsset(w, a, m, y)
      PROVE  \E c \in CallType : Begun(w, c)
  <2>1. PICK t : /\ t \in [debit : Nat, credit : Nat]
                 /\ Start(w, "dispose", a, m, t, y, asset[a].book)
                 /\ asset[a].status # "none"
    <3> DEFINE book == asset[a].book
               loss == IF y < book THEN book - y ELSE 0
               gain == IF book < y THEN y - book ELSE 0
               t == [debit |-> asset[a].accum + y + loss, credit |-> Cost[a] + gain]
    <3>1. y \in Nat
      OBVIOUS
    <3>2. loss \in Nat /\ gain \in Nat
      BY <1>1, <3>1, Difference
    <3>3. t \in [debit : Nat, credit : Nat]
      <4> HIDE DEF loss, gain
      <4>1. asset[a].accum + y + loss \in Nat /\ Cost[a] + gain \in Nat
        BY <1>1, <3>1, <3>2
      <4> QED
        BY <4>1
    <3>4. (IF y > book THEN y - book ELSE 0) = gain
      BY <1>1, <3>1
    <3>5. Start(w, "dispose", a, m, t, y, asset[a].book) /\ asset[a].status # "none"
      BY <1>3, <3>4 DEF DisposeAsset
    <3> QED
      BY <3>3, <3>5
  <2> QED
    BY <1>1, <2>1, KindsDocs, StartBegins
<1> QED
  BY <1>2, <1>3 DEF AssetCall

\* The calls a worker at rest may begin.
BeginsCall(w) ==
    \/ \E b \in Bills : BillCall(w, b)
    \/ \E i \in Invoices : InvoiceCall(w, i)
    \/ \E a \in Assets : AssetCall(w, a)

LEMMA CallBegins ==
    ASSUME SubInv, NEW w \in Workers, BeginsCall(w)
    PROVE  /\ \E c \in CallType : Begun(w, c)
           /\ UNCHANGED <<ledgerVars, docVars, madeFor>>
  BY BillBegins, InvoiceBegins, AssetBegins, StartStutters DEF BeginsCall

-----------------------------------------------------------------------------
(* SubTypeOK                                                               *)

BillType == [status : {"pending", "approved", "paid"}, paid : Nat, journal : Ref, payment : Ref]
InvoiceType ==
    [status : {"none", "outstanding", "partial", "paid"}, received : Nat, journal : Ref]
AssetType == [status : {"none", "active", "fully_depreciated", "disposed"},
              book : Nat, accum : Nat, last : Months \cup {0}]

DocsTyped ==
    /\ bill \in [Bills -> [status : {"pending", "approved", "paid"}, paid : Nat,
                           journal : Ref, payment : Ref]]
    /\ invoice \in [Invoices -> [status : {"none", "outstanding", "partial", "paid"},
                                 received : Nat, journal : Ref]]
    /\ receipts \subseteq [invoice : Invoices, amount : Nat, journal : Journals]
    /\ asset \in [Assets -> [status : {"none", "active", "fully_depreciated", "disposed"},
                             book : Nat, accum : Nat, last : Months \cup {0}]]
    /\ depRuns \subseteq [asset : Assets, period : Months, amount : Nat, journal : Journals]

MadeTyped == madeFor \in [Journals -> [kind : Kinds \cup {"register", "none"}, doc : Docs \cup {NoJournal}]]

LEMMA TypeSplit ==
    SubTypeOK <=> TypeOK /\ DocsTyped /\ call \in [Workers -> CallType] /\ MadeTyped
                  /\ disturbed \subseteq Docs
  BY DEF SubTypeOK, DocsTyped, CallType, MadeTyped

LEMMA TypeSplitNext ==
    SubTypeOK' <=> TypeOK' /\ DocsTyped' /\ call' \in [Workers -> CallType] /\ MadeTyped'
                   /\ disturbed' \subseteq Docs
  BY DEF SubTypeOK, DocsTyped, CallType, MadeTyped

\* What a statement that writes a document knows of its call.
LEMMA WriterFacts ==
    ASSUME SubInv, NEW w \in Workers, call[w].stage \in {"booked", "wrote"}
    PROVE  /\ call[w] \in CallType /\ Fits(call[w])
           /\ call[w].journal \in Journals /\ call[w].journal \in Booked
           /\ madeFor[call[w].journal] = Purpose(call[w])
           /\ call[w].amount \in Nat /\ call[w].seen \in Nat /\ call[w].at \in Months
<1>1. call[w] \in CallType
  BY DEF SubInv, SubTypeOK, CallType
<1> QED
  BY <1>1 DEF SubInv, CallInv, Shape, Linked, LinkedAt, CallType, Fits

LEMMA WritesTyped ==
    ASSUME SubInv, NEW w \in Workers,
           WriteApproval(w) \/ WritePayment(w) \/ InsertInvoice(w) \/ AddReceipt(w)
           \/ InsertReceipt(w) \/ InsertDepRun(w) \/ UpdateAsset(w) \/ WriteDisposal(w)
    PROVE  DocsTyped'
<1>0. call[w].stage \in {"booked", "wrote"} /\ DocsTyped
  BY TypeSplit DEF SubInv, WriteApproval, WritePayment, InsertInvoice, AddReceipt, InsertReceipt,
     InsertDepRun, UpdateAsset, WriteDisposal, Writing
<1> DEFINE d == call[w].doc
           j == call[w].journal
<1>1. /\ Fits(call[w]) /\ j \in Journals /\ j \in Ref /\ call[w].amount \in Nat
      /\ call[w].seen \in Nat /\ call[w].at \in Months
  BY <1>0, WriterFacts DEF Ref
<1>2. CASE WriteApproval(w)
  <2> DEFINE row == [bill[d] EXCEPT !.status = "approved", !.journal = j]
  <2>1. d \in Bills /\ bill' = [bill EXCEPT ![d] = row] /\ UNCHANGED <<invoice, receipts, asset, depRuns>>
    BY <1>1, <1>2 DEF WriteApproval, Writing, Fits
  <2>2. row \in BillType
    <3>1. bill[d] \in BillType
      BY <1>0, <2>1 DEF DocsTyped, BillType
    <3> QED
      BY <1>1, <2>1, <3>1 DEF BillType
  <2> QED
    BY <1>0, <2>1, <2>2 DEF DocsTyped, BillType
<1>3. CASE WritePayment(w)
  <2> DEFINE row == [bill[d] EXCEPT !.status = "paid", !.paid = Due[d], !.payment = j]
  <2>1. d \in Bills /\ bill' = [bill EXCEPT ![d] = row] /\ UNCHANGED <<invoice, receipts, asset, depRuns>>
    BY <1>1, <1>3 DEF WritePayment, Writing, Fits
  <2>2. row \in BillType
    <3>1. bill[d] \in BillType
      BY <1>0, <2>1 DEF DocsTyped, BillType
    <3> QED
      BY <1>1, <2>1, <3>1 DEF BillType
  <2> QED
    BY <1>0, <2>1, <2>2 DEF DocsTyped, BillType
<1>4. CASE InsertInvoice(w)
  BY <1>0, <1>1, <1>4 DEF InsertInvoice, Writing, DocsTyped, Fits
<1>5. CASE AddReceipt(w)
  <2>1. d \in Invoices /\ invoice[d].received + call[w].amount \in Nat
    BY <1>0, <1>1, <1>5 DEF AddReceipt, Writing, Fits, DocsTyped
  <2>2. PICK s \in {"paid", "partial"} :
            invoice' = [invoice EXCEPT ![d].received = @ + call[w].amount, ![d].status = s]
    BY <1>5 DEF AddReceipt
  <2>3. UNCHANGED <<bill, receipts, asset, depRuns>>
    BY <1>5 DEF AddReceipt
  <2> DEFINE row == [invoice[d] EXCEPT !.received = @ + call[w].amount, !.status = s]
  <2>4. row \in InvoiceType
    <3>1. invoice[d] \in InvoiceType
      BY <1>0, <2>1 DEF DocsTyped, InvoiceType
    <3> QED
      BY <2>1, <3>1 DEF InvoiceType
  <2>5. invoice' = [invoice EXCEPT ![d] = row]
    BY <2>2
  <2> QED
    BY <1>0, <2>1, <2>3, <2>4, <2>5 DEF DocsTyped, InvoiceType
<1>6. CASE InsertReceipt(w)
  BY <1>0, <1>1, <1>6 DEF InsertReceipt, Writing, DocsTyped, Fits
<1>7. CASE InsertDepRun(w)
  BY <1>0, <1>1, <1>7 DEF InsertDepRun, Writing, DocsTyped, Fits
<1>8. CASE UpdateAsset(w)
  <2> DEFINE new == call[w].seen - call[w].amount
  <2>1. d \in Assets /\ new \in Nat /\ asset[d].accum + call[w].amount \in Nat
    BY <1>0, <1>1, <1>8 DEF UpdateAsset, Writing, Fits, DocsTyped
  <2>2. PICK s \in {"fully_depreciated", "active"} :
            asset' = [asset EXCEPT ![d] = [status |-> s, book |-> new,
                                           accum |-> asset[d].accum + call[w].amount,
                                           last |-> call[w].at]]
    BY <1>8 DEF UpdateAsset
  <2>3. UNCHANGED <<bill, invoice, receipts, depRuns>>
    BY <1>8 DEF UpdateAsset
  <2> QED
    BY <1>0, <1>1, <2>1, <2>2, <2>3 DEF DocsTyped
<1>9. CASE WriteDisposal(w)
  <2> DEFINE row == [asset[d] EXCEPT !.status = "disposed", !.book = 0]
  <2>1. d \in Assets /\ asset' = [asset EXCEPT ![d] = row] /\ UNCHANGED <<bill, invoice, receipts, depRuns>>
    BY <1>1, <1>9 DEF WriteDisposal, Writing, Fits
  <2>2. row \in AssetType
    <3>1. asset[d] \in AssetType
      BY <1>0, <2>1 DEF DocsTyped, AssetType
    <3> QED
      BY <3>1 DEF AssetType
  <2> QED
    BY <1>0, <2>1, <2>2 DEF DocsTyped, AssetType
<1> QED
  BY <1>2, <1>3, <1>4, <1>5, <1>6, <1>7, <1>8, <1>9

\* The statements after the posting.
Writes(w) ==
    WriteApproval(w) \/ WritePayment(w) \/ InsertInvoice(w) \/ AddReceipt(w)
    \/ InsertReceipt(w) \/ InsertDepRun(w) \/ UpdateAsset(w) \/ WriteDisposal(w)

LEMMA WritesOnly ==
    ASSUME NEW w \in Workers, Writes(w)
    PROVE  /\ call[w].stage \in {"booked", "wrote"}
           /\ UNCHANGED <<ledgerVars, madeFor, disturbed>>
           /\ Ended(w) \/ (/\ call[w].stage = "booked"
                           /\ call' = [call EXCEPT ![w].stage = "wrote"])
  BY DEF Writes, WriteApproval, WritePayment, InsertInvoice, AddReceipt, InsertReceipt,
     InsertDepRun, UpdateAsset, WriteDisposal, Writing

\* The journal of a call is created.
LEMMA Drafted ==
    ASSUME SubInv, NEW w \in Workers, NEW j \in Journals, Draft(w, j)
    PROVE  /\ call' \in [Workers -> CallType] /\ call'[w].stage = "drafted"
           /\ \A v \in Workers \ {w} : call'[v] = call[v]
           /\ call'[w].kind = call[w].kind /\ call'[w].doc = call[w].doc
           /\ call'[w].at = call[w].at /\ call'[w].amount = call[w].amount
           /\ call'[w].seen = call[w].seen /\ call'[w].journal = j
<1> DEFINE c == [call[w] EXCEPT !.stage = "drafted", !.journal = j]
<1>1. call[w] \in CallType
  BY DEF SubInv, SubTypeOK, CallType
<1>2. c \in CallType
  BY <1>1 DEF CallType, Ref
<1>3. call' = [call EXCEPT ![w] = c]
  BY DEF Draft
<1>4. /\ c.stage = "drafted" /\ c.kind = call[w].kind /\ c.doc = call[w].doc /\ c.at = call[w].at
      /\ c.amount = call[w].amount /\ c.seen = call[w].seen /\ c.journal = j
  BY <1>1 DEF CallType
<1> HIDE DEF c
<1> QED
  BY <1>2, <1>3, <1>4, CallSet DEF SubInv

\* A call goes on unchanged but for its stage and its journal, or it ends.
GoesOn(w) ==
    /\ call[w].stage # "idle"
    /\ call'[w].kind = call[w].kind /\ call'[w].doc = call[w].doc
    /\ call'[w].at = call[w].at /\ call'[w].amount = call[w].amount
    /\ call'[w].seen = call[w].seen

LEMMA CallStepCalls ==
    ASSUME SubInv, NEW w \in Workers, CallStep(w)
    PROVE  /\ call' \in [Workers -> CallType]
           /\ \A v \in Workers \ {w} : call'[v] = call[v]
           /\ call'[w].stage = "idle" \/ GoesOn(w)
<1>0. SubTypeOK
  BY DEF SubInv
<1>1. CASE \E j \in Journals : Draft(w, j)
  <2>1. PICK j \in Journals : Draft(w, j)
    BY <1>1
  <2> QED
    BY <2>1, Drafted DEF Draft, GoesOn
<1>2. CASE Check(w)
  BY <1>0, <1>2, CallMoved DEF Check, GoesOn
<1>3. CASE PostMade(w)
  <2>1. CASE Ended(w)
    BY <1>0, <2>1, CallEnded
  <2>2. CASE call' = [call EXCEPT ![w].stage = "booked"]
    BY <1>0, <1>3, <2>2, CallMoved DEF PostMade, GoesOn
  <2> QED
    BY <1>3, <2>1, <2>2 DEF PostMade
<1>4. CASE GiveUp(w) \/ Die(w)
  BY <1>0, <1>4, CallEnded DEF GiveUp, Die
<1>5. CASE Writes(w)
  <2>1. CASE Ended(w)
    BY <1>0, <2>1, CallEnded
  <2>2. CASE call' = [call EXCEPT ![w].stage = "wrote"]
    BY <1>0, <1>5, <2>2, CallMoved, WritesOnly DEF GoesOn
  <2> QED
    BY <1>5, <2>1, <2>2, WritesOnly
<1> QED
  BY <1>1, <1>2, <1>3, <1>4, <1>5 DEF CallStep, Writes

LEMMA TypeStep ==
    ASSUME AnyTotals, SubInv, [ThroughLedger]_subVars PROVE SubTypeOK'
<1>1. TypeOK'
  BY StepMaps, NextLedgerInv DEF SubInv, LedgerInv
<1>2. DocsTyped /\ call \in [Workers -> CallType] /\ MadeTyped /\ disturbed \subseteq Docs
  BY TypeSplit DEF SubInv
<1>3. ASSUME UNCHANGED docVars PROVE DocsTyped'
  BY <1>2, <1>3 DEF docVars, DocsTyped
<1>4. ASSUME UNCHANGED madeFor PROVE MadeTyped'
  BY <1>2, <1>4 DEF MadeTyped
<1>5. ASSUME NEW w \in Workers, BeginsCall(w) PROVE SubTypeOK'
  <2>1. PICK c \in CallType : Begun(w, c)
    BY <1>5, CallBegins
  <2>2. call' \in [Workers -> CallType]
    BY <2>1, CallSet DEF Begun, SubInv
  <2>3. c.doc \in Docs
    BY <2>1, KindsDocs DEF Begun, Fits
  <2>4. disturbed' \subseteq Docs
    BY <1>2, <2>1, <2>3 DEF Begun
  <2> QED
    BY <1>1, <1>3, <1>4, <1>5, <2>2, <2>4, CallBegins, TypeSplitNext
<1>6. ASSUME NEW w \in Workers, CallStep(w) PROVE SubTypeOK'
  <2>1. DocsTyped'
    <3>1. CASE Writes(w)
      BY <3>1, WritesTyped DEF Writes
    <3>2. CASE ~Writes(w)
      BY <1>3, <1>6, <3>2 DEF CallStep, Writes, Draft, Check, PostMade, GiveUp, Die
    <3> QED
      BY <3>1, <3>2
  <2>2. MadeTyped'
    <3>1. ASSUME NEW j \in Journals, Draft(w, j) PROVE MadeTyped'
      <4>1. call[w].kind \in Kinds \cup {"none"} /\ call[w].doc \in Docs \cup {NoJournal}
        BY <1>2 DEF CallType
      <4> QED
        BY <1>2, <3>1, <4>1 DEF Draft, MadeTyped
    <3>2. CASE ~ \E j \in Journals : Draft(w, j)
      BY <1>4, <1>6, <3>2, WritesOnly DEF CallStep, Writes, Check, PostMade, GiveUp, Die
    <3> QED
      BY <3>1, <3>2
  <2>3. disturbed' \subseteq Docs
    <3>1. CASE Die(w)
      <4>1. call[w].doc \in Docs
        BY <3>1, WriterFacts, KindsDocs DEF Die, Fits
      <4> QED
        BY <1>2, <3>1, <4>1 DEF Die
    <3>2. CASE ~Die(w)
      <4>1. UNCHANGED disturbed
        BY <1>6, <3>2, WritesOnly DEF CallStep, Writes, Draft, Check, PostMade, GiveUp
      <4> QED
        BY <1>2, <4>1
    <3> QED
      BY <3>1, <3>2
  <2> QED
    BY <1>1, <1>6, <2>1, <2>2, <2>3, CallStepCalls, TypeSplitNext
<1>7. CASE PageStep
  <2>1. BookedByHand \subseteq Docs
    BY DEF SubInv, CallInv, Linked, BookedByHand
  <2>2. disturbed' \subseteq Docs
    BY <1>2, <1>7, <2>1 DEF PageStep
  <2>3. call' \in [Workers -> CallType] /\ UNCHANGED <<docVars, madeFor>>
    BY <1>2, <1>7 DEF PageStep
  <2> QED
    BY <1>1, <1>3, <1>4, <2>2, <2>3, TypeSplitNext
<1>8. CASE UNCHANGED subVars
  BY <1>1, <1>2, <1>3, <1>4, <1>8, TypeSplitNext DEF subVars
<1> QED
  BY <1>5, <1>6, <1>7, <1>8 DEF ThroughLedger, BeginsCall

-----------------------------------------------------------------------------
(* Calls and their journals.                                               *)

\* Only a journal that is not there yet gets a purpose.
LEMMA PurposeKept ==
    ASSUME SubInv, [ThroughLedger]_subVars
    PROVE  \A j \in Journals : status[j] # "none" => madeFor'[j] = madeFor[j]
<1>1. CASE UNCHANGED madeFor
  BY <1>1
<1>2. ASSUME NEW w \in Workers, NEW k \in Journals, Draft(w, k)
      PROVE  \A j \in Journals : status[j] # "none" => madeFor'[j] = madeFor[j]
  <2>1. madeFor \in [Journals -> [kind : Kinds \cup {"register", "none"}, doc : Docs \cup {NoJournal}]]
    BY DEF SubInv, SubTypeOK
  <2> QED
    BY <1>2, <2>1 DEF Draft, CreateJournal
<1>3. ASSUME NEW w \in Workers, CallStep(w), ~ \E k \in Journals : Draft(w, k)
      PROVE  UNCHANGED madeFor
  BY <1>3, WritesOnly DEF CallStep, Writes, Check, PostMade, GiveUp, Die
<1>4. ASSUME NEW w \in Workers, BeginsCall(w) PROVE UNCHANGED madeFor
  BY <1>4, CallBegins
<1> QED
  BY <1>1, <1>2, <1>3, <1>4 DEF ThroughLedger, BeginsCall, PageStep, subVars

\* What is true of a call that does not move.
LEMMA AtRest ==
    ASSUME AnyTotals, SubInv, [ThroughLedger]_subVars, NEW v \in Workers,
           call'[v] = call[v], op'[v] = op[v]
    PROVE  LinkedAt(v)'
<1>1. LinkedAt(v) /\ LedgerInv
  BY DEF SubInv, CallInv, Linked
<1>2. CASE call[v].stage \in {"drafted", "checked", "booked", "wrote"}
  <2> DEFINE j == call[v].journal
  <2>1. j \in Journals /\ madeFor[j] = Purpose(call[v]) /\ status[j] # "none"
    BY <1>1, <1>2 DEF LinkedAt
  <2>2. /\ madeFor'[j] = madeFor[j] /\ status'[j] # "none"
        /\ j \in Booked => j \in Booked'
    BY <1>1, <2>1, PurposeKept, StepMaps, JournalsStay
  <2>3. madeFor'[call'[v].journal] = Purpose(call'[v])
    BY <2>1, <2>2
  <2> QED
    BY <1>1, <1>2, <2>1, <2>2, <2>3 DEF LinkedAt, Purpose
<1>3. CASE call[v].stage \notin {"drafted", "checked", "booked", "wrote"}
  BY <1>3 DEF LinkedAt
<1> QED
  BY <1>2, <1>3

\* A step of a call leaves the others' entries alone.
LEMMA OthersRest ==
    ASSUME SubInv, NEW w \in Workers, CallStep(w)
    PROVE  \A v \in Workers \ {w} : op'[v] = op[v]
<1>1. CASE UNCHANGED op
  BY <1>1
<1>2. CASE WorkerStep(w)
  BY <1>2, WorkerAlone DEF SubInv
<1>3. UNCHANGED op \/ WorkerStep(w)
  <2>1. ASSUME NEW j \in Journals, Draft(w, j) PROVE UNCHANGED op
    BY <2>1 DEF Draft, CreateJournal
  <2>2. CASE Check(w)
    <3>1. call[w].journal \in Journals
      BY <2>2 DEF Check, SubInv, CallInv, Linked, LinkedAt
    <3> QED
      BY <2>2, <3>1 DEF Check, WorkerStep
  <2>3. CASE PostMade(w)
    BY <2>3 DEF PostMade, WorkerStep
  <2>4. CASE GiveUp(w) \/ Die(w) \/ Writes(w)
    BY <2>4, WritesOnly DEF GiveUp, Die, ledgerVars
  <2> QED
    BY <2>1, <2>2, <2>3, <2>4 DEF CallStep, Writes
<1> QED
  BY <1>1, <1>2, <1>3

LEMMA ShapeStep ==
    ASSUME SubInv, [ThroughLedger]_subVars PROVE Shape'
<1>0. Shape /\ call \in [Workers -> CallType]
  BY TypeSplit DEF SubInv, CallInv
<1>1. ASSUME NEW v \in Workers, call'[v] = call[v], call'[v].stage # "idle" PROVE Fits(call'[v])
  BY <1>0, <1>1 DEF Shape
<1>2. ASSUME NEW w \in Workers, CallStep(w) PROVE Shape'
  <2>1. ASSUME GoesOn(w) PROVE Fits(call'[w])
    BY <1>0, <2>1 DEF GoesOn, Shape, Fits
  <2> QED
    BY <1>1, <1>2, <2>1, CallStepCalls DEF Shape
<1>3. ASSUME NEW w \in Workers, BeginsCall(w) PROVE Shape'
  <2>1. PICK c \in CallType : Begun(w, c)
    BY <1>3, CallBegins
  <2>2. call'[w] = c /\ \A v \in Workers \ {w} : call'[v] = call[v]
    BY <2>1, CallSet DEF Begun, SubInv
  <2>3. Fits(call'[w])
    BY <2>1, <2>2 DEF Begun
  <2> QED
    BY <1>1, <2>2, <2>3 DEF Shape
<1>4. CASE UNCHANGED call
  BY <1>0, <1>4 DEF Shape
<1> QED
  BY <1>2, <1>3, <1>4 DEF ThroughLedger, BeginsCall, PageStep, subVars

\* The journal of the call that moves.
LEMMA MoverLinked ==
    ASSUME AnyTotals, SubInv, NEW w \in Workers, CallStep(w) PROVE LinkedAt(w)'
<1>0. LedgerInv /\ SubTypeOK /\ LinkedAt(w) /\ [Next]_ledgerVars /\ [ThroughLedger]_subVars
  BY StepMaps DEF SubInv, CallInv, Linked, ThroughLedger
<1>1. ASSUME call'[w].stage = "idle" PROVE LinkedAt(w)'
  BY <1>1 DEF LinkedAt
<1>2. ASSUME NEW s \in {"checked", "booked", "wrote"}, call' = [call EXCEPT ![w].stage = s],
             call[w].stage \in {"drafted", "checked", "booked", "wrote"},
             s = "checked" => op'[w].journal = call[w].journal,
             s \in {"booked", "wrote"} => call[w].journal \in Booked'
      PROVE  LinkedAt(w)'
  <2> DEFINE j == call[w].journal
  <2>1. j \in Journals /\ madeFor[j] = Purpose(call[w]) /\ status[j] # "none"
    BY <1>0, <1>2 DEF LinkedAt
  <2>2. madeFor'[j] = madeFor[j] /\ status'[j] # "none"
    BY <1>0, <2>1, PurposeKept, JournalsStay
  <2>3. /\ call'[w].stage = s /\ call'[w].journal = j
        /\ call'[w].kind = call[w].kind /\ call'[w].doc = call[w].doc
    BY <1>0, <1>2, CallMoved
  <2> HIDE DEF j
  <2>4. madeFor'[call'[w].journal] = Purpose(call'[w])
    BY <2>1, <2>2, <2>3 DEF Purpose
  <2>5. /\ s = "checked" => op'[w].journal = j
        /\ s \in {"booked", "wrote"} => j \in Booked'
    BY <1>2 DEF j
  <2> QED
    BY <2>1, <2>2, <2>3, <2>4, <2>5 DEF LinkedAt
<1>3. ASSUME NEW j \in Journals, Draft(w, j) PROVE LinkedAt(w)'
  <2>1. /\ call'[w].stage = "drafted" /\ call'[w].journal = j
        /\ call'[w].kind = call[w].kind /\ call'[w].doc = call[w].doc
    BY <1>3, Drafted
  <2>2. madeFor'[j] = Purpose(call[w]) /\ status'[j] = "draft"
    BY <1>0, <1>3 DEF Draft, CreateJournal, Purpose, SubTypeOK, TypeOK
  <2>3. madeFor'[call'[w].journal] = Purpose(call'[w])
    BY <2>1, <2>2 DEF Purpose
  <2> QED
    BY <2>1, <2>2, <2>3 DEF LinkedAt
<1>4. CASE Check(w)
  <2>1. call[w].journal \in Journals
    BY <1>0, <1>4 DEF Check, LinkedAt
  <2>2. op'[w].journal = call[w].journal
    BY <1>0, <1>4, <2>1, BeginTyped DEF Check, CheckJournal, LedgerInv
  <2> QED
    BY <1>2, <1>4, <2>2 DEF Check
<1>5. CASE PostMade(w)
  <2>1. CASE Ended(w)
    BY <1>0, <1>1, <2>1, CallEnded
  <2>2. CASE ~Ended(w)
    <3>1. /\ call[w].stage = "checked" /\ PostJournal(w)
          /\ status[call[w].journal] \in {"draft", "pending_approval"}
          /\ call' = [call EXCEPT ![w].stage = "booked"]
      BY <1>5, <2>2 DEF PostMade
    <3>2. call[w].journal \in Journals /\ op[w].journal = call[w].journal
      BY <1>0, <3>1 DEF LinkedAt
    <3>3. status' = [status EXCEPT ![call[w].journal] = "posted"]
      BY <3>1, <3>2 DEF PostJournal, Post
    <3>4. call[w].journal \in Booked'
      BY <1>0, <3>2, <3>3 DEF Booked, LedgerInv, TypeOK
    <3> QED
      BY <1>2, <3>1, <3>4
  <2> QED
    BY <2>1, <2>2
<1>6. CASE GiveUp(w) \/ Die(w)
  BY <1>0, <1>1, <1>6, CallEnded DEF GiveUp, Die
<1>7. CASE Writes(w)
  <2>1. CASE Ended(w)
    BY <1>0, <1>1, <2>1, CallEnded
  <2>2. CASE call[w].stage = "booked" /\ call' = [call EXCEPT ![w].stage = "wrote"]
    <3>1. call[w].journal \in Journals /\ call[w].journal \in Booked
      BY <1>0, <2>2 DEF LinkedAt
    <3>2. call[w].journal \in Booked'
      BY <1>0, <3>1, JournalsStay
    <3> QED
      BY <1>2, <2>2, <3>2
  <2> QED
    BY <1>7, <2>1, <2>2, WritesOnly
<1> QED
  BY <1>3, <1>4, <1>5, <1>6, <1>7 DEF CallStep, Writes

LEMMA LinkedStep ==
    ASSUME AnyTotals, SubInv, [ThroughLedger]_subVars PROVE Linked'
<1>0. LedgerInv /\ SubTypeOK /\ Linked
  BY DEF SubInv, CallInv
<1>1. \A j \in Journals : madeFor'[j] = NoPurpose \/ madeFor'[j].doc \in Docs
  <2>1. ASSUME NEW w \in Workers, NEW k \in Journals, Draft(w, k)
        PROVE  \A j \in Journals : madeFor'[j] = NoPurpose \/ madeFor'[j].doc \in Docs
    <3>1. call[w].doc \in Docs
      BY <2>1, KindsDocs DEF Draft, SubInv, CallInv, Shape, Fits, Kinds
    <3>2. madeFor \in [Journals -> [kind : Kinds \cup {"register", "none"}, doc : Docs \cup {NoJournal}]]
      BY <1>0 DEF SubTypeOK
    <3>3. /\ madeFor'[k] = [kind |-> call[w].kind, doc |-> call[w].doc]
          /\ \A j \in Journals \ {k} : madeFor'[j] = madeFor[j]
      BY <2>1, <3>2 DEF Draft
    <3>4. madeFor'[k].doc \in Docs
      BY <3>1, <3>3
    <3>5. \A j \in Journals : madeFor[j] = NoPurpose \/ madeFor[j].doc \in Docs
      BY <1>0 DEF Linked
    <3> QED
      BY <3>3, <3>4, <3>5
  <2>2. CASE UNCHANGED madeFor
    BY <1>0, <2>2 DEF Linked
  <2>3. ASSUME NEW w \in Workers, CallStep(w), ~ \E k \in Journals : Draft(w, k)
        PROVE  UNCHANGED madeFor
    BY <2>3, WritesOnly DEF CallStep, Writes, Check, PostMade, GiveUp, Die
  <2>4. ASSUME NEW w \in Workers, BeginsCall(w) PROVE UNCHANGED madeFor
    BY <2>4, CallBegins
  <2> QED
    BY <2>1, <2>2, <2>3, <2>4 DEF ThroughLedger, BeginsCall, PageStep, subVars
<1>2. ASSUME NEW v \in Workers PROVE LinkedAt(v)'
  <2>1. ASSUME NEW w \in Workers, CallStep(w) PROVE LinkedAt(v)'
    <3>1. CASE v = w
      BY <2>1, <3>1, MoverLinked
    <3>2. CASE v # w
      BY <2>1, <3>2, AtRest, CallStepCalls, OthersRest
    <3> QED
      BY <3>1, <3>2
  <2>2. ASSUME NEW w \in Workers, BeginsCall(w) PROVE LinkedAt(v)'
    <3>1. PICK c \in CallType : Begun(w, c)
      BY <2>2, CallBegins
    <3>2. /\ call'[w].stage = "read" /\ op'[v] = op[v]
          /\ \A u \in Workers \ {w} : call'[u] = call[u]
      BY <1>0, <2>2, <3>1, CallSet, CallBegins DEF Begun, ledgerVars
    <3>3. CASE v = w
      BY <3>2, <3>3 DEF LinkedAt
    <3>4. CASE v # w
      BY <3>2, <3>4, AtRest
    <3> QED
      BY <3>3, <3>4
  <2>3. CASE PageStep
    <3>1. UNCHANGED call
      BY <2>3 DEF PageStep
    <3>2. CASE call[v].stage = "idle"
      BY <3>1, <3>2 DEF LinkedAt
    <3>3. CASE call[v].stage # "idle"
      <4>1. op'[v] = op[v]
        <5>1. ASSUME NEW u \in Workers, call[u].stage = "idle", WorkerStep(u)
              PROVE  op'[v] = op[v]
          BY <1>0, <3>3, <5>1, WorkerAlone
        <5>2. ASSUME ~ \E u \in Workers : call[u].stage = "idle" /\ WorkerStep(u)
              PROVE  UNCHANGED op
          BY <2>3, <5>2 DEF PageStep, JournalCall, CreateJournal, SubmitForApproval, RejectJournal,
             DeleteDraft, PeriodCall, CreatePeriod, SetPeriodStatus, NextMonth
        <5> QED
          BY <5>1, <5>2
      <4> QED
        BY <3>1, <4>1, AtRest
    <3> QED
      BY <3>2, <3>3
  <2>4. CASE UNCHANGED subVars
    BY <2>4, AtRest DEF subVars, ledgerVars
  <2> QED
    BY <2>1, <2>2, <2>3, <2>4 DEF ThroughLedger, BeginsCall
<1> QED
  BY <1>1, <1>2 DEF Linked

-----------------------------------------------------------------------------
(* Documents.                                                              *)

\* What a call made stays made.
LEMMA MadeGrows ==
    ASSUME AnyTotals, SubInv, [ThroughLedger]_subVars, NEW kind, NEW d, NEW j \in Made(kind, d)
    PROVE  j \in Made(kind, d)'
<1>1. j \in Journals /\ j \in Booked /\ status[j] # "none"
  BY DEF Made, Booked
<1>2. j \in Booked' /\ madeFor'[j] = madeFor[j]
  BY <1>1, StepMaps, JournalsStay, PurposeKept DEF SubInv
<1> QED
  BY <1>2 DEF Made

\* What a statement writes was made by its call.
LEMMA WriterMade ==
    ASSUME AnyTotals, SubInv, NEW w \in Workers, Writes(w)
    PROVE  /\ \A k, d, j : k = call[w].kind /\ d = call[w].doc /\ j = call[w].journal
                             => j \in Made(k, d)'
           /\ Fits(call[w]) /\ call[w].stage \in {"booked", "wrote"}
           /\ [ThroughLedger]_subVars
<1>1. call[w].stage \in {"booked", "wrote"} /\ [ThroughLedger]_subVars
  BY WritesOnly DEF Writes, ThroughLedger, CallStep
<1>2. call[w].journal \in Made(call[w].kind, call[w].doc) /\ Fits(call[w])
  BY <1>1, WriterFacts DEF Made, Purpose
<1>3. ASSUME NEW k, NEW d, NEW j \in Made(k, d) PROVE j \in Made(k, d)'
  BY <1>1, <1>3, MadeGrows
<1> QED
  BY <1>1, <1>2, <1>3

\* The statements that leave a kind of document alone.
LEMMA WritesElsewhere ==
    ASSUME NEW w \in Workers, Writes(w)
    PROVE  /\ ~(WriteApproval(w) \/ WritePayment(w)) => UNCHANGED bill
           /\ ~(InsertInvoice(w) \/ AddReceipt(w)) => UNCHANGED invoice
           /\ ~InsertReceipt(w) => UNCHANGED receipts
           /\ ~(UpdateAsset(w) \/ WriteDisposal(w)) => UNCHANGED asset
           /\ ~InsertDepRun(w) => UNCHANGED depRuns
  BY DEF Writes, WriteApproval, WritePayment, InsertInvoice, AddReceipt, InsertReceipt,
     InsertDepRun, UpdateAsset, WriteDisposal

\* The new rows.
LEMMA BillWritten ==
    ASSUME SubInv, NEW w \in Workers, WriteApproval(w) \/ WritePayment(w)
    PROVE  /\ call[w].doc \in Bills /\ Due[call[w].doc] \in Nat
           /\ \A b \in Bills \ {call[w].doc} : bill'[b] = bill[b]
           /\ bill'[call[w].doc].status # "pending"
           /\ \/ /\ call[w].kind = "approve"
                 /\ bill'[call[w].doc].journal = call[w].journal
                 /\ bill'[call[w].doc].paid = bill[call[w].doc].paid
                 /\ bill'[call[w].doc].payment = bill[call[w].doc].payment
              \/ /\ call[w].kind = "pay"
                 /\ bill'[call[w].doc].journal = bill[call[w].doc].journal
                 /\ bill'[call[w].doc].paid = Due[call[w].doc]
                 /\ bill'[call[w].doc].payment = call[w].journal
<1> DEFINE b == call[w].doc
           j == call[w].journal
<1>1. Fits(call[w]) /\ bill \in [Bills -> BillType]
  BY WriterFacts DEF WriteApproval, WritePayment, Writing, SubInv, SubTypeOK, BillType
<1>2. b \in Bills
  BY <1>1 DEF WriteApproval, WritePayment, Writing, Fits
<1>3. bill[b] \in BillType
  BY <1>1, <1>2
<1>4. CASE WriteApproval(w)
  <2> DEFINE row == [bill[b] EXCEPT !.status = "approved", !.journal = j]
  <2>1. bill' = [bill EXCEPT ![b] = row] /\ call[w].kind = "approve"
    BY <1>4 DEF WriteApproval, Writing
  <2>2. /\ row.status = "approved" /\ row.journal = j /\ row.paid = bill[b].paid
        /\ row.payment = bill[b].payment
    BY <1>3 DEF BillType
  <2> HIDE DEF row
  <2> QED
    BY <1>1, <1>2, <2>1, <2>2
<1>5. CASE WritePayment(w)
  <2> DEFINE row == [bill[b] EXCEPT !.status = "paid", !.paid = Due[b], !.payment = j]
  <2>1. bill' = [bill EXCEPT ![b] = row] /\ call[w].kind = "pay"
    BY <1>5 DEF WritePayment, Writing
  <2>2. /\ row.status = "paid" /\ row.journal = bill[b].journal /\ row.paid = Due[b]
        /\ row.payment = j
    BY <1>3 DEF BillType
  <2> HIDE DEF row
  <2> QED
    BY <1>1, <1>2, <2>1, <2>2
<1> QED
  BY <1>4, <1>5

LEMMA InvoiceWritten ==
    ASSUME SubInv, NEW w \in Workers, InsertInvoice(w) \/ AddReceipt(w)
    PROVE  /\ call[w].doc \in Invoices
           /\ \A i \in Invoices \ {call[w].doc} : invoice'[i] = invoice[i]
           /\ \/ /\ Raising(w, call[w].doc) /\ Ended(w)
                 /\ invoice'[call[w].doc].status = "outstanding"
                 /\ invoice'[call[w].doc].journal = call[w].journal
              \/ /\ Receiving(w, call[w].doc)
                 /\ call' = [call EXCEPT ![w].stage = "wrote"]
                 /\ invoice'[call[w].doc].status \in {"partial", "paid"}
                 /\ invoice'[call[w].doc].journal = invoice[call[w].doc].journal
                 /\ invoice'[call[w].doc].received = invoice[call[w].doc].received + call[w].amount
                 /\ invoice'[call[w].doc].status = "paid" =>
                        call[w].seen + call[w].amount >= Gross[call[w].doc] - 1
<1> DEFINE i == call[w].doc
           j == call[w].journal
<1>1. Fits(call[w]) /\ invoice \in [Invoices -> InvoiceType] /\ call[w].stage = "booked"
  BY WriterFacts DEF InsertInvoice, AddReceipt, Writing, SubInv, SubTypeOK, InvoiceType
<1>2. i \in Invoices
  BY <1>1 DEF InsertInvoice, AddReceipt, Writing, Fits
<1>3. invoice[i] \in InvoiceType
  BY <1>1, <1>2
<1>4. CASE InsertInvoice(w)
  <2> DEFINE row == [status |-> "outstanding", received |-> 0, journal |-> j]
  <2>1. invoice' = [invoice EXCEPT ![i] = row] /\ call[w].kind = "raise" /\ Ended(w)
    BY <1>4 DEF InsertInvoice, Writing
  <2>2. row.status = "outstanding" /\ row.journal = j
    OBVIOUS
  <2> HIDE DEF row
  <2>3. Raising(w, i)
    BY <1>1, <2>1 DEF Raising
  <2>4. invoice'[i] = row /\ \A k \in Invoices \ {i} : invoice'[k] = invoice[k]
    BY <1>1, <1>2, <2>1
  <2> QED
    BY <1>2, <2>1, <2>2, <2>3, <2>4
<1>5. CASE AddReceipt(w)
  <2>1. PICK paid \in AtLeast(call[w].seen + call[w].amount, Gross[i]) :
            invoice' = [invoice EXCEPT ![i].received = @ + call[w].amount,
                                       ![i].status = IF paid THEN "paid" ELSE "partial"]
    BY <1>5 DEF AddReceipt
  <2> DEFINE st == IF paid THEN "paid" ELSE "partial"
             row == [invoice[i] EXCEPT !.received = @ + call[w].amount, !.status = st]
  <2>2. invoice' = [invoice EXCEPT ![i] = row]
    BY <2>1
  <2>3. /\ row.status = st /\ row.journal = invoice[i].journal
        /\ row.received = invoice[i].received + call[w].amount
    BY <1>3 DEF InvoiceType
  <2>4. call[w].kind = "receive" /\ call' = [call EXCEPT ![w].stage = "wrote"]
    BY <1>5 DEF AddReceipt, Writing
  <2>5. Receiving(w, i)
    BY <1>1, <2>4 DEF Receiving
  <2>6. st \in {"partial", "paid"} /\ (st = "paid" => paid)
    OBVIOUS
  <2>7. paid => call[w].seen + call[w].amount >= Gross[i] - 1
    <3>1. call[w].seen \in Nat /\ call[w].amount \in Nat /\ Gross[i] \in Nat
      BY <1>1, <1>2, WriterFacts
    <3>2. paid \in {TRUE} => call[w].seen + call[w].amount = Gross[i] - 1
                              \/ call[w].seen + call[w].amount >= Gross[i]
      BY <2>1 DEF AtLeast
    <3> QED
      BY <3>1, <3>2
  <2> HIDE DEF row, st
  <2>8. invoice'[i] = row /\ \A k \in Invoices \ {i} : invoice'[k] = invoice[k]
    BY <1>1, <1>2, <2>2
  <2> QED
    BY <1>2, <2>3, <2>4, <2>5, <2>6, <2>7, <2>8
<1> QED
  BY <1>4, <1>5

LEMMA AssetWritten ==
    ASSUME SubInv, NEW w \in Workers, UpdateAsset(w) \/ WriteDisposal(w)
    PROVE  /\ call[w].doc \in Assets
           /\ \A a \in Assets \ {call[w].doc} : asset'[a] = asset[a]
           /\ asset'[call[w].doc].book <= Cost[call[w].doc]
           /\ asset'[call[w].doc].status # "none"
           /\ call[w].kind \in {"depreciate", "dispose"}
           /\ asset'[call[w].doc].status = "disposed" => call[w].kind = "dispose"
<1> DEFINE a == call[w].doc
<1>1. Fits(call[w]) /\ asset \in [Assets -> AssetType]
  BY WriterFacts DEF UpdateAsset, WriteDisposal, Writing, SubInv, SubTypeOK, AssetType
<1>2. a \in Assets
  BY <1>1 DEF UpdateAsset, WriteDisposal, Writing, Fits
<1>3. asset[a] \in AssetType /\ Cost[a] \in Nat
  BY <1>1, <1>2
<1>4. CASE WriteDisposal(w)
  <2> DEFINE row == [asset[a] EXCEPT !.status = "disposed", !.book = 0]
  <2>1. asset' = [asset EXCEPT ![a] = row] /\ call[w].kind = "dispose"
    BY <1>4 DEF WriteDisposal, Writing
  <2>2. row.book = 0 /\ row.status = "disposed"
    BY <1>3 DEF AssetType
  <2> HIDE DEF row
  <2> QED
    BY <1>1, <1>2, <1>3, <2>1, <2>2
<1>5. CASE UpdateAsset(w)
  <2>1. PICK s \in {"fully_depreciated", "active"} :
            asset' = [asset EXCEPT ![a] = [status |-> s, book |-> call[w].seen - call[w].amount,
                                           accum |-> asset[a].accum + call[w].amount,
                                           last |-> call[w].at]]
    BY <1>5 DEF UpdateAsset
  <2>2. call[w].seen - call[w].amount <= Cost[a]
    <3>1. call[w].seen \in Nat /\ call[w].amount \in Nat /\ call[w].kind = "depreciate"
      BY <1>5, WriterFacts DEF UpdateAsset, Writing
    <3> QED
      BY <1>1, <1>3, <3>1 DEF Fits
  <2>3. call[w].kind = "depreciate"
    BY <1>5 DEF UpdateAsset, Writing
  <2> QED
    BY <1>1, <1>2, <2>1, <2>2, <2>3
<1> QED
  BY <1>4, <1>5

\* The steps that write no document.
LEMMA OnlyWritesWrite ==
    ASSUME SubInv, [ThroughLedger]_subVars
    PROVE  UNCHANGED docVars \/ \E w \in Workers : Writes(w)
<1>1. ASSUME NEW w \in Workers, CallStep(w), ~Writes(w) PROVE UNCHANGED docVars
  BY <1>1 DEF CallStep, Writes, Draft, Check, PostMade, GiveUp, Die
<1>2. ASSUME NEW w \in Workers, BeginsCall(w) PROVE UNCHANGED docVars
  BY <1>2, CallBegins
<1> QED
  BY <1>1, <1>2 DEF ThroughLedger, BeginsCall, PageStep, subVars

\* The parts of StatusIsBooked.
BillBooked(b) ==
    /\ bill[b].status # "pending" => bill[b].journal \in Made("approve", b)
    /\ bill[b].paid > 0 => bill[b].payment \in Made("pay", b)
InvoiceBooked(i) == invoice[i].status # "none" => invoice[i].journal \in Made("raise", i)
AssetBooked(a) ==
    /\ asset[a].status # "none" => Made("register", a) # {}
    /\ asset[a].status = "disposed" => Made("dispose", a) # {}

LEMMA StatusSplit ==
    StatusIsBooked <=>
        /\ \A b \in Bills : BillBooked(b)
        /\ \A i \in Invoices : InvoiceBooked(i)
        /\ \A r \in receipts : r.journal \in Made("receive", r.invoice)
        /\ \A r \in depRuns : r.journal \in Made("depreciate", r.asset)
        /\ \A a \in Assets : AssetBooked(a)
  BY DEF StatusIsBooked, BillBooked, InvoiceBooked, AssetBooked

LEMMA StatusSplitNext ==
    StatusIsBooked' <=>
        /\ \A b \in Bills : BillBooked(b)'
        /\ \A i \in Invoices : InvoiceBooked(i)'
        /\ \A r \in receipts' : r.journal \in Made("receive", r.invoice)'
        /\ \A r \in depRuns' : r.journal \in Made("depreciate", r.asset)'
        /\ \A a \in Assets : AssetBooked(a)'
  BY DEF StatusIsBooked, BillBooked, InvoiceBooked, AssetBooked

LEMMA BookedStep ==
    ASSUME AnyTotals, SubInv, [ThroughLedger]_subVars PROVE StatusIsBooked'
<1>0. StatusIsBooked
  BY DEF SubInv, DocInv
<1>1. ASSUME NEW k, NEW d, NEW j \in Made(k, d) PROVE j \in Made(k, d)'
  BY <1>1, MadeGrows
<1>2. ASSUME NEW b \in Bills, bill'[b] = bill[b] PROVE BillBooked(b)'
  BY <1>0, <1>1, <1>2, StatusSplit DEF BillBooked
<1>3. ASSUME NEW i \in Invoices, invoice'[i] = invoice[i] PROVE InvoiceBooked(i)'
  BY <1>0, <1>1, <1>3, StatusSplit DEF InvoiceBooked
<1>4. ASSUME NEW a \in Assets, asset'[a] = asset[a] PROVE AssetBooked(a)'
  BY <1>0, <1>1, <1>4, StatusSplit DEF AssetBooked
<1>5. ASSUME NEW r \in receipts PROVE r.journal \in Made("receive", r.invoice)'
  BY <1>0, <1>1, <1>5, StatusSplit
<1>6. ASSUME NEW r \in depRuns PROVE r.journal \in Made("depreciate", r.asset)'
  BY <1>0, <1>1, <1>6, StatusSplit
<1>7. CASE UNCHANGED docVars
  BY <1>2, <1>3, <1>4, <1>5, <1>6, <1>7, StatusSplitNext DEF docVars
<1>8. ASSUME NEW w \in Workers, Writes(w) PROVE StatusIsBooked'
  <2>1. \A b \in Bills : BillBooked(b)'
    <3>1. CASE WriteApproval(w) \/ WritePayment(w)
      <4>1. PICK d, j : d = call[w].doc /\ j = call[w].journal
        OBVIOUS
      <4>2. /\ d \in Bills /\ \A b \in Bills \ {d} : bill'[b] = bill[b]
            /\ \/ /\ call[w].kind = "approve" /\ bill'[d].journal = j
                  /\ bill'[d].paid = bill[d].paid /\ bill'[d].payment = bill[d].payment
               \/ /\ call[w].kind = "pay" /\ bill'[d].journal = bill[d].journal
                  /\ bill'[d].payment = j
        BY <3>1, <4>1, BillWritten
      <4>3. call[w].kind = "approve" => j \in Made("approve", d)'
        BY <1>8, <4>1, WriterMade
      <4>4. call[w].kind = "pay" => j \in Made("pay", d)'
        BY <1>8, <4>1, WriterMade
      <4>5. bill[d].paid > 0 => bill[d].payment \in Made("pay", d)'
        BY <1>0, <1>1, <4>2, StatusSplit DEF BillBooked
      <4>6. call[w].kind = "pay" => bill[d].journal \in Made("approve", d)'
        <5>1. ASSUME call[w].kind = "pay" PROVE bill[d].status # "pending"
          BY <1>8, <4>1, <5>1, WritesOnly DEF SubInv, DocInv, PayingInv
        <5> QED
          BY <1>0, <1>1, <4>2, <5>1, StatusSplit DEF BillBooked
      <4>7. BillBooked(d)'
        <5>1. CASE call[w].kind = "approve"
          BY <4>2, <4>3, <4>5, <5>1 DEF BillBooked
        <5>2. CASE call[w].kind = "pay"
          BY <4>2, <4>4, <4>6, <5>2 DEF BillBooked
        <5> QED
          BY <4>2, <5>1, <5>2
      <4> QED
        BY <1>2, <4>2, <4>7
    <3>2. CASE ~(WriteApproval(w) \/ WritePayment(w))
      BY <1>2, <1>8, <3>2, WritesElsewhere
    <3> QED
      BY <3>1, <3>2
  <2>2. \A i \in Invoices : InvoiceBooked(i)'
    <3>1. CASE InsertInvoice(w) \/ AddReceipt(w)
      <4>1. PICK d, j : d = call[w].doc /\ j = call[w].journal
        OBVIOUS
      <4>2. /\ d \in Invoices /\ \A i \in Invoices \ {d} : invoice'[i] = invoice[i]
            /\ \/ Raising(w, d) /\ invoice'[d].journal = j
               \/ Receiving(w, d) /\ invoice'[d].journal = invoice[d].journal
        BY <3>1, <4>1, InvoiceWritten
      <4>3. Raising(w, d) => j \in Made("raise", d)'
        BY <1>8, <4>1, WriterMade DEF Raising
      <4>4. Receiving(w, d) => invoice[d].journal \in Made("raise", d)'
        BY <1>0, <1>1, <4>2, StatusSplit DEF SubInv, DocInv, InvoiceInv, InvoiceBooked
      <4>5. InvoiceBooked(d)'
        BY <4>2, <4>3, <4>4 DEF InvoiceBooked
      <4> QED
        BY <1>3, <4>2, <4>5
    <3>2. CASE ~(InsertInvoice(w) \/ AddReceipt(w))
      BY <1>3, <1>8, <3>2, WritesElsewhere
    <3> QED
      BY <3>1, <3>2
  <2>3. \A r \in receipts' : r.journal \in Made("receive", r.invoice)'
    <3>1. CASE InsertReceipt(w)
      <4>1. PICK d, j, x : d = call[w].doc /\ j = call[w].journal /\ x = call[w].amount
        OBVIOUS
      <4>2. receipts' = receipts \cup {[invoice |-> d, amount |-> x, journal |-> j]}
        BY <3>1, <4>1 DEF InsertReceipt
      <4>3. j \in Made("receive", d)'
        BY <1>8, <3>1, <4>1, WriterMade DEF InsertReceipt, Writing
      <4> QED
        BY <1>5, <4>2, <4>3
    <3>2. CASE ~InsertReceipt(w)
      BY <1>5, <1>8, <3>2, WritesElsewhere
    <3> QED
      BY <3>1, <3>2
  <2>4. \A r \in depRuns' : r.journal \in Made("depreciate", r.asset)'
    <3>1. CASE InsertDepRun(w)
      <4>1. PICK d, j, x, m : d = call[w].doc /\ j = call[w].journal /\ x = call[w].amount
                              /\ m = call[w].at
        OBVIOUS
      <4>2. \/ UNCHANGED depRuns
            \/ depRuns' = depRuns \cup {[asset |-> d, period |-> m, amount |-> x, journal |-> j]}
        BY <3>1, <4>1 DEF InsertDepRun
      <4>3. j \in Made("depreciate", d)'
        BY <1>8, <3>1, <4>1, WriterMade DEF InsertDepRun, Writing
      <4> QED
        BY <1>6, <4>2, <4>3
    <3>2. CASE ~InsertDepRun(w)
      BY <1>6, <1>8, <3>2, WritesElsewhere
    <3> QED
      BY <3>1, <3>2
  <2>5. \A a \in Assets : AssetBooked(a)'
    <3>1. CASE UpdateAsset(w) \/ WriteDisposal(w)
      <4>1. PICK d, j : d = call[w].doc /\ j = call[w].journal
        OBVIOUS
      <4>2. /\ d \in Assets /\ \A a \in Assets \ {d} : asset'[a] = asset[a]
            /\ call[w].kind \in {"depreciate", "dispose"}
            /\ asset'[d].status = "disposed" => call[w].kind = "dispose"
        BY <3>1, <4>1, AssetWritten
      <4>3. call[w].kind = "dispose" => j \in Made("dispose", d)'
        BY <1>8, <4>1, WriterMade
      <4>5. asset[d].status # "none"
        BY <1>8, <4>1, <4>2, WritesOnly DEF SubInv, DocInv, UsingInv
      <4>6. Made("register", d)' # {}
        BY <1>0, <1>1, <4>2, <4>5, StatusSplit DEF AssetBooked
      <4>4. AssetBooked(d)'
        BY <4>2, <4>3, <4>6 DEF AssetBooked
      <4> QED
        BY <1>4, <4>2, <4>4
    <3>2. CASE ~(UpdateAsset(w) \/ WriteDisposal(w))
      BY <1>4, <1>8, <3>2, WritesElsewhere
    <3> QED
      BY <3>1, <3>2
  <2> QED
    BY <2>1, <2>2, <2>3, <2>4, <2>5, StatusSplitNext
<1> QED
  BY <1>7, <1>8, OnlyWritesWrite

LEMMA BoundsStep ==
    ASSUME SubInv, [ThroughLedger]_subVars PROVE DocBounds'
<1>0. DocBounds
  BY DEF SubInv, DocInv
<1>1. CASE UNCHANGED docVars
  BY <1>0, <1>1 DEF docVars, DocBounds
<1>2. ASSUME NEW w \in Workers, Writes(w) PROVE DocBounds'
  <2>1. \A b \in Bills : bill'[b].paid <= Due[b]
    <3>1. CASE WriteApproval(w) \/ WritePayment(w)
      <4>1. /\ call[w].doc \in Bills /\ Due[call[w].doc] \in Nat
            /\ \A b \in Bills \ {call[w].doc} : bill'[b] = bill[b]
            /\ \/ bill'[call[w].doc].paid = bill[call[w].doc].paid
               \/ bill'[call[w].doc].paid = Due[call[w].doc]
        BY <3>1, BillWritten
      <4>2. bill'[call[w].doc].paid <= Due[call[w].doc]
        <5>1. bill[call[w].doc].paid <= Due[call[w].doc]
          BY <1>0, <4>1 DEF DocBounds
        <5>2. Due[call[w].doc] <= Due[call[w].doc]
          BY <4>1
        <5> QED
          BY <4>1, <5>1, <5>2, Zenon
      <4>3. ASSUME NEW b \in Bills, b # call[w].doc PROVE bill'[b].paid <= Due[b]
        <5>1. bill'[b] = bill[b]
          BY <4>1, <4>3
        <5>2. bill[b].paid <= Due[b]
          BY <1>0 DEF DocBounds
        <5> QED
          BY <5>1, <5>2, Zenon
      <4> QED
        BY <4>2, <4>3, Zenon
    <3>2. CASE UNCHANGED bill
      BY <1>0, <3>2 DEF DocBounds
    <3> QED
      BY <1>2, <3>1, <3>2, WritesElsewhere
  <2>2. \A a \in Assets : asset'[a].book <= Cost[a]
    <3>1. CASE UpdateAsset(w) \/ WriteDisposal(w)
      BY <1>0, <3>1, AssetWritten DEF DocBounds
    <3>2. CASE UNCHANGED asset
      BY <1>0, <3>2 DEF DocBounds
    <3> QED
      BY <1>2, <3>1, <3>2, WritesElsewhere
  <2> QED
    BY <2>1, <2>2 DEF DocBounds
<1> QED
  BY <1>1, <1>2, OnlyWritesWrite

\* A call that did not begin in this step is about the document it was about.
LEMMA CallsAfter ==
    ASSUME SubInv, [ThroughLedger]_subVars
    PROVE  \/ UNCHANGED docVars /\ \E w \in Workers, c \in CallType :
                 /\ Begun(w, c) /\ call'[w] = c
                 /\ \A v \in Workers \ {w} : call'[v] = call[v]
           \/ \A v \in Workers : call'[v].stage = "idle" \/ GoesOn(v) \/ call'[v] = call[v]
<1>1. ASSUME NEW w \in Workers, BeginsCall(w)
      PROVE  UNCHANGED docVars /\ \E c \in CallType :
                 /\ Begun(w, c) /\ call'[w] = c
                 /\ \A v \in Workers \ {w} : call'[v] = call[v]
  <2>1. PICK c \in CallType : Begun(w, c)
    BY <1>1, CallBegins
  <2> QED
    BY <1>1, <2>1, CallBegins, CallSet DEF Begun, SubInv
<1>2. ASSUME NEW w \in Workers, CallStep(w)
      PROVE  \A v \in Workers : call'[v].stage = "idle" \/ GoesOn(v) \/ call'[v] = call[v]
  BY <1>2, CallStepCalls
<1>3. CASE UNCHANGED call
  BY <1>3
<1> QED
  BY <1>1, <1>2, <1>3 DEF ThroughLedger, BeginsCall, PageStep, subVars

LEMMA PayingStep ==
    ASSUME SubInv, [ThroughLedger]_subVars PROVE PayingInv'
<1>0. PayingInv /\ Shape
  BY DEF SubInv, DocInv, CallInv
<1>1. \A b \in Bills : bill[b].status # "pending" => bill'[b].status # "pending"
  <2>1. ASSUME NEW w \in Workers, WriteApproval(w) \/ WritePayment(w)
        PROVE  \A b \in Bills : bill[b].status # "pending" => bill'[b].status # "pending"
    BY <2>1, BillWritten
  <2> QED
    BY <2>1, OnlyWritesWrite, WritesElsewhere DEF docVars
<1>2. ASSUME NEW v \in Workers, call'[v].stage # "idle", call'[v].kind = "pay",
             GoesOn(v) \/ call'[v] = call[v]
      PROVE  bill'[call'[v].doc].status # "pending"
  <2>1. call[v].stage # "idle" /\ call[v].kind = "pay" /\ call'[v].doc = call[v].doc
    BY <1>2 DEF GoesOn
  <2>2. call[v].doc \in Bills
    BY <1>0, <2>1 DEF Shape, Fits
  <2> QED
    BY <1>0, <1>1, <2>1, <2>2 DEF PayingInv
<1>3. ASSUME UNCHANGED docVars,
             NEW w \in Workers, NEW c \in CallType, Begun(w, c), call'[w] = c,
             \A v \in Workers \ {w} : call'[v] = call[v]
      PROVE  PayingInv'
  <2>1. c.kind = "pay" => bill'[c.doc].status # "pending"
    BY <1>3 DEF Begun, docVars
  <2> QED
    BY <1>2, <1>3, <2>1 DEF PayingInv
<1>4. CASE \A v \in Workers : call'[v].stage = "idle" \/ GoesOn(v) \/ call'[v] = call[v]
  BY <1>2, <1>4 DEF PayingInv
<1> QED
  BY <1>3, <1>4, CallsAfter

LEMMA UsingStep ==
    ASSUME SubInv, [ThroughLedger]_subVars PROVE UsingInv'
<1>0. UsingInv /\ Shape
  BY DEF SubInv, DocInv, CallInv
<1>1. \A a \in Assets : asset[a].status # "none" => asset'[a].status # "none"
  <2>1. ASSUME NEW w \in Workers, UpdateAsset(w) \/ WriteDisposal(w)
        PROVE  \A a \in Assets : asset[a].status # "none" => asset'[a].status # "none"
    BY <2>1, AssetWritten
  <2> QED
    BY <2>1, OnlyWritesWrite, WritesElsewhere DEF docVars
<1>2. ASSUME NEW v \in Workers, call'[v].stage # "idle",
             call'[v].kind \in {"depreciate", "dispose"}, GoesOn(v) \/ call'[v] = call[v]
      PROVE  asset'[call'[v].doc].status # "none"
  <2>1. /\ call[v].stage # "idle" /\ call[v].kind \in {"depreciate", "dispose"}
        /\ call'[v].doc = call[v].doc
    BY <1>2 DEF GoesOn
  <2>2. call[v].doc \in Assets
    BY <1>0, <2>1 DEF Shape, Fits
  <2> QED
    BY <1>0, <1>1, <2>1, <2>2 DEF UsingInv
<1>3. ASSUME UNCHANGED docVars,
             NEW w \in Workers, NEW c \in CallType, Begun(w, c), call'[w] = c,
             \A v \in Workers \ {w} : call'[v] = call[v]
      PROVE  UsingInv'
  <2>1. c.kind \in {"depreciate", "dispose"} => asset'[c.doc].status # "none"
    BY <1>3 DEF Begun, docVars
  <2> QED
    BY <1>2, <1>3, <2>1 DEF UsingInv
<1>4. CASE \A v \in Workers : call'[v].stage = "idle" \/ GoesOn(v) \/ call'[v] = call[v]
  BY <1>2, <1>4 DEF UsingInv
<1> QED
  BY <1>3, <1>4, CallsAfter

\* The conjuncts of InvoiceInv for one call.
InvoiceCallInv(i, w) ==
    /\ Raising(w, i) => /\ invoice[i].status = "none"
                        /\ \A v \in Workers : Raising(v, i) => v = w
    /\ Receiving(w, i) => /\ invoice[i].status # "none"
                          /\ call[w].seen <= invoice[i].received

LEMMA InvoiceStep ==
    ASSUME SubInv, [ThroughLedger]_subVars PROVE InvoiceInv'
<1>0. /\ \A i \in Invoices, w \in Workers : InvoiceCallInv(i, w)
      /\ call \in [Workers -> CallType] /\ invoice \in [Invoices -> InvoiceType]
  BY DEF SubInv, DocInv, InvoiceInv, InvoiceCallInv, SubTypeOK, CallType, InvoiceType
<1>1. ASSUME NEW v \in Workers, NEW i \in Invoices,
             call'[v].stage = "idle" \/ GoesOn(v) \/ call'[v] = call[v]
      PROVE  /\ Raising(v, i)' => Raising(v, i)
             /\ Receiving(v, i)' => Receiving(v, i) /\ call'[v].seen = call[v].seen
  BY <1>1 DEF GoesOn, Raising, Receiving
<1>2. ASSUME UNCHANGED docVars,
             NEW w \in Workers, NEW c \in CallType, Begun(w, c), call'[w] = c,
             \A v \in Workers \ {w} : call'[v] = call[v]
      PROVE  InvoiceInv'
  <2>1. ASSUME NEW i \in Invoices, NEW v \in Workers PROVE InvoiceCallInv(i, v)'
    <3>1. ~Raising(w, i) /\ ~Receiving(w, i)
      BY <1>2 DEF Begun, Raising, Receiving
    <3>2. Raising(w, i)' => /\ invoice[i].status = "none"
                            /\ \A u \in Workers : ~Raising(u, i) /\ ~Receiving(u, i)
      BY <1>2 DEF Begun, Raising, Receiving, Busy
    <3>3. Receiving(w, i)' => invoice[i].status # "none" /\ c.seen = invoice[i].received
      BY <1>2 DEF Begun, Receiving
    <3>4. invoice' = invoice /\ invoice[i].received \in Nat
      BY <1>0, <1>2 DEF docVars, InvoiceType
    <3>5. \A u \in Workers \ {w} : /\ Raising(u, i)' <=> Raising(u, i)
                                   /\ Receiving(u, i)' <=> Receiving(u, i)
      BY <1>2 DEF Raising, Receiving
    <3>6. \A u \in Workers : InvoiceCallInv(i, u)
      BY <1>0
    <3>7. CASE v = w
      <4>1. Raising(v, i)' => \A u \in Workers : Raising(u, i)' => u = v
        BY <3>2, <3>5, <3>7
      <4> QED
        BY <1>2, <3>2, <3>3, <3>4, <3>7, <4>1 DEF InvoiceCallInv
    <3>8. CASE v # w
      <4>1. Raising(v, i)' => \A u \in Workers : Raising(u, i)' => u = v
        BY <3>2, <3>5, <3>6, <3>8 DEF InvoiceCallInv
      <4> QED
        BY <1>2, <3>4, <3>5, <3>6, <3>8, <4>1 DEF InvoiceCallInv
    <3> QED
      BY <3>7, <3>8
  <2> QED
    BY <2>1 DEF InvoiceInv, InvoiceCallInv
<1>3. ASSUME \A v \in Workers : call'[v].stage = "idle" \/ GoesOn(v) \/ call'[v] = call[v],
             NEW i \in Invoices,
             invoice'[i].status = invoice[i].status
                \/ ((\A v \in Workers : ~Raising(v, i)') /\ invoice'[i].status # "none"),
             (\A v \in Workers : ~Receiving(v, i)')
                \/ (\A n \in Nat : n <= invoice[i].received => n <= invoice'[i].received)
      PROVE  \A w \in Workers : InvoiceCallInv(i, w)'
  <2> SUFFICES ASSUME NEW w \in Workers PROVE InvoiceCallInv(i, w)'
    OBVIOUS
  <2>1. ASSUME Raising(w, i)'
        PROVE  invoice'[i].status = "none" /\ \A v \in Workers : Raising(v, i)' => v = w
    BY <1>0, <1>1, <1>3, <2>1 DEF InvoiceCallInv
  <2>2. ASSUME Receiving(w, i)'
        PROVE  invoice'[i].status # "none" /\ call'[w].seen <= invoice'[i].received
    <3>1. Receiving(w, i) /\ call'[w].seen = call[w].seen
      BY <1>1, <1>3, <2>2
    <3>2. invoice[i].status # "none" /\ call[w].seen <= invoice[i].received
      BY <1>0, <3>1 DEF InvoiceCallInv
    <3>3. call[w].seen \in Nat
      BY <1>0 DEF CallType
    <3> QED
      BY <1>3, <2>2, <3>1, <3>2, <3>3
  <2> QED
    BY <2>1, <2>2 DEF InvoiceCallInv
<1>4. ASSUME \A v \in Workers : call'[v].stage = "idle" \/ GoesOn(v) \/ call'[v] = call[v],
             UNCHANGED invoice
      PROVE  InvoiceInv'
  BY <1>3, <1>4 DEF InvoiceInv, InvoiceCallInv
<1>5. ASSUME NEW w \in Workers, InsertInvoice(w) \/ AddReceipt(w) PROVE InvoiceInv'
  <2>1. PICK d : d = call[w].doc
    OBVIOUS
  <2>2. \A v \in Workers : call'[v].stage = "idle" \/ GoesOn(v) \/ call'[v] = call[v]
    BY <1>5, CallStepCalls DEF CallStep
  <2>3. d \in Invoices /\ \A i \in Invoices \ {d} : invoice'[i] = invoice[i]
    BY <1>5, <2>1, InvoiceWritten
  <2>4. CASE Raising(w, d) /\ Ended(w) /\ invoice'[d].status = "outstanding"
    <3>1. \A v \in Workers : ~Raising(v, d)' /\ ~Receiving(v, d)'
      <4>1. \A v \in Workers : Raising(v, d) => v = w
        BY <1>0, <2>3, <2>4 DEF InvoiceCallInv
      <4>2. \A v \in Workers : ~Receiving(v, d)
        BY <1>0, <2>3, <2>4 DEF InvoiceCallInv
      <4>3. ~Raising(w, d)'
        BY <2>4, CallEnded DEF Raising, SubInv
      <4> QED
        BY <1>1, <2>2, <2>3, <4>1, <4>2, <4>3
    <3> QED
      BY <1>3, <2>2, <2>3, <2>4, <3>1 DEF InvoiceInv, InvoiceCallInv
  <2>5. CASE /\ Receiving(w, d) /\ invoice'[d].status \in {"partial", "paid"}
             /\ invoice'[d].received = invoice[d].received + call[w].amount
    <3>1. \A v \in Workers : ~Raising(v, d)'
      <4>1. \A v \in Workers : ~Raising(v, d)
        BY <1>0, <2>3, <2>5 DEF InvoiceCallInv
      <4> QED
        BY <1>1, <2>2, <2>3, <4>1
    <3>2. \A n \in Nat : n <= invoice[d].received => n <= invoice'[d].received
      <4>1. invoice[d].received \in Nat /\ call[w].amount \in Nat
        BY <1>0, <2>3 DEF InvoiceType, CallType
      <4> QED
        BY <2>5, <4>1
    <3> QED
      BY <1>3, <2>2, <2>3, <2>5, <3>1, <3>2 DEF InvoiceInv, InvoiceCallInv
  <2> QED
    BY <1>5, <2>1, <2>4, <2>5, InvoiceWritten
<1>6. CASE \E w \in Workers : InsertInvoice(w) \/ AddReceipt(w)
  BY <1>5, <1>6
<1>7. CASE ~ \E w \in Workers : InsertInvoice(w) \/ AddReceipt(w)
  <2>1. UNCHANGED invoice
    BY <1>7, OnlyWritesWrite, WritesElsewhere DEF docVars
  <2> QED
    BY <1>2, <1>4, <2>1, CallsAfter
<1> QED
  BY <1>6, <1>7

LEMMA PaidStep ==
    ASSUME SubInv, [ThroughLedger]_subVars PROVE PaidIsReceived'
<1>0. PaidIsReceived /\ InvoiceInv /\ invoice \in [Invoices -> InvoiceType]
  BY DEF SubInv, DocInv, SubTypeOK, InvoiceType
<1>1. CASE UNCHANGED invoice
  BY <1>0, <1>1 DEF PaidIsReceived
<1>2. ASSUME NEW w \in Workers, InsertInvoice(w) \/ AddReceipt(w) PROVE PaidIsReceived'
  <2>1. PICK d : d = call[w].doc
    OBVIOUS
  <2>2. /\ d \in Invoices /\ \A i \in Invoices \ {d} : invoice'[i] = invoice[i]
        /\ \/ invoice'[d].status = "outstanding"
           \/ /\ Receiving(w, d)
              /\ invoice'[d].received = invoice[d].received + call[w].amount
              /\ invoice'[d].status = "paid" => call[w].seen + call[w].amount >= Gross[d] - 1
    BY <1>2, <2>1, InvoiceWritten
  <2>3. invoice'[d].status = "paid" => invoice'[d].received >= Gross[d] - 1
    <3>1. Receiving(w, d) => call[w].seen <= invoice[d].received
      BY <1>0, <2>2 DEF InvoiceInv
    <3>2. /\ invoice[d].received \in Nat /\ Gross[d] \in Nat /\ call[w].seen \in Nat
          /\ call[w].amount \in Nat
      BY <1>0, <2>2 DEF InvoiceType, SubInv, SubTypeOK
    <3> QED
      BY <2>2, <3>1, <3>2
  <2> QED
    BY <1>0, <2>2, <2>3 DEF PaidIsReceived
<1> QED
  BY <1>1, <1>2, OnlyWritesWrite, WritesElsewhere DEF docVars

-----------------------------------------------------------------------------
(* The invariant.                                                          *)

\* It holds at first ...
LEMMA InitSubInv == SubInit => SubInv
<1> SUFFICES ASSUME SubInit PROVE SubInv
  OBVIOUS
<1>1. LedgerInv
  BY InitLedgerInv DEF SubInit
<1>2. SubTypeOK
  <2>1. TypeOK
    BY <1>1 DEF LedgerInv
  <2>2. call \in [Workers -> CallType]
    BY DEF SubInit, NoCall, CallType, Ref
  <2>3. DocsTyped
    <3>1. NoJournal \in Ref
      BY DEF Ref
    <3> QED
      BY <3>1 DEF SubInit, DocsTyped
  <2>4. MadeTyped
    BY DEF SubInit, NoPurpose, MadeTyped
  <2>5. disturbed \subseteq Docs
    BY DEF SubInit
  <2> QED
    BY <2>1, <2>2, <2>3, <2>4, <2>5, TypeSplit
<1>3. CallInv
  BY DEF SubInit, CallInv, Shape, Linked, LinkedAt, NoCall
<1>4. DocInv
  <2>1. DocBounds
    BY DEF SubInit, DocBounds
  <2>2. StatusIsBooked
    BY DEF SubInit, StatusIsBooked
  <2>3. PayingInv /\ UsingInv /\ InvoiceInv
    BY DEF SubInit, PayingInv, UsingInv, InvoiceInv, Raising, Receiving, NoCall
  <2>4. PaidIsReceived
    BY DEF SubInit, PaidIsReceived
  <2> QED
    BY <2>1, <2>2, <2>3, <2>4 DEF DocInv
<1> QED
  BY <1>1, <1>2, <1>3, <1>4 DEF SubInv

\* ... and every step keeps it.
LEMMA SubInvStep ==
    ASSUME AnyTotals, SubInv, [ThroughLedger]_subVars PROVE SubInv'
<1>1. LedgerInv'
  BY StepMaps, NextLedgerInv DEF SubInv
<1> QED
  BY <1>1, TypeStep, ShapeStep, LinkedStep, BoundsStep, BookedStep, PayingStep, UsingStep,
     InvoiceStep, PaidStep DEF SubInv, CallInv, DocInv

-----------------------------------------------------------------------------
(* Registering an asset, the one step that is none of the ledger's.        *)

LEMMA CreateEffect ==
    ASSUME SubInv, NEW a \in Assets, NEW j \in Journals, NEW m \in Dates, CreateAsset(a, j, m)
    PROVE  /\ status[j] = "none" /\ status'[j] = "posted" /\ totals'[j] = Even(Cost[a])
           /\ madeFor'[j] = [kind |-> "register", doc |-> a]
           /\ \A k \in Journals \ {j} : /\ status'[k] = status[k] /\ totals'[k] = totals[k]
                                        /\ madeFor'[k] = madeFor[k]
           /\ asset[a].status = "none" /\ asset'[a].status = "active"
           /\ asset'[a].book = asset[a].book /\ asset'[a].accum = asset[a].accum
           /\ asset'[a].last = asset[a].last
           /\ \A b \in Assets \ {a} : asset'[b] = asset[b]
           /\ j \notin Booked /\ Booked' = Booked \cup {j}
           /\ UNCHANGED <<reversalOf, period, today, op, bill, invoice, receipts, depRuns, call,
                          disturbed>>
<1>1. /\ status \in [Journals -> Statuses] /\ totals \in [Journals -> [debit : Nat, credit : Nat]]
      /\ MadeTyped /\ asset \in [Assets -> AssetType]
  BY DEF SubInv, LedgerInv, TypeOK, SubTypeOK, MadeTyped, AssetType
<1>2. /\ status[j] = "none" /\ status'[j] = "posted"
      /\ \A k \in Journals \ {j} : status'[k] = status[k]
  BY <1>1 DEF CreateAsset
<1>3. totals'[j] = Even(Cost[a]) /\ \A k \in Journals \ {j} : totals'[k] = totals[k]
  BY <1>1 DEF CreateAsset
<1>4. /\ madeFor'[j] = [kind |-> "register", doc |-> a]
      /\ \A k \in Journals \ {j} : madeFor'[k] = madeFor[k]
  BY <1>1 DEF CreateAsset, MadeTyped
<1>5. j \notin Booked /\ Booked' = Booked \cup {j}
  BY <1>2 DEF Booked
<1> DEFINE row == [asset[a] EXCEPT !.status = "active"]
<1>6. asset' = [asset EXCEPT ![a] = row] /\ asset[a].status = "none"
  BY DEF CreateAsset
<1>7. /\ row.status = "active" /\ row.book = asset[a].book /\ row.accum = asset[a].accum
      /\ row.last = asset[a].last
  BY <1>1 DEF AssetType
<1> HIDE DEF row
<1>8. asset'[a] = row /\ \A b \in Assets \ {a} : asset'[b] = asset[b]
  BY <1>1, <1>6
<1>9. UNCHANGED <<reversalOf, period, today, op, bill, invoice, receipts, depRuns, call, disturbed>>
  BY DEF CreateAsset
<1> QED
  BY <1>2, <1>3, <1>4, <1>5, <1>6, <1>7, <1>8, <1>9

\* The journal is a new one, to which no worker and no reversal refers.
LEMMA CreateLedgerInv ==
    ASSUME SubInv, NEW a \in Assets, NEW j \in Journals, NEW m \in Dates, CreateAsset(a, j, m)
    PROVE  LedgerInv'
<1>0. TypeOK /\ ReversalInv /\ WorkerInv
  BY DEF SubInv, LedgerInv
<1>1. TypeOK'
  <2>1. Even(Cost[a]) \in [debit : Nat, credit : Nat] /\ m \in Months
    BY EvenType
  <2>2. BookedLate(j, m) \subseteq Journals
    BY <1>0 DEF BookedLate, TypeOK
  <2>3. /\ status' = [status EXCEPT ![j] = "posted"] /\ totals' = [totals EXCEPT ![j] = Even(Cost[a])]
        /\ month' = [month EXCEPT ![j] = m] /\ late' = BookedLate(j, m)
        /\ UNCHANGED <<reversalOf, period, today, op>>
    BY DEF CreateAsset
  <2> QED
    BY <1>0, <2>1, <2>2, <2>3 DEF TypeOK, Statuses
<1>5. UNCHANGED <<reversalOf, op>>
  BY DEF CreateAsset
<1>6. /\ status[j] = "none" /\ status'[j] = "posted"
      /\ \A k \in Journals \ {j} : status'[k] = status[k]
  BY <1>0 DEF CreateAsset, TypeOK
<1>7. \A k \in Journals \ {j} : totals'[k] = totals[k]
  BY <1>0 DEF CreateAsset, TypeOK
<1>2. /\ status[j] = "none" /\ status'[j] = "posted" /\ UNCHANGED <<reversalOf, op>>
      /\ \A k \in Journals \ {j} : status'[k] = status[k] /\ totals'[k] = totals[k]
  BY <1>5, <1>6, <1>7
<1>3. ReversalInv'
  <2>1. ASSUME NEW k \in Journals, reversalOf[k] # NoJournal
        PROVE  status'[k] \in {"posted", "reversed"} /\ status'[reversalOf[k]] = "reversed"
    <3>1. /\ status[k] \in {"posted", "reversed"} /\ status[reversalOf[k]] = "reversed"
          /\ reversalOf[k] \in Journals
      BY <1>0, <2>1 DEF ReversalInv, TypeOK
    <3> QED
      BY <1>2, <3>1
  <2>2. \A k \in Journals : status'[k] = "reversed" => status[k] = "reversed"
    BY <1>2
  <2> QED
    BY <1>0, <1>2, <2>1, <2>2 DEF ReversalInv
<1>4. WorkerInv'
  <2>1. \A k \in Journals : status[k] # "none" => status'[k] = status[k] /\ totals'[k] = totals[k]
    BY <1>2
  <2>2. \A k \in Journals : status[k] \in {"posted", "reversed"} => status[k] # "none"
    OBVIOUS
  <2> QED
    BY <1>0, <1>2, <2>1, <2>2 DEF WorkerInv, MayBalance
<1> QED
  BY <1>1, <1>3, <1>4 DEF LedgerInv

\* It appends a balanced entry to the book.
LEMMA CreateAppends ==
    ASSUME SubInv, NEW a \in Assets, NEW j \in Journals, NEW m \in Dates, CreateAsset(a, j, m)
    PROVE  B!Append
<1>9. TypeOK
  BY DEF SubInv, LedgerInv
<1>10. /\ totals'[j] = Even(Cost[a]) /\ UNCHANGED reversalOf
       /\ \A k \in Journals \ {j} : totals'[k] = totals[k]
  BY <1>9 DEF CreateAsset, TypeOK
<1>11. j \notin Booked /\ Booked' = Booked \cup {j} /\ status[j] = "none"
  <2>1. /\ status[j] = "none" /\ status'[j] = "posted"
        /\ \A k \in Journals \ {j} : status'[k] = status[k]
    BY <1>9 DEF CreateAsset, TypeOK
  <2> QED
    BY <2>1 DEF Booked
<1>1. /\ j \notin Booked /\ Booked' = Booked \cup {j} /\ status[j] = "none"
      /\ totals'[j] = Even(Cost[a]) /\ UNCHANGED reversalOf
      /\ \A k \in Journals \ {j} : totals'[k] = totals[k]
  BY <1>10, <1>11
<1>2. \A k \in Booked : k \in Journals \ {j}
  BY <1>1 DEF Booked
<1>3. \A k \in Booked : k \in Booked' /\ EntryOf(k)' = EntryOf(k)
  BY <1>1, <1>2 DEF EntryOf
<1>4. reversalOf[j] = NoJournal
  BY <1>1 DEF SubInv, LedgerInv, ReversalInv
<1>5. /\ (EntryOf(j)').mirrors = NoJournal /\ (EntryOf(j)').debit = Cost[a]
      /\ (EntryOf(j)').credit = Cost[a]
  BY <1>1, <1>4 DEF EntryOf, Even
<1>6. Cost[a] \in Nat
  BY SubLedgerAssumption
<1>7. B!Legitimate(EntryOf(j)')
  BY <1>5, <1>6 DEF B!Legitimate, B!WithinTolerance
<1>8. \A k \in Booked' \ Booked : B!Legitimate(EntryOf(k)')
  BY <1>1, <1>7
<1> QED
  BY <1>3, <1>8, AppendIntro

\* What was made for the documents stays, and calls of other kinds gain nothing.
LEMMA CreateMade ==
    ASSUME SubInv, NEW a \in Assets, NEW j \in Journals, NEW m \in Dates, CreateAsset(a, j, m)
    PROVE  /\ \A k, d : Made(k, d) \subseteq Made(k, d)'
           /\ \A k, d : k # "register" => Made(k, d)' = Made(k, d)
           /\ j \in Made("register", a)'
<1>1. /\ j \notin Booked /\ Booked' = Booked \cup {j}
      /\ madeFor'[j] = [kind |-> "register", doc |-> a]
      /\ \A k \in Journals \ {j} : madeFor'[k] = madeFor[k]
  BY CreateEffect
<1>2. \A k \in Booked : madeFor'[k] = madeFor[k]
  BY <1>1 DEF Booked
<1>3. \A k, d : k # "register" => madeFor'[j] # [kind |-> k, doc |-> d]
  BY <1>1
<1> QED
  BY <1>1, <1>2, <1>3 DEF Made

LEMMA CreateSubInv ==
    ASSUME SubInv, NEW a \in Assets, NEW j \in Journals, NEW m \in Dates, CreateAsset(a, j, m)
    PROVE  SubInv'
<1>0. /\ TypeOK /\ DocsTyped /\ call \in [Workers -> CallType] /\ MadeTyped /\ disturbed \subseteq Docs
      /\ LedgerInv'
  BY TypeSplit, CreateLedgerInv DEF SubInv
<1>1. /\ UNCHANGED <<op, bill, invoice, receipts, depRuns, call, disturbed>>
      /\ status[j] = "none" /\ status'[j] = "posted"
      /\ Booked' = Booked \cup {j} /\ madeFor'[j] = [kind |-> "register", doc |-> a]
      /\ \A k \in Journals \ {j} : status'[k] = status[k] /\ madeFor'[k] = madeFor[k]
  BY CreateEffect
<1>2. /\ asset'[a].status = "active" /\ asset'[a].book = asset[a].book
      /\ \A b \in Assets \ {a} : asset'[b] = asset[b]
  BY CreateEffect
<1>3. a \in Docs
  BY DEF Docs
<1>4. SubTypeOK'
  <2>1. DocsTyped'
    <3> DEFINE row == [asset[a] EXCEPT !.status = "active"]
    <3>1. asset' = [asset EXCEPT ![a] = row]
      BY DEF CreateAsset
    <3>2. row \in AssetType
      <4>1. asset[a] \in AssetType
        BY <1>0 DEF DocsTyped, AssetType
      <4> QED
        BY <4>1 DEF AssetType
    <3> HIDE DEF row
    <3> QED
      BY <1>0, <1>1, <3>1, <3>2 DEF DocsTyped, AssetType
  <2>2. MadeTyped'
    BY <1>0, <1>3 DEF CreateAsset, MadeTyped
  <2> QED
    BY <1>0, <1>1, <2>1, <2>2, TypeSplitNext DEF LedgerInv
<1>5. Shape'
  BY <1>1 DEF SubInv, CallInv, Shape, Fits
<1>6. Linked'
  <2>1. ASSUME NEW w \in Workers PROVE LinkedAt(w)'
    <3>1. LinkedAt(w)
      BY DEF SubInv, CallInv, Linked
    <3> QED
      BY <1>1, <3>1 DEF LinkedAt, Purpose
  <2>2. ASSUME NEW k \in Journals PROVE madeFor'[k] = NoPurpose \/ madeFor'[k].doc \in Docs
    <3>1. madeFor[k] = NoPurpose \/ madeFor[k].doc \in Docs
      BY DEF SubInv, CallInv, Linked
    <3>2. CASE k = j
      <4>1. madeFor'[k].doc = a
        BY <1>1, <3>2
      <4> QED
        BY <1>3, <4>1
    <3>3. CASE k # j
      BY <1>1, <3>1, <3>3
    <3> QED
      BY <3>2, <3>3
  <2> QED
    BY <2>1, <2>2 DEF Linked
<1>7. DocBounds'
  <2>1. \A b \in Assets : asset'[b].book = asset[b].book
    BY <1>2
  <2> QED
    BY <1>1, <2>1 DEF SubInv, DocInv, DocBounds
<1>8. StatusIsBooked'
  <2>1. \A k, d : Made(k, d) \subseteq Made(k, d)'
    BY CreateMade
  <2>2. StatusIsBooked
    BY DEF SubInv, DocInv
  <2>3. ASSUME NEW b \in Assets PROVE AssetBooked(b)'
    <3>1. CASE b = a
      BY <1>2, <3>1, CreateMade DEF AssetBooked
    <3>2. CASE b # a
      <4>1. asset'[b] = asset[b] /\ AssetBooked(b)
        BY <1>2, <2>2, <3>2, StatusSplit
      <4> QED
        BY <2>1, <4>1 DEF AssetBooked
    <3> QED
      BY <3>1, <3>2
  <2>4. \A b \in Bills : BillBooked(b)'
    BY <1>1, <2>1, <2>2, StatusSplit DEF BillBooked
  <2>5. \A i \in Invoices : InvoiceBooked(i)'
    BY <1>1, <2>1, <2>2, StatusSplit DEF InvoiceBooked
  <2>6. /\ \A r \in receipts' : r.journal \in Made("receive", r.invoice)'
        /\ \A r \in depRuns' : r.journal \in Made("depreciate", r.asset)'
    BY <1>1, <2>1, <2>2, StatusSplit
  <2> QED
    BY <2>3, <2>4, <2>5, <2>6, StatusSplitNext
<1>9. PayingInv' /\ InvoiceInv' /\ PaidIsReceived'
  BY <1>1 DEF SubInv, DocInv, PayingInv, InvoiceInv, PaidIsReceived, Raising, Receiving
<1>10. UsingInv'
  <2>1. \A b \in Assets : asset[b].status # "none" => asset'[b].status # "none"
    BY <1>2
  <2>2. \A w \in Workers : call[w].stage # "idle" /\ call[w].kind \in {"depreciate", "dispose"}
                                => call[w].doc \in Assets
    BY DEF SubInv, CallInv, Shape, Fits
  <2> QED
    BY <1>1, <2>1, <2>2 DEF SubInv, DocInv, UsingInv
<1> QED
  BY <1>0, <1>4, <1>5, <1>6, <1>7, <1>8, <1>9, <1>10 DEF SubInv, CallInv, DocInv

LEMMA SubNextCases ==
    [SubNext]_subVars <=> \/ [ThroughLedger]_subVars
                          \/ \E a \in Assets, j \in Journals, m \in Dates : CreateAsset(a, j, m)
  BY DEF SubNext

\* The invariant the theorems below rest on: the ledger's, the types, what
\* calls in progress hold and what documents say.
THEOREM SubLedgerInvariant == ASSUME AnyTotals PROVE SubSpec => []SubInv
<1>1. SubInv /\ [SubNext]_subVars => SubInv'
  BY SubInvStep, CreateSubInv, SubNextCases
<1> QED
  BY <1>1, InitSubInv, PTL DEF SubSpec

\* The sub-ledgers are well typed.
THEOREM SubTypeCorrect == ASSUME AnyTotals PROVE SubSpec => []SubTypeOK
<1>1. SubInv => SubTypeOK
  BY DEF SubInv
<1> QED
  BY <1>1, SubLedgerInvariant, PTL

\* The sub-ledgers and the general ledger together implement the append-only
\* book.  CreateAsset writes the ledger's tables without PostJournal's checks, but
\* what it books balances; every other step is, seen from the general ledger, one
\* of its own operations.
THEOREM SubLedgerImplementsBook == ASSUME AnyTotals PROVE SubSpec => ImplementsBook
<1>1. SubInit => B!BookInit
  BY DEF SubInit, Init, B!BookInit, Entries, Booked
<1>2. SubInv /\ [SubNext]_subVars => [B!Append]_Entries
  <2> SUFFICES ASSUME SubInv, [SubNext]_subVars PROVE [B!Append]_Entries
    OBVIOUS
  <2>1. CASE [ThroughLedger]_subVars
    BY <2>1, StepMaps, StepAppends DEF SubInv
  <2>2. CASE \E a \in Assets, j \in Journals, m \in Dates : CreateAsset(a, j, m)
    BY <2>2, CreateAppends
  <2> QED
    BY <2>1, <2>2, SubNextCases
<1> QED
  BY <1>1, <1>2, SubLedgerInvariant, PTL DEF SubSpec, ImplementsBook, B!BookSpec

\* The mark "reversed" is exact under the sub-ledgers, too.
THEOREM SubReversedIffMirrored == ASSUME AnyTotals PROVE SubSpec => []ReversedIffMirrored
<1>1. SubInv => ReversedIffMirrored
  BY MarkIsExact DEF SubInv
<1> QED
  BY <1>1, SubLedgerInvariant, PTL

\* Whatever calls overlap, die or meet a shut period: what a document says
\* happened has its journal in the books.
THEOREM StatusIsBookedHolds == ASSUME AnyTotals PROVE SubSpec => []StatusIsBooked
<1>1. SubInv => StatusIsBooked
  BY DEF SubInv, DocInv
<1> QED
  BY <1>1, SubLedgerInvariant, PTL

-----------------------------------------------------------------------------
(***************************************************************************)
(* The documents and what was posted for them.                             *)
(*                                                                         *)
(* NothingUnbooked and UndisturbedMatchesPostings compare the money on a   *)
(* document with the sum of the journals made for it.  Between PostJournal *)
(* and the last statement of its call a journal is booked and not yet on   *)
(* the document.  The sums are therefore kept of the settled journals:     *)
(* those made for the document that no call still holds at such a stage    *)
(* (Held, Settled).  A step moves one journal in or out, and one row or    *)
(* one amount with it.  That no two calls hold the same journal (JournalOwn) *)
(* and that a journal's totals are those its call computed (Priced) gives  *)
(* the bounds.  The equalities, and one journal for each status, need one  *)
(* call on a document at a time, which is what a document that is not      *)
(* disturbed has had (Alone, and the Tidy invariants).                     *)
(***************************************************************************)

\* The stages at which a call has its journal.
Past == {"drafted", "checked", "booked", "wrote"}

\* Two calls never hold the same journal.
JournalOwn ==
    \A v, w \in Workers : v # w /\ call[v].stage \in Past /\ call[w].stage \in Past
                             => call[v].journal # call[w].journal

\* A journal has the totals its call computed from the amount asked for.
CallPriced(w) ==
    /\ call[w].stage # "idle" /\ call[w].kind = "receive"
           => call[w].totals.credit = call[w].amount + Withheld[call[w].doc]
    /\ call[w].stage # "idle" /\ call[w].kind = "depreciate"
           => call[w].totals.credit = call[w].amount
    /\ call[w].stage \in Past => totals[call[w].journal] = call[w].totals

\* A journal is for nothing before it is created.
Fresh == \A j \in Journals : status[j] = "none" => madeFor[j] = NoPurpose

\* A receipt's journal clears the withheld tax, too.
ReceiptPriced ==
    \A j \in Journals, i \in Invoices :
        madeFor[j] = [kind |-> "receive", doc |-> i] => totals[j].credit >= Withheld[i]

Priced == Fresh /\ ReceiptPriced /\ \A w \in Workers : CallPriced(w)

FiniteRows == IsFiniteSet(Booked) /\ IsFiniteSet(receipts) /\ IsFiniteSet(depRuns)

\* The journals of the calls of a kind, on a document, that stand at a stage.
Held(kind, d, stages) ==
    {call[w].journal : w \in {v \in Workers : /\ call[v].stage \in stages
                                              /\ call[v].kind = kind /\ call[v].doc = d}}
Settled(kind, d, stages) == Made(kind, d) \ Held(kind, d, stages)

\* What a receipt's journal credits besides the tax.
Net(i) == [j \in Journals |-> totals[j].credit - Withheld[i]]

\* The amount received is at most what the settled journals credit; it is that, unless
\* calls overlapped; and it covers the receipts listed and those about to be.
ReceiptSums(i) ==
    /\ invoice[i].received <= SumOf(Settled("receive", i, {"booked"}), Net(i))
    /\ i \notin disturbed
           => invoice[i].received = SumOf(Settled("receive", i, {"booked"}), Net(i))
    /\ SumOf(ReceiptsOf(i), Amount(receipts)) + SumOf(Held("receive", i, {"wrote"}), Net(i))
           <= invoice[i].received
    /\ invoice[i].status = "none" => invoice[i].received = 0

\* The same of the depreciation accumulated, the runs being written first.
DepSums(a) ==
    /\ asset[a].accum <= SumOf(Settled("depreciate", a, {"booked", "wrote"}), Credit)
    /\ a \notin disturbed
           => asset[a].accum = SumOf(Settled("depreciate", a, {"booked", "wrote"}), Credit)
    /\ asset[a].accum + SumOf(Held("depreciate", a, {"wrote"}), Credit)
           <= SumOf(RunsOf(a), Amount(depRuns))

\* One call at a time.
Alone == \A d \in Docs \ disturbed : \A v, w \in Workers :
             call[v].doc = d /\ call[w].doc = d => v = w
IdleDoc == \A w \in Workers : call[w].stage = "idle" => call[w].doc = NoJournal

\* A document that is not disturbed: its call has seen the row as it is, and the
\* settled journals are those the row tells of.
BillTidy(b) ==
    b \notin disturbed =>
        /\ \A w \in Workers : call[w].doc = b =>
               /\ call[w].kind = "approve" => bill[b].status = "pending"
               /\ call[w].kind = "pay" => bill[b].status = "approved"
        /\ Settled("approve", b, {"booked"})
               = IF bill[b].status = "pending" THEN {} ELSE {bill[b].journal}
        /\ Settled("pay", b, {"booked"})
               = IF bill[b].status = "paid" THEN {bill[b].payment} ELSE {}

InvoiceTidy(i) ==
    i \notin disturbed =>
        Settled("raise", i, {"booked"})
            = IF invoice[i].status = "none" THEN {} ELSE {invoice[i].journal}

AssetTidy(a) ==
    a \notin disturbed =>
        /\ \A w \in Workers : call[w].doc = a =>
               /\ asset[a].status # "disposed"
               /\ call[w].kind = "depreciate" => /\ call[w].seen = asset[a].book
                                                 /\ call[w].at > asset[a].last
        /\ asset[a].status # "disposed" => /\ Settled("dispose", a, {"booked"}) = {}
                                           /\ asset[a].book + asset[a].accum = Cost[a]
        /\ asset[a].status = "disposed" => \E j \in Journals : Settled("dispose", a, {"booked"}) = {j}
        /\ Cardinality(Settled("depreciate", a, {"booked"})) = Cardinality(RunsOf(a))
        /\ \A r \in RunsOf(a) :
               \/ r.period <= asset[a].last
               \/ \E w \in Workers : /\ call[w].stage = "wrote" /\ call[w].kind = "depreciate"
                                     /\ call[w].doc = a /\ call[w].at = r.period

RecInv ==
    /\ JournalOwn /\ Priced /\ FiniteRows /\ Alone /\ IdleDoc
    /\ \A i \in Invoices : ReceiptSums(i) /\ InvoiceTidy(i)
    /\ \A a \in Assets : DepSums(a) /\ AssetTidy(a)
    /\ \A b \in Bills : BillTidy(b)

-----------------------------------------------------------------------------
(***************************************************************************)
(* What a step books, and what its call holds.                             *)
(***************************************************************************)

\* The totals of a journal are what it was created with.
LEMMA TotalsKept ==
    ASSUME LedgerInv, [Next]_ledgerVars
    PROVE  \A j \in Journals : status[j] # "none" => totals'[j] = totals[j]
<1>0. totals \in [Journals -> [debit : Nat, credit : Nat]]
  BY DEF LedgerInv, TypeOK
<1>1. ASSUME NEW k \in Journals, NEW t, status[k] = "none", totals' = [totals EXCEPT ![k] = t]
      PROVE  \A j \in Journals : status[j] # "none" => totals'[j] = totals[j]
  BY <1>0, <1>1
<1>2. ASSUME NEW j \in Journals, JournalCall(j)
      PROVE  UNCHANGED totals \/ \E t : status[j] = "none" /\ totals' = [totals EXCEPT ![j] = t]
  BY <1>2 DEF JournalCall, CreateJournal, SubmitForApproval, RejectJournal, DeleteDraft
<1>3. ASSUME NEW w \in Workers, WorkerStep(w)
      PROVE  \/ UNCHANGED totals
             \/ \E k \in Journals : \E t : /\ status[k] = "none"
                                         /\ totals' = [totals EXCEPT ![k] = t]
  BY <1>3 DEF WorkerStep, CheckJournal, PostJournal, ApproveJournal, Post, ReadOriginal,
     ReverseJournal
<1>4. CASE (\E p \in Periods : PeriodCall(p)) \/ NextMonth \/ UNCHANGED ledgerVars
  BY <1>4 DEF PeriodCall, CreatePeriod, SetPeriodStatus, NextMonth, ledgerVars
<1> QED
  BY <1>1, <1>2, <1>3, <1>4 DEF Next

\* A call's posting goes through.
Posts(w) ==
    /\ PostMade(w)
    /\ status[call[w].journal] \in {"draft", "pending_approval"}

LEMMA PostsEffect ==
    ASSUME SubInv, NEW w \in Workers, PostMade(w)
    PROVE  /\ call[w].stage = "checked" /\ call[w].journal \in Journals
           /\ madeFor[call[w].journal] = Purpose(call[w])
           /\ UNCHANGED <<docVars, madeFor, disturbed, totals>>
           /\ Posts(w) => /\ call[w].journal \notin Booked
                          /\ Booked' = Booked \cup {call[w].journal}
                          /\ call' = [call EXCEPT ![w].stage = "booked"]
           /\ ~Posts(w) => Booked' = Booked /\ Ended(w)
<1>1. /\ call[w].stage = "checked" /\ call[w].journal \in Journals
      /\ op[w].journal = call[w].journal /\ madeFor[call[w].journal] = Purpose(call[w])
  BY DEF PostMade, SubInv, CallInv, Linked, LinkedAt
<1>2. UNCHANGED <<docVars, madeFor, disturbed, totals>>
  BY DEF PostMade, PostJournal, Post
<1>3. status \in [Journals -> Statuses]
  BY DEF SubInv, LedgerInv, TypeOK
<1>4. CASE Posts(w)
  <2>1. status' = [status EXCEPT ![call[w].journal] = "posted"]
    BY <1>1, <1>4 DEF Posts, PostMade, PostJournal, Post
  <2>2. call' = [call EXCEPT ![w].stage = "booked"]
    BY <1>4 DEF Posts, PostMade
  <2>3. call[w].journal \notin Booked /\ Booked' = Booked \cup {call[w].journal}
    BY <1>1, <1>3, <1>4, <2>1 DEF Posts, Booked
  <2> QED
    BY <1>1, <1>2, <1>4, <2>2, <2>3
<1>5. CASE ~Posts(w)
  <2>1. UNCHANGED status
    BY <1>1, <1>5 DEF Posts, PostMade, PostJournal, Post
  <2>2. Ended(w)
    BY <1>5 DEF Posts, PostMade
  <2> QED
    BY <1>1, <1>2, <1>5, <2>1, <2>2 DEF Booked
<1> QED
  BY <1>4, <1>5

\* What the pages book: nothing, a reversal, or one journal by hand.
LEMMA PageBooks ==
    ASSUME SubInv, Fresh, PageStep
    PROVE  /\ UNCHANGED <<docVars, call, madeFor>> /\ disturbed \subseteq disturbed'
           /\ \/ Booked' = Booked
              \/ \E j \in Journals \ Booked :
                     /\ Booked' = Booked \cup {j}
                     /\ madeFor[j] = NoPurpose \/ madeFor[j].doc \in disturbed'
<1>0. UNCHANGED <<docVars, call, madeFor>> /\ disturbed' = disturbed \cup BookedByHand
  BY DEF PageStep
<1>1. status \in [Journals -> Statuses] /\ LedgerInv
  BY DEF SubInv, LedgerInv, TypeOK
<1>2. ASSUME NEW j \in Journals, status[j] \in {"draft", "pending_approval"},
             status' = [status EXCEPT ![j] = "posted"]
      PROVE  \E k \in Journals \ Booked :
                     /\ Booked' = Booked \cup {k}
                     /\ madeFor[k] = NoPurpose \/ madeFor[k].doc \in disturbed'
  <2>1. j \in Journals \ Booked /\ Booked' = Booked \cup {j} /\ status'[j] = "posted"
    BY <1>1, <1>2 DEF Booked
  <2>2. madeFor[j] = NoPurpose \/ madeFor[j].doc \in BookedByHand
    BY <1>2, <2>1 DEF BookedByHand
  <2> QED
    BY <1>0, <2>1, <2>2
<1>3. ASSUME NEW w \in Workers, WorkerStep(w)
      PROVE  \/ Booked' = Booked
             \/ \E j \in Journals \ Booked :
                     /\ Booked' = Booked \cup {j}
                     /\ madeFor[j] = NoPurpose \/ madeFor[j].doc \in disturbed'
  <2>1. CASE \E k \in Journals : ReverseJournal(w, k)
    <3>1. PICK k \in Journals : ReverseJournal(w, k)
      BY <2>1
    <3>2. /\ op[w].journal \in Journals /\ status[op[w].journal] \in {"posted", "reversed"}
          /\ status[k] = "none"
          /\ status' = [status EXCEPT ![k] = "posted", ![op[w].journal] = "reversed"]
      BY <1>1, <3>1 DEF ReverseJournal, LedgerInv, WorkerInv
    <3>3. k \notin Booked /\ Booked' = Booked \cup {k}
      BY <1>1, <3>2 DEF Booked
    <3> QED
      BY <3>2, <3>3 DEF Fresh
  <2>2. CASE PostJournal(w) \/ ApproveJournal(w)
    <3>1. op[w].journal \in Journals
      BY <1>1, <2>2 DEF PostJournal, ApproveJournal, Post, LedgerInv, WorkerInv
    <3>2. \/ UNCHANGED status
          \/ /\ status[op[w].journal] \in {"draft", "pending_approval"}
             /\ status' = [status EXCEPT ![op[w].journal] = "posted"]
      BY <2>2 DEF PostJournal, ApproveJournal, Post
    <3> QED
      BY <1>2, <3>1, <3>2 DEF Booked
  <2>3. CASE \E k \in Journals : ReadOriginal(w, k) \/ CheckJournal(w, k, "post")
                                 \/ CheckJournal(w, k, "approve")
    BY <2>3 DEF ReadOriginal, CheckJournal, Booked
  <2> QED
    BY <1>3, <2>1, <2>2, <2>3 DEF WorkerStep
<1>4. ASSUME NEW j \in Journals, JournalCall(j) PROVE Booked' = Booked
  BY <1>1, <1>4 DEF JournalCall, CreateJournal, SubmitForApproval, RejectJournal, DeleteDraft,
     Booked
<1>5. CASE (\E p \in Periods : PeriodCall(p)) \/ NextMonth
  <2>1. UNCHANGED status
    BY <1>5 DEF PeriodCall, CreatePeriod, SetPeriodStatus, NextMonth
  <2> QED
    BY <1>0, <2>1 DEF Booked
<1> QED
  BY <1>0, <1>3, <1>4, <1>5 DEF PageStep

\* Every other step books nothing.
LEMMA CallsBookNothing ==
    ASSUME SubInv, NEW w \in Workers, CallStep(w) \/ BeginsCall(w), ~PostMade(w)
    PROVE  Booked' = Booked
<1>0. status \in [Journals -> Statuses]
  BY DEF SubInv, LedgerInv, TypeOK
<1>1. ASSUME NEW j \in Journals, Draft(w, j) PROVE Booked' = Booked
  BY <1>0, <1>1 DEF Draft, CreateJournal, Booked
<1>2. CASE Check(w) \/ GiveUp(w) \/ Die(w) \/ Writes(w)
  BY <1>2, WritesOnly DEF Check, CheckJournal, GiveUp, Die, Booked, ledgerVars
<1>3. CASE BeginsCall(w)
  BY <1>3, CallBegins DEF Booked, ledgerVars
<1> QED
  BY <1>1, <1>2, <1>3 DEF CallStep, Writes

\* So a step adds at most one journal to what was made for a document.
LEMMA MadeStep ==
    ASSUME AnyTotals, SubInv, Fresh, [ThroughLedger]_subVars, NEW k \in Kinds, NEW d \in Docs
    PROVE  \/ Made(k, d)' = Made(k, d)
           \/ \E j \in Journals \ Booked :
                  /\ Made(k, d)' = Made(k, d) \cup {j}
                  /\ madeFor[j] = [kind |-> k, doc |-> d]
                  /\ \/ PageStep /\ d \in disturbed'
                     \/ \E w \in Workers : Posts(w) /\ call[w].journal = j
<1>1. \A j \in Booked : madeFor'[j] = madeFor[j]
  BY PurposeKept DEF Booked
<1>2. ASSUME Booked' = Booked PROVE Made(k, d)' = Made(k, d)
  BY <1>1, <1>2 DEF Made
<1>3. ASSUME NEW j \in Journals \ Booked, Booked' = Booked \cup {j}, madeFor' = madeFor
      PROVE  \/ Made(k, d)' = Made(k, d)
             \/ /\ Made(k, d)' = Made(k, d) \cup {j} /\ madeFor[j] = [kind |-> k, doc |-> d]
  BY <1>3 DEF Made
<1>4. CASE PageStep
  <2>1. NoPurpose # [kind |-> k, doc |-> d]
    BY DEF NoPurpose, Kinds
  <2>2. madeFor' = madeFor
    BY <1>4, PageBooks
  <2>3. ASSUME NEW j \in Journals \ Booked, Booked' = Booked \cup {j},
               madeFor[j] = NoPurpose \/ madeFor[j].doc \in disturbed'
        PROVE  \/ Made(k, d)' = Made(k, d)
               \/ /\ Made(k, d)' = Made(k, d) \cup {j} /\ madeFor[j] = [kind |-> k, doc |-> d]
                  /\ d \in disturbed'
    <3>1. madeFor[j] = [kind |-> k, doc |-> d] => d \in disturbed'
      BY <2>1, <2>3
    <3> QED
      BY <1>3, <2>2, <2>3, <3>1
  <2> QED
    BY <1>2, <1>4, <2>3, PageBooks
<1>5. ASSUME NEW w \in Workers, PostMade(w)
      PROVE  \/ Made(k, d)' = Made(k, d)
             \/ \E j \in Journals \ Booked :
                  /\ Made(k, d)' = Made(k, d) \cup {j}
                  /\ madeFor[j] = [kind |-> k, doc |-> d]
                  /\ Posts(w) /\ call[w].journal = j
  <2>1. CASE Posts(w)
    <3>1. /\ call[w].journal \in Journals \ Booked /\ Booked' = Booked \cup {call[w].journal}
          /\ madeFor' = madeFor
      BY <1>5, <2>1, PostsEffect
    <3> QED
      BY <1>3, <2>1, <3>1
  <2>2. CASE ~Posts(w)
    BY <1>2, <1>5, <2>2, PostsEffect
  <2> QED
    BY <2>1, <2>2
<1>6. CASE UNCHANGED subVars
  BY <1>2, <1>6 DEF subVars, ledgerVars, Booked
<1> QED
  BY <1>2, <1>4, <1>5, <1>6, CallsBookNothing DEF ThroughLedger, BeginsCall

-----------------------------------------------------------------------------
\* The journals of the calls that stand at some of the last stages.
Stages == SUBSET {"booked", "wrote"}

LEMMA HeldIn ==
    ASSUME SubInv, NEW k, NEW d, NEW S \in Stages
    PROVE  Held(k, d, S) \subseteq Made(k, d)
<1> SUFFICES ASSUME NEW w \in Workers, call[w].stage \in S, call[w].kind = k, call[w].doc = d
             PROVE  call[w].journal \in Made(k, d)
  BY DEF Held
<1> QED
  BY WriterFacts DEF Made, Purpose, Stages

\* A call that does not stand between its posting and its end holds nothing.
LEMMA HeldSame ==
    ASSUME \A v \in Workers : \/ call'[v] = call[v]
                              \/ /\ call[v].stage \notin {"booked", "wrote"}
                                 /\ call'[v].stage \notin {"booked", "wrote"},
           NEW k, NEW d, NEW S \in Stages
    PROVE  Held(k, d, S)' = Held(k, d, S)
<1>1. \A v \in Workers : call'[v].stage \in S \/ call[v].stage \in S => call'[v] = call[v]
  BY DEF Stages
<1>2. ASSUME NEW x PROVE x \in Held(k, d, S)' <=> x \in Held(k, d, S)
  <2>1. x \in Held(k, d, S)' <=> \E v \in Workers : /\ call'[v].stage \in S /\ call'[v].kind = k
                                                    /\ call'[v].doc = d /\ x = call'[v].journal
    BY DEF Held
  <2>2. x \in Held(k, d, S) <=> \E v \in Workers : /\ call[v].stage \in S /\ call[v].kind = k
                                                   /\ call[v].doc = d /\ x = call[v].journal
    BY DEF Held
  <2> QED
    BY <1>1, <2>1, <2>2
<1> QED
  BY <1>2

\* Where the call of w stands now, and what the others hold.
Moves(w) ==
    /\ call[w].stage \in Past
    /\ \A v \in Workers \ {w} : call'[v] = call[v]
    /\ call'[w].stage = "idle" \/ (GoesOn(w) /\ call'[w].journal = call[w].journal)

LEMMA HeldMove ==
    ASSUME JournalOwn, NEW w \in Workers, Moves(w),
           NEW k, NEW d, NEW S \in Stages
    PROVE  /\ ~(call[w].kind = k /\ call[w].doc = d) => Held(k, d, S)' = Held(k, d, S)
           /\ call[w].kind = k /\ call[w].doc = d /\ call'[w].stage \in S
                  => Held(k, d, S)' = Held(k, d, S) \cup {call[w].journal}
           /\ call[w].kind = k /\ call[w].doc = d /\ call'[w].stage \notin S
                  => Held(k, d, S)' = Held(k, d, S) \ {call[w].journal}
<1> DEFINE Has(v) == call[v].stage \in S /\ call[v].kind = k /\ call[v].doc = d
           Keeps(v) == call'[v].stage \in S /\ call'[v].kind = k /\ call'[v].doc = d
<1>1. \A v \in Workers \ {w} : /\ Has(v) => call[v].journal # call[w].journal
                               /\ Keeps(v) <=> Has(v)
                               /\ call'[v].journal = call[v].journal
  BY DEF JournalOwn, Past, Stages, Moves
<1>2. Keeps(w) <=> call'[w].stage \in S /\ call[w].kind = k /\ call[w].doc = d
  BY DEF GoesOn, Stages, Moves
<1>3. Keeps(w) => call'[w].journal = call[w].journal
  BY DEF Stages, Moves
<1> DEFINE Other(x) == \E v \in Workers \ {w} : Has(v) /\ x = call[v].journal
<1>4. \A x : x \in Held(k, d, S) <=> Other(x) \/ (Has(w) /\ x = call[w].journal)
  BY DEF Held
<1>5. \A x : x \in Held(k, d, S)' <=> Other(x) \/ (Keeps(w) /\ x = call[w].journal)
  <2>1. \A x : x \in Held(k, d, S)' <=> \E v \in Workers : Keeps(v) /\ x = call'[v].journal
    BY DEF Held
  <2> HIDE DEF Has, Keeps
  <2>2. \A x : (\E v \in Workers \ {w} : Keeps(v) /\ x = call'[v].journal) <=> Other(x)
    BY <1>1
  <2>3. \A x : (\E v \in Workers : Keeps(v) /\ x = call'[v].journal)
                  <=> \/ \E v \in Workers \ {w} : Keeps(v) /\ x = call'[v].journal
                      \/ Keeps(w) /\ x = call[w].journal
    BY <1>3
  <2> QED
    BY <2>1, <2>2, <2>3
<1>6. ~Other(call[w].journal)
  BY <1>1
<1>7. Has(w) => call[w].kind = k /\ call[w].doc = d
  OBVIOUS
<1> HIDE DEF Has, Keeps, Other
<1>8. CASE call[w].kind = k /\ call[w].doc = d
  <2>1. CASE call'[w].stage \in S
    <3>1. \A x : x \in Held(k, d, S)' <=> x \in Held(k, d, S) \/ x = call[w].journal
      BY <1>2, <1>4, <1>5, <1>8, <2>1
    <3> QED
      BY <1>8, <2>1, <3>1
  <2>2. CASE call'[w].stage \notin S
    <3>1. \A x : x \in Held(k, d, S)' <=> x \in Held(k, d, S) /\ x # call[w].journal
      BY <1>2, <1>4, <1>5, <1>6, <1>8, <2>2
    <3> QED
      BY <1>8, <2>2, <3>1
  <2> QED
    BY <2>1, <2>2
<1>9. CASE ~(call[w].kind = k /\ call[w].doc = d)
  <2>1. \A x : x \in Held(k, d, S)' <=> x \in Held(k, d, S)
    BY <1>2, <1>4, <1>5, <1>7, <1>9
  <2> QED
    BY <1>9, <2>1
<1> QED
  BY <1>8, <1>9

-----------------------------------------------------------------------------
(***************************************************************************)
(* How a call goes on, and the invariants of calls alone.                  *)
(***************************************************************************)

\* How the call of w goes on.
LEMMA CallFields ==
    ASSUME SubInv, NEW w \in Workers, CallStep(w)
    PROVE  /\ \A v \in Workers \ {w} : call'[v] = call[v]
           /\ \/ call'[w] = NoCall
              \/ /\ call'[w].stage \in Past /\ GoesOn(w) /\ call'[w].totals = call[w].totals
                 /\ \/ call[w].stage \in Past /\ call'[w].journal = call[w].journal
                    \/ \E j \in Journals : Draft(w, j) /\ call'[w].journal = j
<1>0. call[w] \in CallType /\ call \in [Workers -> CallType]
  BY DEF SubInv, SubTypeOK, CallType
<1>1. ASSUME NEW j \in Journals, Draft(w, j)
      PROVE  /\ call'[w].stage = "drafted" /\ call'[w].totals = call[w].totals
             /\ GoesOn(w) /\ call'[w].journal = j
             /\ \A v \in Workers \ {w} : call'[v] = call[v]
  <2>1. call'[w].totals = call[w].totals /\ call[w].stage = "read"
    BY <1>0, <1>1 DEF Draft, CallType
  <2> QED
    BY <1>1, <2>1, Drafted DEF GoesOn
<1>2. ASSUME NEW s \in {"checked", "booked", "wrote"}, call' = [call EXCEPT ![w].stage = s],
             call[w].stage \in Past
      PROVE  /\ call'[w].stage = s /\ call'[w].totals = call[w].totals
             /\ GoesOn(w) /\ call'[w].journal = call[w].journal
             /\ \A v \in Workers \ {w} : call'[v] = call[v]
  <2>1. call'[w].totals = call[w].totals
    BY <1>0, <1>2 DEF CallType
  <2> QED
    BY <1>2, <2>1, CallMoved DEF GoesOn, SubInv, Past
<1>3. ASSUME Ended(w) PROVE call'[w] = NoCall /\ \A v \in Workers \ {w} : call'[v] = call[v]
  BY <1>0, <1>3 DEF Ended
<1>4. CASE \E j \in Journals : Draft(w, j)
  BY <1>1, <1>4 DEF Past
<1>5. CASE Check(w)
  BY <1>2, <1>5 DEF Check, Past
<1>6. CASE PostMade(w)
  BY <1>2, <1>3, <1>6 DEF PostMade, Past
<1>7. CASE GiveUp(w) \/ Die(w)
  BY <1>3, <1>7 DEF GiveUp, Die
<1>8. CASE Writes(w)
  BY <1>2, <1>3, <1>8, WritesOnly DEF Past
<1> QED
  BY <1>4, <1>5, <1>6, <1>7, <1>8 DEF CallStep, Writes

\* What a call has seen when it begins.
Sees(c) ==
    /\ c.kind = "approve" => bill[c.doc].status = "pending"
    /\ c.kind = "pay" => bill[c.doc].status = "approved"
    /\ c.kind = "receive" => c.totals.credit = c.amount + Withheld[c.doc]
    /\ c.kind = "depreciate" => /\ c.totals.credit = c.amount
                                /\ c.seen = asset[c.doc].book /\ c.at > asset[c.doc].last
    /\ c.kind \in {"depreciate", "dispose"} => asset[c.doc].status # "disposed"

LEMMA StartFields ==
    ASSUME SubTypeOK, NEW w \in Workers, NEW kind, NEW d, NEW m, NEW t, NEW x, NEW s,
           Start(w, kind, d, m, t, x, s)
    PROVE  /\ call'[w].kind = kind /\ call'[w].doc = d /\ call'[w].at = m
           /\ call'[w].amount = x /\ call'[w].totals = t /\ call'[w].seen = s
           /\ disturbed' = IF Busy(call'[w].doc) THEN disturbed \cup {call'[w].doc}
                                                 ELSE disturbed
<1>1. call'[w] = [stage |-> "read", kind |-> kind, doc |-> d, at |-> m, amount |-> x,
                  totals |-> t, seen |-> s, journal |-> NoJournal]
  BY DEF Start, SubTypeOK
<1>2. disturbed' = IF Busy(d) THEN disturbed \cup {d} ELSE disturbed
  BY DEF Start
<1> QED
  BY <1>1, <1>2

LEMMA EvenCredit == \A x : Even(x).credit = x
  BY DEF Even

LEMMA CallSees ==
    ASSUME SubInv, NEW w \in Workers, BeginsCall(w)
    PROVE  /\ Sees(call'[w])
           /\ disturbed' = IF Busy(call'[w].doc) THEN disturbed \cup {call'[w].doc}
                                                 ELSE disturbed
<1>0. SubTypeOK
  BY DEF SubInv
<1>1. CASE \E b \in Bills : BillCall(w, b)
  <2>1. PICK b \in Bills : BillCall(w, b)
    BY <1>1
  <2>2. CASE ApprovePayable(w, b)
    <3>1. Start(w, "approve", b, today, Even(Due[b]), Due[b], 0) /\ bill[b].status = "pending"
      BY <2>2 DEF ApprovePayable
    <3>2. call'[w].kind = "approve" /\ call'[w].doc = b
      BY <1>0, <3>1, StartFields
    <3>3. disturbed' = IF Busy(call'[w].doc) THEN disturbed \cup {call'[w].doc} ELSE disturbed
      BY <1>0, <3>1, StartFields
    <3> QED
      BY <3>1, <3>2, <3>3 DEF Sees
  <2>3. ASSUME NEW m \in Dates, ApproveRun(w, b, m)
        PROVE  /\ Sees(call'[w])
               /\ disturbed' = IF Busy(call'[w].doc) THEN disturbed \cup {call'[w].doc}
                                                     ELSE disturbed
    <3>1. Start(w, "approve", b, m, Even(Due[b]), Due[b], 0) /\ bill[b].status = "pending"
      BY <2>3 DEF ApproveRun
    <3>2. call'[w].kind = "approve" /\ call'[w].doc = b
      BY <1>0, <3>1, StartFields
    <3>3. disturbed' = IF Busy(call'[w].doc) THEN disturbed \cup {call'[w].doc} ELSE disturbed
      BY <1>0, <3>1, StartFields
    <3> QED
      BY <3>1, <3>2, <3>3 DEF Sees
  <2>4. ASSUME NEW m \in Dates, PayPayable(w, b, m)
        PROVE  /\ Sees(call'[w])
               /\ disturbed' = IF Busy(call'[w].doc) THEN disturbed \cup {call'[w].doc}
                                                     ELSE disturbed
    <3>1. Start(w, "pay", b, m, Even(Due[b] - bill[b].paid), Due[b] - bill[b].paid, 0)
          /\ bill[b].status = "approved"
      BY <2>4 DEF PayPayable
    <3>2. call'[w].kind = "pay" /\ call'[w].doc = b
      BY <1>0, <3>1, StartFields
    <3>3. disturbed' = IF Busy(call'[w].doc) THEN disturbed \cup {call'[w].doc} ELSE disturbed
      BY <1>0, <3>1, StartFields
    <3> QED
      BY <3>1, <3>2, <3>3 DEF Sees
  <2> QED
    BY <2>1, <2>2, <2>3, <2>4 DEF BillCall
<1>2. CASE \E i \in Invoices : InvoiceCall(w, i)
  <2>1. PICK i \in Invoices, m \in Dates : \/ CreateReceivable(w, i, m)
                                            \/ \E x \in Amounts : RecordReceipt(w, i, m, x)
    BY <1>2 DEF InvoiceCall
  <2>2. CASE CreateReceivable(w, i, m)
    <3>1. Start(w, "raise", i, m, Even(Gross[i]), 0, 0)
      BY <2>2 DEF CreateReceivable
    <3>2. call'[w].kind = "raise" /\ call'[w].doc = i
      BY <1>0, <3>1, StartFields
    <3>3. disturbed' = IF Busy(call'[w].doc) THEN disturbed \cup {call'[w].doc} ELSE disturbed
      BY <1>0, <3>1, StartFields
    <3> QED
      BY <3>1, <3>2, <3>3 DEF Sees
  <2>3. ASSUME NEW x \in Amounts, RecordReceipt(w, i, m, x)
        PROVE  /\ Sees(call'[w])
               /\ disturbed' = IF Busy(call'[w].doc) THEN disturbed \cup {call'[w].doc}
                                                     ELSE disturbed
    <3>1. Start(w, "receive", i, m, Even(x + Withheld[i]), x, invoice[i].received)
      BY <2>3 DEF RecordReceipt
    <3>2. call'[w].kind = "receive" /\ call'[w].doc = i /\ call'[w].amount = x
          /\ call'[w].totals = Even(x + Withheld[i])
      BY <1>0, <3>1, StartFields
    <3>3. call'[w].totals.credit = x + Withheld[i]
      BY <3>2, EvenCredit
    <3>4. disturbed' = IF Busy(call'[w].doc) THEN disturbed \cup {call'[w].doc} ELSE disturbed
      BY <1>0, <3>1, StartFields
    <3> QED
      BY <3>2, <3>3, <3>4 DEF Sees
  <2> QED
    BY <2>1, <2>2, <2>3
<1>3. CASE \E a \in Assets : AssetCall(w, a)
  <2>1. PICK a \in Assets : AssetCall(w, a)
    BY <1>3
  <2>2. ASSUME NEW m \in Months, DepreciateAsset(w, a, m)
        PROVE  /\ Sees(call'[w])
               /\ disturbed' = IF Busy(call'[w].doc) THEN disturbed \cup {call'[w].doc}
                                                     ELSE disturbed
    <3>1. /\ asset[a].status = "active" /\ m > asset[a].last
          /\ \E x : Start(w, "depreciate", a, m, Even(x), x, asset[a].book)
      BY <2>2 DEF DepreciateAsset
    <3>2. PICK x : Start(w, "depreciate", a, m, Even(x), x, asset[a].book)
      BY <3>1
    <3>4. /\ call'[w].kind = "depreciate" /\ call'[w].doc = a /\ call'[w].at = m
          /\ call'[w].amount = x /\ call'[w].totals = Even(x) /\ call'[w].seen = asset[a].book
      BY <1>0, <3>2, StartFields
    <3>5. call'[w].totals.credit = x
      BY <3>4, EvenCredit
    <3>6. disturbed' = IF Busy(call'[w].doc) THEN disturbed \cup {call'[w].doc} ELSE disturbed
      BY <1>0, <3>2, StartFields
    <3> QED
      BY <3>1, <3>4, <3>5, <3>6 DEF Sees
  <2>3. ASSUME NEW m \in Dates, NEW x \in Amounts, DisposeAsset(w, a, m, x)
        PROVE  /\ Sees(call'[w])
               /\ disturbed' = IF Busy(call'[w].doc) THEN disturbed \cup {call'[w].doc}
                                                     ELSE disturbed
    <3>1. /\ asset[a].status # "disposed"
          /\ \E t : Start(w, "dispose", a, m, t, x, asset[a].book)
      BY <2>3 DEF DisposeAsset
    <3>2. PICK t : Start(w, "dispose", a, m, t, x, asset[a].book)
      BY <3>1
    <3>3. call'[w].kind = "dispose" /\ call'[w].doc = a
      BY <1>0, <3>2, StartFields
    <3>4. disturbed' = IF Busy(call'[w].doc) THEN disturbed \cup {call'[w].doc} ELSE disturbed
      BY <1>0, <3>2, StartFields
    <3> QED
      BY <3>1, <3>3, <3>4 DEF Sees
  <2> QED
    BY <2>1, <2>2, <2>3 DEF AssetCall
<1> QED
  BY <1>1, <1>2, <1>3 DEF BeginsCall

\* A call begins, a call goes on, or the pages are at work.
LEMMA Cases ==
    ASSUME SubInv, [ThroughLedger]_subVars
    PROVE  \/ \E w \in Workers : BeginsCall(w) \/ CallStep(w)
           \/ PageStep
           \/ UNCHANGED subVars
  BY DEF ThroughLedger, BeginsCall

LEMMA BeginsFrame ==
    ASSUME SubInv, NEW w \in Workers, BeginsCall(w)
    PROVE  /\ call[w].stage = "idle" /\ call'[w] \in CallType /\ call'[w].stage = "read"
           /\ Fits(call'[w]) /\ call'[w].doc \in Docs
           /\ \A v \in Workers \ {w} : call'[v] = call[v]
           /\ UNCHANGED <<ledgerVars, docVars, madeFor>>
<1>1. PICK c \in CallType : Begun(w, c)
  BY CallBegins
<1>2. call'[w] = c /\ \A v \in Workers \ {w} : call'[v] = call[v]
  BY <1>1, CallSet DEF Begun, SubInv
<1>3. Fits(c) => c.doc \in Docs
  BY DEF Fits, Docs, Kinds
<1> QED
  BY <1>1, <1>2, <1>3, CallBegins DEF Begun

LEMMA DisturbedGrows ==
    ASSUME SubInv, [ThroughLedger]_subVars PROVE disturbed \subseteq disturbed'
<1>1. ASSUME NEW w \in Workers, CallStep(w) PROVE disturbed \subseteq disturbed'
  BY <1>1, WritesOnly DEF CallStep, Writes, Draft, Check, PostMade, GiveUp, Die
<1>2. ASSUME NEW w \in Workers, BeginsCall(w) PROVE disturbed \subseteq disturbed'
  BY <1>2, CallSees
<1> QED
  BY <1>1, <1>2, Cases DEF PageStep, subVars

-----------------------------------------------------------------------------
LEMMA IdleDocStep ==
    ASSUME SubInv, IdleDoc, [ThroughLedger]_subVars PROVE IdleDoc'
<1>1. ASSUME NEW w \in Workers, CallStep(w) PROVE IdleDoc'
  <2>1. call'[w].stage = "idle" => call'[w].doc = NoJournal
    <3>1. CASE call'[w] = NoCall
      BY <3>1 DEF NoCall
    <3>2. CASE call'[w].stage \in Past
      BY <3>2 DEF Past
    <3> QED
      BY <1>1, <3>1, <3>2, CallFields
  <2> QED
    BY <1>1, <2>1, CallFields DEF IdleDoc
<1>2. ASSUME NEW w \in Workers, BeginsCall(w) PROVE IdleDoc'
  BY <1>2, BeginsFrame DEF IdleDoc
<1> QED
  BY <1>1, <1>2, Cases DEF PageStep, subVars, IdleDoc

LEMMA AloneStep ==
    ASSUME SubInv, Alone, [ThroughLedger]_subVars PROVE Alone'
<1>0. Docs \ disturbed' \subseteq Docs \ disturbed
  BY DisturbedGrows
<1>1. ASSUME NEW w \in Workers, CallStep(w) PROVE Alone'
  <2>1. \A v \in Workers, d \in Docs : call'[v].doc = d => call[v].doc = d
    BY <1>1, CallFields DEF GoesOn, NoCall
  <2> QED
    BY <1>0, <2>1 DEF Alone
<1>2. ASSUME NEW w \in Workers, BeginsCall(w) PROVE Alone'
  <2> SUFFICES ASSUME NEW d \in Docs \ disturbed', NEW u \in Workers, NEW v \in Workers,
                      call'[u].doc = d, call'[v].doc = d
               PROVE  u = v
    BY DEF Alone
  <2>1. d = call'[w].doc => \A x \in Workers : call[x].doc # d
    BY <1>2, CallSees DEF Busy
  <2>2. \A x \in Workers \ {w} : call'[x] = call[x]
    BY <1>2, BeginsFrame
  <2>3. d \in Docs \ disturbed
    BY <1>0
  <2> QED
    BY <2>1, <2>2, <2>3 DEF Alone
<1>3. CASE UNCHANGED call
  BY <1>0, <1>3 DEF Alone
<1> QED
  BY <1>1, <1>2, <1>3, Cases DEF PageStep, subVars

LEMMA OwnStep ==
    ASSUME SubInv, JournalOwn, [ThroughLedger]_subVars PROVE JournalOwn'
<1>0. \A v \in Workers : call[v].stage \in Past => status[call[v].journal] # "none"
  BY DEF SubInv, CallInv, Linked, LinkedAt, Past
<1>1. ASSUME NEW w \in Workers, CallStep(w) PROVE JournalOwn'
  <2>1. \A v \in Workers \ {w} : call'[v] = call[v]
    BY <1>1, CallFields
  <2>2. ASSUME call'[w].stage \in Past, NEW v \in Workers \ {w}, call[v].stage \in Past
        PROVE  call'[w].journal # call[v].journal
    <3>1. CASE \E j \in Journals : Draft(w, j) /\ call'[w].journal = j
      BY <1>0, <2>2, <3>1 DEF Draft, CreateJournal
    <3>2. CASE call[w].stage \in Past /\ call'[w].journal = call[w].journal
      BY <2>2, <3>2 DEF JournalOwn
    <3>3. CASE call'[w] = NoCall
      BY <2>2, <3>3 DEF NoCall, Past
    <3> QED
      BY <1>1, <3>1, <3>2, <3>3, CallFields
  <2> QED
    BY <2>1, <2>2 DEF JournalOwn
<1>2. ASSUME NEW w \in Workers, BeginsCall(w) PROVE JournalOwn'
  <2>1. call'[w].stage \notin Past /\ \A v \in Workers \ {w} : call'[v] = call[v]
    BY <1>2, BeginsFrame DEF Past
  <2> QED
    BY <2>1 DEF JournalOwn
<1> QED
  BY <1>1, <1>2, Cases DEF PageStep, subVars, JournalOwn

LEMMA FreshStep ==
    ASSUME AnyTotals, SubInv, Fresh, [ThroughLedger]_subVars PROVE Fresh'
<1>1. \A j \in Journals : status'[j] = "none" => status[j] = "none"
  BY StepMaps, JournalsStay DEF SubInv
<1>2. CASE UNCHANGED madeFor
  BY <1>1, <1>2 DEF Fresh
<1>3. ASSUME NEW w \in Workers, NEW k \in Journals, Draft(w, k) PROVE Fresh'
  <2>1. status \in [Journals -> Statuses] /\ MadeTyped
    BY DEF SubInv, LedgerInv, TypeOK, SubTypeOK, MadeTyped
  <2>2. status'[k] = "draft" /\ \A j \in Journals \ {k} : madeFor'[j] = madeFor[j]
    BY <1>3, <2>1 DEF Draft, CreateJournal, MadeTyped
  <2> QED
    BY <1>1, <2>2 DEF Fresh
<1>4. ASSUME NEW w \in Workers, CallStep(w), ~ \E k \in Journals : Draft(w, k)
      PROVE  UNCHANGED madeFor
  BY <1>4, WritesOnly DEF CallStep, Writes, Check, PostMade, GiveUp, Die
<1>5. ASSUME NEW w \in Workers, BeginsCall(w) PROVE UNCHANGED madeFor
  BY <1>5, CallBegins
<1> QED
  BY <1>2, <1>3, <1>4, <1>5, Cases DEF PageStep, subVars

LEMMA CallPricedStep ==
    ASSUME AnyTotals, SubInv, Priced, [ThroughLedger]_subVars
    PROVE  \A w \in Workers : CallPriced(w)'
<1>0. \A j \in Journals : status[j] # "none" => totals'[j] = totals[j]
  BY StepMaps, TotalsKept DEF SubInv
<1>1. \A v \in Workers : call[v].stage \in Past => /\ status[call[v].journal] # "none"
                                                   /\ call[v].journal \in Journals
  BY DEF SubInv, CallInv, Linked, LinkedAt, Past
<1>2. ASSUME NEW v \in Workers, call'[v] = call[v] PROVE CallPriced(v)'
  BY <1>0, <1>1, <1>2 DEF CallPriced, Priced
<1>3. ASSUME NEW w \in Workers, CallStep(w) PROVE CallPriced(w)'
  <2>1. CASE call'[w] = NoCall
    BY <2>1 DEF CallPriced, NoCall, Past
  <2>2. CASE /\ call'[w].stage \in Past /\ GoesOn(w) /\ call'[w].totals = call[w].totals
             /\ call[w].stage \in Past /\ call'[w].journal = call[w].journal
    BY <1>0, <1>1, <2>2 DEF CallPriced, Priced, GoesOn
  <2>3. ASSUME call'[w].stage \in Past, GoesOn(w), call'[w].totals = call[w].totals,
               NEW j \in Journals, Draft(w, j), call'[w].journal = j
        PROVE  CallPriced(w)'
    <3>1. totals'[j] = call[w].totals
      BY <2>3 DEF Draft, CreateJournal, SubInv, LedgerInv, TypeOK
    <3> QED
      BY <2>3, <3>1 DEF CallPriced, Priced, GoesOn
  <2> QED
    BY <1>3, <2>1, <2>2, <2>3, CallFields
<1>4. ASSUME NEW w \in Workers, BeginsCall(w) PROVE CallPriced(w)'
  BY <1>4, BeginsFrame, CallSees DEF CallPriced, Past, Sees
<1> QED
  BY <1>2, <1>3, <1>4, Cases, CallFields, BeginsFrame DEF PageStep, subVars

LEMMA ReceiptPricedStep ==
    ASSUME AnyTotals, SubInv, Priced, [ThroughLedger]_subVars PROVE ReceiptPriced'
<1> SUFFICES ASSUME NEW j \in Journals, NEW i \in Invoices,
                    madeFor'[j] = [kind |-> "receive", doc |-> i]
             PROVE  totals'[j].credit >= Withheld[i]
  BY DEF ReceiptPriced
<1>1. CASE status[j] # "none"
  <2>1. madeFor'[j] = madeFor[j] /\ totals'[j] = totals[j]
    BY <1>1, PurposeKept, StepMaps, TotalsKept DEF SubInv
  <2> QED
    BY <2>1 DEF Priced, ReceiptPriced
<1>2. CASE status[j] = "none"
  <2>1. madeFor'[j] # madeFor[j]
    BY <1>2 DEF Priced, Fresh, NoPurpose
  <2>2. PICK w \in Workers, k \in Journals : Draft(w, k)
    BY <2>1, Cases, CallBegins, WritesOnly
       DEF PageStep, subVars, CallStep, Writes, Check, PostMade, GiveUp, Die
  <2>3. j = k /\ madeFor'[j] = Purpose(call[w]) /\ totals'[j] = call[w].totals
    BY <2>1, <2>2 DEF Draft, CreateJournal, SubInv, SubTypeOK, LedgerInv, TypeOK, Purpose
  <2>4. /\ call[w].kind = "receive" /\ call[w].doc = i /\ call[w].stage = "read"
        /\ call[w].amount \in Nat
    BY <2>2, <2>3 DEF Purpose, Draft, SubInv, SubTypeOK
  <2>5. call[w].totals.credit = call[w].amount + Withheld[i] /\ Withheld[i] \in Nat
    BY <2>4 DEF Priced, CallPriced
  <2> QED
    BY <2>3, <2>4, <2>5
<1> QED
  BY <1>1, <1>2

LEMMA FiniteStep ==
    ASSUME AnyTotals, SubInv, Fresh, FiniteRows, [ThroughLedger]_subVars PROVE FiniteRows'
<1>1. \/ Booked' = Booked
      \/ \E j : Booked' = Booked \cup {j}
  BY Cases, PageBooks, PostsEffect, CallsBookNothing DEF subVars, ledgerVars, Booked
<1>2. \/ receipts' = receipts
      \/ \E r : receipts' = receipts \cup {r}
  <2>1. ASSUME NEW w \in Workers, Writes(w)
        PROVE  receipts' = receipts \/ \E r : receipts' = receipts \cup {r}
    BY <2>1, WritesElsewhere DEF InsertReceipt
  <2> QED
    BY <2>1, OnlyWritesWrite DEF docVars
<1>3. \/ depRuns' = depRuns
      \/ \E r : depRuns' = depRuns \cup {r}
  <2>1. ASSUME NEW w \in Workers, Writes(w)
        PROVE  depRuns' = depRuns \/ \E r : depRuns' = depRuns \cup {r}
    BY <2>1, WritesElsewhere DEF InsertDepRun
  <2> QED
    BY <2>1, OnlyWritesWrite DEF docVars
<1>4. ASSUME NEW S, IsFiniteSet(S), NEW T, T = S \/ \E x : T = S \cup {x}
      PROVE  IsFiniteSet(T)
  <2>1. ASSUME NEW x, T = S \cup {x} PROVE IsFiniteSet(T)
    <3>1. IsFiniteSet(S \cup {x})
      BY <1>4, FS_AddElement
    <3> QED
      BY <2>1, <3>1
  <2> QED
    BY <1>4, <2>1
<1>5. IsFiniteSet(Booked')
  BY <1>1, <1>4 DEF FiniteRows
<1>6. IsFiniteSet(receipts') /\ IsFiniteSet(depRuns')
  BY <1>2, <1>3, <1>4 DEF FiniteRows
<1> QED
  BY <1>5, <1>6 DEF FiniteRows

-----------------------------------------------------------------------------
(***************************************************************************)
(* What is settled after a step.                                           *)
(***************************************************************************)

\* The stages a booked journal is not settled at: the receipt is settled once
\* the amount is written, the run of a depreciation once the asset is.
Spans == {{"booked"}, {"booked", "wrote"}}

LEMMA SpansStages ==
    /\ {"wrote"} \in Stages /\ \A S \in Spans : S \in Stages /\ "booked" \in S
    /\ \A S \in Stages : "idle" \notin S
  BY DEF Spans, Stages

LEMMA HeldAt ==
    ASSUME JournalOwn, NEW w \in Workers, call[w].stage \in Past,
           NEW S \in Stages, NEW k, NEW d
    PROVE  /\ call[w].stage \in S /\ call[w].kind = k /\ call[w].doc = d
                 => call[w].journal \in Held(k, d, S)
           /\ call[w].stage \notin S => call[w].journal \notin Held(k, d, S)
<1>1. \A v \in Workers : call[v].stage \in S => call[v].stage \in Past
  BY DEF Past, Stages
<1> QED
  BY <1>1 DEF Held, JournalOwn

\* Steps that neither write a document nor end a call after its posting.
LEMMA QuietCalls ==
    ASSUME SubInv, RecInv, [ThroughLedger]_subVars,
           \A w \in Workers : ~Writes(w) /\ ~Die(w)
    PROVE  /\ UNCHANGED docVars
           /\ \/ \A v \in Workers : \/ call'[v] = call[v]
                                    \/ /\ call[v].stage \notin {"booked", "wrote"}
                                       /\ call'[v].stage \notin {"booked", "wrote"}
              \/ \E w \in Workers : Posts(w)
<1>1. UNCHANGED docVars
  BY OnlyWritesWrite
<1> DEFINE Rests(v) == \/ call'[v] = call[v]
                       \/ /\ call[v].stage \notin {"booked", "wrote"}
                          /\ call'[v].stage \notin {"booked", "wrote"}
<1>2. ASSUME NEW w \in Workers, CallStep(w), ~Posts(w) PROVE \A v \in Workers : Rests(v)
  <2>0. \A v \in Workers \ {w} : call'[v] = call[v]
    BY <1>2, CallFields
  <2>1. ASSUME NEW j \in Journals, Draft(w, j) PROVE Rests(w)
    <3>1. call[w].stage = "read" /\ call'[w].stage = "drafted"
      BY <2>1, Drafted DEF Draft
    <3> QED
      BY <3>1
  <2>2. ASSUME Ended(w), call[w].stage \notin {"booked", "wrote"} PROVE Rests(w)
    <3>1. call'[w] = NoCall
      BY <2>2 DEF Ended, SubInv, SubTypeOK
    <3> QED
      BY <2>2, <3>1 DEF NoCall
  <2>3. CASE PostMade(w)
    BY <1>2, <2>0, <2>2, <2>3, PostsEffect
  <2>4. CASE GiveUp(w)
    BY <2>0, <2>2, <2>4 DEF GiveUp
  <2>5. CASE Check(w)
    <3>1. call[w].stage = "drafted" /\ call'[w].stage = "checked"
      BY <2>5, CallMoved DEF Check, SubInv
    <3> QED
      BY <2>0, <3>1
  <2> QED
    BY <1>2, <2>0, <2>1, <2>3, <2>4, <2>5 DEF CallStep, Writes
<1>3. ASSUME NEW w \in Workers, BeginsCall(w) PROVE \A v \in Workers : Rests(v)
  BY <1>3, BeginsFrame
<1>4. ASSUME UNCHANGED call PROVE \A v \in Workers : Rests(v)
  BY <1>4
<1> QED
  BY <1>1, <1>2, <1>3, <1>4, Cases DEF PageStep, subVars

LEMMA Quiet ==
    ASSUME AnyTotals, SubInv, RecInv, [ThroughLedger]_subVars,
           \A w \in Workers : ~Writes(w) /\ ~Die(w),
           NEW k \in Kinds, NEW d \in Docs
    PROVE  /\ Held(k, d, {"wrote"})' = Held(k, d, {"wrote"})
           /\ \A S \in Spans :
                 \/ Settled(k, d, S)' = Settled(k, d, S)
                 \/ /\ d \in disturbed'
                    /\ \E j \in Journals \ Settled(k, d, S) :
                           Settled(k, d, S)' = Settled(k, d, S) \cup {j}
<1>0. {"wrote"} \in Stages /\ \A S \in Spans : S \in Stages /\ "booked" \in S
  BY SpansStages
<1>1. Made(k, d) \subseteq Booked
  BY DEF Made
<1>2. ASSUME \A v \in Workers : \/ call'[v] = call[v]
                                \/ /\ call[v].stage \notin {"booked", "wrote"}
                                   /\ call'[v].stage \notin {"booked", "wrote"}
      PROVE  /\ Held(k, d, {"wrote"})' = Held(k, d, {"wrote"})
             /\ \A S \in Spans : Held(k, d, S)' = Held(k, d, S)
  BY <1>0, <1>2, HeldSame
<1>3. CASE \E w \in Workers : Posts(w)
  <2>1. PICK w \in Workers : Posts(w)
    BY <1>3
  <2> DEFINE j == call[w].journal
  <2>2. /\ PostMade(w) /\ call[w].stage = "checked" /\ j \in Journals /\ j \notin Booked
        /\ madeFor[j] = Purpose(call[w]) /\ UNCHANGED madeFor
        /\ Booked' = Booked \cup {j} /\ call' = [call EXCEPT ![w].stage = "booked"]
    BY <2>1, PostsEffect DEF Posts
  <2>3. /\ call'[w].stage = "booked" /\ GoesOn(w) /\ call'[w].journal = call[w].journal
        /\ \A v \in Workers \ {w} : call'[v] = call[v]
    BY <2>2, CallMoved DEF SubInv, GoesOn
  <2>4. ASSUME NEW S \in Stages
        PROVE  /\ ~(call[w].kind = k /\ call[w].doc = d) => Held(k, d, S)' = Held(k, d, S)
               /\ call[w].kind = k /\ call[w].doc = d /\ "booked" \in S
                      => Held(k, d, S)' = Held(k, d, S) \cup {j}
               /\ call[w].kind = k /\ call[w].doc = d /\ "booked" \notin S
                      => Held(k, d, S)' = Held(k, d, S) \ {j}
    <3>1. JournalOwn /\ Moves(w)
      BY <2>2, <2>3 DEF RecInv, Past, Moves
    <3> QED
      BY <2>3, <3>1, HeldMove
  <2>5. \A S \in Stages : j \notin Held(k, d, S)
    BY <1>1, <2>2, HeldIn
  <2>6. Made(k, d)' = IF call[w].kind = k /\ call[w].doc = d THEN Made(k, d) \cup {j}
                                                            ELSE Made(k, d)
    BY <2>2 DEF Made, Purpose
  <2>7. Held(k, d, {"wrote"})' = Held(k, d, {"wrote"})
    <3>1. "booked" \notin {"wrote"} /\ j \notin Held(k, d, {"wrote"})
      BY <1>0, <2>5
    <3>2. \/ Held(k, d, {"wrote"})' = Held(k, d, {"wrote"}) \ {j}
          \/ Held(k, d, {"wrote"})' = Held(k, d, {"wrote"})
      BY <1>0, <2>4, <3>1
    <3>3. \A A, X, x : x \notin A /\ X = A \ {x} => X = A
      OBVIOUS
    <3> QED
      BY <3>1, <3>2, <3>3, Zenon
  <2>8. ASSUME NEW S \in Spans PROVE Settled(k, d, S)' = Settled(k, d, S)
    <3>1. Held(k, d, S)' = IF call[w].kind = k /\ call[w].doc = d
                           THEN Held(k, d, S) \cup {j} ELSE Held(k, d, S)
      BY <1>0, <2>4, <2>5
    <3>2. j \notin Made(k, d)
      BY <1>1, <2>2
    <3> HIDE DEF j
    <3> QED
      BY <2>6, <3>1, <3>2 DEF Settled
  <2> QED
    BY <2>7, <2>8
<1>4. CASE ~ \E w \in Workers : Posts(w)
  <2>1. /\ Held(k, d, {"wrote"})' = Held(k, d, {"wrote"})
        /\ \A S \in Spans : Held(k, d, S)' = Held(k, d, S)
    BY <1>2, <1>4, QuietCalls
  <2>2. \A S \in Spans : Held(k, d, S) \subseteq Booked
    BY <1>0, <1>1, HeldIn
  <2>3. \/ Made(k, d)' = Made(k, d)
        \/ d \in disturbed' /\ \E j \in Journals \ Booked : Made(k, d)' = Made(k, d) \cup {j}
    BY <1>4, MadeStep DEF RecInv, Priced
  <2>4. CASE Made(k, d)' = Made(k, d)
    BY <2>1, <2>4 DEF Settled
  <2>5. ASSUME d \in disturbed', NEW j \in Journals \ Booked, Made(k, d)' = Made(k, d) \cup {j}
        PROVE  \A S \in Spans : \E i \in Journals \ Settled(k, d, S) :
                           Settled(k, d, S)' = Settled(k, d, S) \cup {i}
    <3> SUFFICES ASSUME NEW S \in Spans
                 PROVE  /\ j \in Journals \ Settled(k, d, S)
                        /\ Settled(k, d, S)' = Settled(k, d, S) \cup {j}
      OBVIOUS
    <3> QED
      BY <1>1, <2>1, <2>2, <2>5 DEF Settled
  <2> QED
    BY <2>1, <2>3, <2>4, <2>5
<1> QED
  BY <1>3, <1>4

\* The last statements of a call, and its death.
LEMMA Ending ==
    ASSUME AnyTotals, SubInv, RecInv, NEW w \in Workers, Writes(w) \/ Die(w)
    PROVE  /\ call[w].stage \in {"booked", "wrote"} /\ call[w].journal \in Journals
           /\ \/ call'[w] = NoCall
              \/ /\ call[w].stage = "booked" /\ call'[w].stage = "wrote" /\ GoesOn(w)
                 /\ call'[w].journal = call[w].journal
           /\ \A v \in Workers \ {w} : call'[v] = call[v]
           /\ UNCHANGED <<ledgerVars, madeFor>>
           /\ Die(w) => UNCHANGED docVars /\ disturbed' = disturbed \cup {call[w].doc}
           /\ Writes(w) => UNCHANGED disturbed
<1>1. call[w].stage \in {"booked", "wrote"} /\ UNCHANGED <<ledgerVars, madeFor>>
  BY WritesOnly DEF Die
<1>2. call[w].journal \in Journals
  BY <1>1, WriterFacts
<1>3. CASE Ended(w)
  <2>1. call'[w] = NoCall /\ \A v \in Workers \ {w} : call'[v] = call[v]
    BY <1>3 DEF Ended, SubInv, SubTypeOK
  <2> QED
    BY <1>1, <1>2, <2>1, WritesOnly DEF Die
<1>4. CASE call[w].stage = "booked" /\ call' = [call EXCEPT ![w].stage = "wrote"]
  <2>1. /\ call'[w].stage = "wrote" /\ GoesOn(w) /\ call'[w].journal = call[w].journal
        /\ \A v \in Workers \ {w} : call'[v] = call[v]
    BY <1>4, CallMoved DEF SubInv, GoesOn
  <2> QED
    BY <1>1, <1>2, <1>4, <2>1, WritesOnly DEF Die
<1> QED
  BY <1>3, <1>4, WritesOnly DEF Die

On(w, k, d) == call[w].kind = k /\ call[w].doc = d

LEMMA EndingElsewhere ==
    ASSUME AnyTotals, SubInv, RecInv, NEW w \in Workers, Writes(w) \/ Die(w),
           NEW k, NEW d, ~On(w, k, d)
    PROVE  /\ Held(k, d, {"wrote"})' = Held(k, d, {"wrote"})
           /\ \A S \in Spans : Settled(k, d, S)' = Settled(k, d, S)
<1>1. Made(k, d)' = Made(k, d)
  BY Ending DEF Made, Booked, ledgerVars
<1>2. ASSUME NEW S \in Stages PROVE Held(k, d, S)' = Held(k, d, S)
  <2>1. call'[w].stage = "idle" \/ (GoesOn(w) /\ call'[w].journal = call[w].journal)
    BY Ending DEF NoCall
  <2>2. call[w].stage \in Past /\ \A v \in Workers \ {w} : call'[v] = call[v]
    BY Ending DEF Past
  <2> QED
    <3>1. JournalOwn /\ Moves(w)
      BY <2>1, <2>2 DEF RecInv, Moves
    <3>2. ~(call[w].kind = k /\ call[w].doc = d)
      BY DEF On
    <3> QED
      BY <3>1, <3>2, HeldMove
<1>3. {"wrote"} \in Stages /\ \A S \in Spans : S \in Stages
  BY SpansStages
<1> QED
  BY <1>1, <1>2, <1>3 DEF Settled

LEMMA EndingHere ==
    ASSUME AnyTotals, SubInv, RecInv, NEW w \in Workers, Writes(w) \/ Die(w),
           NEW k, NEW d, On(w, k, d), NEW j, call[w].journal = j
    PROVE  /\ \A S \in Spans :
                  /\ call[w].stage \in S /\ call'[w].stage \notin S
                       => /\ j \notin Settled(k, d, S)
                          /\ Settled(k, d, S)' = Settled(k, d, S) \cup {j}
                  /\ call[w].stage \notin S \/ call'[w].stage \in S
                       => Settled(k, d, S)' = Settled(k, d, S)
           /\ call'[w].stage = "wrote"
                  => Held(k, d, {"wrote"})' = Held(k, d, {"wrote"}) \cup {j}
           /\ call'[w].stage # "wrote"
                  => Held(k, d, {"wrote"})' = Held(k, d, {"wrote"}) \ {j}
           /\ j \in Held(k, d, {"wrote"}) <=> call[w].stage = "wrote"
           /\ j \in Made(k, d)
<1>0. call[w].kind = k /\ call[w].doc = d
  BY DEF On
<1>1. Made(k, d)' = Made(k, d)
  BY Ending DEF Made, Booked, ledgerVars
<1>2. call'[w].stage = "idle" \/ (GoesOn(w) /\ call'[w].journal = call[w].journal)
  BY Ending DEF NoCall
<1>3. /\ call[w].stage \in Past /\ \A v \in Workers \ {w} : call'[v] = call[v]
      /\ call[w].stage \in {"booked", "wrote"}
      /\ call'[w].stage \notin {"wrote"} => call'[w].stage = "idle"
      /\ call[w].stage = "wrote" => call'[w].stage = "idle"
  BY Ending DEF Past, NoCall
<1>4. ASSUME NEW S \in Stages
      PROVE  /\ call'[w].stage \in S => Held(k, d, S)' = Held(k, d, S) \cup {j}
             /\ call'[w].stage \notin S => Held(k, d, S)' = Held(k, d, S) \ {j}
             /\ j \in Held(k, d, S) <=> call[w].stage \in S
             /\ Held(k, d, S) \subseteq Made(k, d)
  <2>1. /\ call'[w].stage \in S => Held(k, d, S)' = Held(k, d, S) \cup {j}
        /\ call'[w].stage \notin S => Held(k, d, S)' = Held(k, d, S) \ {j}
    <3>1. JournalOwn /\ Moves(w)
      BY <1>2, <1>3 DEF RecInv, Moves
    <3> QED
      BY <1>0, <3>1, HeldMove
  <2>2. j \in Held(k, d, S) <=> call[w].stage \in S
    <3>1. JournalOwn
      BY DEF RecInv
    <3>2. /\ call[w].stage \in S => call[w].journal \in Held(k, d, S)
          /\ call[w].stage \notin S => call[w].journal \notin Held(k, d, S)
      BY <1>0, <1>3, <1>4, <3>1, HeldAt
    <3> QED
      BY <3>2
  <2> QED
    BY <1>4, <2>1, <2>2, HeldIn
<1>5. j \in Made(k, d)
  <2>1. {"booked", "wrote"} \in Stages
    BY DEF Stages
  <2> QED
    BY <1>3, <1>4, <2>1
<1>6. ASSUME NEW S \in Spans
      PROVE  /\ call[w].stage \in S /\ call'[w].stage \notin S
                  => /\ j \notin Settled(k, d, S)
                     /\ Settled(k, d, S)' = Settled(k, d, S) \cup {j}
             /\ call[w].stage \notin S \/ call'[w].stage \in S
                  => Settled(k, d, S)' = Settled(k, d, S)
  <2>0. S \in Stages /\ "booked" \in S
    BY SpansStages
  <2>1. CASE call[w].stage \in S /\ call'[w].stage \notin S
    <3>1. Held(k, d, S)' = Held(k, d, S) \ {j} /\ j \in Held(k, d, S)
      BY <1>4, <2>0, <2>1
    <3> QED
      BY <1>1, <1>5, <2>1, <3>1 DEF Settled
  <2>2. CASE call[w].stage \in S /\ call'[w].stage \in S
    <3>1. Held(k, d, S)' = Held(k, d, S)
      <4>1. /\ Held(k, d, S)' = Held(k, d, S) \cup {j}
            /\ j \in Held(k, d, S)
        BY <1>4, <2>0, <2>2
      <4> QED
        BY <4>1
    <3> QED
      BY <1>1, <2>2, <3>1 DEF Settled
  <2>3. CASE call[w].stage \notin S
    <3>0. call'[w].stage \notin S
      BY <1>3, <2>0, <2>3, SpansStages
    <3>1. Held(k, d, S)' = Held(k, d, S)
      <4>1. Held(k, d, S)' = Held(k, d, S) \ {j} /\ j \notin Held(k, d, S)
        BY <1>4, <2>0, <2>3, <3>0
      <4> QED
        BY <4>1
    <3> QED
      BY <1>1, <2>3, <3>1 DEF Settled
  <2> QED
    BY <2>1, <2>2, <2>3
<1>7. /\ call'[w].stage = "wrote"
             => Held(k, d, {"wrote"})' = Held(k, d, {"wrote"}) \cup {j}
      /\ call'[w].stage # "wrote"
             => Held(k, d, {"wrote"})' = Held(k, d, {"wrote"}) \ {j}
      /\ j \in Held(k, d, {"wrote"}) <=> call[w].stage = "wrote"
  <2>1. {"wrote"} \in Stages
    BY SpansStages
  <2> QED
    BY <1>4, <2>1
<1> QED
  BY <1>5, <1>6, <1>7

LEMMA SpansAre == {"booked"} \in Spans /\ {"booked", "wrote"} \in Spans
  BY DEF Spans

\* The two spans in use.
LEMMA EndingBooked ==
    ASSUME AnyTotals, SubInv, RecInv, NEW w \in Workers, Writes(w) \/ Die(w),
           NEW k, NEW d, On(w, k, d), NEW j, call[w].journal = j
    PROVE  /\ call[w].stage = "booked" =>
                  /\ j \notin Settled(k, d, {"booked"})
                  /\ Settled(k, d, {"booked"})' = Settled(k, d, {"booked"}) \cup {j}
           /\ call[w].stage = "wrote" => Settled(k, d, {"booked"})' = Settled(k, d, {"booked"})
<1> DEFINE S == {"booked"}
<1>1. /\ call[w].stage = "booked" => call[w].stage \in S /\ call'[w].stage \notin S
      /\ call[w].stage = "wrote" => call[w].stage \notin S
  <2>1. call'[w].stage # "booked"
    BY Ending DEF NoCall
  <2> QED
    BY <2>1
<1>2. S \in Spans
  BY SpansAre
<1> HIDE DEF S
<1>3. /\ call[w].stage = "booked" => j \notin Settled(k, d, S)
                                     /\ Settled(k, d, S)' = Settled(k, d, S) \cup {j}
      /\ call[w].stage = "wrote" => Settled(k, d, S)' = Settled(k, d, S)
  BY <1>1, <1>2, EndingHere
<1> QED
  BY <1>3 DEF S

LEMMA EndingBoth ==
    ASSUME AnyTotals, SubInv, RecInv, NEW w \in Workers, Writes(w) \/ Die(w),
           NEW k, NEW d, On(w, k, d), NEW j, call[w].journal = j
    PROVE  /\ call'[w].stage = "idle" =>
                  /\ j \notin Settled(k, d, {"booked", "wrote"})
                  /\ Settled(k, d, {"booked", "wrote"})'
                         = Settled(k, d, {"booked", "wrote"}) \cup {j}
           /\ call'[w].stage = "wrote"
                  => Settled(k, d, {"booked", "wrote"})' = Settled(k, d, {"booked", "wrote"})
<1> DEFINE S == {"booked", "wrote"}
<1>1. /\ call'[w].stage = "idle" => call[w].stage \in S /\ call'[w].stage \notin S
      /\ call'[w].stage = "wrote" => call'[w].stage \in S
  <2>1. call[w].stage \in {"booked", "wrote"}
    BY Ending
  <2> QED
    BY <2>1
<1>2. S \in Spans
  BY SpansAre
<1> HIDE DEF S
<1>3. /\ call'[w].stage = "idle" => j \notin Settled(k, d, S)
                                    /\ Settled(k, d, S)' = Settled(k, d, S) \cup {j}
      /\ call'[w].stage = "wrote" => Settled(k, d, S)' = Settled(k, d, S)
  BY <1>1, <1>2, EndingHere
<1> QED
  BY <1>3 DEF S

-----------------------------------------------------------------------------
(***************************************************************************)
(* How the sums go on.                                                     *)
(***************************************************************************)

\* What happens to a sum when its set gains or loses an element and the values
\* on the rest stay.
Kept(S, F, G) == \A x \in S : F[x] \in Nat /\ G[x] = F[x]

LEMMA SumMoves ==
    ASSUME NEW S, IsFiniteSet(S), NEW F, NEW G, Kept(S, F, G)
    PROVE  /\ SumOf(S, F) \in Nat /\ SumOf(S, G) = SumOf(S, F)
           /\ \A x : x \notin S /\ G[x] \in Nat
                         => SumOf(S \cup {x}, G) = SumOf(S, F) + G[x]
           /\ \A x \in S : /\ SumOf(S, F) = SumOf(S \ {x}, G) + F[x]
                           /\ SumOf(S \ {x}, G) \in Nat
<1>0. \A x \in S : F[x] \in Nat /\ G[x] = F[x]
  BY DEF Kept
<1>1. SumOf(S, F) \in Nat /\ SumOf(S, G) = SumOf(S, F)
  BY <1>0, SumNat, SumSame
<1>2. ASSUME NEW x, x \notin S, G[x] \in Nat
      PROVE  SumOf(S \cup {x}, G) = SumOf(S, F) + G[x]
  <2>1. \A y \in S \cup {x} : G[y] \in Nat
    BY <1>0, <1>2
  <2>2. SumOf(S \cup {x}, G) = SumOf(S, G) + G[x]
    BY <1>2, <2>1, SumWith
  <2> QED
    BY <1>1, <2>2
<1>3. ASSUME NEW x \in S
      PROVE  SumOf(S, F) = SumOf(S \ {x}, G) + F[x] /\ SumOf(S \ {x}, G) \in Nat
  <2>1. IsFiniteSet(S \ {x})
    BY FS_RemoveElement
  <2>2. \A y \in S \ {x} : F[y] \in Nat /\ G[y] = F[y]
    BY <1>0
  <2>3. SumOf(S \ {x}, G) = SumOf(S \ {x}, F) /\ SumOf(S \ {x}, F) \in Nat
    BY <2>1, <2>2, SumNat, SumSame
  <2>4. SumOf(S, F) = F[x] + SumOf(S \ {x}, F)
    BY <1>0, SumWithout
  <2> QED
    BY <1>0, <2>3, <2>4
<1> QED
  BY <1>1, <1>2, <1>3

\* Sums over rows.
Rows(R, X) == IsFiniteSet(R) /\ R \subseteq X /\ \A r \in R : r.amount \in Nat

LEMMA RowSums ==
    ASSUME NEW X, NEW Y, NEW R, Rows(R, X), Rows(R, Y)
    PROVE  SumOf(R, Amount(X)) \in Nat /\ SumOf(R, Amount(Y)) = SumOf(R, Amount(X))
<1>1. Kept(R, Amount(X), Amount(Y)) /\ IsFiniteSet(R)
  BY DEF Amount, Kept, Rows
<1> QED
  BY <1>1, SumMoves

LEMMA RowAdded ==
    ASSUME NEW X, NEW Y, NEW R, Rows(R, X), Rows(R, Y), NEW x \in Y, x \notin R, x.amount \in Nat
    PROVE  SumOf(R \cup {x}, Amount(Y)) = SumOf(R, Amount(X)) + x.amount
<1>1. Kept(R, Amount(X), Amount(Y)) /\ IsFiniteSet(R)
  BY DEF Amount, Kept, Rows
<1>2. Amount(Y)[x] = x.amount
  BY DEF Amount
<1>3. SumOf(R \cup {x}, Amount(Y)) = SumOf(R, Amount(X)) + Amount(Y)[x]
  BY <1>1, <1>2, SumMoves
<1> QED
  BY <1>2, <1>3

\* Sums over the journals made for a document; the totals of those stay.
Values(G, S, T, F) ==
    /\ SumOf(S, F) \in Nat
    /\ T = S => SumOf(T, G) = SumOf(S, F)
    /\ \A x : x \notin S /\ T = S \cup {x} => /\ SumOf(T, G) = SumOf(S, F) + G[x]
                                              /\ G[x] \in Nat
    /\ \A x \in S : T = S \ {x} => /\ SumOf(S, F) = SumOf(T, G) + F[x]
                                   /\ F[x] \in Nat /\ SumOf(T, G) \in Nat

LEMMA ValuesHold ==
    ASSUME NEW S, IsFiniteSet(S), NEW T, NEW F, NEW G,
           \A x \in S : F[x] \in Nat /\ G[x] = F[x],
           \A x \in T : G[x] \in Nat
    PROVE  Values(G, S, T, F)
<1>0. Kept(S, F, G)
  BY DEF Kept
<1>1. /\ SumOf(S, F) \in Nat /\ SumOf(S, G) = SumOf(S, F)
      /\ \A x : x \notin S /\ G[x] \in Nat => SumOf(S \cup {x}, G) = SumOf(S, F) + G[x]
  BY <1>0, SumMoves
<1>3. ASSUME NEW x \in S
      PROVE  SumOf(S, F) = SumOf(S \ {x}, G) + F[x] /\ SumOf(S \ {x}, G) \in Nat
  BY <1>0, SumMoves
<1>2. \A x : T = S \cup {x} => G[x] \in Nat
  OBVIOUS
<1> QED
  BY <1>1, <1>2, <1>3 DEF Values

LEMMA MadeFinite ==
    ASSUME AnyTotals, SubInv, RecInv, [ThroughLedger]_subVars
    PROVE  \A k, d : /\ \A S : S \subseteq Made(k, d) => IsFiniteSet(S)
                     /\ \A j \in Made(k, d) :
                           /\ j \in Journals /\ totals'[j] = totals[j]
                           /\ totals[j].credit \in Nat
                     /\ \A j \in Made(k, d)' :
                           /\ j \in Journals /\ totals'[j].credit \in Nat
<1>1. IsFiniteSet(Booked)
  BY DEF RecInv, FiniteRows
<1>2. \A k, d : Made(k, d) \subseteq Booked
  BY DEF Made
<1>3. \A j \in Booked : j \in Journals /\ totals'[j] = totals[j]
  BY StepMaps, TotalsKept DEF SubInv, Booked
<1>4. \A j \in Journals : totals[j].credit \in Nat
  BY DEF SubInv, LedgerInv, TypeOK
<1>5. \A j \in Journals : totals'[j].credit \in Nat
  BY TypeStep DEF SubTypeOK, TypeOK
<1>6. \A k, d : \A j \in Made(k, d)' : j \in Journals
  BY DEF Made, Booked
<1>7. \A S : S \subseteq Booked => IsFiniteSet(S)
  BY <1>1, FS_Subset
<1> QED
  BY <1>2, <1>3, <1>4, <1>5, <1>6, <1>7

LEMMA NetSums ==
    ASSUME AnyTotals, SubInv, RecInv, [ThroughLedger]_subVars, ReceiptPriced', NEW i \in Invoices,
           NEW S, S \subseteq Made("receive", i), NEW T, T \subseteq Made("receive", i)'
    PROVE  Values(Net(i)', S, T, Net(i))
<1>1. \A j \in Made("receive", i) : Net(i)[j] \in Nat /\ Net(i)'[j] = Net(i)[j]
  <2> SUFFICES ASSUME NEW j \in Made("receive", i)
               PROVE  Net(i)[j] \in Nat /\ Net(i)'[j] = Net(i)[j]
    OBVIOUS
  <2>1. /\ j \in Journals /\ totals'[j] = totals[j] /\ totals[j].credit \in Nat
        /\ madeFor[j] = [kind |-> "receive", doc |-> i]
    BY MadeFinite DEF Made
  <2>2. totals[j].credit >= Withheld[i] /\ Withheld[i] \in Nat
    BY <2>1 DEF RecInv, Priced, ReceiptPriced
  <2>3. Net(i)[j] = totals[j].credit - Withheld[i] /\ Net(i)'[j] = totals'[j].credit - Withheld[i]
    BY <2>1 DEF Net
  <2> QED
    BY <2>1, <2>2, <2>3
<1>2. \A j \in Made("receive", i)' : Net(i)'[j] \in Nat
  <2> SUFFICES ASSUME NEW j \in Made("receive", i)' PROVE Net(i)'[j] \in Nat
    OBVIOUS
  <2>1. /\ j \in Journals /\ totals'[j].credit \in Nat
        /\ madeFor'[j] = [kind |-> "receive", doc |-> i]
    BY MadeFinite DEF Made
  <2>2. totals'[j].credit >= Withheld[i] /\ Withheld[i] \in Nat
    BY <2>1 DEF ReceiptPriced
  <2>3. Net(i)'[j] = totals'[j].credit - Withheld[i]
    BY <2>1 DEF Net
  <2> QED
    BY <2>1, <2>2, <2>3
<1>3. IsFiniteSet(S)
  BY MadeFinite
<1>4. /\ \A x \in S : Net(i)[x] \in Nat /\ Net(i)'[x] = Net(i)[x]
      /\ \A x \in T : Net(i)'[x] \in Nat
  BY <1>1, <1>2
<1> QED
  BY <1>3, <1>4, ValuesHold

LEMMA CreditSums ==
    ASSUME AnyTotals, SubInv, RecInv, [ThroughLedger]_subVars, NEW k, NEW d,
           NEW S, S \subseteq Made(k, d), NEW T, T \subseteq Made(k, d)'
    PROVE  Values(Credit', S, T, Credit)
<1>1. \A j \in Made(k, d) : Credit[j] \in Nat /\ Credit'[j] = Credit[j]
  BY MadeFinite DEF Credit
<1>2. \A j \in Made(k, d)' : Credit'[j] \in Nat
  BY MadeFinite DEF Credit
<1>3. IsFiniteSet(S)
  BY MadeFinite
<1>4. /\ \A x \in S : Credit[x] \in Nat /\ Credit'[x] = Credit[x]
      /\ \A x \in T : Credit'[x] \in Nat
  BY <1>1, <1>2
<1> QED
  BY <1>3, <1>4, ValuesHold

-----------------------------------------------------------------------------
(***************************************************************************)
(* The amounts received of an invoice.                                     *)
(***************************************************************************)

AllHeldIn == \A k, d : \A S \in Stages : Held(k, d, S) \subseteq Made(k, d)

LEMMA HeldInNext ==
    SubInv' => \A k, d : \A S \in Stages : Held(k, d, S)' \subseteq Made(k, d)'
<1>1. SubInv => AllHeldIn
  BY HeldIn DEF AllHeldIn
<1>2. SubInv' => AllHeldIn'
  BY <1>1, PTL
<1> QED
  BY <1>2 DEF AllHeldIn

\* The sums of an invoice, and how they go on: numbers only.
ReceiptNumbers(i) ==
    /\ Values(Net(i)', Settled("receive", i, {"booked"}), Settled("receive", i, {"booked"})', Net(i))
    /\ Values(Net(i)', Held("receive", i, {"wrote"}), Held("receive", i, {"wrote"})', Net(i))
    /\ SumOf(Settled("receive", i, {"booked"}), Net(i)) \in Nat
    /\ SumOf(Held("receive", i, {"wrote"}), Net(i)) \in Nat
    /\ SumOf(ReceiptsOf(i), Amount(receipts)) \in Nat
    /\ Rows(ReceiptsOf(i), receipts)
    /\ invoice[i].received \in Nat

LEMMA ReceiptNumbersHold ==
    ASSUME AnyTotals, SubInv, RecInv, [ThroughLedger]_subVars, ReceiptPriced', SubInv',
           NEW i \in Invoices
    PROVE  ReceiptNumbers(i)
<1>1. Settled("receive", i, {"booked"}) \subseteq Made("receive", i)
  BY DEF Settled
<1>2. Settled("receive", i, {"booked"})' \subseteq Made("receive", i)'
  BY DEF Settled
<1>3. Held("receive", i, {"wrote"}) \subseteq Made("receive", i)
  BY SpansStages, HeldIn
<1>4. Held("receive", i, {"wrote"})' \subseteq Made("receive", i)'
  BY SpansStages, HeldInNext
<1>5. Values(Net(i)', Settled("receive", i, {"booked"}), Settled("receive", i, {"booked"})', Net(i))
  BY <1>1, <1>2, NetSums
<1>6. Values(Net(i)', Held("receive", i, {"wrote"}), Held("receive", i, {"wrote"})', Net(i))
  BY <1>3, <1>4, NetSums
<1>7. /\ SumOf(Settled("receive", i, {"booked"}), Net(i)) \in Nat
      /\ SumOf(Held("receive", i, {"wrote"}), Net(i)) \in Nat
  BY <1>5, <1>6 DEF Values
<1>8. IsFiniteSet(receipts) /\ receipts \subseteq [invoice : Invoices, amount : Nat, journal : Journals]
  BY DEF RecInv, FiniteRows, SubInv, SubTypeOK
<1>9. Rows(ReceiptsOf(i), receipts)
  BY <1>8, FS_Subset DEF ReceiptsOf, Rows
<1>10. SumOf(ReceiptsOf(i), Amount(receipts)) \in Nat
  BY <1>9, RowSums
<1>11. invoice[i].received \in Nat
  BY DEF SubInv, SubTypeOK
<1> QED
  BY <1>5, <1>6, <1>7, <1>9, <1>10, <1>11 DEF ReceiptNumbers

\* Who is in the middle of what: the writing calls on an invoice.
LEMMA ReceiptSumsStep ==
    ASSUME AnyTotals, SubInv, RecInv, [ThroughLedger]_subVars, ReceiptPriced', SubInv',
           NEW i \in Invoices
    PROVE  ReceiptSums(i)'
<1> DEFINE S == Settled("receive", i, {"booked"})
           H == Held("receive", i, {"wrote"})
           R == ReceiptsOf(i)
           s == SumOf(S, Net(i))
           h == SumOf(H, Net(i))
           l == SumOf(R, Amount(receipts))
           x == invoice[i].received
<1>0. /\ ReceiptNumbers(i) /\ ReceiptSums(i) /\ "receive" \in Kinds /\ i \in Docs
      /\ disturbed \subseteq disturbed' /\ SubTypeOK
  BY ReceiptNumbersHold, DisturbedGrows DEF RecInv, Kinds, Docs, SubInv
<1>1. /\ s \in Nat /\ h \in Nat /\ l \in Nat /\ x \in Nat
      /\ x <= s /\ (i \notin disturbed => x = s) /\ l + h <= x
      /\ invoice[i].status = "none" => x = 0
  <2>1. s \in Nat /\ h \in Nat /\ l \in Nat /\ x \in Nat
    BY <1>0 DEF ReceiptNumbers
  <2>2. /\ x <= s /\ (i \notin disturbed => x = s) /\ l + h <= x
        /\ invoice[i].status = "none" => x = 0
    BY <1>0 DEF ReceiptSums
  <2> QED
    BY <2>1, <2>2
<1>2. /\ S' = S => s' = s
      /\ \A j : j \notin S /\ S' = S \cup {j} => s' = s + Net(i)'[j] /\ Net(i)'[j] \in Nat
      /\ H' = H => h' = h
      /\ \A j : j \notin H /\ H' = H \cup {j} => h' = h + Net(i)'[j] /\ Net(i)'[j] \in Nat
      /\ \A j \in H : H' = H \ {j} => h = h' + Net(i)[j] /\ Net(i)[j] \in Nat /\ h' \in Nat
  BY <1>0 DEF ReceiptNumbers, Values
<1>3. ASSUME receipts' = receipts PROVE l' = l
  BY <1>3 DEF ReceiptsOf
<1>4. ASSUME x' <= s', i \notin disturbed' => x' = s', l' + h' <= x',
             invoice'[i].status = "none" => x' = 0
      PROVE  ReceiptSums(i)'
  BY <1>4 DEF ReceiptSums
<1>5. CASE \A w \in Workers : ~Writes(w) /\ ~Die(w)
  <2>1. /\ H' = H
        /\ S' = S \/ (i \in disturbed' /\ \E j : j \notin S /\ S' = S \cup {j})
    BY <1>0, <1>5, Quiet, SpansAre
  <2>2. invoice' = invoice /\ receipts' = receipts
    BY <1>5, QuietCalls DEF docVars
  <2>3. h' = h /\ l' = l /\ x' = x
    BY <1>2, <1>3, <2>1, <2>2
  <2>4. s' = s \/ (i \in disturbed' /\ s' \in Nat /\ s' >= s)
    <3>1. CASE S' = S
      BY <1>2, <3>1
    <3>2. ASSUME i \in disturbed', NEW j, j \notin S, S' = S \cup {j}
          PROVE  i \in disturbed' /\ s' \in Nat /\ s' >= s
      <4>1. s' = s + Net(i)'[j] /\ Net(i)'[j] \in Nat
        BY <1>2, <3>2
      <4> HIDE DEF s
      <4> QED
        BY <1>1, <3>2, <4>1
    <3> QED
      BY <2>1, <3>1, <3>2
  <2> HIDE DEF S, H, R, s, h, l, x
  <2> QED
    BY <1>0, <1>1, <1>4, <2>2, <2>3, <2>4
<1>6. CASE \E w \in Workers : Writes(w) \/ Die(w)
  <2>1. PICK w \in Workers : Writes(w) \/ Die(w)
    BY <1>6
  <2>2. CASE ~On(w, "receive", i)
    <3>1. S' = S /\ H' = H
      BY <2>1, <2>2, EndingElsewhere, SpansAre
    <3>2. s' = s /\ h' = h
      BY <1>2, <3>1
    <3>3. l' = l
      <4>1. \/ receipts' = receipts
            \/ /\ InsertReceipt(w) /\ call[w].kind = "receive"
               /\ receipts' = receipts \cup {[invoice |-> call[w].doc, amount |-> call[w].amount,
                                              journal |-> call[w].journal]}
        BY <2>1, WritesElsewhere DEF Die, docVars, InsertReceipt, Writing
      <4>2. ReceiptsOf(i)' = ReceiptsOf(i) /\ receipts \subseteq receipts'
        BY <2>2, <4>1 DEF ReceiptsOf, On
      <4>3. Rows(ReceiptsOf(i), receipts) /\ Rows(ReceiptsOf(i), receipts')
        BY <1>0, <4>2 DEF Rows, ReceiptNumbers
      <4>4. SumOf(ReceiptsOf(i), Amount(receipts')) = SumOf(ReceiptsOf(i), Amount(receipts))
        BY <4>3, RowSums
      <4> QED
        BY <4>2, <4>4
    <3>4. /\ x' = x \/ (x' = 0 /\ invoice[i].status = "none")
          /\ invoice'[i].status = "none" => invoice'[i] = invoice[i]
      <4>1. CASE InsertInvoice(w) /\ call[w].doc = i
        <5>1. invoice'[i] = [status |-> "outstanding", received |-> 0, journal |-> call[w].journal]
          BY <1>0, <4>1 DEF InsertInvoice, Writing, SubTypeOK
        <5>2. Raising(w, i)
          BY <4>1 DEF InsertInvoice, Writing, Raising
        <5>3. invoice[i].status = "none"
          BY <5>2 DEF SubInv, DocInv, InvoiceInv
        <5> QED
          BY <5>1, <5>3
      <4>2. CASE (InsertInvoice(w) \/ AddReceipt(w)) /\ call[w].doc # i
        BY <2>1, <4>2, InvoiceWritten
      <4>3. CASE ~(InsertInvoice(w) \/ AddReceipt(w))
        BY <2>1, <4>3, WritesElsewhere DEF Die, docVars
      <4>4. ~(AddReceipt(w) /\ call[w].doc = i)
        BY <2>2 DEF AddReceipt, Writing, On
      <4> QED
        BY <4>1, <4>2, <4>3, <4>4
    <3>5. disturbed' = disturbed \/ disturbed \subseteq disturbed'
      BY <1>0
    <3> HIDE DEF S, H, R, s, h, l
    <3> QED
      BY <1>0, <1>1, <1>4, <3>2, <3>3, <3>4
  <2>3. CASE On(w, "receive", i)
    <3> DEFINE j == call[w].journal
               a == call[w].amount
    <3>0. /\ a \in Nat /\ j \in Made("receive", i) /\ j \in Journals
          /\ Net(i)[j] = a /\ call[w].stage \in {"booked", "wrote"}
      <4>1. /\ call[w].stage \in {"booked", "wrote"} /\ a \in Nat /\ j \in Journals
            /\ j \in Made("receive", i)
        BY <2>1, <2>3, Ending, WriterFacts, EndingHere
      <4>2. totals[j].credit = a + Withheld[i] /\ Withheld[i] \in Nat
        BY <2>3, <4>1 DEF RecInv, Priced, CallPriced, Past, On
      <4> HIDE DEF j, a
      <4>3. Net(i)[j] = totals[j].credit - Withheld[i]
        BY <4>1 DEF Net
      <4> QED
        BY <4>1, <4>2, <4>3
    <3>1. /\ IF call[w].stage = "booked" THEN j \notin S /\ S' = S \cup {j} ELSE S' = S
          /\ H' = IF call'[w].stage = "wrote" THEN H \cup {j} ELSE H \ {j}
          /\ j \in H <=> call[w].stage = "wrote"
      <4>1. call'[w].stage # "booked"
        BY <2>1, Ending DEF NoCall
      <4>2. call[w].stage = "booked" => j \notin S /\ S' = S \cup {j}
        BY <2>1, <2>3, EndingBooked
      <4>3. call[w].stage = "wrote" => S' = S
        BY <2>1, <2>3, EndingBooked
      <4>4. call'[w].stage = "wrote" => H' = H \cup {j}
        BY <2>1, <2>3, EndingHere
      <4>5. call'[w].stage # "wrote" => H' = H \ {j}
        BY <2>1, <2>3, EndingHere
      <4>6. j \in H <=> call[w].stage = "wrote"
        BY <2>1, <2>3, EndingHere
      <4> QED
        BY <3>0, <4>1, <4>2, <4>3, <4>4, <4>5, <4>6
    <3>2. Net(i)'[j] = a
      <4>1. totals' = totals
        BY <2>1, Ending DEF ledgerVars
      <4> QED
        BY <3>0, <4>1 DEF Net
    <3>3. CASE AddReceipt(w)
      <4>1. call[w].stage = "booked" /\ call'[w].stage = "wrote"
        BY <1>0, <3>3 DEF AddReceipt, Writing, SubTypeOK
      <4>2. /\ invoice'[i].received = invoice[i].received + a
            /\ invoice'[i].status \in {"partial", "paid"} /\ receipts' = receipts
        BY <2>3, <3>3, InvoiceWritten DEF AddReceipt, Raising, On
      <4>3. s' = s + a /\ h' = h + a /\ l' = l
        BY <1>2, <1>3, <3>1, <3>2, <4>1, <4>2
      <4>4. i \notin disturbed' => i \notin disturbed
        BY <1>0
      <4>6. x' = x + a
        BY <4>2
      <4> HIDE DEF S, H, R, s, h, l, a, x
      <4>5. x' <= s' /\ (i \notin disturbed' => x' = s') /\ l' + h' <= x'
        BY <1>1, <3>0, <4>6, <4>3, <4>4
      <4> QED
        BY <1>4, <4>2, <4>5
    <3>4. CASE InsertReceipt(w)
      <4>1. call[w].stage = "wrote" /\ call'[w].stage = "idle" /\ UNCHANGED invoice
        BY <1>0, <3>4 DEF InsertReceipt, Writing, SubTypeOK, Ended, NoCall
      <4>2. s' = s /\ h = h' + a /\ h' \in Nat
        BY <1>2, <3>0, <3>1, <4>1
      <4>3. l' <= l + a /\ l' \in Nat
        <5> DEFINE r == [invoice |-> i, amount |-> a, journal |-> j]
        <5>1. receipts' = receipts \cup {r}
          BY <2>3, <3>4 DEF InsertReceipt, On
        <5>2. r \in receipts' /\ r.amount = a /\ r.invoice = i
          BY <5>1
        <5> HIDE DEF r, a, j
        <5>3. R' = R \cup {r} /\ R \subseteq receipts /\ R \subseteq receipts'
          BY <5>1, <5>2 DEF ReceiptsOf
        <5>4. /\ SumOf(R, Amount(receipts')) = l
              /\ r \notin R => SumOf(R \cup {r}, Amount(receipts')) = l + a
          <6>1. Rows(R, receipts) /\ Rows(R, receipts')
            BY <1>0, <5>3 DEF ReceiptNumbers, Rows
          <6> HIDE DEF R
          <6>2. SumOf(R, Amount(receipts')) = SumOf(R, Amount(receipts))
            BY <6>1, RowSums
          <6>3. r \notin R => SumOf(R \cup {r}, Amount(receipts'))
                                 = SumOf(R, Amount(receipts)) + r.amount
            <7>1. r \in receipts' /\ r.amount \in Nat
              BY <3>0, <5>2
            <7> QED
              BY <6>1, <7>1, RowAdded
          <6> QED
            BY <5>2, <6>2, <6>3
        <5>5. r \in R => R' = R
          BY <5>3
        <5>6. l' = SumOf(R', Amount(receipts'))
          OBVIOUS
        <5> HIDE DEF R, l
        <5>7. CASE r \in R
          BY <1>1, <3>0, <5>4, <5>5, <5>6, <5>7
        <5>8. CASE r \notin R
          BY <1>1, <3>0, <5>3, <5>4, <5>6, <5>8
        <5> QED
          BY <5>7, <5>8
      <4>4. i \notin disturbed' => i \notin disturbed
        BY <1>0
      <4> HIDE DEF S, H, R, s, h, l, a
      <4> QED
        BY <1>1, <1>4, <3>0, <4>1, <4>2, <4>3, <4>4
    <3>5. CASE Die(w)
      <4>1. /\ invoice' = invoice /\ receipts' = receipts /\ i \in disturbed'
            /\ call'[w].stage = "idle"
        BY <1>0, <2>3, <3>5 DEF Die, docVars, On, Ended, NoCall, SubTypeOK
      <4>2. s' = s \/ s' = s + a
        BY <1>2, <3>1, <3>2
      <4>3. H' = H \ {j}
        BY <3>1, <4>1
      <4>4. h' = h \/ (h = h' + a /\ h' \in Nat)
        <5>1. CASE j \in H
          BY <1>2, <3>0, <4>3, <5>1
        <5>2. CASE j \notin H
          <6>1. H' = H
            <7>1. \A A, X, y : y \notin A /\ X = A \ {y} => X = A
              OBVIOUS
            <7> QED
              BY <4>3, <5>2, <7>1, Zenon
          <6> QED
            BY <1>2, <6>1
        <5> QED
          BY <5>1, <5>2
      <4>5. l' = l
        BY <1>3, <4>1
      <4> HIDE DEF S, H, R, s, h, l, a
      <4> QED
        BY <1>1, <1>4, <3>0, <4>1, <4>2, <4>4, <4>5
    <3>6. Writes(w) => AddReceipt(w) \/ InsertReceipt(w)
      BY <2>3 DEF Writes, On, Writing, WriteApproval, WritePayment, InsertInvoice, InsertDepRun,
         UpdateAsset, WriteDisposal
    <3> QED
      BY <2>1, <3>3, <3>4, <3>5, <3>6
  <2> QED
    BY <2>1, <2>2, <2>3
<1> QED
  BY <1>5, <1>6

-----------------------------------------------------------------------------
(***************************************************************************)
(* The depreciation of an asset.                                           *)
(***************************************************************************)

DepNumbers(a) ==
    /\ Values(Credit', Settled("depreciate", a, {"booked", "wrote"}),
              Settled("depreciate", a, {"booked", "wrote"})', Credit)
    /\ Values(Credit', Held("depreciate", a, {"wrote"}), Held("depreciate", a, {"wrote"})', Credit)
    /\ SumOf(Settled("depreciate", a, {"booked", "wrote"}), Credit) \in Nat
    /\ SumOf(Held("depreciate", a, {"wrote"}), Credit) \in Nat
    /\ SumOf(RunsOf(a), Amount(depRuns)) \in Nat
    /\ Rows(RunsOf(a), depRuns)
    /\ asset[a].accum \in Nat

LEMMA DepNumbersHold ==
    ASSUME AnyTotals, SubInv, RecInv, [ThroughLedger]_subVars, SubInv', NEW a \in Assets
    PROVE  DepNumbers(a)
<1>1. Settled("depreciate", a, {"booked", "wrote"}) \subseteq Made("depreciate", a)
  BY DEF Settled
<1>2. Settled("depreciate", a, {"booked", "wrote"})' \subseteq Made("depreciate", a)'
  BY DEF Settled
<1>3. Held("depreciate", a, {"wrote"}) \subseteq Made("depreciate", a)
  BY SpansStages, HeldIn
<1>4. Held("depreciate", a, {"wrote"})' \subseteq Made("depreciate", a)'
  BY SpansStages, HeldInNext
<1>5. Values(Credit', Settled("depreciate", a, {"booked", "wrote"}),
             Settled("depreciate", a, {"booked", "wrote"})', Credit)
  BY <1>1, <1>2, CreditSums
<1>6. Values(Credit', Held("depreciate", a, {"wrote"}), Held("depreciate", a, {"wrote"})', Credit)
  BY <1>3, <1>4, CreditSums
<1>7. /\ SumOf(Settled("depreciate", a, {"booked", "wrote"}), Credit) \in Nat
      /\ SumOf(Held("depreciate", a, {"wrote"}), Credit) \in Nat
  BY <1>5, <1>6 DEF Values
<1>8. IsFiniteSet(depRuns)
      /\ depRuns \subseteq [asset : Assets, period : Months, amount : Nat, journal : Journals]
  BY DEF RecInv, FiniteRows, SubInv, SubTypeOK
<1>9. Rows(RunsOf(a), depRuns)
  BY <1>8, FS_Subset DEF RunsOf, Rows
<1>10. SumOf(RunsOf(a), Amount(depRuns)) \in Nat
  BY <1>9, RowSums
<1>11. asset[a].accum \in Nat
  BY DEF SubInv, SubTypeOK
<1> QED
  BY <1>5, <1>6, <1>7, <1>9, <1>10, <1>11 DEF DepNumbers

LEMMA MonthsNat == \A m \in Months \cup {0} : m \in Nat
<1>1. \A m \in Months : m \in Nat
  BY LedgerAssumption
<1>2. 0 \in Nat
  OBVIOUS
<1> QED
  BY <1>1, <1>2

\* An undisturbed asset has no two runs of a month.
LEMMA NoSecondRun ==
    ASSUME SubInv, RecInv, NEW w \in Workers, InsertDepRun(w), NEW a \in Assets,
           On(w, "depreciate", a), a \notin disturbed
    PROVE  \A r \in RunsOf(a) : r.period # call[w].at
<1> SUFFICES ASSUME NEW r \in RunsOf(a), r.period = call[w].at PROVE FALSE
  OBVIOUS
<1>1. /\ call[w].doc = a /\ call[w].kind = "depreciate" /\ call[w].stage = "booked"
      /\ AssetTidy(a) /\ a \in Docs
  BY DEF On, InsertDepRun, Writing, RecInv, Docs
<1>2. call[w].at > asset[a].last
  BY <1>1 DEF AssetTidy
<1>3. call[w].at \in Nat /\ asset[a].last \in Nat
  BY <1>1, WriterFacts, MonthsNat DEF SubInv, SubTypeOK
<1>4. ~(r.period <= asset[a].last)
  BY <1>2, <1>3
<1>5. \E v \in Workers : call[v].stage = "wrote" /\ call[v].doc = a
  BY <1>1, <1>4 DEF AssetTidy
<1>6. \A v \in Workers : call[v].doc = a => v = w
  BY <1>1 DEF RecInv, Alone
<1> QED
  BY <1>1, <1>5, <1>6

LEMMA RunsElsewhere ==
    ASSUME NEW w \in Workers, Writes(w) \/ Die(w), NEW a, ~On(w, "depreciate", a)
    PROVE  RunsOf(a)' = RunsOf(a) /\ depRuns \subseteq depRuns'
<1>1. \/ depRuns' = depRuns
      \/ /\ call[w].kind = "depreciate"
         /\ depRuns' = depRuns \cup {[asset |-> call[w].doc, period |-> call[w].at,
                                      amount |-> call[w].amount, journal |-> call[w].journal]}
  BY WritesElsewhere DEF Die, docVars, InsertDepRun, Writing
<1> QED
  BY <1>1 DEF RunsOf, On

LEMMA AssetElsewhere ==
    ASSUME SubInv, NEW w \in Workers, Writes(w) \/ Die(w), NEW a \in Assets,
           ~On(w, "depreciate", a), ~On(w, "dispose", a)
    PROVE  asset'[a] = asset[a]
<1>1. CASE UpdateAsset(w) \/ WriteDisposal(w)
  <2>1. call[w].doc # a
    BY <1>1 DEF UpdateAsset, WriteDisposal, Writing, On
  <2> QED
    BY <1>1, <2>1, AssetWritten
<1>2. CASE ~(UpdateAsset(w) \/ WriteDisposal(w))
  BY <1>2, WritesElsewhere DEF Die, docVars
<1> QED
  BY <1>1, <1>2

\* An asset's row after the last statement of its depreciation, or disposal.
LEMMA Updated ==
    ASSUME SubInv, NEW w \in Workers, NEW a \in Assets, On(w, "depreciate", a), UpdateAsset(w)
    PROVE  /\ asset'[a].accum = asset[a].accum + call[w].amount
           /\ asset'[a].book = call[w].seen - call[w].amount
           /\ asset'[a].last = call[w].at /\ asset'[a].status # "disposed"
<1>1. PICK spent \in AtLeast(Salvage[a], call[w].seen - call[w].amount) :
          asset' = [asset EXCEPT ![a] =
                             [status |-> IF spent THEN "fully_depreciated" ELSE "active",
                              book |-> call[w].seen - call[w].amount,
                              accum |-> @.accum + call[w].amount, last |-> call[w].at]]
  BY DEF UpdateAsset, On
<1>2. asset'[a] = [status |-> IF spent THEN "fully_depreciated" ELSE "active",
                   book |-> call[w].seen - call[w].amount,
                   accum |-> asset[a].accum + call[w].amount, last |-> call[w].at]
  BY <1>1 DEF SubInv, SubTypeOK
<1> QED
  BY <1>2

LEMMA Disposed ==
    ASSUME SubInv, NEW w \in Workers, NEW a \in Assets, On(w, "dispose", a), WriteDisposal(w)
    PROVE  /\ asset'[a].accum = asset[a].accum /\ asset'[a].status = "disposed"
           /\ asset'[a].last = asset[a].last
<1>1. asset' = [asset EXCEPT ![a].status = "disposed", ![a].book = 0]
  BY DEF WriteDisposal, On
<1> QED
  BY <1>1 DEF SubInv, SubTypeOK

LEMMA DepSumsStep ==
    ASSUME AnyTotals, SubInv, RecInv, [ThroughLedger]_subVars, SubInv', NEW i \in Assets
    PROVE  DepSums(i)'
<1> DEFINE S == Settled("depreciate", i, {"booked", "wrote"})
           H == Held("depreciate", i, {"wrote"})
           R == RunsOf(i)
           s == SumOf(S, Credit)
           h == SumOf(H, Credit)
           l == SumOf(R, Amount(depRuns))
           x == asset[i].accum
<1>0. /\ DepNumbers(i) /\ DepSums(i) /\ "depreciate" \in Kinds /\ i \in Docs
      /\ disturbed \subseteq disturbed' /\ SubTypeOK
  BY DepNumbersHold, DisturbedGrows DEF RecInv, Kinds, Docs, SubInv
<1>1. /\ s \in Nat /\ h \in Nat /\ l \in Nat /\ x \in Nat
      /\ x <= s /\ (i \notin disturbed => x = s) /\ x + h <= l
  <2>1. s \in Nat /\ h \in Nat /\ l \in Nat /\ x \in Nat
    BY <1>0 DEF DepNumbers
  <2>2. x <= s /\ (i \notin disturbed => x = s) /\ x + h <= l
    BY <1>0 DEF DepSums
  <2> QED
    BY <2>1, <2>2
<1>2. /\ S' = S => s' = s
      /\ \A j : j \notin S /\ S' = S \cup {j} => s' = s + Credit'[j] /\ Credit'[j] \in Nat
      /\ H' = H => h' = h
      /\ \A j : j \notin H /\ H' = H \cup {j} => h' = h + Credit'[j] /\ Credit'[j] \in Nat
      /\ \A j \in H : H' = H \ {j} => h = h' + Credit[j] /\ Credit[j] \in Nat /\ h' \in Nat
  BY <1>0 DEF DepNumbers, Values
<1>3. ASSUME depRuns' = depRuns PROVE l' = l
  BY <1>3 DEF RunsOf
<1>4. ASSUME x' <= s', i \notin disturbed' => x' = s', x' + h' <= l' PROVE DepSums(i)'
  BY <1>4 DEF DepSums
<1>5. CASE \A w \in Workers : ~Writes(w) /\ ~Die(w)
  <2>1. /\ H' = H
        /\ S' = S \/ (i \in disturbed' /\ \E j : j \notin S /\ S' = S \cup {j})
    BY <1>0, <1>5, Quiet, SpansAre
  <2>2. asset' = asset /\ depRuns' = depRuns
    BY <1>5, QuietCalls DEF docVars
  <2>3. h' = h /\ l' = l /\ x' = x
    BY <1>2, <1>3, <2>1, <2>2
  <2>4. s' = s \/ (i \in disturbed' /\ s' \in Nat /\ s' >= s)
    <3>1. CASE S' = S
      BY <1>2, <3>1
    <3>2. ASSUME i \in disturbed', NEW j, j \notin S, S' = S \cup {j}
          PROVE  i \in disturbed' /\ s' \in Nat /\ s' >= s
      <4>1. s' = s + Credit'[j] /\ Credit'[j] \in Nat
        BY <1>2, <3>2
      <4> HIDE DEF s
      <4> QED
        BY <1>1, <3>2, <4>1
    <3> QED
      BY <2>1, <3>1, <3>2
  <2> HIDE DEF S, H, R, s, h, l, x
  <2> QED
    BY <1>0, <1>1, <1>4, <2>2, <2>3, <2>4
<1>6. CASE \E w \in Workers : Writes(w) \/ Die(w)
  <2>1. PICK w \in Workers : Writes(w) \/ Die(w)
    BY <1>6
  <2>2. CASE ~On(w, "depreciate", i)
    <3>1. S' = S /\ H' = H
      BY <2>1, <2>2, EndingElsewhere, SpansAre
    <3>2. s' = s /\ h' = h
      BY <1>2, <3>1
    <3>3. l' = l
      <4>1. R' = R /\ depRuns \subseteq depRuns'
        BY <2>1, <2>2, RunsElsewhere
      <4>2. Rows(R, depRuns) /\ Rows(R, depRuns')
        BY <1>0, <4>1 DEF Rows, DepNumbers
      <4>3. SumOf(R, Amount(depRuns')) = SumOf(R, Amount(depRuns))
        BY <4>2, RowSums
      <4> QED
        BY <4>1, <4>3
    <3>4. x' = x
      <4>1. CASE ~On(w, "dispose", i)
        BY <2>1, <2>2, <4>1, AssetElsewhere
      <4>2. CASE On(w, "dispose", i) /\ WriteDisposal(w)
        BY <4>2, Disposed
      <4>3. CASE On(w, "dispose", i) /\ ~WriteDisposal(w)
        <5>1. ~UpdateAsset(w)
          BY <4>3 DEF UpdateAsset, Writing, On
        <5> QED
          BY <2>1, <4>3, <5>1, WritesElsewhere DEF Die, docVars
      <4> QED
        BY <4>1, <4>2, <4>3
    <3> HIDE DEF S, H, R, s, h, l, x
    <3> QED
      BY <1>0, <1>1, <1>4, <3>2, <3>3, <3>4
  <2>3. CASE On(w, "depreciate", i)
    <3> DEFINE j == call[w].journal
               a == call[w].amount
    <3>0. /\ a \in Nat /\ j \in Made("depreciate", i) /\ j \in Journals
          /\ Credit[j] = a /\ call[w].stage \in {"booked", "wrote"}
      <4>1. /\ call[w].stage \in {"booked", "wrote"} /\ a \in Nat /\ j \in Journals
            /\ j \in Made("depreciate", i)
        BY <2>1, <2>3, Ending, WriterFacts, EndingHere
      <4>2. totals[j].credit = a
        BY <2>3, <4>1 DEF RecInv, Priced, CallPriced, Past, On
      <4> HIDE DEF j, a
      <4> QED
        BY <4>1, <4>2 DEF Credit
    <3>1. /\ call'[w].stage = "idle" => j \notin S /\ S' = S \cup {j}
          /\ call'[w].stage = "wrote" => S' = S
          /\ call'[w].stage = "wrote" => H' = H \cup {j}
          /\ call'[w].stage # "wrote" => H' = H \ {j}
          /\ j \in H <=> call[w].stage = "wrote"
      <4>2. call'[w].stage = "idle" => j \notin S /\ S' = S \cup {j}
        BY <2>1, <2>3, EndingBoth
      <4>3. call'[w].stage = "wrote" => S' = S
        BY <2>1, <2>3, EndingBoth
      <4>4. call'[w].stage = "wrote" => H' = H \cup {j}
        BY <2>1, <2>3, EndingHere
      <4>5. call'[w].stage # "wrote" => H' = H \ {j}
        BY <2>1, <2>3, EndingHere
      <4>6. j \in H <=> call[w].stage = "wrote"
        BY <2>1, <2>3, EndingHere
      <4> QED
        BY <4>2, <4>3, <4>4, <4>5, <4>6
    <3>2. Credit'[j] = a
      <4>1. totals' = totals
        BY <2>1, Ending DEF ledgerVars
      <4> QED
        BY <3>0, <4>1 DEF Credit
    <3>7. i \notin disturbed' => i \notin disturbed
      BY <1>0
    <3>8. ASSUME call[w].stage = "booked", call'[w].stage = "idle"
          PROVE  s' = s + a /\ h' = h
      <4>1. H' = H \ {j} /\ j \notin H
        BY <3>1, <3>8
      <4>2. H' = H
        <5>1. \A A, X, y : y \notin A /\ X = A \ {y} => X = A
          OBVIOUS
        <5> QED
          BY <4>1, <5>1, Zenon
      <4> QED
        BY <1>2, <3>1, <3>2, <3>8, <4>2
    <3>9. ASSUME call[w].stage = "wrote", call'[w].stage = "idle"
          PROVE  s' = s + a /\ h = h' + a /\ h' \in Nat
      BY <1>2, <3>0, <3>1, <3>2, <3>9
    <3>3. CASE InsertDepRun(w) /\ ~ \E r \in RunsOf(i) : r.period = call[w].at
      <4> DEFINE r == [asset |-> i, period |-> call[w].at, amount |-> a, journal |-> j]
      <4>1. depRuns' = depRuns \cup {r} /\ call'[w].stage = "wrote" /\ call[w].stage = "booked"
        BY <1>0, <2>3, <3>3 DEF InsertDepRun, On, Writing, SubTypeOK
      <4>2. r \in depRuns' /\ r.amount = a /\ r.asset = i /\ r.period = call[w].at
        BY <4>1
      <4>3. asset' = asset
        BY <3>3 DEF InsertDepRun
      <4>4. s' = s /\ h' = h + a
        BY <1>2, <3>1, <3>2, <4>1
      <4> HIDE DEF r, a, j
      <4>5. R' = R \cup {r} /\ R \subseteq depRuns' /\ r \notin R
        BY <3>3, <4>1, <4>2 DEF RunsOf
      <4>6. Rows(R, depRuns) /\ Rows(R, depRuns')
        BY <1>0, <4>5 DEF DepNumbers, Rows
      <4>7. l' = l + a
        <5>1. r \in depRuns' /\ r.amount \in Nat
          BY <3>0, <4>2
        <5> HIDE DEF R
        <5>2. SumOf(R \cup {r}, Amount(depRuns')) = SumOf(R, Amount(depRuns)) + r.amount
          BY <4>5, <4>6, <5>1, RowAdded
        <5> QED
          BY <4>2, <4>5, <5>2
      <4>8. x' = x
        BY <4>3
      <4> HIDE DEF S, H, R, s, h, l, x
      <4> QED
        BY <1>1, <1>4, <3>0, <3>7, <4>4, <4>7, <4>8
    <3>4. CASE InsertDepRun(w) /\ \E r \in RunsOf(i) : r.period = call[w].at
      <4>1. depRuns' = depRuns /\ call'[w].stage = "idle" /\ call[w].stage = "booked"
        BY <1>0, <2>3, <3>4 DEF InsertDepRun, On, Writing, SubTypeOK, Ended, NoCall
      <4>2. i \in disturbed
        BY <2>3, <3>4, NoSecondRun
      <4>3. x' = x /\ l' = l
        BY <1>3, <3>4, <4>1 DEF InsertDepRun
      <4>4. s' = s + a /\ h' = h
        BY <3>8, <4>1
      <4> HIDE DEF S, H, R, s, h, l, x, a
      <4> QED
        BY <1>1, <1>4, <3>0, <3>7, <4>2, <4>3, <4>4
    <3>5. CASE UpdateAsset(w)
      <4>1. depRuns' = depRuns /\ call'[w].stage = "idle" /\ call[w].stage = "wrote"
        BY <1>0, <2>3, <3>5 DEF UpdateAsset, On, Writing, SubTypeOK, Ended, NoCall
      <4>2. x' = x + a /\ l' = l
        BY <1>3, <2>3, <3>5, <4>1, Updated
      <4>3. s' = s + a /\ h = h' + a /\ h' \in Nat
        BY <3>9, <4>1
      <4> HIDE DEF S, H, R, s, h, l, x, a
      <4> QED
        <5>1. a \in Nat
          BY <3>0
        <5>2. x' <= s'
          <6>1. x \in Nat /\ s \in Nat /\ x <= s
            BY <1>1
          <6> QED
            BY <4>2, <4>3, <5>1, <6>1
        <5>4. x' + h' <= l'
          <6>1. x \in Nat /\ h \in Nat /\ l \in Nat /\ x + h <= l
            BY <1>1
          <6>2. \A b, p, q, u \in Nat : p + (q + b) <= u => (p + b) + q <= u
            OBVIOUS
          <6>3. (x + a) + h' <= l
            BY <4>3, <5>1, <6>1, <6>2
          <6> QED
            BY <4>2, <6>3
        <5>3. i \notin disturbed' => x' = s'
          BY <1>1, <3>7, <4>2, <4>3
        <5> QED
          BY <1>4, <5>2, <5>3, <5>4
    <3>6. CASE Die(w)
      <4>1. /\ depRuns' = depRuns /\ asset' = asset /\ i \in disturbed'
            /\ call'[w].stage = "idle"
        BY <1>0, <2>3, <3>6 DEF Die, docVars, On, Ended, NoCall, SubTypeOK
      <4>2. x' = x /\ l' = l
        BY <1>3, <4>1
      <4>3. s' = s + a /\ (h' = h \/ (h = h' + a /\ h' \in Nat))
        BY <3>0, <3>8, <3>9, <4>1
      <4> HIDE DEF S, H, R, s, h, l, x, a
      <4> QED
        BY <1>1, <1>4, <3>0, <4>1, <4>2, <4>3
    <3>10. Writes(w) => InsertDepRun(w) \/ UpdateAsset(w)
      BY <2>3 DEF Writes, On, Writing, WriteApproval, WritePayment, InsertInvoice, AddReceipt,
         InsertReceipt, WriteDisposal
    <3> QED
      BY <2>1, <3>3, <3>4, <3>5, <3>6, <3>10
  <2> QED
    BY <2>1, <2>2, <2>3
<1> QED
  BY <1>5, <1>6

-----------------------------------------------------------------------------
-----------------------------------------------------------------------------
(* The calls on one document.                                              *)

Same(v) ==
    /\ call'[v].kind = call[v].kind /\ call'[v].doc = call[v].doc
    /\ call'[v].at = call[v].at /\ call'[v].seen = call[v].seen

LEMMA CallsOn ==
    ASSUME SubInv, [ThroughLedger]_subVars, NEW d \in Docs, NEW v \in Workers, call'[v].doc = d
    PROVE  Same(v) \/ (Sees(call'[v]) /\ Fits(call'[v]) /\ UNCHANGED docVars)
<1>0. NoJournal # d
  BY SubLedgerAssumption
<1>1. ASSUME NEW w \in Workers, CallStep(w) PROVE Same(v)
  <2>1. CASE v # w
    BY <1>1, <2>1, CallFields DEF Same
  <2>2. CASE v = w
    <3>1. call'[w] # NoCall
      BY <1>0, <2>2 DEF NoCall
    <3>2. GoesOn(w)
      BY <1>1, <3>1, CallFields
    <3> QED
      BY <2>2, <3>2 DEF GoesOn, Same
  <2> QED
    BY <2>1, <2>2
<1>2. ASSUME NEW w \in Workers, BeginsCall(w)
      PROVE  Same(v) \/ (Sees(call'[v]) /\ Fits(call'[v]) /\ UNCHANGED docVars)
  <2>1. CASE v # w
    BY <1>2, <2>1, BeginsFrame DEF Same
  <2>2. CASE v = w
    BY <1>2, <2>2, BeginsFrame, CallSees
  <2> QED
    BY <2>1, <2>2
<1>3. CASE UNCHANGED call
  BY <1>3 DEF Same
<1> QED
  BY <1>1, <1>2, <1>3, Cases DEF PageStep, subVars

\* An undisturbed document has no call left once its call has ended.
LEMMA NoneLeft ==
    ASSUME AnyTotals, SubInv, RecInv, NEW w \in Workers, Writes(w), Ended(w),
           NEW d \in Docs, d \notin disturbed, call[w].doc = d
    PROVE  \A v \in Workers : call'[v].doc # d
<1>1. call'[w] = NoCall /\ \A v \in Workers \ {w} : call'[v] = call[v]
  BY DEF Ended, SubInv, SubTypeOK
<1>2. \A v \in Workers : call[v].doc = d => v = w
  BY DEF RecInv, Alone
<1>3. NoCall.doc # d
  BY SubLedgerAssumption DEF NoCall
<1> QED
  BY <1>1, <1>2, <1>3

\* Its call is the only one.
LEMMA OnlyOne ==
    ASSUME RecInv, NEW w \in Workers, NEW d \in Docs, d \notin disturbed, call[w].doc = d
    PROVE  \A v \in Workers : call[v].doc = d => v = w
  BY DEF RecInv, Alone

\* The calls that write stand still while nobody writes.
LEMMA QuietWriters ==
    ASSUME SubInv, RecInv, [ThroughLedger]_subVars,
           \A w \in Workers : ~Writes(w) /\ ~Die(w)
    PROVE  \A v \in Workers : call[v].stage \in {"booked", "wrote"} => call'[v] = call[v]
<1>1. ASSUME NEW w \in Workers, Posts(w), NEW v \in Workers, call[v].stage \in {"booked", "wrote"}
      PROVE  call'[v] = call[v]
  <2>1. call[w].stage = "checked" /\ CallStep(w)
    BY <1>1, PostsEffect DEF Posts, CallStep
  <2> QED
    BY <1>1, <2>1, CallFields
<1> QED
  BY <1>1, QuietCalls

-----------------------------------------------------------------------------
BillSettled(b) ==
    /\ Settled("approve", b, {"booked"})
           = IF bill[b].status = "pending" THEN {} ELSE {bill[b].journal}
    /\ Settled("pay", b, {"booked"})
           = IF bill[b].status = "paid" THEN {bill[b].payment} ELSE {}

BillCalls(b) ==
    \A w \in Workers : call[w].doc = b =>
        /\ call[w].kind = "approve" => bill[b].status = "pending"
        /\ call[w].kind = "pay" => bill[b].status = "approved"

LEMMA BillSplit == \A b : BillTidy(b) <=> (b \notin disturbed => BillCalls(b) /\ BillSettled(b))
  BY DEF BillTidy, BillCalls, BillSettled

LEMMA BillSplitNext ==
    \A b : BillTidy(b)' <=> (b \notin disturbed' => BillCalls(b)' /\ BillSettled(b)')
  BY DEF BillTidy, BillCalls, BillSettled

LEMMA BillTidyStep ==
    ASSUME AnyTotals, SubInv, RecInv, [ThroughLedger]_subVars, NEW b \in Bills
    PROVE  BillTidy(b)'
<1> SUFFICES ASSUME b \notin disturbed' PROVE BillCalls(b)' /\ BillSettled(b)'
  BY BillSplitNext
<1>0. /\ b \notin disturbed /\ b \in Docs /\ "approve" \in Kinds /\ "pay" \in Kinds
      /\ BillCalls(b) /\ BillSettled(b)
  BY DisturbedGrows, BillSplit DEF RecInv, Docs, Kinds
<1>1. ASSUME bill'[b] = bill[b] PROVE BillCalls(b)'
  <2> SUFFICES ASSUME NEW v \in Workers, call'[v].doc = b
               PROVE  /\ call'[v].kind = "approve" => bill'[b].status = "pending"
                      /\ call'[v].kind = "pay" => bill'[b].status = "approved"
    BY DEF BillCalls
  <2>1. CASE Same(v)
    BY <1>0, <1>1, <2>1 DEF Same, BillCalls
  <2>2. CASE Sees(call'[v])
    BY <1>1, <2>2 DEF Sees
  <2> QED
    BY <1>0, <2>1, <2>2, CallsOn
<1>2. ASSUME bill'[b] = bill[b],
             Settled("approve", b, {"booked"})' = Settled("approve", b, {"booked"}),
             Settled("pay", b, {"booked"})' = Settled("pay", b, {"booked"})
      PROVE  BillCalls(b)' /\ BillSettled(b)'
  BY <1>0, <1>1, <1>2 DEF BillSettled
<1>3. CASE \A w \in Workers : ~Writes(w) /\ ~Die(w)
  <2>1. /\ Settled("approve", b, {"booked"})' = Settled("approve", b, {"booked"})
        /\ Settled("pay", b, {"booked"})' = Settled("pay", b, {"booked"})
    BY <1>0, <1>3, Quiet, SpansAre
  <2>2. bill'[b] = bill[b]
    BY <1>3, QuietCalls DEF docVars
  <2> QED
    BY <1>2, <2>1, <2>2
<1>4. ASSUME NEW w \in Workers, Writes(w) \/ Die(w)
      PROVE  BillCalls(b)' /\ BillSettled(b)'
  <2>1. CASE call[w].doc # b
    <3>1. ~On(w, "approve", b) /\ ~On(w, "pay", b)
      BY <2>1 DEF On
    <3>2. Settled("approve", b, {"booked"})' = Settled("approve", b, {"booked"})
      BY <1>4, <3>1, EndingElsewhere, SpansAre
    <3>3. Settled("pay", b, {"booked"})' = Settled("pay", b, {"booked"})
      BY <1>4, <3>1, EndingElsewhere, SpansAre
    <3>4. bill'[b] = bill[b]
      <4>1. CASE WriteApproval(w) \/ WritePayment(w)
        BY <2>1, <4>1, BillWritten
      <4>2. CASE ~(WriteApproval(w) \/ WritePayment(w))
        BY <1>4, <4>2, WritesElsewhere DEF Die, docVars
      <4> QED
        BY <4>1, <4>2
    <3> QED
      BY <1>2, <3>2, <3>3, <3>4
  <2>2. CASE call[w].doc = b
    <3>1. Writes(w)
      BY <1>4, <2>2, Ending
    <3>2. call[w].kind \in {"approve", "pay"} /\ call[w].stage \in {"booked", "wrote"}
      <4>1. Fits(call[w]) /\ call[w].stage \in {"booked", "wrote"}
        BY <3>1, WriterFacts, WritesOnly
      <4>2. b \notin Invoices /\ b \notin Assets
        BY SubLedgerAssumption
      <4> QED
        BY <2>2, <4>1, <4>2 DEF Fits, Kinds
    <3>3. CASE WriteApproval(w)
      <4>1. /\ call[w].kind = "approve" /\ call[w].stage = "booked" /\ Ended(w)
            /\ On(w, "approve", b) /\ ~On(w, "pay", b)
        BY <2>2, <3>3 DEF WriteApproval, Writing, On
      <4>2. /\ bill'[b].status = "approved" /\ bill'[b].journal = call[w].journal
            /\ bill'[b].payment = bill[b].payment
        BY <2>2, <3>3 DEF WriteApproval, SubInv, SubTypeOK
      <4>3. bill[b].status = "pending"
        BY <1>0, <2>2, <4>1 DEF BillCalls
      <4>4. Settled("approve", b, {"booked"})'
                = Settled("approve", b, {"booked"}) \cup {call[w].journal}
        BY <3>1, <4>1, EndingBooked
      <4>5. Settled("pay", b, {"booked"})' = Settled("pay", b, {"booked"})
        BY <3>1, <4>1, EndingElsewhere, SpansAre
      <4>6. /\ Settled("approve", b, {"booked"}) = {} /\ Settled("pay", b, {"booked"}) = {}
        BY <1>0, <4>3 DEF BillSettled
      <4>7. Settled("approve", b, {"booked"})' = {call[w].journal}
        BY <4>4, <4>6
      <4>8. BillSettled(b)'
        BY <4>2, <4>5, <4>6, <4>7 DEF BillSettled
      <4>9. BillCalls(b)'
        BY <1>0, <2>2, <3>1, <4>1, NoneLeft DEF BillCalls
      <4> QED
        BY <4>8, <4>9
    <3>4. CASE WritePayment(w)
      <4>1. /\ call[w].kind = "pay" /\ call[w].stage = "booked" /\ Ended(w)
            /\ On(w, "pay", b) /\ ~On(w, "approve", b)
        BY <2>2, <3>4 DEF WritePayment, Writing, On
      <4>2. /\ bill'[b].status = "paid" /\ bill'[b].journal = bill[b].journal
            /\ bill'[b].payment = call[w].journal
        BY <2>2, <3>4 DEF WritePayment, SubInv, SubTypeOK
      <4>3. bill[b].status = "approved"
        BY <1>0, <2>2, <4>1 DEF BillCalls
      <4>4. Settled("pay", b, {"booked"})' = Settled("pay", b, {"booked"}) \cup {call[w].journal}
        BY <3>1, <4>1, EndingBooked
      <4>5. Settled("approve", b, {"booked"})' = Settled("approve", b, {"booked"})
        BY <3>1, <4>1, EndingElsewhere, SpansAre
      <4>6. /\ Settled("approve", b, {"booked"}) = {bill[b].journal}
            /\ Settled("pay", b, {"booked"}) = {}
        BY <1>0, <4>3 DEF BillSettled
      <4>7. Settled("pay", b, {"booked"})' = {call[w].journal}
        BY <4>4, <4>6
      <4>8. BillSettled(b)'
        BY <4>2, <4>5, <4>6, <4>7 DEF BillSettled
      <4>9. BillCalls(b)'
        BY <1>0, <2>2, <3>1, <4>1, NoneLeft DEF BillCalls
      <4> QED
        BY <4>8, <4>9
    <3> QED
      BY <3>1, <3>2, <3>3, <3>4 DEF Writes, Writing, InsertInvoice, AddReceipt, InsertReceipt,
         InsertDepRun, UpdateAsset, WriteDisposal
  <2> QED
    BY <2>1, <2>2
<1> QED
  BY <1>3, <1>4

LEMMA InvoiceTidyStep ==
    ASSUME AnyTotals, SubInv, RecInv, [ThroughLedger]_subVars, NEW i \in Invoices
    PROVE  InvoiceTidy(i)'
<1> DEFINE S == Settled("raise", i, {"booked"})
<1> SUFFICES ASSUME i \notin disturbed'
             PROVE  S' = IF invoice'[i].status = "none" THEN {} ELSE {invoice'[i].journal}
  BY DEF InvoiceTidy
<1>0. /\ i \notin disturbed /\ i \in Docs /\ "raise" \in Kinds
      /\ S = IF invoice[i].status = "none" THEN {} ELSE {invoice[i].journal}
  BY DisturbedGrows DEF RecInv, InvoiceTidy, Docs, Kinds
<1>1. CASE \A w \in Workers : ~Writes(w) /\ ~Die(w)
  <2>1. S' = S
    BY <1>0, <1>1, Quiet, SpansAre
  <2>2. invoice' = invoice
    BY <1>1, QuietCalls DEF docVars
  <2> HIDE DEF S
  <2> QED
    BY <1>0, <2>1, <2>2
<1>2. ASSUME NEW w \in Workers, Writes(w) \/ Die(w)
      PROVE  S' = IF invoice'[i].status = "none" THEN {} ELSE {invoice'[i].journal}
  <2>1. CASE ~On(w, "raise", i)
    <3>1. S' = S
      BY <1>2, <2>1, EndingElsewhere, SpansAre
    <3>2. /\ invoice'[i].journal = invoice[i].journal
          /\ invoice'[i].status = "none" <=> invoice[i].status = "none"
      <4>1. CASE (InsertInvoice(w) \/ AddReceipt(w)) /\ call[w].doc # i
        BY <4>1, InvoiceWritten
      <4>2. CASE AddReceipt(w) /\ call[w].doc = i
        <5>1. Receiving(w, i) /\ ~Raising(w, i)
          BY <4>2 DEF AddReceipt, Writing, Receiving, Raising
        <5>2. invoice[i].status # "none"
          BY <5>1 DEF SubInv, DocInv, InvoiceInv
        <5> QED
          BY <4>2, <5>1, <5>2, InvoiceWritten
      <4>3. CASE ~(InsertInvoice(w) \/ AddReceipt(w))
        BY <1>2, <4>3, WritesElsewhere DEF Die, docVars
      <4>4. ~(InsertInvoice(w) /\ call[w].doc = i)
        BY <2>1 DEF InsertInvoice, Writing, On
      <4> QED
        BY <4>1, <4>2, <4>3, <4>4
    <3> HIDE DEF S
    <3> QED
      BY <1>0, <3>1, <3>2
  <2>2. CASE On(w, "raise", i)
    <3>1. Writes(w)
      BY <1>2, <2>2, Ending DEF On
    <3>2. InsertInvoice(w) /\ call[w].stage = "booked"
      BY <2>2, <3>1 DEF On, Writes, Writing, WriteApproval, WritePayment, AddReceipt,
         InsertReceipt, InsertDepRun, UpdateAsset, WriteDisposal, InsertInvoice
    <3>3. invoice'[i].status = "outstanding" /\ invoice'[i].journal = call[w].journal
      BY <2>2, <3>2 DEF InsertInvoice, SubInv, SubTypeOK, On
    <3>4. Raising(w, i)
      BY <2>2, <3>2 DEF Raising, On
    <3>5. invoice[i].status = "none"
      BY <3>4 DEF SubInv, DocInv, InvoiceInv
    <3>6. S' = S \cup {call[w].journal}
      BY <2>2, <3>1, <3>2, EndingBooked
    <3> HIDE DEF S
    <3> QED
      BY <1>0, <3>3, <3>5, <3>6
  <2> QED
    BY <2>1, <2>2
<1> QED
  BY <1>1, <1>2

-----------------------------------------------------------------------------
(***************************************************************************)
(* An asset and its one call.                                              *)
(***************************************************************************)

AssetCalls(a) ==
    \A w \in Workers : call[w].doc = a =>
        /\ asset[a].status # "disposed"
        /\ call[w].kind = "depreciate" => /\ call[w].seen = asset[a].book
                                          /\ call[w].at > asset[a].last

AssetDisposed(a) ==
    /\ asset[a].status # "disposed" => /\ Settled("dispose", a, {"booked"}) = {}
                                       /\ asset[a].book + asset[a].accum = Cost[a]
    /\ asset[a].status = "disposed" => \E j \in Journals : Settled("dispose", a, {"booked"}) = {j}

AssetCounted(a) ==
    Cardinality(Settled("depreciate", a, {"booked"})) = Cardinality(RunsOf(a))

AssetRuns(a) ==
    \A r \in RunsOf(a) :
        \/ r.period <= asset[a].last
        \/ \E w \in Workers : /\ call[w].stage = "wrote" /\ call[w].kind = "depreciate"
                              /\ call[w].doc = a /\ call[w].at = r.period

AssetFour(a) == AssetCalls(a) /\ AssetDisposed(a) /\ AssetCounted(a) /\ AssetRuns(a)

LEMMA AssetSplit == \A a : AssetTidy(a) <=> (a \notin disturbed => AssetFour(a))
  BY DEF AssetTidy, AssetFour, AssetCalls, AssetDisposed, AssetCounted, AssetRuns

LEMMA AssetSplitNext == \A a : AssetTidy(a)' <=> (a \notin disturbed' => AssetFour(a)')
  BY DEF AssetTidy, AssetFour, AssetCalls, AssetDisposed, AssetCounted, AssetRuns

\* A step that leaves the asset's row, its runs and what it has settled.
LEMMA AssetRests ==
    ASSUME SubInv, RecInv, [ThroughLedger]_subVars, NEW a \in Assets, AssetFour(a),
           asset'[a] = asset[a], RunsOf(a)' = RunsOf(a),
           Settled("dispose", a, {"booked"})' = Settled("dispose", a, {"booked"}),
           Settled("depreciate", a, {"booked"})' = Settled("depreciate", a, {"booked"}),
           \A v \in Workers : call[v].stage = "wrote" /\ call[v].doc = a => call'[v] = call[v]
    PROVE  AssetFour(a)'
<1>0. a \in Docs /\ AssetCalls(a) /\ AssetDisposed(a) /\ AssetCounted(a) /\ AssetRuns(a)
  BY DEF Docs, AssetFour
<1>1. AssetCalls(a)'
  <2> SUFFICES ASSUME NEW v \in Workers, call'[v].doc = a
               PROVE  /\ asset'[a].status # "disposed"
                      /\ call'[v].kind = "depreciate" => /\ call'[v].seen = asset'[a].book
                                                         /\ call'[v].at > asset'[a].last
    BY DEF AssetCalls
  <2>1. CASE Same(v)
    BY <1>0, <2>1 DEF Same, AssetCalls
  <2>2. CASE Sees(call'[v]) /\ Fits(call'[v])
    <3>1. a \notin Bills /\ a \notin Invoices
      BY SubLedgerAssumption
    <3>2. call'[v].kind \in {"depreciate", "dispose"}
      BY <2>2, <3>1 DEF Fits, Kinds
    <3> QED
      BY <2>2, <3>2 DEF Sees
  <2> QED
    BY <1>0, <2>1, <2>2, CallsOn
<1>2. AssetDisposed(a)'
  BY <1>0 DEF AssetDisposed
<1>3. AssetCounted(a)'
  BY <1>0 DEF AssetCounted
<1>4. AssetRuns(a)'
  BY <1>0 DEF AssetRuns
<1> QED
  BY <1>1, <1>2, <1>3, <1>4 DEF AssetFour

LEMMA AssetTidyStep ==
    ASSUME AnyTotals, SubInv, RecInv, [ThroughLedger]_subVars, NEW a \in Assets
    PROVE  AssetTidy(a)'
<1> SUFFICES ASSUME a \notin disturbed' PROVE AssetFour(a)'
  BY AssetSplitNext
<1>0. /\ a \notin disturbed /\ a \in Docs /\ "dispose" \in Kinds /\ "depreciate" \in Kinds
      /\ AssetFour(a)
  BY DisturbedGrows, AssetSplit DEF RecInv, Docs, Kinds
<1>00. AssetCalls(a) /\ AssetDisposed(a) /\ AssetCounted(a) /\ AssetRuns(a)
  BY <1>0 DEF AssetFour
<1>1. CASE \A w \in Workers : ~Writes(w) /\ ~Die(w)
  <2>1. /\ Settled("dispose", a, {"booked"})' = Settled("dispose", a, {"booked"})
        /\ Settled("depreciate", a, {"booked"})' = Settled("depreciate", a, {"booked"})
    BY <1>0, <1>1, Quiet, SpansAre
  <2>2. asset'[a] = asset[a] /\ RunsOf(a)' = RunsOf(a)
    BY <1>1, QuietCalls DEF docVars, RunsOf
  <2>3. \A v \in Workers : call[v].stage = "wrote" /\ call[v].doc = a => call'[v] = call[v]
    BY <1>1, QuietWriters
  <2> QED
    BY <1>0, <2>1, <2>2, <2>3, AssetRests
<1>2. ASSUME NEW w \in Workers, Writes(w) \/ Die(w) PROVE AssetFour(a)'
  <2>1. CASE call[w].doc # a
    <3>1. ~On(w, "dispose", a) /\ ~On(w, "depreciate", a)
      BY <2>1 DEF On
    <3>2. Settled("dispose", a, {"booked"})' = Settled("dispose", a, {"booked"})
      BY <1>2, <3>1, EndingElsewhere, SpansAre
    <3>3. Settled("depreciate", a, {"booked"})' = Settled("depreciate", a, {"booked"})
      BY <1>2, <3>1, EndingElsewhere, SpansAre
    <3>4. asset'[a] = asset[a] /\ RunsOf(a)' = RunsOf(a)
      BY <1>2, <3>1, AssetElsewhere, RunsElsewhere
    <3>5. \A v \in Workers : call[v].stage = "wrote" /\ call[v].doc = a => call'[v] = call[v]
      BY <1>2, <2>1, Ending
    <3> QED
      BY <1>0, <3>2, <3>3, <3>4, <3>5, AssetRests
  <2>2. CASE call[w].doc = a
    <3>1. Writes(w) /\ call[w].journal \in Journals
      BY <1>2, <2>2, Ending
    <3>2. /\ call[w].kind \in {"depreciate", "dispose"} /\ call[w].stage \in {"booked", "wrote"}
          /\ Fits(call[w]) /\ call[w].amount \in Nat /\ call[w].seen \in Nat
          /\ call[w].at \in Months
      <4>1. /\ Fits(call[w]) /\ call[w].stage \in {"booked", "wrote"}
            /\ call[w].amount \in Nat /\ call[w].seen \in Nat /\ call[w].at \in Months
        BY <3>1, WriterFacts, WritesOnly
      <4>2. a \notin Invoices /\ a \notin Bills
        BY SubLedgerAssumption
      <4> QED
        BY <2>2, <4>1, <4>2 DEF Fits, Kinds
    <3>3. \A v \in Workers : call[v].doc = a => v = w
      BY <1>0, <2>2, OnlyOne
    <3>4. /\ asset[a].status # "disposed"
          /\ Settled("dispose", a, {"booked"}) = {}
          /\ asset[a].book + asset[a].accum = Cost[a]
      BY <1>00, <2>2 DEF AssetCalls, AssetDisposed
    <3>5. asset[a].book \in Nat /\ asset[a].accum \in Nat
      BY DEF SubInv, SubTypeOK
    <3>6. CASE UpdateAsset(w)
      <4>1. /\ call[w].kind = "depreciate" /\ call[w].stage = "wrote" /\ Ended(w)
            /\ On(w, "depreciate", a) /\ ~On(w, "dispose", a) /\ depRuns' = depRuns
        BY <2>2, <3>6 DEF UpdateAsset, Writing, On
      <4>2. /\ asset'[a].accum = asset[a].accum + call[w].amount
            /\ asset'[a].book = call[w].seen - call[w].amount
            /\ asset'[a].last = call[w].at /\ asset'[a].status # "disposed"
        BY <3>6, <4>1, Updated
      <4>3. call[w].seen = asset[a].book /\ call[w].at > asset[a].last
        BY <1>00, <2>2, <4>1 DEF AssetCalls
      <4>4. AssetCalls(a)'
        BY <1>0, <2>2, <3>1, <4>1, NoneLeft DEF AssetCalls
      <4>5. AssetDisposed(a)'
        <5>1. Settled("dispose", a, {"booked"})' = Settled("dispose", a, {"booked"})
          BY <3>1, <4>1, EndingElsewhere, SpansAre
        <5>2. asset'[a].book + asset'[a].accum = Cost[a]
          BY <3>2, <3>4, <3>5, <4>2, <4>3
        <5> QED
          BY <3>4, <4>2, <5>1, <5>2 DEF AssetDisposed
      <4>6. AssetCounted(a)'
        <5>1. Settled("depreciate", a, {"booked"})' = Settled("depreciate", a, {"booked"})
          BY <3>1, <4>1, EndingBooked
        <5>2. RunsOf(a)' = RunsOf(a)
          BY <4>1 DEF RunsOf
        <5> QED
          BY <1>00, <5>1, <5>2 DEF AssetCounted
      <4>7. AssetRuns(a)'
        <5> SUFFICES ASSUME NEW r \in RunsOf(a)' PROVE r.period <= asset'[a].last
          BY DEF AssetRuns
        <5>1. r \in RunsOf(a) /\ r \in depRuns
          BY <4>1 DEF RunsOf
        <5>2. r.period <= asset[a].last \/ call[w].at = r.period
          BY <1>00, <3>3, <5>1 DEF AssetRuns
        <5>3. r.period \in Nat /\ call[w].at \in Nat /\ asset[a].last \in Nat
          <6>1. r.period \in Months /\ asset[a].last \in Months \cup {0}
            BY <5>1 DEF SubInv, SubTypeOK
          <6> QED
            BY <3>2, <6>1, MonthsNat
        <5> QED
          BY <4>2, <4>3, <5>2, <5>3
      <4> QED
        BY <4>4, <4>5, <4>6, <4>7 DEF AssetFour
    <3>7. CASE WriteDisposal(w)
      <4>1. /\ call[w].kind = "dispose" /\ call[w].stage = "booked" /\ Ended(w)
            /\ On(w, "dispose", a) /\ ~On(w, "depreciate", a) /\ depRuns' = depRuns
        BY <2>2, <3>7 DEF WriteDisposal, Writing, On
      <4>2. /\ asset'[a].accum = asset[a].accum /\ asset'[a].status = "disposed"
            /\ asset'[a].last = asset[a].last
        BY <3>7, <4>1, Disposed
      <4>4. AssetCalls(a)'
        BY <1>0, <2>2, <3>1, <4>1, NoneLeft DEF AssetCalls
      <4>5. AssetDisposed(a)'
        <5>1. Settled("dispose", a, {"booked"})'
                  = Settled("dispose", a, {"booked"}) \cup {call[w].journal}
          BY <3>1, <4>1, EndingBooked
        <5>2. Settled("dispose", a, {"booked"})' = {call[w].journal}
          BY <3>4, <5>1
        <5> QED
          BY <3>1, <4>2, <5>2 DEF AssetDisposed
      <4>6. AssetCounted(a)'
        <5>1. Settled("depreciate", a, {"booked"})' = Settled("depreciate", a, {"booked"})
          BY <3>1, <4>1, EndingElsewhere, SpansAre
        <5>2. RunsOf(a)' = RunsOf(a)
          BY <4>1 DEF RunsOf
        <5> QED
          BY <1>00, <5>1, <5>2 DEF AssetCounted
      <4>7. AssetRuns(a)'
        <5> SUFFICES ASSUME NEW r \in RunsOf(a)' PROVE r.period <= asset'[a].last
          BY DEF AssetRuns
        <5>1. r \in RunsOf(a)
          BY <4>1 DEF RunsOf
        <5>2. r.period <= asset[a].last
          BY <1>00, <3>3, <4>1, <5>1 DEF AssetRuns
        <5> QED
          BY <4>2, <5>2
      <4> QED
        BY <4>4, <4>5, <4>6, <4>7 DEF AssetFour
    <3>8. CASE InsertDepRun(w)
      <4> DEFINE r == [asset |-> a, period |-> call[w].at, amount |-> call[w].amount,
                       journal |-> call[w].journal]
      <4>1. /\ call[w].kind = "depreciate" /\ call[w].stage = "booked"
            /\ On(w, "depreciate", a) /\ ~On(w, "dispose", a) /\ asset' = asset
        BY <2>2, <3>8 DEF InsertDepRun, Writing, On
      <4>2. \A q \in RunsOf(a) : q.period # call[w].at
        BY <1>0, <3>8, <4>1, NoSecondRun
      <4>3. depRuns' = depRuns \cup {r} /\ call' = [call EXCEPT ![w].stage = "wrote"]
        BY <2>2, <3>8, <4>2 DEF InsertDepRun
      <4>4. /\ call'[w].stage = "wrote" /\ GoesOn(w)
            /\ \A v \in Workers \ {w} : call'[v] = call[v]
        BY <4>1, <4>3, CallMoved DEF SubInv, GoesOn
      <4>5. AssetCalls(a)'
        <5> SUFFICES ASSUME NEW v \in Workers, call'[v].doc = a
                     PROVE  /\ asset'[a].status # "disposed"
                            /\ call'[v].kind = "depreciate" => /\ call'[v].seen = asset'[a].book
                                                               /\ call'[v].at > asset'[a].last
          BY DEF AssetCalls
        <5>1. /\ call'[v].doc = call[v].doc /\ call'[v].kind = call[v].kind
              /\ call'[v].seen = call[v].seen /\ call'[v].at = call[v].at
          BY <4>4 DEF GoesOn
        <5> QED
          BY <1>00, <4>1, <5>1 DEF AssetCalls
      <4>6. AssetDisposed(a)'
        <5>1. Settled("dispose", a, {"booked"})' = Settled("dispose", a, {"booked"})
          BY <3>1, <4>1, EndingElsewhere, SpansAre
        <5> QED
          BY <1>00, <4>1, <5>1 DEF AssetDisposed
      <4>7. /\ r.asset = a /\ r.period = call[w].at
        OBVIOUS
      <4> HIDE DEF r
      <4>8. RunsOf(a)' = RunsOf(a) \cup {r} /\ r \notin RunsOf(a)
        BY <4>2, <4>3, <4>7 DEF RunsOf
      <4>9. AssetCounted(a)'
        <5> DEFINE S == Settled("depreciate", a, {"booked"})
        <5>1. S' = S \cup {call[w].journal} /\ call[w].journal \notin S
          BY <3>1, <4>1, EndingBooked
        <5>2. IsFiniteSet(S) /\ IsFiniteSet(RunsOf(a))
          <6>1. S \subseteq Made("depreciate", a)
            BY DEF Settled
          <6>2. IsFiniteSet(depRuns) /\ RunsOf(a) \subseteq depRuns
            BY DEF RecInv, FiniteRows, RunsOf
          <6> HIDE DEF S
          <6> QED
            BY <6>1, <6>2, MadeFinite, FS_Subset
        <5>3. Cardinality(S) = Cardinality(RunsOf(a))
          BY <1>00 DEF AssetCounted
        <5>4. AssetCounted(a)' <=> Cardinality(S') = Cardinality(RunsOf(a)')
          BY DEF AssetCounted
        <5> HIDE DEF S
        <5>5. Cardinality(S') = Cardinality(S) + 1
          BY <5>1, <5>2, FS_AddElement
        <5>6. Cardinality(RunsOf(a)') = Cardinality(RunsOf(a)) + 1
          BY <4>8, <5>2, FS_AddElement
        <5> QED
          BY <5>3, <5>4, <5>5, <5>6
      <4>10. AssetRuns(a)'
        <5> SUFFICES ASSUME NEW q \in RunsOf(a)'
                     PROVE  \/ q.period <= asset'[a].last
                            \/ \E v \in Workers : /\ call'[v].stage = "wrote"
                                                  /\ call'[v].kind = "depreciate"
                                                  /\ call'[v].doc = a /\ call'[v].at = q.period
          BY DEF AssetRuns
        <5>1. CASE q = r
          BY <2>2, <4>1, <4>4, <4>7, <5>1 DEF GoesOn
        <5>2. CASE q \in RunsOf(a)
          <6>1. q.period <= asset[a].last
            BY <1>00, <3>3, <4>1, <5>2 DEF AssetRuns
          <6> QED
            BY <4>1, <6>1
        <5> QED
          BY <4>8, <5>1, <5>2
      <4> QED
        BY <4>5, <4>6, <4>9, <4>10 DEF AssetFour
    <3> QED
      BY <3>1, <3>2, <3>6, <3>7, <3>8 DEF Writes, Writing, WriteApproval, WritePayment,
         InsertInvoice, AddReceipt, InsertReceipt
  <2> QED
    BY <2>1, <2>2
<1> QED
  BY <1>1, <1>2

-----------------------------------------------------------------------------
(***************************************************************************)
(* The invariant and the two theorems.                                     *)
(***************************************************************************)

LEMMA RecStep ==
    ASSUME AnyTotals, SubInv, RecInv, SubInv', [ThroughLedger]_subVars PROVE RecInv'
<1>0. JournalOwn /\ Priced /\ FiniteRows /\ Alone /\ IdleDoc
  BY DEF RecInv
<1>1. JournalOwn'
  BY <1>0, OwnStep
<1>2. Fresh' /\ ReceiptPriced' /\ \A w \in Workers : CallPriced(w)'
  BY <1>0, FreshStep, ReceiptPricedStep, CallPricedStep DEF Priced
<1>3. Priced'
  BY <1>2 DEF Priced
<1>4. FiniteRows'
  BY <1>0, FiniteStep DEF Priced
<1>5. Alone' /\ IdleDoc'
  BY <1>0, AloneStep, IdleDocStep
<1>6. \A i \in Invoices : ReceiptSums(i)' /\ InvoiceTidy(i)'
  BY <1>2, ReceiptSumsStep, InvoiceTidyStep
<1>7. \A a \in Assets : DepSums(a)' /\ AssetTidy(a)'
  BY DepSumsStep, AssetTidyStep
<1>8. \A b \in Bills : BillTidy(b)'
  BY BillTidyStep
<1> QED
  BY <1>1, <1>3, <1>4, <1>5, <1>6, <1>7, <1>8 DEF RecInv

\* Registering an asset moves nothing that is summed.
LEMMA CreateRecInv ==
    ASSUME SubInv, RecInv, NEW a \in Assets, NEW j \in Journals, NEW m \in Dates,
           CreateAsset(a, j, m)
    PROVE  RecInv'
<1>0. /\ JournalOwn /\ Priced /\ FiniteRows /\ Alone /\ IdleDoc
      /\ UNCHANGED <<bill, invoice, receipts, depRuns, call, disturbed>>
      /\ status[j] = "none" /\ status'[j] = "posted"
      /\ Booked' = Booked \cup {j} /\ madeFor'[j] = [kind |-> "register", doc |-> a]
      /\ \A k \in Journals \ {j} : /\ status'[k] = status[k] /\ totals'[k] = totals[k]
                                   /\ madeFor'[k] = madeFor[k]
  BY CreateEffect DEF RecInv
<1>1. /\ asset[a].status = "none" /\ asset'[a].status = "active"
      /\ \A b \in Assets : /\ asset'[b].book = asset[b].book /\ asset'[b].accum = asset[b].accum
                           /\ asset'[b].last = asset[b].last
                           /\ asset'[b].status = "disposed" <=> asset[b].status = "disposed"
  <2>1. /\ asset[a].status = "none" /\ asset'[a].status = "active"
        /\ asset'[a].book = asset[a].book /\ asset'[a].accum = asset[a].accum
        /\ asset'[a].last = asset[a].last
        /\ \A b \in Assets \ {a} : asset'[b] = asset[b]
    BY CreateEffect
  <2> QED
    BY <2>1
<1>2. \A k, d, S : Held(k, d, S)' = Held(k, d, S)
  BY <1>0 DEF Held
<1>3. \A k, d, S : k # "register" => Settled(k, d, S)' = Settled(k, d, S)
  BY <1>2, CreateMade DEF Settled
<1>4. JournalOwn' /\ Alone' /\ IdleDoc'
  BY <1>0 DEF JournalOwn, Alone, IdleDoc
<1>5. Priced'
  <2>1. Fresh'
    BY <1>0 DEF Priced, Fresh
  <2>2. ReceiptPriced'
    <3> SUFFICES ASSUME NEW k \in Journals, NEW i \in Invoices,
                        madeFor'[k] = [kind |-> "receive", doc |-> i]
                 PROVE  totals'[k].credit >= Withheld[i]
      BY DEF ReceiptPriced
    <3>1. k # j
      BY <1>0
    <3> QED
      BY <1>0, <3>1 DEF Priced, ReceiptPriced
  <2>3. ASSUME NEW w \in Workers PROVE CallPriced(w)'
    <3>1. CallPriced(w)
      BY <1>0 DEF Priced
    <3>2. call[w].stage \in Past => totals'[call[w].journal] = totals[call[w].journal]
      <4>1. call[w].stage \in Past => /\ call[w].journal \in Journals
                                      /\ status[call[w].journal] # "none"
        BY DEF SubInv, CallInv, Linked, LinkedAt, Past
      <4> QED
        BY <1>0, <4>1
    <3> QED
      BY <1>0, <3>1, <3>2 DEF CallPriced
  <2> QED
    BY <2>1, <2>2, <2>3 DEF Priced
<1>6. FiniteRows'
  BY <1>0, FS_AddElement DEF FiniteRows
<1>7. ASSUME NEW i \in Invoices PROVE ReceiptSums(i)' /\ InvoiceTidy(i)'
  <2> DEFINE S == Settled("receive", i, {"booked"})
             H == Held("receive", i, {"wrote"})
  <2>1. /\ S \subseteq Made("receive", i) /\ H \subseteq Made("receive", i)
        /\ S' = S /\ H' = H
    BY <1>2, <1>3, HeldIn, SpansStages DEF Settled
  <2>2. SumOf(S', Net(i)') = SumOf(S, Net(i)) /\ SumOf(H', Net(i)') = SumOf(H, Net(i))
    <3>1. IsFiniteSet(Made("receive", i)) /\ \A k \in Made("receive", i) :
              Net(i)[k] \in Nat /\ Net(i)'[k] = Net(i)[k]
      <4>1. IsFiniteSet(Made("receive", i))
        BY <1>0, FS_Subset DEF Made, FiniteRows
      <4>2. ASSUME NEW k \in Made("receive", i) PROVE Net(i)[k] \in Nat /\ Net(i)'[k] = Net(i)[k]
        <5>1. k \in Journals \ {j} /\ madeFor[k] = [kind |-> "receive", doc |-> i]
          BY <1>0 DEF Made, Booked
        <5>2. totals[k].credit \in Nat /\ totals'[k] = totals[k]
          BY <1>0, <5>1 DEF SubInv, LedgerInv, TypeOK
        <5>3. totals[k].credit >= Withheld[i] /\ Withheld[i] \in Nat
          BY <1>0, <5>1 DEF Priced, ReceiptPriced
        <5>4. /\ Net(i)[k] = totals[k].credit - Withheld[i]
              /\ Net(i)'[k] = totals'[k].credit - Withheld[i]
          BY <5>1 DEF Net
        <5> QED
          BY <5>2, <5>3, <5>4
      <4> QED
        BY <4>1, <4>2
    <3>2. ASSUME NEW T, T \subseteq Made("receive", i)
          PROVE  SumOf(T, Net(i)') = SumOf(T, Net(i))
      <4>1. IsFiniteSet(T) /\ \A k \in T : Net(i)[k] \in Nat /\ Net(i)'[k] = Net(i)[k]
        BY <3>1, <3>2, FS_Subset
      <4> QED
        BY <4>1, SumSame
    <3> HIDE DEF S, H
    <3> QED
      BY <2>1, <3>2
  <2>3. ReceiptsOf(i)' = ReceiptsOf(i) /\ Amount(receipts)' = Amount(receipts)
    BY <1>0 DEF ReceiptsOf, Amount
  <2>4. ReceiptSums(i) /\ InvoiceTidy(i)
    BY DEF RecInv
  <2>5. ReceiptSums(i)'
    BY <1>0, <2>2, <2>3, <2>4 DEF ReceiptSums
  <2>6. InvoiceTidy(i)'
    BY <1>0, <1>3, <2>4 DEF InvoiceTidy
  <2> QED
    BY <2>5, <2>6
<1>8. ASSUME NEW b \in Assets PROVE DepSums(b)' /\ AssetTidy(b)'
  <2> DEFINE S == Settled("depreciate", b, {"booked", "wrote"})
             H == Held("depreciate", b, {"wrote"})
  <2>1. /\ S \subseteq Made("depreciate", b) /\ H \subseteq Made("depreciate", b)
        /\ S' = S /\ H' = H
    BY <1>2, <1>3, HeldIn, SpansStages DEF Settled
  <2>2. SumOf(S', Credit') = SumOf(S, Credit) /\ SumOf(H', Credit') = SumOf(H, Credit)
    <3>1. IsFiniteSet(Made("depreciate", b)) /\ \A k \in Made("depreciate", b) :
              Credit[k] \in Nat /\ Credit'[k] = Credit[k]
      <4>1. IsFiniteSet(Made("depreciate", b))
        BY <1>0, FS_Subset DEF Made, FiniteRows
      <4>2. ASSUME NEW k \in Made("depreciate", b) PROVE Credit[k] \in Nat /\ Credit'[k] = Credit[k]
        <5>1. k \in Journals \ {j}
          BY <1>0 DEF Made, Booked
        <5>2. totals[k].credit \in Nat /\ totals'[k] = totals[k]
          BY <1>0, <5>1 DEF SubInv, LedgerInv, TypeOK
        <5> QED
          BY <5>1, <5>2 DEF Credit
      <4> QED
        BY <4>1, <4>2
    <3>2. ASSUME NEW T, T \subseteq Made("depreciate", b)
          PROVE  SumOf(T, Credit') = SumOf(T, Credit)
      <4>1. IsFiniteSet(T) /\ \A k \in T : Credit[k] \in Nat /\ Credit'[k] = Credit[k]
        BY <3>1, <3>2, FS_Subset
      <4> QED
        BY <4>1, SumSame
    <3> HIDE DEF S, H
    <3> QED
      BY <2>1, <3>2
  <2>3. RunsOf(b)' = RunsOf(b) /\ Amount(depRuns)' = Amount(depRuns)
    BY <1>0 DEF RunsOf, Amount
  <2>4. DepSums(b) /\ AssetTidy(b)
    BY DEF RecInv
  <2>5. DepSums(b)'
    BY <1>0, <1>1, <2>2, <2>3, <2>4 DEF DepSums
  <2>6. /\ Settled("dispose", b, {"booked"})' = Settled("dispose", b, {"booked"})
        /\ Settled("depreciate", b, {"booked"})' = Settled("depreciate", b, {"booked"})
    BY <1>3
  <2>7. ASSUME AssetFour(b) PROVE AssetFour(b)'
    <3>1. AssetCalls(b)' /\ AssetDisposed(b)'
      BY <1>0, <1>1, <2>6, <2>7 DEF AssetFour, AssetCalls, AssetDisposed
    <3>2. AssetCounted(b)' /\ AssetRuns(b)'
      BY <1>0, <1>1, <2>3, <2>6, <2>7 DEF AssetFour, AssetCounted, AssetRuns
    <3> QED
      BY <3>1, <3>2 DEF AssetFour
  <2>8. AssetTidy(b)'
    BY <1>0, <2>4, <2>7, AssetSplit, AssetSplitNext
  <2> QED
    BY <2>5, <2>8
<1>9. ASSUME NEW b \in Bills PROVE BillTidy(b)'
  <2>1. BillTidy(b)
    BY DEF RecInv
  <2>2. BillCalls(b) => BillCalls(b)'
    BY <1>0 DEF BillCalls
  <2>3. BillSettled(b) => BillSettled(b)'
    BY <1>0, <1>3 DEF BillSettled
  <2> QED
    BY <1>0, <2>1, <2>2, <2>3, BillSplit, BillSplitNext
<1> QED
  BY <1>4, <1>5, <1>6, <1>7, <1>8, <1>9 DEF RecInv

LEMMA InitRecInv == SubInit => RecInv
<1> SUFFICES ASSUME SubInit PROVE RecInv
  OBVIOUS
<1>1. /\ \A w \in Workers : call[w] = NoCall
      /\ \A j \in Journals : status[j] = "none" /\ madeFor[j] = NoPurpose
      /\ receipts = {} /\ depRuns = {} /\ disturbed = {}
      /\ \A b \in Bills : bill[b].status = "pending"
      /\ \A i \in Invoices : invoice[i].status = "none" /\ invoice[i].received = 0
      /\ \A a \in Assets : /\ asset[a].status = "none" /\ asset[a].book = Cost[a]
                           /\ asset[a].accum = 0
  BY DEF SubInit, Init
<1>2. \A w \in Workers : call[w].stage = "idle" /\ call[w].doc = NoJournal
  BY <1>1 DEF NoCall
<1>3. Booked = {}
  BY <1>1 DEF Booked
<1>4. \A k, d, S : Settled(k, d, S) = {}
  BY <1>3 DEF Settled, Made
<1>5. \A k, d : \A S \in Stages : Held(k, d, S) = {}
  BY <1>2, SpansStages DEF Held
<1>6. \A i : ReceiptsOf(i) = {} /\ RunsOf(i) = {}
  BY <1>1 DEF ReceiptsOf, RunsOf
<1>7. JournalOwn /\ IdleDoc
  BY <1>2 DEF JournalOwn, IdleDoc, Past
<1>8. \A d \in Docs : \A w \in Workers : call[w].doc # d
  BY <1>2, SubLedgerAssumption
<1>9. Alone
  BY <1>8 DEF Alone
<1>10. Priced
  <2>1. Fresh
    BY <1>1 DEF Fresh
  <2>2. ReceiptPriced
    BY <1>1 DEF ReceiptPriced, NoPurpose
  <2>3. \A w \in Workers : CallPriced(w)
    BY <1>2 DEF CallPriced, Past
  <2> QED
    BY <2>1, <2>2, <2>3 DEF Priced
<1>11. FiniteRows
  BY <1>1, <1>3, FS_EmptySet DEF FiniteRows
<1>12. ASSUME NEW i \in Invoices PROVE ReceiptSums(i) /\ InvoiceTidy(i)
  <2>1. /\ SumOf(Settled("receive", i, {"booked"}), Net(i)) = 0
        /\ SumOf(Held("receive", i, {"wrote"}), Net(i)) = 0
        /\ SumOf(ReceiptsOf(i), Amount(receipts)) = 0
    BY <1>4, <1>5, <1>6, SumEmpty, SpansStages
  <2>2. ReceiptSums(i)
    BY <1>1, <2>1 DEF ReceiptSums
  <2>3. InvoiceTidy(i)
    BY <1>1, <1>4 DEF InvoiceTidy
  <2> QED
    BY <2>2, <2>3
<1>13. ASSUME NEW a \in Assets PROVE DepSums(a) /\ AssetTidy(a)
  <2>1. /\ SumOf(Settled("depreciate", a, {"booked", "wrote"}), Credit) = 0
        /\ SumOf(Held("depreciate", a, {"wrote"}), Credit) = 0
        /\ SumOf(RunsOf(a), Amount(depRuns)) = 0
    BY <1>4, <1>5, <1>6, SumEmpty, SpansStages
  <2>2. DepSums(a)
    BY <1>1, <2>1 DEF DepSums
  <2>3. a \in Docs /\ Cost[a] \in Nat
    BY SubLedgerAssumption DEF Docs
  <2>4. AssetCalls(a)
    BY <1>8, <2>3 DEF AssetCalls
  <2>5. AssetDisposed(a)
    BY <1>1, <1>4, <2>3 DEF AssetDisposed
  <2>6. AssetCounted(a) /\ AssetRuns(a)
    BY <1>4, <1>6 DEF AssetCounted, AssetRuns
  <2> QED
    BY <2>2, <2>4, <2>5, <2>6, AssetSplit DEF AssetFour
<1>14. ASSUME NEW b \in Bills PROVE BillTidy(b)
  <2>1. b \in Docs
    BY DEF Docs
  <2>2. BillCalls(b)
    BY <1>8, <2>1 DEF BillCalls
  <2>3. BillSettled(b)
    BY <1>1, <1>4 DEF BillSettled
  <2> QED
    BY <2>2, <2>3, BillSplit
<1> QED
  BY <1>7, <1>9, <1>10, <1>11, <1>12, <1>13, <1>14 DEF RecInv

-----------------------------------------------------------------------------
(* What the invariant gives.                                               *)

\* A finite set within the booked journals, and the sums over its parts.
LEMMA SumsNow ==
    ASSUME SubInv, RecInv, NEW k, NEW d
    PROVE  /\ IsFiniteSet(Made(k, d)) /\ Made(k, d) \subseteq Journals
           /\ \A j \in Made(k, d) : Credit[j] = totals[j].credit /\ Credit[j] \in Nat
           /\ Credited(k, d) \in Nat
           /\ \A T \in SUBSET Made(k, d) : SumOf(T, Credit) <= Credited(k, d)
                                           /\ SumOf(T, Credit) \in Nat
<1>1. Made(k, d) \subseteq Booked /\ IsFiniteSet(Booked) /\ Booked \subseteq Journals
  BY DEF Made, RecInv, FiniteRows, Booked
<1>2. IsFiniteSet(Made(k, d)) /\ Made(k, d) \subseteq Journals
  BY <1>1, FS_Subset
<1>3. \A j \in Journals : totals[j].credit \in Nat
  BY DEF SubInv, LedgerInv, TypeOK
<1>4. \A j \in Made(k, d) : Credit[j] = totals[j].credit /\ Credit[j] \in Nat
  BY <1>2, <1>3 DEF Credit
<1>5. Credited(k, d) \in Nat
  BY <1>2, <1>4, SumNat DEF Credited
<1>6. \A T \in SUBSET Made(k, d) : SumOf(T, Credit) <= Credited(k, d)
  BY <1>2, <1>4, SumPart DEF Credited
<1>7. ASSUME NEW T \in SUBSET Made(k, d) PROVE SumOf(T, Credit) \in Nat
  <2>1. IsFiniteSet(T) /\ \A j \in T : Credit[j] \in Nat
    BY <1>2, <1>4, FS_Subset
  <2> QED
    BY <2>1, SumNat
<1> QED
  BY <1>2, <1>4, <1>5, <1>6, <1>7

LEMMA NetNow ==
    ASSUME SubInv, RecInv, NEW i \in Invoices
    PROVE  /\ Credited("receive", i) = SumOf(Made("receive", i), Net(i))
                                       + Cardinality(Made("receive", i)) * Withheld[i]
           /\ Withheld[i] \in Nat /\ Cardinality(Made("receive", i)) \in Nat
           /\ SumOf(Made("receive", i), Net(i)) \in Nat
           /\ \A T \in SUBSET Made("receive", i) :
                  /\ SumOf(T, Net(i)) <= SumOf(Made("receive", i), Net(i))
                  /\ SumOf(T, Net(i)) \in Nat
<1> DEFINE M == Made("receive", i)
<1>0. Withheld[i] \in Nat
  BY SubLedgerAssumption
<1>1. /\ IsFiniteSet(M) /\ M \subseteq Journals
      /\ \A j \in M : Credit[j] = totals[j].credit /\ Credit[j] \in Nat
  BY SumsNow
<1>2. \A j \in M : Net(i)[j] \in Nat /\ Credit[j] = Net(i)[j] + Withheld[i]
  <2> SUFFICES ASSUME NEW j \in M
               PROVE  Net(i)[j] \in Nat /\ Credit[j] = Net(i)[j] + Withheld[i]
    OBVIOUS
  <2>1. j \in Journals /\ madeFor[j] = [kind |-> "receive", doc |-> i]
    BY <1>1 DEF Made
  <2>2. totals[j].credit >= Withheld[i] /\ totals[j].credit \in Nat
    BY <1>1, <2>1 DEF RecInv, Priced, ReceiptPriced
  <2>3. Net(i)[j] = totals[j].credit - Withheld[i]
    BY <2>1 DEF Net
  <2> QED
    BY <1>0, <1>1, <2>2, <2>3
<1>7. Shifted(M, Credit, Net(i), Withheld[i])
  BY <1>2 DEF Shifted
<1> HIDE DEF M
<1>3. SumOf(M, Credit) = SumOf(M, Net(i)) + Cardinality(M) * Withheld[i]
  BY <1>0, <1>1, <1>7, SumShift
<1>4. SumOf(M, Net(i)) \in Nat /\ \A T \in SUBSET M : SumOf(T, Net(i)) <= SumOf(M, Net(i))
  BY <1>1, <1>2, SumNat, SumPart
<1>5. ASSUME NEW T \in SUBSET M PROVE SumOf(T, Net(i)) \in Nat
  <2>1. IsFiniteSet(T) /\ \A j \in T : Net(i)[j] \in Nat
    BY <1>1, <1>2, FS_Subset
  <2> QED
    BY <2>1, SumNat
<1>6. Cardinality(M) \in Nat
  BY <1>1, FS_CardinalityType
<1> QED
  BY <1>0, <1>3, <1>4, <1>5, <1>6 DEF Credited, M

LEMMA RecNothingUnbooked == ASSUME SubInv, RecInv PROVE NothingUnbooked
<1>1. ASSUME NEW i \in Invoices
      PROVE  /\ SumOf(ReceiptsOf(i), Amount(receipts)) <= invoice[i].received
             /\ invoice[i].received + Cardinality(Made("receive", i)) * Withheld[i]
                    <= Credited("receive", i)
  <2> DEFINE h == SumOf(Held("receive", i, {"wrote"}), Net(i))
             s == SumOf(Settled("receive", i, {"booked"}), Net(i))
             l == SumOf(ReceiptsOf(i), Amount(receipts))
             m == SumOf(Made("receive", i), Net(i))
             x == invoice[i].received
             n == Cardinality(Made("receive", i)) * Withheld[i]
  <2>1. x <= s /\ l + h <= x
    BY DEF RecInv, ReceiptSums
  <2>2. Held("receive", i, {"wrote"}) \subseteq Made("receive", i)
    BY HeldIn, SpansStages
  <2>3. Settled("receive", i, {"booked"}) \subseteq Made("receive", i)
    BY DEF Settled
  <2>4. h \in Nat /\ s \in Nat /\ s <= m /\ m \in Nat /\ Credited("receive", i) = m + n
    BY <2>2, <2>3, NetNow
  <2>5. n \in Nat
    BY NetNow
  <2>6. l \in Nat /\ x \in Nat
    <3>1. Rows(ReceiptsOf(i), receipts)
      BY FS_Subset DEF RecInv, FiniteRows, ReceiptsOf, Rows, SubInv, SubTypeOK
    <3>2. x \in Nat
      BY DEF SubInv, SubTypeOK
    <3> QED
      BY <3>1, <3>2, RowSums
  <2> HIDE DEF h, s, l, m, x, n
  <2>7. l <= x /\ x + n <= Credited("receive", i)
    BY <2>1, <2>4, <2>5, <2>6
  <2> QED
    BY <2>7 DEF l, x, n
<1>2. ASSUME NEW a \in Assets
      PROVE  /\ asset[a].accum <= SumOf(RunsOf(a), Amount(depRuns))
             /\ asset[a].accum <= Credited("depreciate", a)
  <2> DEFINE h == SumOf(Held("depreciate", a, {"wrote"}), Credit)
             s == SumOf(Settled("depreciate", a, {"booked", "wrote"}), Credit)
             l == SumOf(RunsOf(a), Amount(depRuns))
             x == asset[a].accum
  <2>1. x <= s /\ x + h <= l
    BY DEF RecInv, DepSums
  <2>2. Held("depreciate", a, {"wrote"}) \subseteq Made("depreciate", a)
    BY HeldIn, SpansStages
  <2>3. Settled("depreciate", a, {"booked", "wrote"}) \subseteq Made("depreciate", a)
    BY DEF Settled
  <2>4. h \in Nat /\ s \in Nat /\ s <= Credited("depreciate", a)
        /\ Credited("depreciate", a) \in Nat
    BY <2>2, <2>3, SumsNow
  <2>6. l \in Nat /\ x \in Nat
    <3>1. Rows(RunsOf(a), depRuns)
      BY FS_Subset DEF RecInv, FiniteRows, RunsOf, Rows, SubInv, SubTypeOK
    <3>2. x \in Nat
      BY DEF SubInv, SubTypeOK
    <3> QED
      BY <3>1, <3>2, RowSums
  <2> HIDE DEF h, s, l, x
  <2>7. x <= l /\ x <= Credited("depreciate", a)
    BY <2>1, <2>4, <2>6
  <2> QED
    BY <2>7 DEF l, x
<1> QED
  BY <1>1, <1>2 DEF NothingUnbooked

\* No call stands between the posting for an undisturbed document and its end.
LEMMA NothingHeld ==
    ASSUME NEW d, Undisturbed(d), NEW k, NEW S \in Stages
    PROVE  Held(k, d, S) = {} /\ Settled(k, d, S) = Made(k, d)
<1>1. \A w \in Workers : call[w].doc = d => call[w].stage \notin S
  BY DEF Undisturbed, Stages
<1>2. Held(k, d, S) = {}
  BY <1>1 DEF Held
<1> QED
  BY <1>2 DEF Settled

LEMMA Counts ==
    /\ Cardinality({}) = 0 /\ \A x : Cardinality({x}) = 1
    /\ \A b \in BOOLEAN : If(b) = IF b THEN 1 ELSE 0
  BY FS_EmptySet, FS_Singleton DEF If

LEMMA RecUndisturbed == ASSUME SubInv, RecInv PROVE UndisturbedMatchesPostings
<1>0. {"booked"} \in Stages /\ {"booked", "wrote"} \in Stages
  BY SpansAre, SpansStages
<1>1. ASSUME NEW b \in Bills, Undisturbed(b)
      PROVE  /\ Times("approve", b, If(bill[b].status # "pending"))
             /\ Times("pay", b, If(bill[b].status = "paid"))
  <2>1. BillSettled(b)
    BY <1>1, BillSplit DEF RecInv, Undisturbed
  <2>2. /\ Settled("approve", b, {"booked"}) = Made("approve", b)
        /\ Settled("pay", b, {"booked"}) = Made("pay", b)
    BY <1>0, <1>1, NothingHeld
  <2>3. /\ Made("approve", b) = IF bill[b].status = "pending" THEN {} ELSE {bill[b].journal}
        /\ Made("pay", b) = IF bill[b].status = "paid" THEN {bill[b].payment} ELSE {}
    BY <2>1, <2>2 DEF BillSettled
  <2> QED
    BY <2>3, Counts DEF Times, If
<1>2. ASSUME NEW i \in Invoices, Undisturbed(i)
      PROVE  /\ Times("raise", i, If(invoice[i].status # "none"))
             /\ Credited("receive", i) = invoice[i].received
                                         + Withheld[i] * Cardinality(Made("receive", i))
  <2>1. /\ Settled("raise", i, {"booked"}) = Made("raise", i)
        /\ Settled("receive", i, {"booked"}) = Made("receive", i)
    BY <1>0, <1>2, NothingHeld
  <2>2. Made("raise", i) = IF invoice[i].status = "none" THEN {} ELSE {invoice[i].journal}
    BY <1>2, <2>1 DEF RecInv, InvoiceTidy, Undisturbed
  <2>3. Times("raise", i, If(invoice[i].status # "none"))
    BY <2>2, Counts DEF Times, If
  <2>4. invoice[i].received = SumOf(Made("receive", i), Net(i))
    BY <1>2, <2>1 DEF RecInv, ReceiptSums, Undisturbed
  <2>5. /\ Credited("receive", i) = SumOf(Made("receive", i), Net(i))
                                    + Cardinality(Made("receive", i)) * Withheld[i]
        /\ Withheld[i] \in Nat /\ Cardinality(Made("receive", i)) \in Nat
    BY NetNow
  <2>6. Cardinality(Made("receive", i)) * Withheld[i] = Withheld[i] * Cardinality(Made("receive", i))
    BY <2>5
  <2> QED
    BY <2>3, <2>4, <2>5, <2>6
<1>3. ASSUME NEW a \in Assets, Undisturbed(a)
      PROVE  /\ Times("dispose", a, If(asset[a].status = "disposed"))
             /\ Times("depreciate", a, Cardinality(RunsOf(a)))
             /\ asset[a].accum = Credited("depreciate", a)
             /\ asset[a].status # "disposed" => asset[a].book + asset[a].accum = Cost[a]
  <2>1. /\ Settled("dispose", a, {"booked"}) = Made("dispose", a)
        /\ Settled("depreciate", a, {"booked"}) = Made("depreciate", a)
        /\ Settled("depreciate", a, {"booked", "wrote"}) = Made("depreciate", a)
    BY <1>0, <1>3, NothingHeld
  <2>2. AssetFour(a) /\ asset[a].accum = SumOf(Made("depreciate", a), Credit)
    BY <1>3, <2>1, AssetSplit DEF RecInv, DepSums, Undisturbed
  <2>3. Times("dispose", a, If(asset[a].status = "disposed"))
    <3>1. CASE asset[a].status = "disposed"
      BY <2>1, <2>2, <3>1, Counts DEF AssetFour, AssetDisposed, Times, If
    <3>2. CASE asset[a].status # "disposed"
      BY <2>1, <2>2, <3>2, Counts DEF AssetFour, AssetDisposed, Times, If
    <3> QED
      BY <3>1, <3>2
  <2>4. Times("depreciate", a, Cardinality(RunsOf(a)))
    BY <2>1, <2>2 DEF AssetFour, AssetCounted, Times
  <2> QED
    BY <2>2, <2>3, <2>4 DEF Credited, AssetFour, AssetDisposed
<1> QED
  BY <1>1, <1>2, <1>3 DEF UndisturbedMatchesPostings

\* The invariant that ties the documents to what was posted for them, whatever the
\* calls on them, their deaths and the pages of journals and periods do.
THEOREM ReconciliationInvariant == ASSUME AnyTotals PROVE SubSpec => [](SubInv /\ RecInv)
<1>1. SubInit => SubInv /\ RecInv
  BY InitSubInv, InitRecInv
<1>2. SubInv /\ RecInv /\ [SubNext]_subVars => (SubInv /\ RecInv)'
  BY SubInvStep, RecStep, CreateSubInv, CreateRecInv, SubNextCases
<1> QED
  BY <1>1, <1>2, PTL DEF SubSpec

\* No document claims money that the books do not hold: the receipts listed of an
\* invoice are covered by the amount received on its row, that by the journals of
\* RecordReceipt, and the depreciation accumulated on an asset's row by the runs listed
\* and by the journals of DepreciateAsset, however the calls overlap and die.
THEOREM NothingUnbookedHolds == ASSUME AnyTotals PROVE SubSpec => []NothingUnbooked
<1>1. SubInv /\ RecInv => NothingUnbooked
  BY RecNothingUnbooked
<1> QED
  BY <1>1, ReconciliationInvariant, PTL

\* What is shown paid is cleared in the books: the amount received is at least the
\* gross but for a kobo, and it is part of what the receipt journals credit.
THEOREM PaidMeansClearedHolds == ASSUME AnyTotals PROVE SubSpec => []PaidMeansCleared
<1>1. SubInv /\ RecInv => PaidMeansCleared
  <2> SUFFICES ASSUME SubInv, RecInv, NEW i \in Invoices, invoice[i].status = "paid"
               PROVE  Credited("receive", i) >= Gross[i] - 1
    BY DEF PaidMeansCleared
  <2> DEFINE n == Cardinality(Made("receive", i)) * Withheld[i]
             c == Credited("receive", i)
             x == invoice[i].received
  <2>1. x >= Gross[i] - 1
    BY DEF SubInv, DocInv, PaidIsReceived
  <2>2. x + n <= c
    BY RecNothingUnbooked DEF NothingUnbooked
  <2>5. Cardinality(Made("receive", i)) \in Nat /\ Withheld[i] \in Nat
    BY NetNow
  <2>6. n \in Nat
    BY <2>5
  <2>7. c \in Nat
    BY SumsNow
  <2>8. x \in Nat /\ Gross[i] \in Nat
    BY SubLedgerAssumption DEF SubInv, SubTypeOK
  <2> HIDE DEF n, c, x
  <2>3. n \in Nat /\ c \in Nat /\ x \in Nat /\ Gross[i] \in Nat
    BY <2>6, <2>7, <2>8
  <2>4. c >= Gross[i] - 1
    BY <2>1, <2>2, <2>3
  <2> QED
    BY <2>4 DEF c
<1> QED
  BY <1>1, ReconciliationInvariant, PTL

\* As long as the calls on a document neither overlap nor die after their posting, it
\* tells of exactly what was posted for it, reversed since or not: one journal for each
\* status it has been through, for each receipt and for each run, and the same sums.
THEOREM UndisturbedMatchesPostingsHolds ==
    ASSUME AnyTotals PROVE SubSpec => []UndisturbedMatchesPostings
<1>1. SubInv /\ RecInv => UndisturbedMatchesPostings
  BY RecUndisturbed
<1> QED
  BY <1>1, ReconciliationInvariant, PTL

=============================================================================
