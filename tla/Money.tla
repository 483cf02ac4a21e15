------------------------------- MODULE Money --------------------------------
(***************************************************************************)
(* What the proofs about money share: the arithmetic of fees, and facts    *)
(* about SumFunctionOnSet of the community modules, the sum of the values  *)
(* F[x] over a finite set.  A sum is computed by choosing one element      *)
(* after another, so the facts say first that this recursion is defined    *)
(* (SumStep) and that the order of the choices does not matter (SumRemove),*)
(* then what follows for equal summands, disjoint unions, images, groups   *)
(* and sums of sums.  None is proved by induction on the set: each takes a *)
(* smallest set that refutes it (SmallestSet) and removes one element.     *)
(***************************************************************************)
EXTENDS Fees, Integers, FiniteSets, Functions, FiniteSetTheorems, WellFoundedInduction, TLAPS

----------------------------------------------------------------------------
(***************************************************************************)
(* The arithmetic of fees.                                                 *)
(***************************************************************************)

\* What a division can leave over, the decomposition the calculator works on,
\* and the unit it adds to round half up.
Rests == {r \in Nat : r < Divisor}
Parts(basis, bps, w, m, q, r) == basis = Divisor * w + m /\ m * bps = Divisor * q + r
Carry(r) == IF r >= Divisor \div 2 THEN 1 ELSE 0

LEMMA Division == \A n \in Nat : \E q \in Nat, r \in Rests : n = Divisor * q + r
<1> SUFFICES ASSUME NEW n \in Nat PROVE \E q \in Nat, r \in Rests : n = Divisor * q + r
  OBVIOUS
<1>1. n \div 10000 \in Nat
  OBVIOUS
<1>2. n % 10000 \in 0 .. 9999
  OBVIOUS
<1>3. n = 10000 * (n \div 10000) + (n % 10000)
  BY Z3
<1> QED
  BY <1>1, <1>2, <1>3 DEF Divisor, Rests

LEMMA Quotient == \A n, q \in Nat, r \in Rests : n = Divisor * q + r => n \div Divisor = q
  BY DEF Divisor, Rests

LEMMA Remainder == \A n, q \in Nat, r \in Rests : n = Divisor * q + r => n % Divisor = r
  BY DEF Divisor, Rests

LEMMA ProductNat == \A m, n \in Nat : m * n \in Nat
  OBVIOUS

LEMMA Distribute == \A x, y, b \in Nat : (Divisor * x + y) * b = Divisor * (x * b) + y * b
  BY DEF Divisor

LEMMA RoundUp ==
    \A t, q \in Nat, r \in Rests :
        (Divisor * t + (Divisor * q + r) + Divisor \div 2) \div Divisor = t + q + Carry(r)
  BY DEF Divisor, Rests, Carry

\* The calculator's result and the detector's product, by the same parts.
LEMMA CommissionParts ==
    \A basis, bps, w, q \in Nat, m, r \in Rests :
        Parts(basis, bps, w, m, q, r) =>
           /\ CommissionAmount(basis, bps) = w * bps + q + Carry(r)
           /\ basis * bps = Divisor * (w * bps) + (Divisor * q + r)
<1> SUFFICES ASSUME NEW basis \in Nat, NEW bps \in Nat,
                    NEW w \in Nat, NEW m \in Rests, NEW q \in Nat, NEW r \in Rests,
                    Parts(basis, bps, w, m, q, r)
             PROVE  /\ CommissionAmount(basis, bps) = w * bps + q + Carry(r)
                    /\ basis * bps = Divisor * (w * bps) + (Divisor * q + r)
  OBVIOUS
<1>1. basis = Divisor * w + m /\ m * bps = Divisor * q + r
  BY Zenon DEF Parts
<1>2. m \in Nat /\ m * bps \in Nat
  <2>1. m \in Nat BY DEF Rests
  <2> QED BY <2>1, ProductNat, Zenon
<1>3. basis \div Divisor = w /\ basis % Divisor = m
  BY <1>1, Quotient, Remainder, Zenon
<1>4. (m * bps) \div Divisor = q /\ (m * bps) % Divisor = r
  BY <1>2, <1>1, Quotient, Remainder, Zenon
<1>5. CommissionAmount(basis, bps) = w * bps + q + Carry(r)
  BY <1>3, <1>4, Zenon DEF CommissionAmount, Carry
<1>6. basis * bps = Divisor * (w * bps) + (m * bps)
  BY <1>2, <1>1, Distribute, Zenon
<1> QED
  BY <1>1, <1>5, <1>6, Zenon

LEMMA PartsExist ==
    ASSUME NEW basis \in Nat, NEW bps \in Nat
    PROVE  \E w \in Nat, m \in Rests, q \in Nat, r \in Rests : Parts(basis, bps, w, m, q, r)
<1>1. PICK w \in Nat, m \in Rests : basis = Divisor * w + m
  BY Division, Zenon
<1>2. m * bps \in Nat
  <2>1. m \in Nat BY DEF Rests
  <2> QED BY <2>1, ProductNat, Zenon
<1>3. PICK q \in Nat, r \in Rests : m * bps = Divisor * q + r
  BY Division, <1>2, Zenon
<1> QED
  BY <1>1, <1>2, <1>3, Zenon DEF Parts

\* The calculator multiplies the whole and the remaining part of the basis
\* apart and rounds the rest (calculator.go); the detector and SQL's ROUND
\* divide one product (post_cutover_detector.go).  They agree.
THEOREM CommissionRounded ==
    ASSUME NEW basis \in Nat, NEW bps \in Nat
    PROVE  CommissionAmount(basis, bps) = RoundedShare(basis, bps)
<1>1. PICK w \in Nat, m \in Rests, q \in Nat, r \in Rests :
             Parts(basis, bps, w, m, q, r)
  BY PartsExist, Zenon
<1>2. w * bps \in Nat
  BY ProductNat, Zenon
<1>3. (Divisor * (w * bps) + (Divisor * q + r) + Divisor \div 2) \div Divisor = w * bps + q + Carry(r)
  BY <1>2, RoundUp, Zenon
<1>4. /\ CommissionAmount(basis, bps) = w * bps + q + Carry(r)
      /\ basis * bps = Divisor * (w * bps) + (Divisor * q + r)
  BY <1>1, CommissionParts
<1> QED
  BY <1>4, <1>3, Zenon DEF RoundedShare

LEMMA ShareBound == \A n \in Nat, bps \in 0 .. MaxBps : n * bps <= MaxBps * n
<1> SUFFICES ASSUME NEW n \in Nat, NEW bps \in 0 .. 3000 PROVE n * bps <= 3000 * n
  BY DEF MaxBps
<1> DEFINE k == 3000 - bps
<1>1. k \in Nat
  OBVIOUS
<1>2. n * k \in Nat
  BY <1>1, ProductNat
<1>3. n * k = 3000 * n - n * bps
  OBVIOUS
<1>4. n * bps \in Nat
  OBVIOUS
<1> QED
  BY <1>2, <1>3, <1>4

LEMMA Bounded == \A w, t, p, q \in Nat, m, r \in Rests :
    t <= MaxBps * w /\ p <= MaxBps * m /\ p = Divisor * q + r =>
      t + q + Carry(r) \in 0 .. (Divisor * w + m)
  BY DEF Divisor, Rests, MaxBps, Carry

\* The commission of a snapshot is never more than its basis, so the owner's
\* share is not negative (the CHECKs of migration 020).
THEOREM CommissionBounded ==
    ASSUME NEW basis \in Nat, NEW bps \in 0 .. MaxBps
    PROVE  CommissionAmount(basis, bps) \in 0 .. basis
<1>1. bps \in Nat
  BY DEF MaxBps
<1>2. PICK w \in Nat, m \in Rests, q \in Nat, r \in Rests :
             Parts(basis, bps, w, m, q, r)
  BY <1>1, PartsExist, Zenon
<1>3. m \in Nat
  BY DEF Rests
<1>4. w * bps \in Nat /\ m * bps \in Nat
  BY <1>1, <1>3, ProductNat, Zenon
<1>5. w * bps <= MaxBps * w /\ m * bps <= MaxBps * m
  BY <1>1, <1>3, ShareBound, Zenon
<1>6. CommissionAmount(basis, bps) = w * bps + q + Carry(r)
  BY <1>1, <1>2, CommissionParts
<1>7. m * bps = Divisor * q + r
  BY <1>2, Zenon DEF Parts
<1>8. w * bps + q + Carry(r) \in 0 .. (Divisor * w + m)
  BY <1>7, <1>4, <1>5, Bounded, Zenon
<1> QED
  BY <1>2, <1>6, <1>8, Zenon DEF Parts

----------------------------------------------------------------------------
(***************************************************************************)
(* Minimal sets instead of induction.                                      *)
(***************************************************************************)
\* Among the subsets of a finite set with some property one is minimal.
LEMMA SmallestSet ==
    ASSUME NEW S, IsFiniteSet(S), NEW C, C \subseteq SUBSET S, C # {}
    PROVE  \E m \in C : \A t \in C : t \subseteq m => t = m
<1>1. IsWellFoundedOn(StrictSubsetOrdering(S), FiniteSubsetsOf(S))
  BY FS_StrictSubsetOrderingWellFounded
<1>2. C \subseteq FiniteSubsetsOf(S)
  BY FS_Subset DEF FiniteSubsetsOf
<1>3. \E m \in C : \A t \in C : ~(<<t, m>> \in StrictSubsetOrdering(S))
  BY <1>1, <1>2, WFMin
<1> QED
  BY <1>3, <1>2 DEF StrictSubsetOrdering, FiniteSubsetsOf

----------------------------------------------------------------------------
(***************************************************************************)
(* The recursion is defined.                                               *)
(***************************************************************************)
Chosen(s) == CHOOSE x \in s : TRUE

\* f holds the sums over the subsets of S.
IsSumOf(f, F, S) ==
    f = [s \in SUBSET S |-> IF s = {} THEN 0 ELSE F[Chosen(s)] + f[s \ {Chosen(s)}]]

SomeSumOf(F, S) == CHOOSE f : IsSumOf(f, F, S)

LEMMA ChosenIsMember ==
    ASSUME NEW s, s # {}
    PROVE  Chosen(s) \in s
  BY DEF Chosen

LEMMA SumIsFold ==
    ASSUME NEW F, NEW S
    PROVE  SumFunctionOnSet(F, S) = SomeSumOf(F, S)[S]
  BY DEF SumFunctionOnSet, FoldFunctionOnSet, MapThenFoldSet, SomeSumOf, IsSumOf, Chosen

LEMMA SumsAreUnique ==
    ASSUME NEW F, NEW S, IsFiniteSet(S), NEW f, NEW g, NEW T \in SUBSET S,
           IsSumOf(f, F, S), IsSumOf(g, F, T)
    PROVE  \A s \in SUBSET T : f[s] = g[s]
<1> DEFINE C == {s \in SUBSET T : f[s] # g[s]}
<1> SUFFICES ASSUME C # {} PROVE FALSE
  OBVIOUS
<1>1. IsFiniteSet(T)
  BY FS_Subset
<1>2. PICK s \in C : \A t \in C : t \subseteq s => t = s
  <2>1. C \subseteq SUBSET T
    OBVIOUS
  <2> HIDE DEF C
  <2> QED
    BY <1>1, <2>1, SmallestSet
<1>3. f[s] = IF s = {} THEN 0 ELSE F[Chosen(s)] + f[s \ {Chosen(s)}]
  BY DEF IsSumOf
<1>4. g[s] = IF s = {} THEN 0 ELSE F[Chosen(s)] + g[s \ {Chosen(s)}]
  BY DEF IsSumOf
<1>5. s # {}
  BY <1>3, <1>4
<1>6. Chosen(s) \in s
  BY <1>5, ChosenIsMember
<1>7. s \ {Chosen(s)} \notin C
  BY <1>2, <1>6
<1> QED
  BY <1>3, <1>4, <1>7

LEMMA SumsExist ==
    ASSUME NEW F, NEW S, IsFiniteSet(S)
    PROVE  IsSumOf(SomeSumOf(F, S), F, S)
<1> DEFINE C == {T \in SUBSET S : ~IsSumOf(SomeSumOf(F, T), F, T)}
<1> SUFFICES ASSUME C # {} PROVE FALSE
  OBVIOUS
<1>1. PICK T \in C : \A t \in C : t \subseteq T => t = T
  <2>1. C \subseteq SUBSET S
    OBVIOUS
  <2> HIDE DEF C
  <2> QED
    BY <2>1, SmallestSet
<1>2. IsFiniteSet(T)
  BY FS_Subset
<1>3. ASSUME NEW t \in SUBSET T, t # T
      PROVE  IsSumOf(SomeSumOf(F, t), F, t)
  BY <1>1, <1>3
<1> DEFINE g == [s \in SUBSET T |-> IF s = {} THEN 0
                                    ELSE F[Chosen(s)] + SomeSumOf(F, s \ {Chosen(s)})[s \ {Chosen(s)}]]
<1>4. ASSUME NEW t \in SUBSET T, t # T
      PROVE  g[t] = SomeSumOf(F, t)[t]
  <2>1. SomeSumOf(F, t)[t] = IF t = {} THEN 0 ELSE F[Chosen(t)] + SomeSumOf(F, t)[t \ {Chosen(t)}]
    <3> DEFINE h == SomeSumOf(F, t)
    <3>1. h = [s \in SUBSET t |-> IF s = {} THEN 0 ELSE F[Chosen(s)] + h[s \ {Chosen(s)}]]
      BY <1>3, <1>4 DEF IsSumOf
    <3> HIDE DEF h
    <3> QED
      BY <3>1 DEF h
  <2>2. CASE t = {}
    BY <2>1, <2>2
  <2>3. CASE t # {}
    <3> DEFINE u == t \ {Chosen(t)}
    <3>1. Chosen(t) \in t
      BY <2>3, ChosenIsMember
    <3>2. u \in SUBSET T /\ u # T /\ u \in SUBSET t
      BY <3>1
    <3>3. IsFiniteSet(t)
      BY <1>2, FS_Subset
    <3>4. IsSumOf(SomeSumOf(F, u), F, u) /\ IsSumOf(SomeSumOf(F, t), F, t)
      BY <1>3, <1>4, <3>2
    <3>5. SomeSumOf(F, t)[u] = SomeSumOf(F, u)[u]
      BY <3>2, <3>3, <3>4, SumsAreUnique
    <3> QED
      BY <2>1, <2>3, <3>5
  <2> QED
    BY <2>2, <2>3
<1>5. IsSumOf(g, F, T)
  <2>1. ASSUME NEW s \in SUBSET T, s # {}
        PROVE  g[s] = F[Chosen(s)] + g[s \ {Chosen(s)}]
    <3>1. Chosen(s) \in s
      BY <2>1, ChosenIsMember
    <3>2. s \ {Chosen(s)} \in SUBSET T /\ s \ {Chosen(s)} # T
      BY <3>1
    <3>3. g[s \ {Chosen(s)}] = SomeSumOf(F, s \ {Chosen(s)})[s \ {Chosen(s)}]
      BY <1>4, <3>2
    <3> HIDE DEF g
    <3>4. g[s] = F[Chosen(s)] + SomeSumOf(F, s \ {Chosen(s)})[s \ {Chosen(s)}]
      BY <2>1 DEF g
    <3> QED
      BY <3>3, <3>4
  <2>2. {} \in SUBSET T /\ g[{}] = 0
    OBVIOUS
  <2>3. g = [s \in SUBSET T |-> g[s]]
    OBVIOUS
  <2> HIDE DEF g
  <2>4. [s \in SUBSET T |-> g[s]] =
        [s \in SUBSET T |-> IF s = {} THEN 0 ELSE F[Chosen(s)] + g[s \ {Chosen(s)}]]
    BY <2>1, <2>2
  <2> QED
    BY <2>3, <2>4 DEF IsSumOf
<1>6. IsSumOf(SomeSumOf(F, T), F, T)
  <2> HIDE DEF g
  <2> QED
    BY <1>5 DEF SomeSumOf
<1> QED
  BY <1>6

----------------------------------------------------------------------------
(***************************************************************************)
(* The elements one by one, in any order.                                  *)
(***************************************************************************)
LEMMA SumEmpty ==
    ASSUME NEW F
    PROVE  SumFunctionOnSet(F, {}) = 0
<1>1. IsSumOf(SomeSumOf(F, {}), F, {})
  BY SumsExist, FS_EmptySet
<1> DEFINE f == SomeSumOf(F, {})
<1>2. f = [s \in SUBSET {} |-> IF s = {} THEN 0 ELSE F[Chosen(s)] + f[s \ {Chosen(s)}]]
  BY <1>1 DEF IsSumOf
<1>3. f[{}] = 0
  <2> HIDE DEF f
  <2> QED
    BY <1>2
<1> QED
  BY <1>3, SumIsFold

LEMMA SumStep ==
    ASSUME NEW F, NEW S, IsFiniteSet(S), S # {}
    PROVE  SumFunctionOnSet(F, S) = F[Chosen(S)] + SumFunctionOnSet(F, S \ {Chosen(S)})
<1> DEFINE T == S \ {Chosen(S)}
           f == SomeSumOf(F, S)
<1>1. IsFiniteSet(T) /\ T \in SUBSET S
  BY FS_Subset
<1>2. IsSumOf(SomeSumOf(F, S), F, S) /\ IsSumOf(SomeSumOf(F, T), F, T)
  BY <1>1, SumsExist
<1>3. f = [s \in SUBSET S |-> IF s = {} THEN 0 ELSE F[Chosen(s)] + f[s \ {Chosen(s)}]]
  BY <1>2 DEF IsSumOf
<1>4. f[S] = F[Chosen(S)] + f[T]
  <2> HIDE DEF f
  <2> QED
    BY <1>3
<1>5. f[T] = SomeSumOf(F, T)[T]
  BY <1>1, <1>2, SumsAreUnique
<1> QED
  BY <1>4, <1>5, SumIsFold

\* F is defined on S and its values are integers.
Summable(F, S) == \A x \in S : F[x] \in Int

LEMMA SumType ==
    ASSUME NEW F, NEW S, IsFiniteSet(S), Summable(F, S)
    PROVE  SumFunctionOnSet(F, S) \in Int
<1> DEFINE C == {T \in SUBSET S : SumFunctionOnSet(F, T) \notin Int}
<1> SUFFICES ASSUME C # {} PROVE FALSE
  OBVIOUS
<1>1. PICK T \in C : \A t \in C : t \subseteq T => t = T
  <2>1. C \subseteq SUBSET S
    OBVIOUS
  <2> HIDE DEF C
  <2> QED
    BY <2>1, SmallestSet
<1>2. T # {}
  <2>1. SumFunctionOnSet(F, T) \notin Int
    BY <1>1
  <2> QED
    BY <2>1, SumEmpty
<1>3. Chosen(T) \in T /\ IsFiniteSet(T)
  BY <1>2, ChosenIsMember, FS_Subset
<1>4. SumFunctionOnSet(F, T \ {Chosen(T)}) \in Int
  BY <1>1, <1>3
<1>5. SumFunctionOnSet(F, T) = F[Chosen(T)] + SumFunctionOnSet(F, T \ {Chosen(T)})
  BY <1>2, <1>3, SumStep
<1>6. F[Chosen(T)] \in Int
  BY <1>3 DEF Summable
<1> QED
  BY <1>1, <1>4, <1>5, <1>6

LEMMA SumRemove ==
    ASSUME NEW F, NEW S, IsFiniteSet(S), Summable(F, S), NEW x \in S
    PROVE  SumFunctionOnSet(F, S) = F[x] + SumFunctionOnSet(F, S \ {x})
<1> DEFINE Sum(T) == SumFunctionOnSet(F, T)
           C == {T \in SUBSET S : \E y \in T : Sum(T) # F[y] + Sum(T \ {y})}
<1> SUFFICES ASSUME C # {} PROVE FALSE
  OBVIOUS
<1>1. PICK T \in C : \A t \in C : t \subseteq T => t = T
  <2>1. C \subseteq SUBSET S
    OBVIOUS
  <2> HIDE DEF C
  <2> QED
    BY <2>1, SmallestSet
<1>2. PICK y \in T : Sum(T) # F[y] + Sum(T \ {y})
  BY <1>1
<1> DEFINE c == Chosen(T)
<1>3. c \in T
  BY <1>2, ChosenIsMember
<1>4. IsFiniteSet(T) /\ IsFiniteSet(T \ {c}) /\ IsFiniteSet(T \ {y}) /\ IsFiniteSet((T \ {c}) \ {y})
  BY FS_Subset
<1>5. Sum(T) = F[c] + Sum(T \ {c})
  BY <1>3, <1>4, SumStep
<1>6. y # c
  BY <1>2, <1>5
<1>7. Sum(T \ {c}) = F[y] + Sum((T \ {c}) \ {y})
  <2>1. T \ {c} \in SUBSET S /\ T \ {c} \subseteq T /\ T \ {c} # T /\ y \in T \ {c}
    BY <1>3, <1>6
  <2> QED
    BY <1>1, <2>1
<1>8. Sum(T \ {y}) = F[c] + Sum((T \ {y}) \ {c})
  <2>1. T \ {y} \in SUBSET S /\ T \ {y} \subseteq T /\ T \ {y} # T /\ c \in T \ {y}
    BY <1>3, <1>6
  <2> QED
    BY <1>1, <2>1
<1>9. (T \ {c}) \ {y} = (T \ {y}) \ {c}
  OBVIOUS
<1>10. F[c] \in Int /\ F[y] \in Int /\ Sum((T \ {c}) \ {y}) \in Int
  <2>1. Summable(F, (T \ {c}) \ {y})
    BY DEF Summable
  <2> QED
    BY <1>3, <1>4, <2>1, SumType DEF Summable
<1>11. Sum(T) # F[y] + Sum(T \ {y})
  BY <1>2
<1>12. ASSUME NEW p \in Int, NEW q \in Int, NEW w \in Int
       PROVE  p + (q + w) = q + (p + w)
  OBVIOUS
<1>13. F[c] + (F[y] + Sum((T \ {c}) \ {y})) = F[y] + (F[c] + Sum((T \ {c}) \ {y}))
  BY <1>10, <1>12
<1> HIDE DEF C
<1> QED
  BY <1>5, <1>7, <1>8, <1>9, <1>11, <1>13, Zenon

LEMMA SumAdd ==
    ASSUME NEW F, NEW S, IsFiniteSet(S), NEW x, x \notin S, Summable(F, S \cup {x})
    PROVE  SumFunctionOnSet(F, S \cup {x}) = SumFunctionOnSet(F, S) + F[x]
<1>1. IsFiniteSet(S \cup {x})
  BY FS_AddElement
<1>2. (S \cup {x}) \ {x} = S
  OBVIOUS
<1>3. SumFunctionOnSet(F, S \cup {x}) = F[x] + SumFunctionOnSet(F, S)
  BY <1>1, <1>2, SumRemove
<1>4. SumFunctionOnSet(F, S) \in Int /\ F[x] \in Int
  BY SumType DEF Summable
<1> QED
  BY <1>3, <1>4

LEMMA SumSingleton ==
    ASSUME NEW F, NEW x, F[x] \in Int
    PROVE  SumFunctionOnSet(F, {x}) = F[x]
<1>1. SumFunctionOnSet(F, {} \cup {x}) = SumFunctionOnSet(F, {}) + F[x]
  BY SumAdd, FS_EmptySet DEF Summable
<1> QED
  BY <1>1, SumEmpty

LEMMA SumPair ==
    ASSUME NEW F, NEW x, NEW y, x # y, F[x] \in Int, F[y] \in Int
    PROVE  IsFiniteSet({x, y}) /\ SumFunctionOnSet(F, {x, y}) = F[x] + F[y]
<1>1. IsFiniteSet({x}) /\ {x} \cup {y} = {x, y} /\ y \notin {x}
  BY FS_Singleton
<1>2. IsFiniteSet({x, y})
  BY <1>1, FS_AddElement
<1>3. SumFunctionOnSet(F, {x} \cup {y}) = SumFunctionOnSet(F, {x}) + F[y]
  BY <1>1, SumAdd DEF Summable
<1> QED
  BY <1>1, <1>2, <1>3, SumSingleton

----------------------------------------------------------------------------
(***************************************************************************)
(* Sums of related functions over one set.                                 *)
(***************************************************************************)
LEMMA SumEqual ==
    ASSUME NEW F, NEW G, NEW S, IsFiniteSet(S), Summable(F, S), \A x \in S : F[x] = G[x]
    PROVE  SumFunctionOnSet(F, S) = SumFunctionOnSet(G, S)
<1> DEFINE C == {T \in SUBSET S : SumFunctionOnSet(F, T) # SumFunctionOnSet(G, T)}
<1> SUFFICES ASSUME C # {} PROVE FALSE
  OBVIOUS
<1>1. PICK T \in C : \A t \in C : t \subseteq T => t = T
  <2>1. C \subseteq SUBSET S
    OBVIOUS
  <2> HIDE DEF C
  <2> QED
    BY <2>1, SmallestSet
<1>2. SumFunctionOnSet(F, T) # SumFunctionOnSet(G, T) /\ T \in SUBSET S
  BY <1>1
<1>3. PICK x \in T : TRUE
  BY <1>2, SumEmpty
<1>4. IsFiniteSet(T) /\ Summable(F, T) /\ Summable(G, T)
  BY <1>2, FS_Subset DEF Summable
<1>5. SumFunctionOnSet(F, T \ {x}) = SumFunctionOnSet(G, T \ {x})
  BY <1>1, <1>3
<1>6. SumFunctionOnSet(F, T) = F[x] + SumFunctionOnSet(F, T \ {x})
  BY <1>3, <1>4, SumRemove
<1>7. SumFunctionOnSet(G, T) = G[x] + SumFunctionOnSet(G, T \ {x})
  BY <1>3, <1>4, SumRemove
<1>8. F[x] = G[x]
  BY <1>2, <1>3
<1> QED
  BY <1>2, <1>5, <1>6, <1>7, <1>8

LEMMA SumOfTwo ==
    ASSUME NEW F, NEW G, NEW H, NEW S, IsFiniteSet(S), Summable(G, S), Summable(H, S),
           \A x \in S : F[x] = G[x] + H[x]
    PROVE  SumFunctionOnSet(F, S) = SumFunctionOnSet(G, S) + SumFunctionOnSet(H, S)
<1> DEFINE C == {T \in SUBSET S : SumFunctionOnSet(F, T) # SumFunctionOnSet(G, T) + SumFunctionOnSet(H, T)}
<1> SUFFICES ASSUME C # {} PROVE FALSE
  OBVIOUS
<1>1. PICK T \in C : \A t \in C : t \subseteq T => t = T
  <2>1. C \subseteq SUBSET S
    OBVIOUS
  <2> HIDE DEF C
  <2> QED
    BY <2>1, SmallestSet
<1>2. SumFunctionOnSet(F, T) # SumFunctionOnSet(G, T) + SumFunctionOnSet(H, T) /\ T \in SUBSET S
  BY <1>1
<1>3. PICK x \in T : TRUE
  BY <1>2, SumEmpty
<1>4. IsFiniteSet(T) /\ Summable(F, T) /\ Summable(G, T) /\ Summable(H, T)
  BY <1>2, FS_Subset DEF Summable
<1>5. SumFunctionOnSet(F, T \ {x}) = SumFunctionOnSet(G, T \ {x}) + SumFunctionOnSet(H, T \ {x})
  BY <1>1, <1>3
<1>6. SumFunctionOnSet(F, T) = F[x] + SumFunctionOnSet(F, T \ {x})
  BY <1>3, <1>4, SumRemove
<1>7. SumFunctionOnSet(G, T) = G[x] + SumFunctionOnSet(G, T \ {x})
  BY <1>3, <1>4, SumRemove
<1>8. SumFunctionOnSet(H, T) = H[x] + SumFunctionOnSet(H, T \ {x})
  BY <1>3, <1>4, SumRemove
<1>9. F[x] = G[x] + H[x] /\ G[x] \in Int /\ H[x] \in Int
  BY <1>2, <1>3 DEF Summable
<1>10. SumFunctionOnSet(G, T \ {x}) \in Int /\ SumFunctionOnSet(H, T \ {x}) \in Int
  <2>1. IsFiniteSet(T \ {x}) /\ Summable(G, T \ {x}) /\ Summable(H, T \ {x})
    BY <1>4, FS_Subset DEF Summable
  <2> QED
    BY <2>1, SumType
<1> HIDE DEF C
<1> QED
  BY <1>2, <1>5, <1>6, <1>7, <1>8, <1>9, <1>10

LEMMA SumZero ==
    ASSUME NEW F, NEW S, IsFiniteSet(S), \A x \in S : F[x] = 0
    PROVE  SumFunctionOnSet(F, S) = 0
<1>1. Summable(F, S)
  BY DEF Summable
<1>2. SumFunctionOnSet(F, S) = SumFunctionOnSet(F, S) + SumFunctionOnSet(F, S)
  BY <1>1, SumOfTwo
<1> QED
  BY <1>1, <1>2, SumType

LEMMA SumDifference ==
    ASSUME NEW F, NEW G, NEW H, NEW S, IsFiniteSet(S), Summable(G, S), Summable(H, S),
           \A x \in S : F[x] = G[x] - H[x]
    PROVE  SumFunctionOnSet(F, S) = SumFunctionOnSet(G, S) - SumFunctionOnSet(H, S)
<1>1. Summable(F, S) /\ \A x \in S : G[x] = F[x] + H[x]
  BY DEF Summable
<1>2. SumFunctionOnSet(G, S) = SumFunctionOnSet(F, S) + SumFunctionOnSet(H, S)
  BY <1>1, SumOfTwo
<1> QED
  BY <1>1, <1>2, SumType

\* Used for amounts in hundredths of a rupiah.
LEMMA SumScaled ==
    ASSUME NEW F, NEW G, NEW k \in Int, NEW S, IsFiniteSet(S), Summable(G, S),
           \A x \in S : F[x] = G[x] * k
    PROVE  SumFunctionOnSet(F, S) = SumFunctionOnSet(G, S) * k
<1> DEFINE C == {T \in SUBSET S : SumFunctionOnSet(F, T) # SumFunctionOnSet(G, T) * k}
<1> SUFFICES ASSUME C # {} PROVE FALSE
  OBVIOUS
<1>1. PICK T \in C : \A t \in C : t \subseteq T => t = T
  <2>1. C \subseteq SUBSET S
    OBVIOUS
  <2> HIDE DEF C
  <2> QED
    BY <2>1, SmallestSet
<1>2. SumFunctionOnSet(F, T) # SumFunctionOnSet(G, T) * k /\ T \in SUBSET S
  BY <1>1
<1>3. PICK x \in T : TRUE
  BY <1>2, SumEmpty
<1>4. IsFiniteSet(T) /\ Summable(F, T) /\ Summable(G, T)
  BY <1>2, FS_Subset DEF Summable
<1>5. SumFunctionOnSet(F, T \ {x}) = SumFunctionOnSet(G, T \ {x}) * k
  BY <1>1, <1>3
<1>6. SumFunctionOnSet(F, T) = F[x] + SumFunctionOnSet(F, T \ {x})
  BY <1>3, <1>4, SumRemove
<1>7. SumFunctionOnSet(G, T) = G[x] + SumFunctionOnSet(G, T \ {x})
  BY <1>3, <1>4, SumRemove
<1>8. F[x] = G[x] * k /\ G[x] \in Int
  BY <1>2, <1>3 DEF Summable
<1>9. SumFunctionOnSet(G, T \ {x}) \in Int
  <2>1. IsFiniteSet(T \ {x}) /\ Summable(G, T \ {x})
    BY <1>4, FS_Subset DEF Summable
  <2> QED
    BY <2>1, SumType
<1>10. ASSUME NEW p \in Int, NEW q \in Int
       PROVE  (p + q) * k = p * k + q * k
  OBVIOUS
<1> HIDE DEF C
<1> QED
  BY <1>2, <1>5, <1>6, <1>7, <1>8, <1>9, <1>10

----------------------------------------------------------------------------
(***************************************************************************)
(* Sums over related sets.                                                 *)
(***************************************************************************)
LEMMA SumUnion ==
    ASSUME NEW F, NEW S, NEW R, IsFiniteSet(S), IsFiniteSet(R), S \cap R = {}, Summable(F, S \cup R)
    PROVE  SumFunctionOnSet(F, S \cup R) = SumFunctionOnSet(F, S) + SumFunctionOnSet(F, R)
<1> DEFINE C == {T \in SUBSET R : SumFunctionOnSet(F, S \cup T) # SumFunctionOnSet(F, S) + SumFunctionOnSet(F, T)}
<1> SUFFICES ASSUME C # {} PROVE FALSE
  OBVIOUS
<1>1. PICK T \in C : \A t \in C : t \subseteq T => t = T
  <2>1. C \subseteq SUBSET R
    OBVIOUS
  <2> HIDE DEF C
  <2> QED
    BY <2>1, SmallestSet
<1>2. SumFunctionOnSet(F, S \cup T) # SumFunctionOnSet(F, S) + SumFunctionOnSet(F, T) /\ T \in SUBSET R
  BY <1>1
<1>3. T # {}
  <2>1. SumFunctionOnSet(F, S) \in Int
    BY SumType DEF Summable
  <2>2. S \cup {} = S
    OBVIOUS
  <2>3. SumFunctionOnSet(F, S \cup {}) = SumFunctionOnSet(F, S) + SumFunctionOnSet(F, {})
    BY <2>1, <2>2, SumEmpty
  <2> HIDE DEF C
  <2> QED
    BY <1>2, <2>3
<1>4. PICK x \in T : TRUE
  BY <1>3
<1>5. IsFiniteSet(T) /\ IsFiniteSet(T \ {x}) /\ IsFiniteSet(S \cup T)
  BY <1>2, FS_Subset, FS_Union
<1>6. Summable(F, S) /\ Summable(F, T) /\ Summable(F, T \ {x}) /\ Summable(F, S \cup T)
  BY <1>2 DEF Summable
<1>7. SumFunctionOnSet(F, S \cup (T \ {x})) = SumFunctionOnSet(F, S) + SumFunctionOnSet(F, T \ {x})
  BY <1>1, <1>4
<1>8. SumFunctionOnSet(F, S \cup T) = F[x] + SumFunctionOnSet(F, S \cup (T \ {x}))
  <2>1. (S \cup T) \ {x} = S \cup (T \ {x})
    BY <1>2, <1>4
  <2> QED
    BY <2>1, <1>4, <1>5, <1>6, SumRemove
<1>9. SumFunctionOnSet(F, T) = F[x] + SumFunctionOnSet(F, T \ {x})
  BY <1>4, <1>5, <1>6, SumRemove
<1>10. SumFunctionOnSet(F, S) \in Int /\ SumFunctionOnSet(F, T \ {x}) \in Int /\ F[x] \in Int
  BY <1>4, <1>5, <1>6, SumType DEF Summable
<1> HIDE DEF C
<1> QED
  BY <1>2, <1>7, <1>8, <1>9, <1>10

\* The elements on which F is 0 can be left out.
LEMMA SumSupport ==
    ASSUME NEW F, NEW S, IsFiniteSet(S), NEW R \in SUBSET S, Summable(F, S), \A x \in S \ R : F[x] = 0
    PROVE  SumFunctionOnSet(F, S) = SumFunctionOnSet(F, R)
<1>1. IsFiniteSet(R) /\ IsFiniteSet(S \ R) /\ R \cup (S \ R) = S /\ R \cap (S \ R) = {}
  BY FS_Subset
<1>2. SumFunctionOnSet(F, S) = SumFunctionOnSet(F, R) + SumFunctionOnSet(F, S \ R)
  BY <1>1, SumUnion
<1>3. SumFunctionOnSet(F, S \ R) = 0
  BY <1>1, SumZero
<1>4. SumFunctionOnSet(F, R) \in Int
  BY <1>1, SumType DEF Summable
<1> QED
  BY <1>2, <1>3, <1>4

\* The sum over an image is the sum of the composition: h may not map two
\* elements of S to one.
LEMMA SumImage ==
    ASSUME NEW F, NEW h, NEW S, IsFiniteSet(S),
           \A x, y \in S : h[x] = h[y] => x = y,
           \A x \in S : F[h[x]] \in Int
    PROVE  /\ IsFiniteSet({h[x] : x \in S})
           /\ SumFunctionOnSet(F, {h[x] : x \in S}) = SumFunctionOnSet([x \in S |-> F[h[x]]], S)
<1> DEFINE G == [x \in S |-> F[h[x]]]
           Img(T) == {h[x] : x \in T}
           C == {T \in SUBSET S : ~(/\ IsFiniteSet(Img(T))
                                    /\ SumFunctionOnSet(F, Img(T)) = SumFunctionOnSet(G, T))}
<1> SUFFICES C = {}
  OBVIOUS
<1> SUFFICES ASSUME C # {} PROVE FALSE
  OBVIOUS
<1>1. PICK T \in C : \A t \in C : t \subseteq T => t = T
  <2>1. C \subseteq SUBSET S
    OBVIOUS
  <2> HIDE DEF C
  <2> QED
    BY <2>1, SmallestSet
<1>2. ~(IsFiniteSet(Img(T)) /\ SumFunctionOnSet(F, Img(T)) = SumFunctionOnSet(G, T)) /\ T \in SUBSET S
  BY <1>1
<1>3. T # {}
  <2>1. Img({}) = {}
    OBVIOUS
  <2> HIDE DEF C, Img
  <2> QED
    BY <1>2, <2>1, SumEmpty, FS_EmptySet
<1>4. PICK x \in T : TRUE
  BY <1>3
<1> DEFINE U == T \ {x}
<1>5. IsFiniteSet(Img(U)) /\ SumFunctionOnSet(F, Img(U)) = SumFunctionOnSet(G, U)
  <2>1. U \in SUBSET S /\ U \subseteq T /\ U # T
    BY <1>2, <1>4
  <2>2. U \notin C
    <3> HIDE DEF C
    <3> QED
      BY <1>1, <2>1
  <2> HIDE DEF Img, U, G
  <2> QED
    BY <2>1, <2>2
<1>6. Img(T) = Img(U) \cup {h[x]} /\ h[x] \notin Img(U)
  BY <1>2, <1>4
<1>7. Summable(F, Img(U) \cup {h[x]}) /\ Summable(G, U \cup {x}) /\ G[x] = F[h[x]]
  BY <1>2, <1>4 DEF Summable
<1>8. IsFiniteSet(U) /\ x \notin U /\ U \cup {x} = T
  BY <1>2, <1>4, FS_Subset
<1>9. IsFiniteSet(Img(T))
  <2> HIDE DEF C, Img, U, G
  <2> QED
    BY <1>5, <1>6, FS_AddElement
<1> HIDE DEF C, Img, U, G
<1>10. SumFunctionOnSet(F, Img(T)) = SumFunctionOnSet(F, Img(U)) + F[h[x]]
  BY <1>5, <1>6, <1>7, SumAdd
<1>11. SumFunctionOnSet(G, T) = SumFunctionOnSet(G, U) + G[x]
  BY <1>7, <1>8, SumAdd
<1> QED
  BY <1>2, <1>5, <1>7, <1>9, <1>10, <1>11

\* A set can be summed group by group; g names the group of each element.
LEMMA SumGroups ==
    ASSUME NEW F, NEW g, NEW S, IsFiniteSet(S), NEW I, IsFiniteSet(I), Summable(F, S),
           \A x \in S : g[x] \in I
    PROVE  SumFunctionOnSet(F, S) =
             SumFunctionOnSet([i \in I |-> SumFunctionOnSet(F, {x \in S : g[x] = i})], I)
<1> DEFINE Of(J) == {x \in S : g[x] \in J}
           In(i) == {x \in S : g[x] = i}
           G == [i \in I |-> SumFunctionOnSet(F, In(i))]
           C == {J \in SUBSET I : SumFunctionOnSet(F, Of(J)) # SumFunctionOnSet(G, J)}
<1>1. Of(I) = S
  OBVIOUS
<1> SUFFICES C = {}
  BY <1>1
<1> SUFFICES ASSUME C # {} PROVE FALSE
  OBVIOUS
<1>2. PICK J \in C : \A t \in C : t \subseteq J => t = J
  <2>1. C \subseteq SUBSET I
    OBVIOUS
  <2> HIDE DEF C
  <2> QED
    BY <2>1, SmallestSet
<1>3. SumFunctionOnSet(F, Of(J)) # SumFunctionOnSet(G, J) /\ J \in SUBSET I
  BY <1>2
<1>4. J # {}
  <2>1. Of({}) = {}
    OBVIOUS
  <2> HIDE DEF C, Of
  <2> QED
    BY <1>3, <2>1, SumEmpty
<1>5. PICK i \in J : TRUE
  BY <1>4
<1> DEFINE K == J \ {i}
<1>6. SumFunctionOnSet(F, Of(K)) = SumFunctionOnSet(G, K)
  BY <1>2, <1>5
<1>7. Of(J) = Of(K) \cup In(i) /\ Of(K) \cap In(i) = {} /\ Of(K) \subseteq S /\ In(i) \subseteq S
  BY <1>5
<1>8. \A j \in I : In(j) \subseteq S
  OBVIOUS
<1>9. K \subseteq I /\ i \in I /\ i \notin K /\ J = K \cup {i} /\ G[i] = SumFunctionOnSet(F, In(i))
  BY <1>3, <1>5
<1>10. Summable(G, J)
  <2> SUFFICES ASSUME NEW j \in J PROVE SumFunctionOnSet(F, In(j)) \in Int
    BY <1>3 DEF Summable
  <2>1. In(j) \subseteq S
    BY <1>3, <1>8
  <2> HIDE DEF In
  <2>2. Summable(F, In(j)) /\ IsFiniteSet(In(j))
    BY <2>1, FS_Subset DEF Summable
  <2> QED
    BY <2>2, SumType
<1> HIDE DEF C, Of, In, G, K
<1>11. SumFunctionOnSet(F, Of(J)) = SumFunctionOnSet(F, Of(K)) + SumFunctionOnSet(F, In(i))
  <2>1. IsFiniteSet(Of(K)) /\ IsFiniteSet(In(i)) /\ Summable(F, Of(K) \cup In(i))
    BY <1>7, FS_Subset DEF Summable
  <2> QED
    BY <1>7, <2>1, SumUnion
<1>12. SumFunctionOnSet(G, J) = SumFunctionOnSet(G, K) + G[i]
  <2>1. IsFiniteSet(K)
    BY <1>9, FS_Subset
  <2> QED
    BY <1>9, <1>10, <2>1, SumAdd
<1> QED
  BY <1>3, <1>6, <1>9, <1>11, <1>12
\* A cardinality is a sum of ones.
LEMMA SumOnes ==
    ASSUME NEW F, NEW S, IsFiniteSet(S), \A x \in S : F[x] = 1
    PROVE  SumFunctionOnSet(F, S) = Cardinality(S)
<1> DEFINE C == {T \in SUBSET S : SumFunctionOnSet(F, T) # Cardinality(T)}
<1> SUFFICES C = {}
  OBVIOUS
<1> SUFFICES ASSUME C # {} PROVE FALSE
  OBVIOUS
<1>1. PICK T \in C : \A t \in C : t \subseteq T => t = T
  <2>1. C \subseteq SUBSET S
    OBVIOUS
  <2> HIDE DEF C
  <2> QED
    BY <2>1, SmallestSet
<1>2. T \in SUBSET S /\ SumFunctionOnSet(F, T) # Cardinality(T)
  BY <1>1
<1>3. IsFiniteSet(T) /\ Summable(F, T)
  BY <1>2, FS_Subset DEF Summable
<1>4. T # {}
  BY <1>2, SumEmpty, FS_EmptySet
<1>5. PICK x \in T : TRUE
  BY <1>4
<1> DEFINE U == T \ {x}
<1>6. SumFunctionOnSet(F, U) = Cardinality(U)
  <2>1. U \in SUBSET S /\ U \subseteq T /\ U # T
    BY <1>2, <1>5
  <2>2. U \notin C
    <3> HIDE DEF C
    <3> QED
      BY <1>1, <2>1
  <2> HIDE DEF U
  <2> QED
    BY <2>1, <2>2
<1>7. SumFunctionOnSet(F, T) = 1 + SumFunctionOnSet(F, U)
  <2>1. F[x] = 1
    BY <1>2, <1>5
  <2> QED
    BY <1>3, <1>5, <2>1, SumRemove
<1>8. Cardinality(U) = Cardinality(T) - 1 /\ Cardinality(T) \in Nat
  BY <1>3, <1>5, FS_RemoveElement, FS_CardinalityType
<1> QED
  <2> HIDE DEF U
  <2> QED
    BY <1>2, <1>6, <1>7, <1>8

\* An injective image has as many elements.
LEMMA ImageOfOnes ==
    ASSUME NEW F, NEW h, NEW S, IsFiniteSet(S),
           \A x, y \in S : h[x] = h[y] => x = y,
           \A x \in S : F[h[x]] = 1
    PROVE  Cardinality({h[x] : x \in S}) = Cardinality(S)
<1> DEFINE T == {h[x] : x \in S}
           G == [x \in S |-> F[h[x]]]
<1>1. \A x \in S : F[h[x]] \in Int
  OBVIOUS
<1>2. IsFiniteSet(T) /\ SumFunctionOnSet(F, T) = SumFunctionOnSet(G, S)
  BY <1>1, SumImage
<1>3. (\A y \in T : F[y] = 1) /\ (\A x \in S : G[x] = 1)
  OBVIOUS
<1> HIDE DEF G, T
<1>4. SumFunctionOnSet(F, T) = Cardinality(T) /\ SumFunctionOnSet(G, S) = Cardinality(S)
  BY <1>2, <1>3, SumOnes
<1> QED
  BY <1>2, <1>4 DEF T

LEMMA CardinalityImage ==
    ASSUME NEW h, NEW S, IsFiniteSet(S), \A x, y \in S : h[x] = h[y] => x = y
    PROVE  Cardinality({h[x] : x \in S}) = Cardinality(S)
<1> DEFINE F == [y \in {h[x] : x \in S} |-> 1]
<1>1. \A x \in S : F[h[x]] = 1
  OBVIOUS
<1> HIDE DEF F
<1> QED
  BY <1>1, ImageOfOnes

\* What remains of a sum when a part of its set is taken away.
LEMMA SumWithout ==
    ASSUME NEW F, NEW S, IsFiniteSet(S), NEW R \in SUBSET S, Summable(F, S)
    PROVE  SumFunctionOnSet(F, S) - SumFunctionOnSet(F, R) = SumFunctionOnSet(F, S \ R)
<1> DEFINE Q == S \ R
<1>1. IsFiniteSet(Q) /\ IsFiniteSet(R) /\ Q \cap R = {} /\ Q \cup R = S
  BY FS_Subset
<1>2. Summable(F, Q) /\ Summable(F, R)
  BY DEF Summable
<1> HIDE DEF Q
<1>3. SumFunctionOnSet(F, S) = SumFunctionOnSet(F, Q) + SumFunctionOnSet(F, R)
  BY <1>1, SumUnion
<1>4. SumFunctionOnSet(F, Q) \in Int /\ SumFunctionOnSet(F, R) \in Int
  BY <1>1, <1>2, SumType
<1> QED
  BY <1>3, <1>4 DEF Q

=============================================================================
