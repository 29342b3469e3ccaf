------------------------ MODULE Accounting_proofs ------------------------
(***************************************************************************)
(* Lemmas the proofs of several components share: the arithmetic of the    *)
(* wallet, and sums over finite sets, in which the modules say what money  *)
(* and goods add up to.                                                    *)
(***************************************************************************)
EXTENDS BudgetRules, FiniteSetsExt, FiniteSetTheorems, WellFoundedInduction, TLAPS

(***************************************************************************)
(* The wallet.                                                             *)
(***************************************************************************)

IsMove(m) == /\ DOMAIN m \subseteq Counter
             /\ \A c \in DOMAIN m : m[c] \in Int

\* Every branch of create, confirm and cancel assigns integers to counters.
LEMMA MovesAreMoves ==
    ASSUME NEW type \in BudgetType, NEW status \in LogStatus \cup {"NONE"}, NEW f \in Int
    PROVE  /\ IsMove(CreateMove(type, status, f))
           /\ IsMove(ConfirmMove(type, status, f))
           /\ IsMove(CancelMove(type, status, f))
           /\ IsMove(Effect(type, status, f))
<1>1. IsMove(NoMove)
  BY DEF IsMove, NoMove
<1>2. \A g \in Int : IsMove(Income(g)) /\ IsMove(Expense(g))
  BY DEF IsMove, Income, Expense, Counter
<1>3. -f \in Int
  OBVIOUS
<1> QED BY <1>1, <1>2, <1>3 DEF CreateMove, ConfirmMove, CancelMove, Effect

\* Writing a row back with a move gives a row.
LEMMA SaveRowType ==
    ASSUME NEW current \in [Counter -> Int], NEW loaded \in [Counter -> Int],
           NEW move, IsMove(move)
    PROVE  SaveRow(current, loaded, move) \in [Counter -> Int]
BY DEF SaveRow, IsMove

\* What creating, confirming and cancelling add to a counter is the change
\* of what the record counts for.  A pending income counts for nothing,
\* whatever its amount.
LEMMA MovesFollowEffects ==
    ASSUME NEW type \in BudgetType, NEW s \in LogStatus, NEW f \in Int, NEW c \in Counter
    PROVE  LET D(m) == Delta(m, c) IN
           /\ s # "CANCELED" => D(CreateMove(type, s, f)) = D(Effect(type, s, f))
           /\ D(ConfirmMove(type, s, f)) =
                D(Effect(type, "CONFIRMED", f)) - D(Effect(type, s, f))
           /\ D(CancelMove(type, s, f)) =
                D(Effect(type, "CANCELED", f)) - D(Effect(type, s, f))
           /\ type = "IN" /\ s = "PENDING" => D(Effect(type, s, f)) = 0
BY DEF BudgetType, LogStatus, CreateMove, ConfirmMove, CancelMove, Effect, Income,
       Expense, NoMove, Delta, Counter

\* Saving a row over itself moves every counter by its delta.
LEMMA SaveFresh ==
    ASSUME NEW r \in [Counter -> Int], NEW m, IsMove(m), NEW c \in Counter
    PROVE  SaveRow(r, r, m)[c] = r[c] + Delta(m, c)
BY DEF SaveRow, Delta, IsMove

-----------------------------------------------------------------------------
(***************************************************************************)
(* Sums.  SumFunctionOnSet is a recursive function chosen over the subsets *)
(* of the set: that it exists, and what it gives, is shown by induction on *)
(* their size, as the absence of a least counterexample.                   *)
(***************************************************************************)

\* A set of naturals has a least element.
LEMMA MinIsLeast ==
    ASSUME NEW S \in SUBSET Nat, S # {}
    PROVE  Min(S) \in S /\ \A n \in S : Min(S) <= n
<1>1. IsWellFoundedOn({ss \in Nat \X Nat : ss[1] < ss[2]}, Nat)
  BY NatLessThanWellFounded DEF OpToRel
<1>2. PICK m \in S : \A n \in S : ~(<<n, m>> \in {ss \in Nat \X Nat : ss[1] < ss[2]})
  BY <1>1, WFMin
<1>3. ASSUME NEW n \in S PROVE m <= n
  <2>1. ~(<<n, m>> \in Nat \X Nat /\ <<n, m>>[1] < <<n, m>>[2])
    BY <1>2
  <2> QED BY <2>1
<1> QED BY <1>3 DEF Min

\* Induction over the subsets of a finite set, good being the set of those
\* the induction is about.
LEMMA SubsetInduction ==
    ASSUME NEW S, IsFiniteSet(S), NEW good,
           \A T \in SUBSET S : (\A x \in T : T \ {x} \in good) => T \in good
    PROVE  \A T \in SUBSET S : T \in good
<1> DEFINE bad == {n \in Nat : \E T \in SUBSET S : T \notin good /\ Cardinality(T) = n}
<1>1. \A T \in SUBSET S : IsFiniteSet(T) /\ Cardinality(T) \in Nat
  BY FS_Subset, FS_CardinalityType
<1>2. SUFFICES ASSUME bad # {} PROVE FALSE
  BY <1>1
<1>3. bad \in SUBSET Nat
  OBVIOUS
<1>4. Min(bad) \in bad /\ \A n \in bad : Min(bad) <= n
  <2> HIDE DEF bad
  <2> QED BY <1>2, <1>3, MinIsLeast
<1>5. PICK T \in SUBSET S : T \notin good /\ Cardinality(T) = Min(bad)
  BY <1>4
<1>6. PICK x \in T : T \ {x} \notin good
  BY <1>5
<1>7. Cardinality(T \ {x}) = Cardinality(T) - 1
  BY <1>1, FS_RemoveElement
<1>8. T \ {x} \in SUBSET S /\ Cardinality(T \ {x}) \in bad
  BY <1>1, <1>6
<1>9. Min(bad) \in Nat /\ Min(bad) <= Cardinality(T \ {x})
  BY <1>4, <1>8
<1> HIDE DEF bad
<1> QED BY <1>5, <1>7, <1>9

-----------------------------------------------------------------------------
\* The element the sum over T takes first.
AnyOf(T) == CHOOSE x \in T : TRUE

\* it sums f over the subsets of S.
SumsOver(f, S, it) ==
    it = [T \in SUBSET S |-> IF T = {} THEN 0 ELSE f[AnyOf(T)] + it[T \ {AnyOf(T)}]]

\* SumFunctionOnSet is such a function, when there is one.
LEMMA SumIsChosen ==
    ASSUME NEW f, NEW S, \E it : SumsOver(f, S, it)
    PROVE  \E it : SumsOver(f, S, it) /\ SumFunctionOnSet(f, S) = it[S]
<1> DEFINE it == CHOOSE it : SumsOver(f, S, it)
<1>1. SumsOver(f, S, it)
  OBVIOUS
<1>2. SumFunctionOnSet(f, S) = it[S]
  BY DEF SumFunctionOnSet, FoldFunctionOnSet, MapThenFoldSet, SumsOver, AnyOf
<1> QED BY <1>1, <1>2

\* The sums over ever larger subsets exist, hence the one over S.
LEMMA SumExists ==
    ASSUME NEW f, NEW S, IsFiniteSet(S)
    PROVE  \E it : SumsOver(f, S, it)
<1> DEFINE Small(n) == {T \in SUBSET S : Cardinality(T) <= n}
           Upto(n, it) == it = [T \in Small(n) |->
                                  IF T = {} THEN 0 ELSE f[AnyOf(T)] + it[T \ {AnyOf(T)}]]
           bad == {n \in Nat : ~ \E it : Upto(n, it)}
<1>1. \A T \in SUBSET S : IsFiniteSet(T) /\ Cardinality(T) \in Nat /\ (Cardinality(T) = 0 <=> T = {})
  BY FS_Subset, FS_CardinalityType, FS_EmptySet
<1>2. ASSUME bad # {} PROVE FALSE
  <2>1. bad \in SUBSET Nat
    OBVIOUS
  <2>2. Min(bad) \in bad /\ \A n \in bad : Min(bad) <= n
    <3> HIDE DEF bad
    <3> QED BY <1>2, <2>1, MinIsLeast
  <2>3. PICK m \in Nat : m = Min(bad)
    BY <2>2
  <2>4. ~ \E it : Upto(m, it)
    <3>1. m \in bad
      <4> HIDE DEF bad
      <4> QED BY <2>2, <2>3
    <3> HIDE DEF Upto
    <3> QED BY <3>1
  <2>5. CASE m = 0
    <3>1. Small(0) = {{}}
      BY <1>1
    <3>2. Upto(0, [T \in {{}} |-> 0])
      BY <3>1
    <3> QED BY <2>4, <2>5, <3>2
  <2>6. CASE m # 0
    <3>1. m - 1 \in Nat
      BY <2>6
    <3>0. m - 1 \notin bad
      <4> HIDE DEF bad
      <4>1. \A n \in bad : m <= n
        BY <2>2, <2>3
      <4>2. ~(m <= m - 1)
        OBVIOUS
      <4> QED BY <4>1, <4>2
    <3>2. PICK it : Upto(m - 1, it)
      BY <3>0, <3>1
    <3> DEFINE up == [T \in Small(m) |->
                        IF T = {} THEN 0 ELSE f[AnyOf(T)] + it[T \ {AnyOf(T)}]]
    <3>3. ASSUME NEW T \in Small(m), T # {}
          PROVE  up[T \ {AnyOf(T)}] = it[T \ {AnyOf(T)}]
      <4> DEFINE R == T \ {AnyOf(T)}
      <4>1. AnyOf(T) \in T
        BY <3>3 DEF AnyOf
      <4>2. R \in SUBSET S /\ Cardinality(R) = Cardinality(T) - 1
        BY <1>1, <4>1, FS_RemoveElement
      <4>3. R \in Small(m - 1) /\ R \in Small(m)
        BY <1>1, <3>1, <4>2
      <4> HIDE DEF R
      <4>4. it[R] = IF R = {} THEN 0 ELSE f[AnyOf(R)] + it[R \ {AnyOf(R)}]
        BY <3>2, <4>3
      <4>5. up[R] = IF R = {} THEN 0 ELSE f[AnyOf(R)] + it[R \ {AnyOf(R)}]
        BY <4>3
      <4> QED BY <4>4, <4>5 DEF R
    <3>4. up = [T \in Small(m) |-> IF T = {} THEN 0 ELSE f[AnyOf(T)] + up[T \ {AnyOf(T)}]]
      <4> HIDE DEF Small
      <4> QED BY <3>3
    <3> HIDE DEF up
    <3>5. Upto(m, up)
      BY <3>4
    <3> QED BY <2>4, <3>5
  <2> QED BY <2>5, <2>6
<1>3. PICK it : Upto(Cardinality(S), it)
  BY <1>1, <1>2
<1>4. Small(Cardinality(S)) = SUBSET S
  BY FS_Subset
<1>5. SumsOver(f, S, it)
  BY <1>3, <1>4 DEF SumsOver
<1> QED BY <1>5

\* Two sums agree wherever both are defined.
LEMMA SumsAgree ==
    ASSUME NEW f, NEW g, NEW S, IsFiniteSet(S), NEW R, NEW it, NEW jt,
           SumsOver(f, S, it), SumsOver(g, R, jt), \A x \in S \cap R : f[x] = g[x]
    PROVE  \A T \in SUBSET (S \cap R) : it[T] = jt[T]
<1> DEFINE good == {T \in SUBSET (S \cap R) : it[T] = jt[T]}
<1>1. IsFiniteSet(S \cap R)
  BY FS_Intersection
<1>2. ASSUME NEW T \in SUBSET (S \cap R), \A x \in T : T \ {x} \in good
      PROVE  T \in good
  <2>1. /\ it[T] = IF T = {} THEN 0 ELSE f[AnyOf(T)] + it[T \ {AnyOf(T)}]
        /\ jt[T] = IF T = {} THEN 0 ELSE g[AnyOf(T)] + jt[T \ {AnyOf(T)}]
    BY DEF SumsOver
  <2>2. CASE T = {}
    BY <2>1, <2>2
  <2>3. CASE T # {}
    <3>1. AnyOf(T) \in T
      BY <2>3 DEF AnyOf
    <3>2. f[AnyOf(T)] = g[AnyOf(T)] /\ it[T \ {AnyOf(T)}] = jt[T \ {AnyOf(T)}]
      BY <1>2, <3>1
    <3> QED BY <2>1, <2>3, <3>2
  <2> QED BY <2>2, <2>3
<1>3. \A T \in SUBSET (S \cap R) : T \in good
  <2> HIDE DEF good
  <2> QED BY <1>1, <1>2, SubsetInduction
<1> QED BY <1>3

\* Nothing adds up to 0.
LEMMA SumEmpty == ASSUME NEW f PROVE SumFunctionOnSet(f, {}) = 0
<1>1. PICK it : SumsOver(f, {}, it) /\ SumFunctionOnSet(f, {}) = it[{}]
  BY SumExists, SumIsChosen, FS_EmptySet
<1> QED BY <1>1 DEF SumsOver

\* Equal terms give equal sums.
LEMMA SumEqual ==
    ASSUME NEW f, NEW g, NEW S, IsFiniteSet(S), \A x \in S : f[x] = g[x]
    PROVE  SumFunctionOnSet(f, S) = SumFunctionOnSet(g, S)
<1>1. PICK it : SumsOver(f, S, it) /\ SumFunctionOnSet(f, S) = it[S]
  BY SumExists, SumIsChosen
<1>2. PICK jt : SumsOver(g, S, jt) /\ SumFunctionOnSet(g, S) = jt[S]
  BY SumExists, SumIsChosen
<1>3. it[S] = jt[S]
  BY <1>1, <1>2, SumsAgree
<1> QED BY <1>1, <1>2, <1>3

\* The first term the sum picks.
LEMMA SumPick ==
    ASSUME NEW f, NEW S, IsFiniteSet(S), S # {}
    PROVE  /\ AnyOf(S) \in S
           /\ SumFunctionOnSet(f, S) = f[AnyOf(S)] + SumFunctionOnSet(f, S \ {AnyOf(S)})
<1> DEFINE R == S \ {AnyOf(S)}
<1>0. AnyOf(S) \in S /\ R \in SUBSET S /\ IsFiniteSet(R)
  BY FS_RemoveElement DEF AnyOf
<1>1. PICK it : SumsOver(f, S, it) /\ SumFunctionOnSet(f, S) = it[S]
  BY SumExists, SumIsChosen
<1>2. PICK jt : SumsOver(f, R, jt) /\ SumFunctionOnSet(f, R) = jt[R]
  BY <1>0, SumExists, SumIsChosen
<1>3. it[S] = f[AnyOf(S)] + it[R]
  BY <1>1 DEF SumsOver
<1>4. it[R] = jt[R]
  BY <1>0, <1>1, <1>2, SumsAgree
<1> QED BY <1>0, <1>1, <1>2, <1>3, <1>4

\* A sum of integers is an integer.
LEMMA SumType ==
    ASSUME NEW S, IsFiniteSet(S), NEW f, \A x \in S : f[x] \in Int
    PROVE  SumFunctionOnSet(f, S) \in Int
<1> DEFINE good == {T \in SUBSET S : SumFunctionOnSet(f, T) \in Int}
<1>1. ASSUME NEW T \in SUBSET S, \A x \in T : T \ {x} \in good
      PROVE  T \in good
  <2>1. CASE T = {}
    BY <2>1, SumEmpty
  <2>2. CASE T # {}
    <3>1. IsFiniteSet(T)
      BY FS_Subset
    <3>2. /\ AnyOf(T) \in T
          /\ SumFunctionOnSet(f, T) = f[AnyOf(T)] + SumFunctionOnSet(f, T \ {AnyOf(T)})
      BY <2>2, <3>1, SumPick
    <3>3. f[AnyOf(T)] \in Int /\ SumFunctionOnSet(f, T \ {AnyOf(T)}) \in Int
      BY <1>1, <3>2
    <3>4. SumFunctionOnSet(f, T) \in Int
      BY <3>2, <3>3
    <3> QED BY <3>4
  <2> QED BY <2>1, <2>2
<1>2. \A T \in SUBSET S : T \in good
  <2> HIDE DEF good
  <2> QED BY <1>1, SubsetInduction
<1> QED BY <1>2

\* Any term may be taken out.
LEMMA SumRemove ==
    ASSUME NEW S, IsFiniteSet(S), NEW f, \A x \in S : f[x] \in Int, NEW y \in S
    PROVE  SumFunctionOnSet(f, S) = f[y] + SumFunctionOnSet(f, S \ {y})
<1> DEFINE Sum(T) == SumFunctionOnSet(f, T)
           good == {T \in SUBSET S : \A x \in T : Sum(T) = f[x] + Sum(T \ {x})}
<1>0. \A T \in SUBSET S : IsFiniteSet(T) /\ Sum(T) \in Int
  BY FS_Subset, SumType
<1>1. ASSUME NEW T \in SUBSET S, \A x \in T : T \ {x} \in good
      PROVE  T \in good
  <2> SUFFICES ASSUME NEW x \in T PROVE Sum(T) = f[x] + Sum(T \ {x})
    OBVIOUS
  <2> DEFINE p == AnyOf(T)
  <2>1. p \in T /\ Sum(T) = f[p] + Sum(T \ {p})
    BY <1>0, SumPick
  <2> HIDE DEF p, Sum
  <2>2. CASE x = p
    BY <2>1, <2>2
  <2>3. CASE x # p
    <3>1. Sum(T \ {p}) = f[x] + Sum((T \ {p}) \ {x})
      BY <1>1, <2>1, <2>3
    <3>2. Sum(T \ {x}) = f[p] + Sum((T \ {x}) \ {p})
      BY <1>1, <2>1, <2>3
    <3> DEFINE R == Sum((T \ {x}) \ {p})
    <3>3. (T \ {p}) \ {x} = (T \ {x}) \ {p}
      OBVIOUS
    <3>4. f[x] \in Int /\ f[p] \in Int /\ R \in Int
      BY <1>0, <2>1
    <3>5. Sum(T) = f[p] + (f[x] + R)
      BY <2>1, <3>1, <3>3
    <3>6. f[x] + Sum(T \ {x}) = f[x] + (f[p] + R)
      BY <3>2
    <3> HIDE DEF R
    <3>7. f[p] + (f[x] + R) = f[x] + (f[p] + R)
      BY <3>4
    <3> QED BY <3>5, <3>6, <3>7
  <2> QED BY <2>2, <2>3
<1>2. \A T \in SUBSET S : T \in good
  <2> HIDE DEF good
  <2> QED BY <1>1, SubsetInduction
<1> QED BY <1>2

\* Only y's term changes: the sum changes by the difference.
LEMMA SumUpdate ==
    ASSUME NEW S, IsFiniteSet(S), NEW y \in S, NEW f, NEW g,
           \A x \in S : f[x] \in Int, g[y] \in Int,
           \A x \in S \ {y} : g[x] = f[x]
    PROVE  SumFunctionOnSet(g, S) = SumFunctionOnSet(f, S) + (g[y] - f[y])
<1> DEFINE R == SumFunctionOnSet(f, S \ {y})
<1>1. IsFiniteSet(S \ {y})
  BY FS_RemoveElement
<1>2. R \in Int
  BY <1>1, SumType
<1>3. SumFunctionOnSet(f, S) = f[y] + R
  BY SumRemove
<1>4. \A x \in S : g[x] \in Int
  OBVIOUS
<1>5. SumFunctionOnSet(g, S) = g[y] + SumFunctionOnSet(g, S \ {y})
  BY <1>4, SumRemove
<1>6. SumFunctionOnSet(g, S \ {y}) = R
  BY <1>1, SumEqual
<1> HIDE DEF R
<1> QED BY <1>2, <1>3, <1>5, <1>6

\* The same, when perhaps no term changes.
LEMMA SumStep ==
    ASSUME NEW S, IsFiniteSet(S), NEW f, NEW g, NEW y,
           \A x \in S : f[x] \in Int /\ g[x] \in Int,
           \A x \in S \ {y} : g[x] = f[x]
    PROVE  /\ SumFunctionOnSet(f, S) \in Int
           /\ SumFunctionOnSet(g, S) =
                SumFunctionOnSet(f, S) + IF y \in S THEN g[y] - f[y] ELSE 0
<1>1. SumFunctionOnSet(f, S) \in Int
  BY SumType
<1>2. CASE y \in S
  BY <1>1, <1>2, SumUpdate
<1>3. CASE y \notin S
  <2>1. SumFunctionOnSet(g, S) = SumFunctionOnSet(f, S)
    BY <1>3, SumEqual
  <2> QED BY <1>1, <1>3, <2>1
<1> QED BY <1>1, <1>2, <1>3

\* A sum of terms that are all 0 is 0.
LEMMA SumZero ==
    ASSUME NEW S, IsFiniteSet(S), NEW f, \A x \in S : f[x] = 0
    PROVE  SumFunctionOnSet(f, S) = 0
<1> DEFINE good == {T \in SUBSET S : SumFunctionOnSet(f, T) = 0}
<1>1. ASSUME NEW T \in SUBSET S, \A x \in T : T \ {x} \in good
      PROVE  T \in good
  <2>1. CASE T = {}
    BY <2>1, SumEmpty
  <2>2. CASE T # {}
    <3>1. IsFiniteSet(T)
      BY FS_Subset
    <3>2. /\ AnyOf(T) \in T
          /\ SumFunctionOnSet(f, T) = f[AnyOf(T)] + SumFunctionOnSet(f, T \ {AnyOf(T)})
      BY <2>2, <3>1, SumPick
    <3>3. f[AnyOf(T)] = 0 /\ SumFunctionOnSet(f, T \ {AnyOf(T)}) = 0
      BY <1>1, <3>2
    <3>4. SumFunctionOnSet(f, T) = 0
      BY <3>2, <3>3
    <3> QED BY <3>4
  <2> QED BY <2>1, <2>2
<1>2. \A T \in SUBSET S : T \in good
  <2> HIDE DEF good
  <2> QED BY <1>1, SubsetInduction
<1> QED BY <1>2

\* A sum of smaller terms is no larger.
LEMMA SumMonotonic ==
    ASSUME NEW S, IsFiniteSet(S), NEW f, NEW g,
           \A x \in S : f[x] \in Int /\ g[x] \in Int /\ f[x] <= g[x]
    PROVE  SumFunctionOnSet(f, S) <= SumFunctionOnSet(g, S)
<1> DEFINE good == {T \in SUBSET S : SumFunctionOnSet(f, T) <= SumFunctionOnSet(g, T)}
<1>1. ASSUME NEW T \in SUBSET S, \A x \in T : T \ {x} \in good
      PROVE  T \in good
  <2>1. CASE T = {}
    BY <2>1, SumEmpty
  <2>2. CASE T # {}
    <3> DEFINE p == AnyOf(T)
               F == SumFunctionOnSet(f, T \ {p})
               G == SumFunctionOnSet(g, T \ {p})
    <3>1. IsFiniteSet(T) /\ IsFiniteSet(T \ {p})
      BY FS_Subset
    <3>2. /\ p \in T
          /\ SumFunctionOnSet(f, T) = f[p] + F
          /\ SumFunctionOnSet(g, T) = g[p] + G
      BY <2>2, <3>1, SumPick
    <3>3. F \in Int /\ G \in Int
      BY <3>1, SumType
    <3>4. F <= G
      BY <1>1, <3>2
    <3>5. f[p] \in Int /\ g[p] \in Int /\ f[p] <= g[p]
      BY <3>2
    <3>6. SumFunctionOnSet(f, T) <= SumFunctionOnSet(g, T)
      <4> HIDE DEF p, F, G
      <4> QED BY <3>2, <3>3, <3>4, <3>5
    <3> QED BY <3>6
  <2> QED BY <2>1, <2>2
<1>2. \A T \in SUBSET S : T \in good
  <2> HIDE DEF good
  <2> QED BY <1>1, SubsetInduction
<1> QED BY <1>2

\* A sum over a part of S is a sum over S with the other terms 0.
LEMMA SumSubset ==
    ASSUME NEW S, IsFiniteSet(S), NEW T \in SUBSET S, NEW f, NEW g,
           \A x \in T : f[x] \in Int,
           \A x \in S : g[x] = IF x \in T THEN f[x] ELSE 0
    PROVE  SumFunctionOnSet(f, T) = SumFunctionOnSet(g, S)
<1> DEFINE good == {U \in SUBSET S : SumFunctionOnSet(g, U) = SumFunctionOnSet(f, U \cap T)}
<1>1. ASSUME NEW U \in SUBSET S, \A x \in U : U \ {x} \in good
      PROVE  U \in good
  <2>1. CASE U = {}
    <3>1. U \cap T = {}
      BY <2>1
    <3> QED BY <2>1, <3>1, SumEmpty
  <2>2. CASE U # {}
    <3> DEFINE p == AnyOf(U)
    <3>1. IsFiniteSet(U) /\ IsFiniteSet(U \cap T) /\ IsFiniteSet((U \ {p}) \cap T)
      BY FS_Subset
    <3>2. /\ p \in U
          /\ SumFunctionOnSet(g, U) = g[p] + SumFunctionOnSet(g, U \ {p})
      BY <2>2, <3>1, SumPick
    <3> HIDE DEF p
    <3>3. SumFunctionOnSet(g, U \ {p}) = SumFunctionOnSet(f, (U \ {p}) \cap T)
      BY <1>1, <3>2
    <3>4. CASE p \in T
      <4>1. (U \cap T) \ {p} = (U \ {p}) \cap T
        OBVIOUS
      <4>2. SumFunctionOnSet(f, U \cap T) = f[p] + SumFunctionOnSet(f, (U \cap T) \ {p})
        <5>1. \A x \in U \cap T : f[x] \in Int
          OBVIOUS
        <5>2. p \in U \cap T
          BY <3>2, <3>4
        <5> QED BY <3>1, <5>1, <5>2, SumRemove
      <4>3. g[p] = f[p]
        BY <3>2, <3>4
      <4>4. SumFunctionOnSet(g, U) = SumFunctionOnSet(f, U \cap T)
        BY <3>2, <3>3, <4>1, <4>2, <4>3
      <4> QED BY <4>4
    <3>5. CASE p \notin T
      <4>1. U \cap T = (U \ {p}) \cap T
        BY <3>5
      <4>2. g[p] = 0
        BY <3>2, <3>5
      <4>3. SumFunctionOnSet(f, (U \ {p}) \cap T) \in Int
        <5>1. \A x \in (U \ {p}) \cap T : f[x] \in Int
          OBVIOUS
        <5> QED BY <3>1, <5>1, SumType
      <4>4. SumFunctionOnSet(g, U) = 0 + SumFunctionOnSet(f, (U \ {p}) \cap T)
        BY <3>2, <3>3, <4>2
      <4>5. SumFunctionOnSet(g, U) = SumFunctionOnSet(f, (U \ {p}) \cap T)
        BY <4>3, <4>4
      <4> QED BY <4>1, <4>5
    <3> QED BY <3>4, <3>5
  <2> QED BY <2>1, <2>2
<1>2. \A U \in SUBSET S : U \in good
  <2> HIDE DEF good
  <2> QED BY <1>1, SubsetInduction
<1>3. SumFunctionOnSet(g, S) = SumFunctionOnSet(f, S \cap T) /\ S \cap T = T
  BY <1>2
<1> QED BY <1>3

\* The sum over two disjoint sets.
LEMMA SumUnion ==
    ASSUME NEW S, IsFiniteSet(S), NEW T, IsFiniteSet(T), S \cap T = {},
           NEW f, \A x \in S \cup T : f[x] \in Int
    PROVE  SumFunctionOnSet(f, S \cup T) = SumFunctionOnSet(f, S) + SumFunctionOnSet(f, T)
<1> DEFINE good == {U \in SUBSET T :
                     SumFunctionOnSet(f, S \cup U) = SumFunctionOnSet(f, S) + SumFunctionOnSet(f, U)}
<1>0. SumFunctionOnSet(f, S) \in Int
  BY SumType
<1>1. ASSUME NEW U \in SUBSET T, \A x \in U : U \ {x} \in good
      PROVE  U \in good
  <2>1. CASE U = {}
    <3>1. S \cup U = S /\ SumFunctionOnSet(f, U) = 0
      BY <2>1, SumEmpty
    <3> QED BY <1>0, <2>1, <3>1
  <2>2. CASE U # {}
    <3>1. PICK p : p \in U
      BY <2>2
    <3> DEFINE A == SumFunctionOnSet(f, S)
               B == SumFunctionOnSet(f, U \ {p})
    <3>2. IsFiniteSet(U) /\ IsFiniteSet(U \ {p}) /\ IsFiniteSet(S \cup U)
      BY FS_Subset, FS_Union
    <3>3. SumFunctionOnSet(f, U) = f[p] + B
      <4>1. \A x \in U : f[x] \in Int
        OBVIOUS
      <4> QED BY <3>1, <3>2, <4>1, SumRemove
    <3>4. SumFunctionOnSet(f, S \cup U) = f[p] + SumFunctionOnSet(f, (S \cup U) \ {p})
      <4>1. \A x \in S \cup U : f[x] \in Int
        OBVIOUS
      <4>2. p \in S \cup U
        BY <3>1
      <4> QED BY <3>2, <4>1, <4>2, SumRemove
    <3>5. (S \cup U) \ {p} = S \cup (U \ {p})
      BY <3>1
    <3>6. SumFunctionOnSet(f, S \cup (U \ {p})) = A + B
      BY <1>1, <3>1
    <3>7. f[p] \in Int /\ A \in Int
      BY <1>0, <3>1
    <3>8. B \in Int
      <4>1. \A x \in U \ {p} : f[x] \in Int
        OBVIOUS
      <4> QED BY <3>2, <4>1, SumType
    <3>9. SumFunctionOnSet(f, S \cup U) = A + SumFunctionOnSet(f, U)
      <4>1. SumFunctionOnSet(f, S \cup U) = f[p] + (A + B)
        BY <3>4, <3>5, <3>6
      <4> HIDE DEF A, B
      <4>2. f[p] + (A + B) = A + (f[p] + B)
        BY <3>7, <3>8
      <4> QED BY <3>3, <4>1, <4>2
    <3> QED BY <3>9
  <2> QED BY <2>1, <2>2
<1>2. \A U \in SUBSET T : U \in good
  <2> HIDE DEF good
  <2> QED BY <1>1, SubsetInduction
<1> QED BY <1>2

\* A sum of natural numbers is one, and a part of it is no larger.
LEMMA SumPart ==
    ASSUME NEW S, IsFiniteSet(S), NEW T \in SUBSET S, NEW f, \A x \in S : f[x] \in Nat
    PROVE  /\ SumFunctionOnSet(f, S) \in Nat /\ SumFunctionOnSet(f, T) \in Nat
           /\ SumFunctionOnSet(f, T) <= SumFunctionOnSet(f, S)
<1>1. ASSUME NEW U \in SUBSET S PROVE SumFunctionOnSet(f, U) \in Nat
  <2> DEFINE zero == [x \in U |-> 0]
  <2>1. IsFiniteSet(U) /\ \A x \in U : f[x] \in Int /\ zero[x] \in Int /\ zero[x] <= f[x] /\ zero[x] = 0
    BY FS_Subset
  <2> HIDE DEF zero
  <2>2. SumFunctionOnSet(zero, U) = 0
    BY <2>1, SumZero
  <2>3. SumFunctionOnSet(f, U) \in Int
    BY <2>1, SumType
  <2>4. SumFunctionOnSet(zero, U) <= SumFunctionOnSet(f, U)
    BY <2>1, SumMonotonic
  <2>5. SumFunctionOnSet(f, U) \in Nat
    BY <2>2, <2>3, <2>4
  <2> QED BY <2>5
<1>2. IsFiniteSet(T) /\ IsFiniteSet(S \ T) /\ T \cap (S \ T) = {} /\ T \cup (S \ T) = S
  BY FS_Subset
<1>3. \A x \in T \cup (S \ T) : f[x] \in Int
  OBVIOUS
<1>4. SumFunctionOnSet(f, S) = SumFunctionOnSet(f, T) + SumFunctionOnSet(f, S \ T)
  BY <1>2, <1>3, SumUnion
<1>5. /\ SumFunctionOnSet(f, S) \in Nat /\ SumFunctionOnSet(f, T) \in Nat
      /\ SumFunctionOnSet(f, S \ T) \in Nat
  BY <1>1
<1> QED BY <1>4, <1>5

\* A sum changes by at least what one term does, if no other term falls.
LEMMA SumAtLeast ==
    ASSUME NEW S, IsFiniteSet(S), NEW f, NEW g, NEW y \in S,
           \A x \in S : f[x] \in Int /\ g[x] \in Int,
           \A x \in S \ {y} : f[x] <= g[x]
    PROVE  SumFunctionOnSet(f, S) + (g[y] - f[y]) <= SumFunctionOnSet(g, S)
<1> DEFINE h == [x \in S |-> IF x = y THEN g[y] ELSE f[x]]
<1>1. h[y] = g[y] /\ \A x \in S \ {y} : h[x] = f[x]
  OBVIOUS
<1>2. \A x \in S : h[x] \in Int /\ g[x] \in Int /\ h[x] <= g[x]
  <2> SUFFICES ASSUME NEW x \in S PROVE h[x] \in Int /\ g[x] \in Int /\ h[x] <= g[x]
    OBVIOUS
  <2>1. CASE x = y
    BY <1>1, <2>1
  <2>2. CASE x # y
    BY <1>1, <2>2
  <2> QED
    BY <2>1, <2>2
<1> HIDE DEF h
<1>3. SumFunctionOnSet(h, S) = SumFunctionOnSet(f, S) + (h[y] - f[y])
  BY <1>1, SumUpdate
<1>4. SumFunctionOnSet(h, S) <= SumFunctionOnSet(g, S)
  BY <1>2, SumMonotonic
<1> QED
  BY <1>1, <1>3, <1>4

\* The same for two terms.
LEMMA SumAtLeastTwo ==
    ASSUME NEW S, IsFiniteSet(S), NEW f, NEW g, NEW y \in S, NEW z \in S \ {y},
           \A x \in S : f[x] \in Int /\ g[x] \in Int,
           \A x \in S \ {y, z} : f[x] <= g[x]
    PROVE  SumFunctionOnSet(f, S) + (g[y] - f[y]) + (g[z] - f[z]) <= SumFunctionOnSet(g, S)
<1> DEFINE h == [x \in S |-> IF x = y THEN g[y] ELSE f[x]]
<1>1. h[y] = g[y] /\ h[z] = f[z] /\ \A x \in S \ {y} : h[x] = f[x]
  OBVIOUS
<1>2. \A x \in S : h[x] \in Int
  OBVIOUS
<1>3. \A x \in S \ {z} : h[x] <= g[x]
  <2> SUFFICES ASSUME NEW x \in S \ {z} PROVE h[x] <= g[x]
    OBVIOUS
  <2>1. CASE x = y
    BY <1>1, <2>1
  <2>2. CASE x # y
    BY <1>1, <2>2
  <2> QED
    BY <2>1, <2>2
<1> HIDE DEF h
<1>4. SumFunctionOnSet(h, S) = SumFunctionOnSet(f, S) + (h[y] - f[y])
  BY <1>1, SumUpdate
<1>5. SumFunctionOnSet(h, S) + (g[z] - h[z]) <= SumFunctionOnSet(g, S)
  <2>1. z \in S /\ \A x \in S : h[x] \in Int /\ g[x] \in Int
    BY <1>2
  <2> QED
    BY <1>3, <2>1, SumAtLeast
<1> QED
  BY <1>1, <1>4, <1>5

\* The sum of two terms each is the sum of the two sums.
LEMMA SumPlus ==
    ASSUME NEW S, IsFiniteSet(S), NEW f, NEW g, NEW h,
           \A x \in S : f[x] \in Int /\ g[x] \in Int /\ h[x] = f[x] + g[x]
    PROVE  SumFunctionOnSet(h, S) = SumFunctionOnSet(f, S) + SumFunctionOnSet(g, S)
<1> DEFINE good == {T \in SUBSET S :
                      SumFunctionOnSet(h, T) = SumFunctionOnSet(f, T) + SumFunctionOnSet(g, T)}
<1>1. ASSUME NEW T \in SUBSET S, \A x \in T : T \ {x} \in good
      PROVE  T \in good
  <2>1. CASE T = {}
    BY <2>1, SumEmpty
  <2>2. CASE T # {}
    <3> DEFINE p == AnyOf(T)
               F == SumFunctionOnSet(f, T \ {p})
               G == SumFunctionOnSet(g, T \ {p})
               H == SumFunctionOnSet(h, T \ {p})
    <3>1. IsFiniteSet(T) /\ IsFiniteSet(T \ {p})
      BY FS_Subset
    <3>2. /\ p \in T
          /\ SumFunctionOnSet(f, T) = f[p] + F
          /\ SumFunctionOnSet(g, T) = g[p] + G
          /\ SumFunctionOnSet(h, T) = h[p] + H
      BY <2>2, <3>1, SumPick
    <3>3. F \in Int /\ G \in Int
      BY <3>1, SumType
    <3>4. H = F + G
      BY <1>1, <3>2
    <3>5. f[p] \in Int /\ g[p] \in Int /\ h[p] = f[p] + g[p]
      BY <3>2
    <3>6. SumFunctionOnSet(h, T) = SumFunctionOnSet(f, T) + SumFunctionOnSet(g, T)
      <4> HIDE DEF p, F, G, H
      <4> QED BY <3>2, <3>3, <3>4, <3>5
    <3> QED BY <3>6
  <2> QED BY <2>1, <2>2
<1>2. \A T \in SUBSET S : T \in good
  <2> HIDE DEF good
  <2> QED BY <1>1, SubsetInduction
<1> QED BY <1>2
=============================================================================
