----------------------------- MODULE BonusProofs -----------------------------
(***************************************************************************)
(* Facts about money, and type correctness of Bonus, for every value of    *)
(* its constants.  BookProofs builds on both.                              *)
(*                                                                         *)
(* Total folds over a set in an order that CHOOSE fixes.  The library's    *)
(* induction theorems take an operator, which the provers cannot           *)
(* instantiate; the induction here is over a set of counterexamples        *)
(* instead, which is empty because a least member would lead to a smaller  *)
(* one (Least, MinimalSubset).                                             *)
(*                                                                         *)
(* TypeOK is not inductive: that a balance is a number of cents rests on   *)
(* the sums of accruals being numbers, hence on their sets being finite;   *)
(* and on the users of deals and requests being users.  TypeInv adds those *)
(* facts.                                                                  *)
(***************************************************************************)
EXTENDS Bonus, FiniteSetTheorems, WellFoundedInduction, TLAPS

(* Money: the sum of a set of rows, and rounding to cents. *)

Priced(S) == IsFiniteSet(S) /\ \A a \in S : a.amount \in Nat

First(T) == CHOOSE a \in T : TRUE
Body(f, T) == IF T = {} THEN 0 ELSE First(T).amount + f[T \ {First(T)}]
Sums(f, S) == f = [T \in SUBSET S |-> Body(f, T)]

\* The fold behind Total, unfolded once: the value at S of any function that
\* obeys Body on the subsets of S.
LEMMA TotalDef == \A S : Total(S) = (CHOOSE f : Sums(f, S))[S]
  BY DEF Total, MapThenSumSet, MapThenFoldSet, Body, First, Sums

\* The row a fold takes first is one of the rows.
LEMMA FirstIn == \A T : T # {} => First(T) \in T
  BY DEF First

\* A nonempty set of numbers has a least member.
LEMMA Least == ASSUME NEW B \in SUBSET Nat, B # {} PROVE \E n \in B : \A m \in B : n <= m
  <1> DEFINE Lt == {p \in Nat \X Nat : p[1] < p[2]}
  <1>1. IsWellFoundedOn(Lt, Nat)
    BY NatLessThanWellFounded DEF OpToRel
  <1>2. PICK n \in B : \A m \in B : <<m, n>> \notin Lt
    BY <1>1, WFMin
  <1>3. ASSUME NEW m \in B, m < n PROVE <<m, n>> \in Lt
    <2>1. <<m, n>> \in Nat \X Nat OBVIOUS
    <2>2. <<m, n>>[1] < <<m, n>>[2] BY <1>3
    <2> QED BY <2>1, <2>2
  <1>4. \A m \in B : ~ (m < n)
    BY <1>2, <1>3
  <1>5. n \in Nat /\ \A m \in B : m \in Nat
    OBVIOUS
  <1> QED BY <1>4, <1>5

\* A nonempty family of subsets of a finite set has a minimal member.
LEMMA MinimalSubset ==
  ASSUME NEW S, IsFiniteSet(S), NEW B \in SUBSET SUBSET S, B # {}
  PROVE  \E T \in B : \A U \in SUBSET T : U # T => U \notin B
  <1>1. IsWellFoundedOn(StrictSubsetOrdering(S), SUBSET S)
    BY FS_StrictSubsetOrderingWellFounded, FS_FiniteSubsetsOfFinite
  <1>2. PICK T \in B : \A U \in B : <<U, T>> \notin StrictSubsetOrdering(S)
    BY <1>1, WFMin
  <1>3. \A U \in SUBSET T : U # T => U \notin B
    BY <1>2 DEF StrictSubsetOrdering
  <1> QED BY <1>3

\* The recursion of a sum over a finite set of priced rows has a solution.
LEMMA SumsExists == ASSUME NEW S, Priced(S) PROVE \E f : Sums(f, S)
  <1> DEFINE UpTo(f, n) == /\ DOMAIN f = SUBSET S
                           /\ f = [T \in DOMAIN f |-> f[T]]
                           /\ \A T \in SUBSET S : Cardinality(T) <= n => f[T] = Body(f, T)
             Bad == {n \in Nat : ~ \E f : UpTo(f, n)}
             Next1(f) == [T \in SUBSET S |-> Body(f, T)]
  <1>0. \A T \in SUBSET S : IsFiniteSet(T) /\ Cardinality(T) \in Nat
    BY FS_Subset, FS_CardinalityType DEF Priced
  <1>1. UpTo(Next1([T \in SUBSET S |-> 0]), 0)
    <2>1. \A T \in SUBSET S : Cardinality(T) <= 0 => T = {}
      BY <1>0, FS_EmptySet
    <2> QED BY <2>1 DEF Body
  <1>2. ASSUME NEW n \in Nat, NEW f, UpTo(f, n) PROVE UpTo(Next1(f), n + 1)
    <2>1. ASSUME NEW T \in SUBSET S, Cardinality(T) <= n + 1
          PROVE Next1(f)[T] = Body(Next1(f), T)
      <3>1. CASE T = {}
        BY <3>1 DEF Body
      <3>2. CASE T # {}
        <4> DEFINE a == First(T)
        <4>1. a \in T BY <3>2, FirstIn
        <4>2. T \ {a} \in SUBSET S /\ Cardinality(T \ {a}) <= n
          BY <4>1, <1>0, <2>1, FS_RemoveElement
        <4>3. Next1(f)[T \ {a}] = Body(f, T \ {a})
          BY <4>2
        <4>4. f[T \ {a}] = Body(f, T \ {a})
          BY <4>2, <1>2
        <4>5. Next1(f)[T] = a.amount + f[T \ {a}]
          BY <3>2 DEF Body
        <4>6. Body(Next1(f), T) = a.amount + Next1(f)[T \ {a}]
          BY <3>2 DEF Body
        <4> QED BY <4>3, <4>4, <4>5, <4>6
      <3> QED BY <3>1, <3>2
    <2>2. DOMAIN Next1(f) = SUBSET S /\ Next1(f) = [T \in DOMAIN Next1(f) |-> Next1(f)[T]]
      OBVIOUS
    <2> QED BY <2>1, <2>2
  <1>3. Bad = {}
    <2> SUFFICES ASSUME Bad # {} PROVE FALSE OBVIOUS
    <2>1. PICK n \in Bad : \A m \in Bad : n <= m
      BY Least
    <2>2. n # 0 BY <1>1
    <2>a. n \in Nat OBVIOUS
    <2>b. n - 1 \in Nat BY <2>a, <2>2
    <2>3. n - 1 \in Nat /\ n - 1 \notin Bad
      <3> HIDE DEF Bad
      <3> QED BY <2>1, <2>a, <2>b
    <2>4. PICK f : UpTo(f, n - 1) BY <2>3
    <2>5. UpTo(Next1(f), (n - 1) + 1) BY <2>3, <2>4, <1>2
    <2>6. (n - 1) + 1 = n BY <2>1
    <2>7. UpTo(Next1(f), n) BY <2>5, <2>6
    <2> QED BY <2>7, <2>1
  <1>4. Cardinality(S) \in Nat BY <1>0
  <1>5. PICK f : UpTo(f, Cardinality(S)) BY <1>3, <1>4
  <1>6. \A T \in SUBSET S : f[T] = Body(f, T)
    BY <1>5, FS_Subset DEF Priced
  <1> QED BY <1>5, <1>6 DEF Sums

\* A subset of a finite set of priced rows is one too.
LEMMA PricedSubset == ASSUME NEW S, Priced(S), NEW T \in SUBSET S PROVE Priced(T)
  BY FS_Subset DEF Priced

\* Two solutions of the recursion agree wherever both are defined, and give
\* natural numbers.
LEMMA SumsUnique ==
  ASSUME NEW S, Priced(S), NEW f, Sums(f, S), NEW R \in SUBSET S, NEW g, Sums(g, R)
  PROVE  \A T \in SUBSET R : f[T] = g[T] /\ g[T] \in Nat
  <1> DEFINE Good(T) == f[T] = g[T] /\ g[T] \in Nat
             Bad == {T \in SUBSET R : ~ Good(T)}
  <1> SUFFICES ASSUME Bad # {} PROVE FALSE OBVIOUS
  <1>1. IsFiniteSet(R) BY FS_Subset DEF Priced
  <1>2. Bad \in SUBSET SUBSET R OBVIOUS
  <1>3. PICK T \in Bad : \A U \in SUBSET T : U # T => U \notin Bad
    <2> HIDE DEF Bad
    <2> QED BY <1>1, <1>2, MinimalSubset
  <1>4. T \in SUBSET R /\ T \in SUBSET S OBVIOUS
  <1>5. f[T] = Body(f, T) /\ g[T] = Body(g, T)
    BY <1>4 DEF Sums
  <1>6. CASE T = {}
    BY <1>5, <1>6 DEF Body
  <1>7. CASE T # {}
    <2> DEFINE a == First(T)
    <2>1. a \in T BY <1>7, FirstIn
    <2>2. T \ {a} \in SUBSET T /\ T \ {a} # T BY <2>1
    <2>3. Good(T \ {a}) BY <2>2, <1>3, <1>4
    <2>4. a.amount \in Nat BY <2>1, <1>4 DEF Priced
    <2>5. f[T] = a.amount + f[T \ {a}] /\ g[T] = a.amount + g[T \ {a}]
      BY <1>5, <1>7 DEF Body
    <2>6. Good(T) BY <2>3, <2>4, <2>5
    <2> QED BY <2>6
  <1> QED BY <1>6, <1>7

\* Total is a solution of the recursion.
LEMMA TotalSums == ASSUME NEW S, Priced(S) PROVE \E f : Sums(f, S) /\ Total(S) = f[S]
  <1>1. Sums(CHOOSE f : Sums(f, S), S) BY SumsExists
  <1> QED BY <1>1, TotalDef

\* A solution of the recursion on S gives Total on every subset of S.
LEMMA TotalOf ==
  ASSUME NEW S, Priced(S), NEW f, Sums(f, S), NEW R \in SUBSET S
  PROVE  f[R] = Total(R) /\ Total(R) \in Nat
  <1>1. Priced(R) BY PricedSubset
  <1>2. PICK g : Sums(g, R) /\ Total(R) = g[R] BY <1>1, TotalSums
  <1>3. R \in SUBSET R OBVIOUS
  <1> QED BY <1>2, <1>3, SumsUnique

\* The sum of amounts that are natural numbers is a natural number.
LEMMA TotalNat == ASSUME NEW S, Priced(S) PROVE Total(S) \in Nat
  <1>1. PICK f : Sums(f, S) BY SumsExists
  <1>2. S \in SUBSET S OBVIOUS
  <1> QED BY <1>1, <1>2, TotalOf

\* No rows add up to nothing.
LEMMA TotalEmpty == Total({}) = 0
  <1>1. Priced({}) BY FS_EmptySet DEF Priced
  <1>2. PICK f : Sums(f, {}) /\ Total({}) = f[{}] BY <1>1, TotalSums
  <1> QED BY <1>2 DEF Sums, Body

\* A sum is the first row plus the sum of the rest.
LEMMA TotalFirst ==
  ASSUME NEW S, Priced(S), S # {}
  PROVE  Total(S) = First(S).amount + Total(S \ {First(S)})
  <1>1. PICK f : Sums(f, S) /\ Total(S) = f[S] BY TotalSums
  <1>2. f[S] = First(S).amount + f[S \ {First(S)}]
    BY <1>1 DEF Sums, Body
  <1>3. S \ {First(S)} \in SUBSET S OBVIOUS
  <1>4. f[S \ {First(S)}] = Total(S \ {First(S)})
    BY <1>1, <1>3, TotalOf
  <1> QED BY <1>1, <1>2, <1>4

\* A sum is any one row plus the sum of the rest: the order of the fold does
\* not matter.
LEMMA TotalRemove ==
  ASSUME NEW S, Priced(S)
  PROVE  \A x \in S : Total(S) = x.amount + Total(S \ {x})
  <1> DEFINE Good(T) == \A x \in T : Total(T) = x.amount + Total(T \ {x})
             Bad == {T \in SUBSET S : ~ Good(T)}
  <1> SUFFICES ASSUME Bad # {} PROVE FALSE
    <2>1. S \in SUBSET S OBVIOUS
    <2> QED BY <2>1
  <1>1. IsFiniteSet(S) BY DEF Priced
  <1>2. Bad \in SUBSET SUBSET S OBVIOUS
  <1>3. PICK T \in Bad : \A U \in SUBSET T : U # T => U \notin Bad
    <2> HIDE DEF Bad
    <2> QED BY <1>1, <1>2, MinimalSubset
  <1>4. T \in SUBSET S /\ Priced(T) BY PricedSubset
  <1>5. PICK x \in T : Total(T) # x.amount + Total(T \ {x}) OBVIOUS
  <1> DEFINE a == First(T)
  <1>6. a \in T BY <1>5, FirstIn
  <1>7. Total(T) = a.amount + Total(T \ {a}) BY <1>4, <1>5, TotalFirst
  <1>8. a # x BY <1>5, <1>7
  <1>9. Good(T \ {a}) /\ Good(T \ {x})
    <2>1. T \ {a} \in SUBSET T /\ T \ {a} # T BY <1>6
    <2>2. T \ {x} \in SUBSET T /\ T \ {x} # T OBVIOUS
    <2> QED BY <2>1, <2>2, <1>3, <1>4
  <1>10. Total(T \ {a}) = x.amount + Total((T \ {a}) \ {x})
    BY <1>8, <1>9
  <1>11. Total(T \ {x}) = a.amount + Total((T \ {x}) \ {a})
    BY <1>6, <1>8, <1>9
  <1>12. (T \ {x}) \ {a} = (T \ {a}) \ {x} OBVIOUS
  <1>13. /\ a.amount \in Nat /\ x.amount \in Nat /\ Total((T \ {a}) \ {x}) \in Nat
    <2>1. (T \ {a}) \ {x} \in SUBSET T OBVIOUS
    <2>2. Priced((T \ {a}) \ {x}) BY <2>1, <1>4, PricedSubset
    <2> QED BY <2>2, TotalNat, <1>6, <1>4 DEF Priced
  <1>14. Total(T \ {x}) = a.amount + Total((T \ {a}) \ {x})
    BY <1>11, <1>12
  <1>15. \A m, n, k \in Nat : m + (n + k) = n + (m + k) OBVIOUS
  <1>16. Total(T) = a.amount + (x.amount + Total((T \ {a}) \ {x}))
    BY <1>7, <1>10
  <1>17. Total(T) = x.amount + (a.amount + Total((T \ {a}) \ {x}))
    BY <1>13, <1>15, <1>16
  <1> QED BY <1>5, <1>14, <1>17

\* A sum is the sum of some of the rows plus the sum of the others.
LEMMA TotalMinus ==
  ASSUME NEW S, Priced(S)
  PROVE  \A R \in SUBSET S : Total(S) = Total(R) + Total(S \ R)
  <1> DEFINE Good(R) == Total(S) = Total(R) + Total(S \ R)
             Bad == {R \in SUBSET S : ~ Good(R)}
  <1> SUFFICES ASSUME Bad # {} PROVE FALSE OBVIOUS
  <1>1. IsFiniteSet(S) BY DEF Priced
  <1>2. Bad \in SUBSET SUBSET S OBVIOUS
  <1>3. PICK T \in Bad : \A U \in SUBSET T : U # T => U \notin Bad
    <2> HIDE DEF Bad
    <2> QED BY <1>1, <1>2, MinimalSubset
  <1>4. T \in SUBSET S OBVIOUS
  <1>5. CASE T = {}
    <2>1. S \ T = S BY <1>5
    <2> QED BY <2>1, <1>5, TotalEmpty, TotalNat
  <1>6. CASE T # {}
    <2> DEFINE a == First(T)
    <2>1. a \in T BY <1>6, FirstIn
    <2>2. Good(T \ {a})
      <3>1. T \ {a} \in SUBSET T /\ T \ {a} # T BY <2>1
      <3> QED BY <3>1, <1>3, <1>4
    <2>3. Priced(T) /\ Priced(T \ {a}) /\ Priced(S \ T) /\ Priced(S \ (T \ {a}))
      <3>1. T \in SUBSET S /\ T \ {a} \in SUBSET S /\ S \ T \in SUBSET S /\ S \ (T \ {a}) \in SUBSET S
        BY <1>4
      <3> QED BY <3>1, PricedSubset
    <2>4. Total(T) = a.amount + Total(T \ {a})
      BY <2>1, <2>3, TotalRemove
    <2>5. Total(S \ (T \ {a})) = a.amount + Total((S \ (T \ {a})) \ {a})
      <3>1. a \in S \ (T \ {a}) BY <2>1, <1>4
      <3> QED BY <3>1, <2>3, TotalRemove
    <2>6. (S \ (T \ {a})) \ {a} = S \ T BY <2>1
    <2>7. a.amount \in Nat /\ Total(T \ {a}) \in Nat /\ Total(S \ T) \in Nat
      BY <2>1, <2>3, TotalNat, <1>4 DEF Priced
    <2>8. Total(S) = Total(T \ {a}) + (a.amount + Total(S \ T))
      BY <2>2, <2>5, <2>6
    <2>9. \A m, n, k \in Nat : m + (n + k) = (n + m) + k OBVIOUS
    <2>10. Total(S) = Total(T) + Total(S \ T)
      BY <2>4, <2>7, <2>8, <2>9
    <2> QED BY <2>10
  <1> QED BY <1>5, <1>6

\* The sum over two disjoint sets of rows is the sum of the two sums.
LEMMA TotalUnion ==
  ASSUME NEW S, Priced(S), NEW R, Priced(R), S \cap R = {}
  PROVE  Priced(S \cup R) /\ Total(S \cup R) = Total(S) + Total(R)
  <1>1. Priced(S \cup R) BY FS_Union DEF Priced
  <1>2. S \in SUBSET (S \cup R) /\ (S \cup R) \ S = R OBVIOUS
  <1> QED BY <1>1, <1>2, TotalMinus

-----------------------------------------------------------------------------
\* Rounding an amount, and a percentage of an amount, to cents gives a
\* number of cents.
LEMMA RoundingNat ==
  /\ \A n \in Nat : Quantize(n) \in Nat
  /\ \A n, p \in Nat : LevelAmount(n, p) \in Nat
  <1>1. \A n \in Nat : Quantize(n) \in Nat
    BY DEF Quantize, HalfUp, MilsPerCent
  <1>2. \A n, p \in Nat : n * p \in Nat
    OBVIOUS
  <1>3. \A m \in Nat : (2 * m + 100000) \div 200000 \in Nat
    OBVIOUS
  <1>4. \A n, p \in Nat : LevelAmount(n, p) = (2 * (n * p) + 100000) \div 200000
    BY DEF LevelAmount, HalfUp, MilsPerCent, BasisPoints
  <1> QED BY <1>1, <1>2, <1>3, <1>4

-----------------------------------------------------------------------------
(* Type correctness. *)

FiniteAccruals ==
    /\ IsFiniteSet(accruals.pending)
    /\ IsFiniteSet(accruals.credited)
    /\ IsFiniteSet(accruals.cancelled)

DealsOwned == \A d \in Deal : deals[d].status # "absent" => deals[d].user \in User

RequestsOwned ==
    \A c \in Certificate : certificates[c].status # "absent" => certificates[c].user \in User

\* User ids are positive; NULL is none of them.
LEMMA UserIsId == User \subseteq Nat \ {0} /\ NoUser \notin User /\ NoUser \in Nat
  BY AccountsAssumption DEF User, NoUser

\* get_upline_ids yields user ids, or nobody past the root.
LEMMA UplineType ==
  ASSUME AccountsTypeOK, NEW u \in User, NEW l \in Level
  PROVE  Upline(u)[l] \in User \cup {NoUser}
  <1>1. \A x \in User \cup {NoUser} : Parent(x) \in User \cup {NoUser}
    BY DEF AccountsTypeOK, Parent
  <1> DEFINE a == Parent(u)
             b == Parent(a)
             c == Parent(b)
             d == Parent(c)
  <1>2. a \in User \cup {NoUser} BY <1>1
  <1>3. b \in User \cup {NoUser} BY <1>1, <1>2
  <1>4. c \in User \cup {NoUser} BY <1>1, <1>3
  <1>5. d \in User \cup {NoUser} BY <1>1, <1>4
  <1>6. Upline(u) = <<a, b, c, d>> BY DEF Upline
  <1> HIDE DEF a, b, c, d
  <1>7. l \in {1, 2, 3, 4} BY DEF Level, MAX_LEVELS
  <1> QED BY <1>2, <1>3, <1>4, <1>5, <1>6, <1>7

\* One call of accrue_for_source adds finitely many well-formed rows, all of
\* that call.
LEMMA NewAccrualsType ==
  ASSUME AccountsTypeOK, ReferralTypeOK,
         NEW source \in User, NEW mils \in Nat, NEW platform \in PlatformValues,
         NEW available \in Int, NEW deal \in Deal \cup {NoDeal}
  PROVE  LET new == NewAccruals(source, mils, platform, available, deal)
         IN  /\ new \in SUBSET Accrual
             /\ IsFiniteSet(new)
             /\ \A a \in new : a.call = calls + 1
  <1> DEFINE new == NewAccruals(source, mils, platform, available, deal)
             L == {l \in Level : /\ Earns(source, l, platform.rule)
                                 /\ LevelAmount(mils, platform.percent[l]) > 0}
             Row(l) == [call |-> calls + 1, level |-> l, user |-> Upline(source)[l],
                        source |-> source, deal |-> deal, base |-> Quantize(mils),
                        percent |-> platform.percent[l],
                        amount |-> LevelAmount(mils, platform.percent[l]),
                        available |-> available]
             f == [l \in L |-> Row(l)]
  <1>1. new = {Row(l) : l \in L} BY DEF NewAccruals
  <1>2. ASSUME NEW l \in L PROVE Row(l) \in Accrual
    <2>1. l \in Level OBVIOUS
    <2>2. Upline(source)[l] \in User
      BY <2>1, UplineType DEF Earns
    <2>3. platform.percent[l] \in 0..BasisPoints /\ platform.percent[l] \in Nat
      <3>1. platform \in PlatformValue BY ReferralAssumption
      <3>2. platform.percent \in [Level -> 0..BasisPoints] BY <3>1 DEF PlatformValue
      <3>3. platform.percent[l] \in 0..BasisPoints BY <2>1, <3>2
      <3>4. \A x \in 0..BasisPoints : x \in Nat BY DEF BasisPoints
      <3> QED BY <3>3, <3>4
    <2>4. Quantize(mils) \in Nat /\ LevelAmount(mils, platform.percent[l]) \in Nat
      BY <2>3, RoundingNat
    <2>5. calls + 1 \in Nat BY ReferralAssumption DEF ReferralTypeOK
    <2> QED BY <2>1, <2>2, <2>3, <2>4, <2>5 DEF Accrual
  <1>3. IsFiniteSet(L)
    <2>1. IsFiniteSet(Level)
      <3>1. \A i, j \in Int : IsFiniteSet(i..j) BY FS_Interval
      <3>2. MAX_LEVELS \in Int BY DEF MAX_LEVELS
      <3>3. IsFiniteSet(1..MAX_LEVELS) BY <3>1, <3>2
      <3> QED BY <3>3 DEF Level
    <2>2. L \in SUBSET Level OBVIOUS
    <2> QED BY <2>1, <2>2, FS_Subset
  <1>4. f \in Surjection(L, new)
    BY <1>1 DEF Surjection
  <1>5. IsFiniteSet(new) BY <1>3, <1>4, FS_Surjection
  <1>6. new \in SUBSET Accrual BY <1>1, <1>2
  <1>7. \A a \in new : a.call = calls + 1 BY <1>1
  <1> QED BY <1>5, <1>6, <1>7

\* Finitely many accruals have a sum, for every user.
LEMMA AccrualsPriced ==
  ASSUME NEW S \in SUBSET Accrual, IsFiniteSet(S)
  PROVE  /\ Priced(S)
         /\ \A u : Priced(Of(u, S)) /\ Total(Of(u, S)) \in Nat
  <1>1. Priced(S) BY DEF Priced, Accrual
  <1>2. \A u : Of(u, S) \in SUBSET S BY DEF Of
  <1> QED BY <1>1, <1>2, PricedSubset, TotalNat

-----------------------------------------------------------------------------
\* The initial states are well typed.
LEMMA InitTypeOK == Init => TypeOK
  <1> SUFFICES ASSUME Init PROVE TypeOK OBVIOUS
  <1> USE DEF Init
  <1>1. AccountsTypeOK
    <2>1. \A u \in User : Founder(u) => FoundingReferrers[u] \in User \cup {NoUser}
      BY AccountsAssumption DEF Founder, User, NoUser
    <2>2. [credit |-> 0, debit |-> 0, exchange |-> 0] \in [credit : Nat, debit : Nat, exchange : Nat]
      OBVIOUS
    <2>3. status \in [User -> UserStatus] BY DEF AccountsInit, UserStatus
    <2>4. referrer \in [User -> User \cup {NoUser}] BY <2>1 DEF AccountsInit
    <2>5. balance \in [User -> Nat] /\ pending \in [User -> Nat] BY DEF AccountsInit
    <2>6. audit \in [User -> [credit : Nat, debit : Nat, exchange : Nat]]
      BY <2>2 DEF AccountsInit
    <2> QED BY <2>3, <2>4, <2>5, <2>6 DEF AccountsTypeOK
  <1>2. ReferralTypeOK
    <2>1. NoRow \in DealRow BY UserIsId DEF NoRow, DealRow
    <2>2. deals \in [Deal -> DealRow] BY <2>1 DEF ReferralInit
    <2> QED BY <2>2, ReferralAssumption DEF ReferralInit, ReferralTypeOK
  <1>3. ExchangeTypeOK
    <2>1. NoPartnerRow \in PartnerRow BY DEF NoPartnerRow, PartnerRow
    <2>2. NoRequest \in Request BY UserIsId DEF NoRequest, Request
    <2> QED BY <2>1, <2>2 DEF ExchangeInit, ExchangeTypeOK
  <1>4. TemplatesTypeOK BY DEF TemplatesInit, TemplatesTypeOK
  <1> QED BY <1>1, <1>2, <1>3, <1>4 DEF TypeOK

\* BonusService.debit keeps the types: the balance it checked covers the
\* amount.
LEMMA DebitType ==
  ASSUME AccountsTypeOK, NEW u \in User, NEW amount \in Nat,
         NEW reason \in {"debit", "exchange"}, Debit(u, amount, reason)
  PROVE  AccountsTypeOK'
  <1> USE DEF AccountsTypeOK, Debit
  <1>1. balance' \in [User -> Nat]
    <2>1. balance[u] - amount \in Nat OBVIOUS
    <2> QED BY <2>1
  <1>2. audit' \in [User -> [credit : Nat, debit : Nat, exchange : Nat]]
    <2>1. audit[u] \in [credit : Nat, debit : Nat, exchange : Nat] OBVIOUS
    <2>2. [audit[u] EXCEPT ![reason] = @ + amount] \in [credit : Nat, debit : Nat, exchange : Nat]
      BY <2>1
    <2>3. audit' = [audit EXCEPT ![u] = [audit[u] EXCEPT ![reason] = @ + amount]]
      OBVIOUS
    <2> QED BY <2>2, <2>3
  <1> QED BY <1>1, <1>2

\* The operations on users keep the types.
LEMMA AccountsStepType ==
  ASSUME AccountsTypeOK, AccountsNext
  PROVE  AccountsTypeOK'
  <1>1. ASSUME NEW u \in User, NEW r \in User \cup {NoUser}, Register(u, r)
        PROVE  AccountsTypeOK'
    BY <1>1 DEF AccountsTypeOK, Register, UserStatus
  <1>2. ASSUME NEW u \in User, BlockUser(u) \/ UnblockUser(u) \/ DeleteUser(u)
        PROVE  AccountsTypeOK'
    BY <1>2 DEF AccountsTypeOK, BlockUser, UnblockUser, DeleteUser, UserStatus
  <1>3. ASSUME NEW u \in User, NEW mils \in ManualAmounts, CreditBonus(u, mils)
        PROVE  AccountsTypeOK'
    <2> DEFINE amount == Quantize(mils)
    <2>1. amount \in Nat BY AccountsAssumption, RoundingNat
    <2> HIDE DEF amount
    <2> USE <1>3 DEF CreditBonus, AccountsTypeOK
    <2>2. balance' = [balance EXCEPT ![u] = @ + amount] BY DEF amount
    <2>3. audit' = [audit EXCEPT ![u].credit = @ + amount] BY DEF amount
    <2>4. balance' \in [User -> Nat] BY <2>1, <2>2
    <2>5. audit' \in [User -> [credit : Nat, debit : Nat, exchange : Nat]]
      <3>1. audit[u] \in [credit : Nat, debit : Nat, exchange : Nat] OBVIOUS
      <3>2. [audit[u] EXCEPT !.credit = @ + amount] \in [credit : Nat, debit : Nat, exchange : Nat]
        BY <3>1, <2>1
      <3>3. audit' = [audit EXCEPT ![u] = [audit[u] EXCEPT !.credit = @ + amount]] BY <2>3
      <3> QED BY <3>2, <3>3
    <2> QED BY <2>4, <2>5
  <1>4. ASSUME NEW u \in User, NEW mils \in ManualAmounts, DebitBonus(u, mils)
        PROVE  AccountsTypeOK'
    BY <1>4, DebitType, RoundingNat, AccountsAssumption DEF DebitBonus
  <1> QED BY <1>1, <1>2, <1>3, <1>4 DEF AccountsNext

\* accrue_for_source keeps the types.
LEMMA AccrueType ==
  ASSUME AccountsTypeOK, ReferralTypeOK, FiniteAccruals,
         NEW source \in User, NEW mils \in Nat, NEW platform \in PlatformValues,
         NEW available \in Int, NEW deal \in Deal \cup {NoDeal},
         AccrueForSource(source, mils, platform, available, deal)
  PROVE  /\ AccountsTypeOK'
         /\ FiniteAccruals'
         /\ accruals' \in [pending : SUBSET Accrual, credited : SUBSET Accrual,
                           cancelled : SUBSET Accrual]
         /\ calls' \in 0..MaxCalls
  <1> DEFINE new == NewAccruals(source, mils, platform, available, deal)
  <1>1. new \in SUBSET Accrual /\ IsFiniteSet(new) BY NewAccrualsType
  <1>2. \A u \in User : Total(Of(u, new)) \in Nat BY <1>1, AccrualsPriced
  <1>3. /\ accruals' = [accruals EXCEPT !.pending = @ \cup new]
        /\ pending' = [u \in User |-> pending[u] + Total(Of(u, new))]
        /\ calls' = calls + 1 /\ calls < MaxCalls
        /\ UNCHANGED <<status, referrer, balance, audit>>
    BY DEF AccrueForSource
  <1> HIDE DEF new
  <1>4. pending' \in [User -> Nat] BY <1>2, <1>3 DEF AccountsTypeOK
  <1>5. AccountsTypeOK' BY <1>3, <1>4 DEF AccountsTypeOK
  <1>6. /\ accruals'.pending = accruals.pending \cup new
        /\ accruals'.credited = accruals.credited
        /\ accruals'.cancelled = accruals.cancelled
    BY <1>3 DEF ReferralTypeOK
  <1>7. FiniteAccruals' BY <1>1, <1>6, FS_Union DEF FiniteAccruals
  <1>8. accruals' \in [pending : SUBSET Accrual, credited : SUBSET Accrual,
                       cancelled : SUBSET Accrual]
    BY <1>1, <1>3 DEF ReferralTypeOK
  <1>9. calls' \in 0..MaxCalls BY <1>3, ReferralAssumption DEF ReferralTypeOK
  <1> QED BY <1>5, <1>7, <1>8, <1>9

\* What is left of pending_balance after a release is never below zero.
LEMMA ReleasedType ==
  ASSUME AccountsTypeOK, ReferralTypeOK, FiniteAccruals, NEW rows \in SUBSET accruals.pending
  PROVE  /\ Released(rows) \in [User -> Nat]
         /\ rows \in SUBSET Accrual /\ IsFiniteSet(rows)
         /\ \A u \in User : Total(Of(u, rows)) \in Nat
  <1>1. rows \in SUBSET Accrual BY DEF ReferralTypeOK
  <1>2. IsFiniteSet(rows) BY FS_Subset DEF FiniteAccruals
  <1>3. \A u \in User : Total(Of(u, rows)) \in Nat BY <1>1, <1>2, AccrualsPriced
  <1>4. \A x \in Int : AtLeastZero(x) \in Nat BY DEF AtLeastZero
  <1>5. \A u \in User : pending[u] - Total(Of(u, rows)) \in Int BY <1>3 DEF AccountsTypeOK
  <1>6. Released(rows) \in [User -> Nat] BY <1>4, <1>5 DEF Released
  <1> QED BY <1>1, <1>2, <1>3, <1>6

\* cancel_pending_for_deal keeps the types.
LEMMA CancelType ==
  ASSUME AccountsTypeOK, ReferralTypeOK, FiniteAccruals, NEW d \in Deal, CancelPendingForDeal(d)
  PROVE  /\ AccountsTypeOK'
         /\ FiniteAccruals'
         /\ accruals' \in [pending : SUBSET Accrual, credited : SUBSET Accrual,
                           cancelled : SUBSET Accrual]
         /\ calls' = calls
  <1> DEFINE rows == {a \in accruals.pending : a.deal = d}
  <1>1. rows \in SUBSET accruals.pending OBVIOUS
  <1>2. /\ accruals' = [accruals EXCEPT !.pending = @ \ rows, !.cancelled = @ \cup rows]
        /\ pending' = Released(rows)
        /\ UNCHANGED <<status, referrer, balance, audit, calls>>
    BY DEF CancelPendingForDeal
  <1> HIDE DEF rows
  <1>3. Released(rows) \in [User -> Nat] /\ rows \in SUBSET Accrual /\ IsFiniteSet(rows)
    BY <1>1, ReleasedType
  <1>4. AccountsTypeOK' BY <1>2, <1>3 DEF AccountsTypeOK
  <1>5. /\ accruals'.pending = accruals.pending \ rows
        /\ accruals'.credited = accruals.credited
        /\ accruals'.cancelled = accruals.cancelled \cup rows
    BY <1>2 DEF ReferralTypeOK
  <1>6. FiniteAccruals' BY <1>3, <1>5, FS_Union, FS_Subset DEF FiniteAccruals
  <1>7. accruals' \in [pending : SUBSET Accrual, credited : SUBSET Accrual,
                       cancelled : SUBSET Accrual]
    BY <1>2, <1>3 DEF ReferralTypeOK
  <1> QED BY <1>2, <1>4, <1>6, <1>7

\* process_matured_accruals keeps the types.
LEMMA MatureType ==
  ASSUME AccountsTypeOK, ReferralTypeOK, FiniteAccruals, NEW payees, ProcessMatured(payees)
  PROVE  AccountsTypeOK' /\ ReferralTypeOK' /\ FiniteAccruals'
  <1> DEFINE rows == Matured(payees)
  <1>1. rows \in SUBSET accruals.pending BY DEF Matured
  <1>2. /\ accruals' = [accruals EXCEPT !.pending = @ \ rows, !.credited = @ \cup rows]
        /\ balance' = [u \in User |-> balance[u] + Total(Of(u, rows))]
        /\ pending' = Released(rows)
        /\ UNCHANGED <<status, referrer, audit, deals, calls, today>>
    BY DEF ProcessMatured
  <1> HIDE DEF rows
  <1>3. /\ Released(rows) \in [User -> Nat] /\ rows \in SUBSET Accrual /\ IsFiniteSet(rows)
        /\ \A u \in User : Total(Of(u, rows)) \in Nat
    BY <1>1, ReleasedType
  <1>4. balance' \in [User -> Nat] BY <1>2, <1>3 DEF AccountsTypeOK
  <1>5. AccountsTypeOK' BY <1>2, <1>3, <1>4 DEF AccountsTypeOK
  <1>6. /\ accruals'.pending = accruals.pending \ rows
        /\ accruals'.credited = accruals.credited \cup rows
        /\ accruals'.cancelled = accruals.cancelled
    BY <1>2 DEF ReferralTypeOK
  <1>7. FiniteAccruals' BY <1>3, <1>6, FS_Union, FS_Subset DEF FiniteAccruals
  <1>8. accruals' \in [pending : SUBSET Accrual, credited : SUBSET Accrual,
                       cancelled : SUBSET Accrual]
    BY <1>2, <1>3 DEF ReferralTypeOK
  <1>9. ReferralTypeOK' BY <1>2, <1>8 DEF ReferralTypeOK
  <1> QED BY <1>5, <1>7, <1>9


\* Writing a well-formed deal that belongs to a user keeps the deals table
\* well-formed.
LEMMA DealUpdate ==
  ASSUME deals \in [Deal -> DealRow], DealsOwned, NEW d \in Deal,
         NEW row \in DealRow, row.status # "absent" => row.user \in User,
         deals' = [deals EXCEPT ![d] = row]
  PROVE  deals' \in [Deal -> DealRow] /\ DealsOwned'
  BY DEF DealsOwned

\* Deals, accruals and the clock keep the types.
LEMMA ReferralStepType ==
  ASSUME AccountsTypeOK, ReferralTypeOK, FiniteAccruals, DealsOwned, ReferralNext
  PROVE  AccountsTypeOK' /\ ReferralTypeOK' /\ FiniteAccruals' /\ DealsOwned'
  <1> USE DEF ReferralTypeOK
  <1>a. \A m \in PolicyAmounts : m \in Nat /\ Quantize(m) \in Nat
    BY ReferralAssumption, RoundingNat
  <1>b. \A p \in PlatformValues : p.delay \in Nat
    BY ReferralAssumption DEF PlatformValue
  <1>c. \A d \in Deal : deals[d] \in DealRow
    OBVIOUS
  <1>d. today \in Int BY ReferralAssumption
  <1>e. ASSUME UNCHANGED accountVars PROVE AccountsTypeOK'
    BY <1>e DEF accountVars, AccountsTypeOK
  <1>f. ASSUME UNCHANGED accruals PROVE FiniteAccruals'
    BY <1>f DEF FiniteAccruals
  <1>1. ASSUME NEW d \in Deal, NEW u \in User, NEW mils \in PolicyAmounts,
               NEW date \in PolicyDates, NEW platform \in PlatformValues,
               CreateDeal(d, u, mils, date, platform)
        PROVE  AccountsTypeOK' /\ ReferralTypeOK' /\ FiniteAccruals' /\ DealsOwned'
    <2> DEFINE row == [status |-> "new", user |-> u, amount |-> Quantize(mils),
                       accrual_date |-> date + platform.delay, parked |-> FALSE]
    <2>1. row \in DealRow
      <3>1. date + platform.delay \in Int BY <1>b, ReferralAssumption
      <3>2. "new" \in DealStatus BY ReferralAssumption DEF DealStatus
      <3> QED BY <3>1, <3>2, <1>a DEF DealRow
    <2>2. deals' = [deals EXCEPT ![d] = row] BY <1>1 DEF CreateDeal
    <2>3. row.user \in User OBVIOUS
    <2> HIDE DEF row
    <2>4. deals' \in [Deal -> DealRow] /\ DealsOwned' BY <2>1, <2>2, <2>3, DealUpdate
    <2> QED BY <2>4, <1>1, <1>e, <1>f DEF CreateDeal
  <1>2. ASSUME NEW d \in Deal, NEW platform \in PlatformValues, IssueDeal(d, platform)
        PROVE  AccountsTypeOK' /\ ReferralTypeOK' /\ FiniteAccruals' /\ DealsOwned'
    <2> DEFINE row == [deals[d] EXCEPT !.status = "policy_issued"]
    <2>1. deals[d].user \in User BY <1>2 DEF IssueDeal, DealsOwned
    <2>2. MilsPerCent * deals[d].amount \in Nat /\ deals[d].accrual_date \in Int
      BY <1>c DEF DealRow, MilsPerCent
    <2>3. AccrueForSource(deals[d].user, MilsPerCent * deals[d].amount, platform,
                          deals[d].accrual_date, d)
      BY <1>2 DEF IssueDeal
    <2>4. /\ AccountsTypeOK' /\ FiniteAccruals' /\ calls' \in 0..MaxCalls
          /\ accruals' \in [pending : SUBSET Accrual, credited : SUBSET Accrual,
                            cancelled : SUBSET Accrual]
      BY <2>1, <2>2, <2>3, AccrueType
    <2>5. row \in DealRow BY <1>c DEF DealRow, DealStatus
    <2>6. row.user \in User BY <2>1, <1>c DEF DealRow
    <2>7. deals' = [deals EXCEPT ![d] = row] BY <1>2 DEF IssueDeal
    <2>8. deals' \in [Deal -> DealRow] /\ DealsOwned'
      <3> HIDE DEF row
      <3> QED BY <2>5, <2>6, <2>7, DealUpdate
    <2> QED BY <2>4, <2>8, <1>2 DEF IssueDeal
  <1>3. ASSUME NEW d \in Deal, NEW new \in CancelStatus, WithdrawDeal(d, new)
        PROVE  AccountsTypeOK' /\ ReferralTypeOK' /\ FiniteAccruals' /\ DealsOwned'
    <2> DEFINE row == [deals[d] EXCEPT !.status = new, !.parked = FALSE]
    <2>1. /\ AccountsTypeOK' /\ FiniteAccruals' /\ calls' = calls
          /\ accruals' \in [pending : SUBSET Accrual, credited : SUBSET Accrual,
                            cancelled : SUBSET Accrual]
      BY <1>3, CancelType DEF WithdrawDeal
    <2>2. row \in DealRow BY <1>c DEF DealRow, DealStatus
    <2>3. row.user \in User BY <1>3, <1>c DEF DealRow, WithdrawDeal, DealsOwned
    <2>4. deals' = [deals EXCEPT ![d] = row] BY <1>3 DEF WithdrawDeal
    <2>5. deals' \in [Deal -> DealRow] /\ DealsOwned'
      <3> HIDE DEF row
      <3> QED BY <2>2, <2>3, <2>4, DealUpdate
    <2> QED BY <2>1, <2>5, <1>3 DEF WithdrawDeal
  <1>4. ASSUME NEW d \in Deal, NEW new \in DealStatus, MoveDeal(d, new)
        PROVE  AccountsTypeOK' /\ ReferralTypeOK' /\ FiniteAccruals' /\ DealsOwned'
    <2> DEFINE parked == deals[d].parked \/ deals[d].status = "policy_issued"
               row == [deals[d] EXCEPT !.status = new, !.parked = parked]
    <2>1. row \in DealRow
      <3>1. parked \in BOOLEAN OBVIOUS
      <3> HIDE DEF parked
      <3> QED BY <3>1, <1>c DEF DealRow
    <2>2. row.user \in User BY <1>4, <1>c DEF DealRow, MoveDeal, DealsOwned
    <2>3. deals' = [deals EXCEPT ![d] = row] BY <1>4 DEF MoveDeal
    <2>4. deals' \in [Deal -> DealRow] /\ DealsOwned'
      <3> HIDE DEF row
      <3> QED BY <2>1, <2>2, <2>3, DealUpdate
    <2> QED BY <2>4, <1>4, <1>e, <1>f DEF MoveDeal
  <1>5. ASSUME NEW d \in Deal, NEW mils \in PolicyAmounts, UpdateAmount(d, mils)
        PROVE  AccountsTypeOK' /\ ReferralTypeOK' /\ FiniteAccruals' /\ DealsOwned'
    <2> DEFINE row == [deals[d] EXCEPT !.amount = Quantize(mils)]
    <2>1. row \in DealRow
      <3>1. Quantize(mils) \in Nat BY <1>a
      <3> QED BY <3>1, <1>c DEF DealRow
    <2>2. row.user \in User BY <1>5, <1>c DEF DealRow, UpdateAmount, DealsOwned
    <2>3. deals' = [deals EXCEPT ![d] = row] BY <1>5 DEF UpdateAmount
    <2>4. deals' \in [Deal -> DealRow] /\ DealsOwned'
      <3> HIDE DEF row
      <3> QED BY <2>1, <2>2, <2>3, DealUpdate
    <2> QED BY <2>4, <1>5, <1>e, <1>f DEF UpdateAmount
  <1>6. ASSUME NEW u \in User, NEW mils \in PolicyAmounts, NEW platform \in PlatformValues,
               AccrueManually(u, mils, platform)
        PROVE  AccountsTypeOK' /\ ReferralTypeOK' /\ FiniteAccruals' /\ DealsOwned'
    <2>1. today + platform.delay \in Int BY <1>b, <1>d
    <2>2. mils \in Nat BY <1>a
    <2>3. AccrueForSource(u, mils, platform, today + platform.delay, NoDeal)
          /\ UNCHANGED <<deals, today>>
      BY <1>6 DEF AccrueManually
    <2>4. /\ AccountsTypeOK' /\ FiniteAccruals' /\ calls' \in 0..MaxCalls
          /\ accruals' \in [pending : SUBSET Accrual, credited : SUBSET Accrual,
                            cancelled : SUBSET Accrual]
      BY <2>1, <2>2, <2>3, AccrueType
    <2> QED BY <2>3, <2>4 DEF DealsOwned
  <1>7. ASSUME NEW payees, ProcessMatured(payees)
        PROVE  AccountsTypeOK' /\ ReferralTypeOK' /\ FiniteAccruals' /\ DealsOwned'
    <2>1. AccountsTypeOK' /\ ReferralTypeOK' /\ FiniteAccruals' BY <1>7, MatureType
    <2>2. UNCHANGED deals BY <1>7 DEF ProcessMatured
    <2> QED BY <2>1, <2>2 DEF DealsOwned
  <1>8. CASE NextDay
    BY <1>8, <1>e, <1>f, ReferralAssumption DEF NextDay, DealsOwned
  <1> QED BY <1>1, <1>2, <1>3, <1>4, <1>5, <1>6, <1>7, <1>8 DEF ReferralNext, ProcessPending


-----------------------------------------------------------------------------
\* Stored partner limits are numbers of cents.
LEMMA LimitsType == ASSUME NEW ms \in SUBSET LimitAmounts PROVE Limits(ms) \subseteq Nat
  BY ExchangeAssumption, RoundingNat DEF Limits

\* Writing a well-formed request that belongs to a user keeps the requests
\* table well-formed.
LEMMA CertificateUpdate ==
  ASSUME certificates \in [Certificate -> Request], RequestsOwned, NEW c \in Certificate,
         NEW row \in Request, row.status # "absent" => row.user \in User,
         certificates' = [certificates EXCEPT ![c] = row]
  PROVE  certificates' \in [Certificate -> Request] /\ RequestsOwned'
  BY DEF RequestsOwned

\* Partners and certificate requests keep the types.
LEMMA ExchangeStepType ==
  ASSUME AccountsTypeOK, ExchangeTypeOK, RequestsOwned, ExchangeNext
  PROVE  AccountsTypeOK' /\ ExchangeTypeOK' /\ RequestsOwned'
  <1> USE DEF ExchangeTypeOK
  <1>a. \A c \in Certificate : certificates[c] \in Request
    OBVIOUS
  <1>b. \A p \in Partner : partners[p] \in PartnerRow
    OBVIOUS
  <1>e. ASSUME UNCHANGED accountVars PROVE AccountsTypeOK'
    BY <1>e DEF accountVars, AccountsTypeOK
  <1>1. ASSUME NEW p \in Partner, NEW min \in LimitAmounts, NEW step \in LimitAmounts,
               NEW max \in LimitAmounts \cup {NoMax}, CreatePartner(p, min, max, step)
        PROVE  AccountsTypeOK' /\ ExchangeTypeOK' /\ RequestsOwned'
    <2> DEFINE m == IF max = NoMax THEN NoMax ELSE Quantize(max)
               row == [status |-> "active", min |-> Quantize(min), max |-> m,
                       step |-> Quantize(step)]
    <2>1. Quantize(min) \in Nat /\ Quantize(step) \in Nat
      BY ExchangeAssumption, RoundingNat
    <2>2. m \in Nat \cup {NoMax} BY ExchangeAssumption, RoundingNat
    <2>3. row \in PartnerRow
      <3> HIDE DEF m
      <3> QED BY <2>1, <2>2 DEF PartnerRow
    <2>4. /\ partners' = [partners EXCEPT ![p] = row]
          /\ UNCHANGED <<accountVars, certificates>>
      BY <1>1 DEF CreatePartner
    <2> HIDE DEF row
    <2> QED BY <2>3, <2>4, <1>e DEF RequestsOwned
  <1>2. ASSUME NEW p \in Partner, NEW new \in UpdatedRows(p), UpdatePartner(p, new)
        PROVE  AccountsTypeOK' /\ ExchangeTypeOK' /\ RequestsOwned'
    <2>1. Limits(Positive) \subseteq Nat /\ Limits(LimitAmounts) \subseteq Nat
      BY LimitsType DEF Positive
    <2>2. new \in PartnerRow BY <2>1, <1>b DEF UpdatedRows, PartnerRow
    <2> QED BY <2>2, <1>2, <1>e DEF UpdatePartner, RequestsOwned
  <1>3. ASSUME NEW c \in Certificate, NEW u \in User, NEW p \in Partner,
               NEW mils \in RequestAmounts, CreateRequest(c, u, p, mils)
        PROVE  AccountsTypeOK' /\ ExchangeTypeOK' /\ RequestsOwned'
    <2> DEFINE row == [status |-> "new", user |-> u, amount |-> Quantize(mils), file |-> FALSE]
    <2>1. row \in Request
      <3>1. Quantize(mils) \in Nat BY ExchangeAssumption, RoundingNat
      <3> QED BY <3>1 DEF Request, CertificateStatus, OpenStatus
    <2>2. row.user \in User OBVIOUS
    <2>3. /\ certificates' = [certificates EXCEPT ![c] = row]
          /\ UNCHANGED <<accountVars, partners>>
      BY <1>3 DEF CreateRequest
    <2> HIDE DEF row
    <2>4. certificates' \in [Certificate -> Request] /\ RequestsOwned'
      BY <2>1, <2>2, <2>3, CertificateUpdate
    <2> QED BY <2>3, <2>4, <1>e
  <1>4. ASSUME NEW c \in Certificate, NEW new \in OpenStatus, MoveRequest(c, new)
        PROVE  AccountsTypeOK' /\ ExchangeTypeOK' /\ RequestsOwned'
    <2> DEFINE row == [certificates[c] EXCEPT !.status = new]
    <2>1. row \in Request BY <1>a DEF Request, CertificateStatus
    <2>2. row.user \in User
      BY <1>4, <1>a DEF Request, MoveRequest, OpenStatus, RequestsOwned
    <2>3. /\ certificates' = [certificates EXCEPT ![c] = row]
          /\ UNCHANGED <<accountVars, partners>>
      BY <1>4 DEF MoveRequest
    <2> HIDE DEF row
    <2>4. certificates' \in [Certificate -> Request] /\ RequestsOwned'
      BY <2>1, <2>2, <2>3, CertificateUpdate
    <2> QED BY <2>3, <2>4, <1>e
  <1>5. ASSUME NEW c \in Certificate, CompleteRequest(c)
        PROVE  AccountsTypeOK' /\ ExchangeTypeOK' /\ RequestsOwned'
    <2> DEFINE row == [certificates[c] EXCEPT !.status = "completed", !.file = TRUE]
    <2>1. certificates[c].user \in User /\ certificates[c].amount \in Nat
      BY <1>5, <1>a DEF Request, CompleteRequest, OpenStatus, RequestsOwned
    <2>2. AccountsTypeOK'
      BY <1>5, <2>1, DebitType DEF CompleteRequest
    <2>3. row \in Request BY <1>a DEF Request, CertificateStatus, FinalStatus
    <2>4. row.user \in User BY <2>1, <1>a DEF Request
    <2>5. /\ certificates' = [certificates EXCEPT ![c] = row]
          /\ UNCHANGED partners
      BY <1>5 DEF CompleteRequest
    <2> HIDE DEF row
    <2>6. certificates' \in [Certificate -> Request] /\ RequestsOwned'
      BY <2>3, <2>4, <2>5, CertificateUpdate
    <2> QED BY <2>2, <2>5, <2>6
  <1>6. ASSUME NEW c \in Certificate, CancelRequest(c)
        PROVE  AccountsTypeOK' /\ ExchangeTypeOK' /\ RequestsOwned'
    <2> DEFINE row == [certificates[c] EXCEPT !.status = "cancelled"]
    <2>1. row \in Request BY <1>a DEF Request, CertificateStatus, FinalStatus
    <2>2. row.user \in User
      BY <1>6, <1>a DEF Request, CancelRequest, CertificateStatus, OpenStatus, FinalStatus,
                        RequestsOwned
    <2>3. /\ certificates' = [certificates EXCEPT ![c] = row]
          /\ UNCHANGED <<accountVars, partners>>
      BY <1>6 DEF CancelRequest
    <2> HIDE DEF row
    <2>4. certificates' \in [Certificate -> Request] /\ RequestsOwned'
      BY <2>1, <2>2, <2>3, CertificateUpdate
    <2> QED BY <2>3, <2>4, <1>e
  <1> QED BY <1>1, <1>2, <1>3, <1>4, <1>5, <1>6 DEF ExchangeNext

-----------------------------------------------------------------------------
TypeInv == TypeOK /\ FiniteAccruals /\ DealsOwned /\ RequestsOwned

\* The strengthened type invariant holds initially.
LEMMA TypeInvInit == Init => TypeInv
  <1> SUFFICES ASSUME Init PROVE TypeInv OBVIOUS
  <1>1. TypeOK BY InitTypeOK
  <1>2. FiniteAccruals BY FS_EmptySet DEF Init, ReferralInit, FiniteAccruals
  <1>3. DealsOwned BY DEF Init, ReferralInit, DealsOwned, NoRow
  <1>4. RequestsOwned BY DEF Init, ExchangeInit, RequestsOwned, NoRequest
  <1> QED BY <1>1, <1>2, <1>3, <1>4 DEF TypeInv

OnlyTemplates == UNCHANGED <<accountVars, referralVars, exchangeVars>>

\* A step is one of users, of deals and accruals, or of the exchange, or it
\* changes the templates at most.
LEMMA StepSplit ==
  ASSUME [Next]_vars
  PROVE  \/ AccountsNext /\ UNCHANGED <<referralVars, exchangeVars, broken>>
         \/ ReferralNext /\ UNCHANGED <<exchangeVars, broken>>
         \/ ExchangeNext /\ UNCHANGED <<referralVars, broken>>
         \/ OnlyTemplates
  BY DEF Next, vars, SaveTemplates, OnlyTemplates

\* Only templates that may be saved are ever broken.
LEMMA TemplatesStep ==
  ASSUME TemplatesTypeOK, [Next]_vars PROVE TemplatesTypeOK'
  <1>1. ASSUME UNCHANGED broken PROVE TemplatesTypeOK' BY <1>1 DEF TemplatesTypeOK
  <1>2. ASSUME NEW new \in SUBSET BadTemplates, SaveTemplates(new) PROVE TemplatesTypeOK'
    BY <1>2, AccountsAssumption DEF SaveTemplates, TemplatesTypeOK
  <1> QED BY <1>1, <1>2 DEF Next, vars

\* Every step keeps the strengthened type invariant.
LEMMA TypeInvStep == TypeInv /\ [Next]_vars => TypeInv'
  <1> SUFFICES ASSUME TypeInv, [Next]_vars PROVE TypeInv' OBVIOUS
  <1> USE DEF TypeInv, TypeOK
  <1>a. ASSUME UNCHANGED accountVars PROVE AccountsTypeOK'
    BY <1>a DEF accountVars, AccountsTypeOK
  <1>b. ASSUME UNCHANGED referralVars PROVE ReferralTypeOK' /\ FiniteAccruals' /\ DealsOwned'
    BY <1>b DEF referralVars, ReferralTypeOK, FiniteAccruals, DealsOwned
  <1>c. ASSUME UNCHANGED exchangeVars PROVE ExchangeTypeOK' /\ RequestsOwned'
    BY <1>c DEF exchangeVars, ExchangeTypeOK, RequestsOwned
  <1>t. TemplatesTypeOK' BY TemplatesStep
  <1>1. CASE AccountsNext /\ UNCHANGED <<referralVars, exchangeVars, broken>>
    BY <1>1, <1>b, <1>c, <1>t, AccountsStepType
  <1>2. CASE ReferralNext /\ UNCHANGED <<exchangeVars, broken>>
    BY <1>2, <1>c, <1>t, ReferralStepType
  <1>3. CASE ExchangeNext /\ UNCHANGED <<referralVars, broken>>
    BY <1>3, <1>b, <1>t, ExchangeStepType
  <1>4. CASE OnlyTemplates
    BY <1>4, <1>a, <1>b, <1>c, <1>t DEF OnlyTemplates
  <1> QED BY <1>1, <1>2, <1>3, <1>4, StepSplit

\* The strengthened type invariant always holds: with the types, every
\* stored deal and request has its user.
THEOREM TypeInvariant == Spec => []TypeInv
  BY TypeInvInit, TypeInvStep, PTL DEF Spec

\* Type correctness, for any number of users, deals and requests: above all
\* no balance and no pending_balance is ever negative.
THEOREM TypeCorrect == Spec => []TypeOK
  <1>1. TypeInv => TypeOK BY DEF TypeInv
  <1> QED BY <1>1, TypeInvariant, PTL
=============================================================================
