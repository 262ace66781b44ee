----------------------- MODULE FormAndRegisterProofs ------------------------
(***************************************************************************)
(* What is proved of ExpenseForm, for any suppliers, items, totals and     *)
(* payments and any sequence of edits, saves and reopened days: Paid rows  *)
(* follow the bills of the card, every saved bill has a payment, payments  *)
(* entered by hand stay, and the Paid field replaces what was paid.  And   *)
(* what is proved of SalaryPosting, for any employees, staff lines, days,  *)
(* months, amounts and rosters: a rebuild of the registers mirrors the     *)
(* staff lines and may be repeated, settles the oldest dues first, credit  *)
(* is neither lost nor invented, a payout changes one line, nobody is paid *)
(* more than the months earn, and the service charge pool is given out to  *)
(* the unit.                                                               *)
(*                                                                         *)
(* Both rest on folds: the form's sync goes over the rows and then the     *)
(* suppliers, the rebuild over the staff lines in their order.  The first  *)
(* part is about folds, sums and filters of any data.                      *)
(*                                                                         *)
(* The form's invariant (Inv): a row is tagged with the supplier it is     *)
(* paid to, no supplier has two tagged rows, and once the card has been    *)
(* synced a supplier has one if and only if it has a bill; on a new day    *)
(* the rows of a supplier nobody typed a payment for are that one row, of  *)
(* the bill's amount.  A saved day has no tags, and a payment for every    *)
(* bill.                                                                   *)
(*                                                                         *)
(* A rebuild is reasoned about by adding staff lines one at a time, always *)
(* the last in their order: what holds of the cleared registers, and stays *)
(* when the last line's payout is posted, holds of the rebuilt ones.  That *)
(* a second rebuild changes nothing compares two such runs, line by line.  *)
(* That nobody is overpaid (Thrift) rests on the oldest dues being settled *)
(* first: credit is left only when nothing is owed, so that an amount that *)
(* is due fits into what the months earn and all payouts have left of it.  *)
(***************************************************************************)
EXTENDS ExpenseForm, SalaryPosting, FiniteSetTheorems, WellFoundedInduction, TLAPS

(* What holds of a set when it holds of those with one element less holds  *)
(* of every subset of a finite set.                                        *)
LEMMA SubsetInduction ==
  ASSUME NEW S, IsFiniteSet(S), NEW G,
         \A T \in SUBSET S : (\A x \in T : T \ {x} \in G) => T \in G
  PROVE  SUBSET S \subseteq G
<1> DEFINE R == StrictSubsetOrdering(S)
           C == (SUBSET S) \ G
<1> SUFFICES ASSUME C # {} PROVE FALSE
  OBVIOUS
<1>1. IsWellFoundedOn(R, SUBSET S)
  <2>1. FiniteSubsetsOf(S) = SUBSET S
    BY FS_FiniteSubsetsOfFinite
  <2>2. IsWellFoundedOn(R, FiniteSubsetsOf(S))
    BY FS_StrictSubsetOrderingWellFounded
  <2>3. QED
    BY <2>1, <2>2
<1>2. PICK T \in C : \A U \in C : <<U, T>> \notin R
  <2>1. C \subseteq SUBSET S
    OBVIOUS
  <2> HIDE DEF C, R
  <2>2. QED
    BY <1>1, <2>1, WFMin
<1>3. ASSUME NEW x \in T
      PROVE  T \ {x} \in G
  <2>1. <<T \ {x}, T>> \in R
    BY DEF StrictSubsetOrdering
  <2>2. QED
    BY <1>2, <2>1
<1>4. T \in SUBSET S /\ T \notin G
  BY <1>2
<1>5. \A x \in T : T \ {x} \in G
  BY <1>3
<1>6. QED
  BY <1>4, <1>5

-----------------------------------------------------------------------------
(* A set of numbers that has 0, and with each number the next one, has     *)
(* them all: induction over the numbers, said of a set.                    *)
LEMMA SetInduction ==
  ASSUME NEW S, 0 \in S, \A n \in Nat : n \in S => n + 1 \in S
  PROVE  Nat \subseteq S
<1> DEFINE R == OpToRel(<, Nat)
           C == Nat \ S
<1> SUFFICES ASSUME C # {} PROVE FALSE
  OBVIOUS
<1>1. IsWellFoundedOn(R, Nat)
  BY NatLessThanWellFounded
<1>2. \E n \in C : \A k \in C : <<k, n>> \notin R
  <2>1. C \subseteq Nat
    OBVIOUS
  <2> HIDE DEF C, R
  <2>2. QED
    BY <1>1, <2>1, WFMin
<1>3. PICK n \in C : \A k \in C : ~(k < n)
  BY <1>2 DEF OpToRel
<1>4. n \in Nat /\ n \notin S /\ n # 0
  OBVIOUS
<1>5. n - 1 \in Nat /\ n - 1 < n
  BY <1>4
<1>6. n - 1 \in S
  BY <1>3, <1>5
<1>7. n - 1 + 1 \in S
  BY <1>5, <1>6
<1>8. QED
  BY <1>4, <1>7

(* A finite set of numbers has a largest one.                              *)
LEMMA MaxIsMax ==
  ASSUME NEW S \in SUBSET Nat, IsFiniteSet(S), S # {}
  PROVE  Max(S) \in S /\ \A x \in S : Max(S) >= x
<1> DEFINE G == {T \in SUBSET S : T # {} => \E n \in T : \A x \in T : n >= x}
<1>1. ASSUME NEW T \in SUBSET S, \A x \in T : T \ {x} \in G
      PROVE  T \in G
  <2>1. SUFFICES ASSUME T # {} PROVE \E n \in T : \A x \in T : n >= x
    OBVIOUS
  <2>2. PICK y \in T : TRUE
    BY <2>1
  <2>3. CASE T \ {y} = {}
    BY <2>2, <2>3
  <2>4. CASE T \ {y} # {}
    <3>1. PICK n \in T \ {y} : \A x \in T \ {y} : n >= x
      BY <1>1, <2>4
    <3>2. n \in Nat /\ y \in Nat
      OBVIOUS
    <3>3. CASE n >= y
      BY <3>1, <3>3
    <3>4. CASE y >= n
      <4>1. ASSUME NEW x \in T PROVE y >= x
        BY <3>1, <3>2, <3>4
      <4>2. QED
        BY <4>1
    <3>5. QED
      BY <3>2, <3>3, <3>4
  <2>5. QED
    BY <2>3, <2>4
<1>2. S \in G
  <2> HIDE DEF G
  <2>1. QED
    BY <1>1, SubsetInduction
<1>3. \E n \in S : \A x \in S : n >= x
  BY <1>2
<1>4. QED
  BY <1>3 DEF Max

(* A fold over the subsets of a set: c chooses the element that is taken   *)
(* last, with what the others give.                                        *)
IsFold(g, S, V, base, c, step) ==
  /\ g \in [SUBSET S -> V]
  /\ g = [T \in SUBSET S |-> IF T = {} THEN base ELSE step[<<c[T], g[T \ {c[T]}]>>]]

(* There is one, for a finite set.                                         *)
LEMMA FoldExists ==
  ASSUME NEW S, IsFiniteSet(S), NEW V, NEW base \in V,
         NEW c, \A T \in SUBSET S : T # {} => c[T] \in T,
         NEW step, \A x \in S, val \in V : step[<<x, val>>] \in V
  PROVE  \E g : IsFold(g, S, V, base, c, step)
<1> DEFINE Body(h, T) == IF T = {} THEN base ELSE step[<<c[T], h[T \ {c[T]}]>>]
           Small(n) == {T \in SUBSET S : Cardinality(T) <= n}
           G == {n \in Nat : \E g \in [Small(n) -> V] : g = [T \in Small(n) |-> Body(g, T)]}
<1>1. ASSUME NEW T \in SUBSET S
      PROVE  /\ IsFiniteSet(T) /\ Cardinality(T) \in Nat
             /\ Cardinality(T) = 0 <=> T = {}
             /\ T # {} => /\ c[T] \in T
                          /\ T \ {c[T]} \in SUBSET S
                          /\ Cardinality(T \ {c[T]}) = Cardinality(T) - 1
  <2>1. IsFiniteSet(T)
    BY FS_Subset
  <2>2. Cardinality(T) \in Nat /\ (Cardinality(T) = 0 <=> T = {})
    BY <2>1, FS_CardinalityType, FS_EmptySet
  <2>3. T # {} => Cardinality(T \ {c[T]}) = Cardinality(T) - 1
    BY <2>1, FS_RemoveElement
  <2>4. QED
    BY <2>1, <2>2, <2>3
<1>2. 0 \in G
  <2> DEFINE g == [T \in Small(0) |-> base]
  <2>1. ASSUME NEW T \in Small(0) PROVE T = {}
    <3>1. Cardinality(T) \in Nat /\ Cardinality(T) <= 0
      BY <1>1
    <3>2. Cardinality(T) = 0
      BY <3>1
    <3>3. QED
      BY <1>1, <3>2
  <2>2. g = [T \in Small(0) |-> Body(g, T)] /\ g \in [Small(0) -> V]
    BY <2>1
  <2> HIDE DEF g, Body, Small
  <2>3. QED
    BY <2>2
<1>3. ASSUME NEW n \in Nat, n \in G PROVE n + 1 \in G
  <2>1. PICK g \in [Small(n) -> V] : g = [T \in Small(n) |-> Body(g, T)]
    BY <1>3
  <2> DEFINE h == [T \in Small(n + 1) |-> Body(g, T)]
  <2>2. ASSUME NEW T \in Small(n + 1) PROVE Body(g, T) = Body(h, T) /\ Body(g, T) \in V
    <3>1. CASE T = {}
      BY <3>1
    <3>2. CASE T # {}
      <4> DEFINE U == T \ {c[T]}
      <4>1. U \in SUBSET S /\ Cardinality(U) <= n /\ Cardinality(U) <= n + 1
        <5>1. U \in SUBSET S /\ Cardinality(U) = Cardinality(T) - 1 /\ Cardinality(T) \in Nat
          BY <1>1, <3>2
        <5>2. Cardinality(T) <= n + 1
          OBVIOUS
        <5>3. QED
          BY <5>1, <5>2
      <4>2. U \in Small(n) /\ U \in Small(n + 1)
        BY <4>1
      <4>3. g[U] = Body(g, U) /\ h[U] = Body(g, U)
        <5> HIDE DEF U, Body, Small
        <5>1. QED
          BY <2>1, <4>2
      <4>4. g[U] = h[U] /\ g[U] \in V
        BY <4>3, <4>2
      <4>5. c[T] \in S
        BY <3>2
      <4> HIDE DEF h
      <4>6. QED
        BY <4>4, <4>5, <3>2
    <3>3. QED
      BY <3>1, <3>2
  <2>3. h = [T \in Small(n + 1) |-> Body(h, T)]
    <3> HIDE DEF Body, Small
    <3>1. QED
      BY <2>2
  <2>4. h \in [Small(n + 1) -> V]
    <3> HIDE DEF Body, Small
    <3>1. QED
      BY <2>2
  <2> HIDE DEF h, Body, Small
  <2>5. QED
    BY <2>3, <2>4
<1>4. Cardinality(S) \in G
  <2>1. Cardinality(S) \in Nat
    BY <1>1
  <2> HIDE DEF G
  <2>2. QED
    BY <1>2, <1>3, <2>1, SetInduction
<1>5. Small(Cardinality(S)) = SUBSET S
  <2>1. \A T \in SUBSET S : Cardinality(T) <= Cardinality(S)
    BY FS_Subset
  <2>2. QED
    BY <2>1
<1>6. \E g \in [SUBSET S -> V] : g = [T \in SUBSET S |-> Body(g, T)]
  <2> HIDE DEF Small, Body
  <2>1. QED
    BY <1>4, <1>5
<1>7. QED
  BY <1>6 DEF IsFold

-----------------------------------------------------------------------------
(* Sums over a finite set, as the module's are taken.                      *)

(* The element a fold takes next.                                          *)
Pick(T) == CHOOSE x \in T : TRUE

IsSum(g, f, S) ==
  g = [T \in SUBSET S |-> IF T = {} THEN 0 ELSE f[Pick(T)] + g[T \ {Pick(T)}]]

Counts(f, S) == IsFiniteSet(S) /\ \A x \in S : f[x] \in Nat

(* The sum is taken one element after the other.                           *)
LEMMA SumSteps ==
  ASSUME NEW S, NEW f, Counts(f, S)
  PROVE  \E g : IsSum(g, f, S) /\ SumFunctionOnSet(f, S) = g[S]
<1> DEFINE c == [T \in SUBSET S |-> Pick(T)]
           step == [p \in S \X Nat |-> f[p[1]] + p[2]]
<1>1. \A T \in SUBSET S : T # {} => c[T] \in T /\ c[T] = Pick(T)
  BY DEF Pick
<1>2. \A x \in S, n \in Nat : step[<<x, n>>] = f[x] + n /\ step[<<x, n>>] \in Nat
  BY DEF Counts
<1>3. \E g : IsFold(g, S, Nat, 0, c, step)
  <2> HIDE DEF c, step
  <2>1. QED
    BY <1>1, <1>2, FoldExists DEF Counts
<1>4. \E g : IsSum(g, f, S)
  <2>1. PICK g : IsFold(g, S, Nat, 0, c, step)
    BY <1>3
  <2>2. ASSUME NEW T \in SUBSET S, T # {}
        PROVE  g[T] = f[Pick(T)] + g[T \ {Pick(T)}]
    <3>1. g[T] = step[<<c[T], g[T \ {c[T]}]>>]
      BY <2>1, <2>2 DEF IsFold
    <3>2. c[T] = Pick(T) /\ c[T] \in S /\ g[T \ {c[T]}] \in Nat
      BY <1>1, <2>1, <2>2 DEF IsFold
    <3> HIDE DEF c, step
    <3>3. QED
      BY <1>2, <3>1, <3>2
  <2>3. g[{}] = 0 /\ DOMAIN g = SUBSET S
    BY <2>1 DEF IsFold
  <2>4. g = [T \in SUBSET S |-> g[T]]
    BY <2>1 DEF IsFold
  <2> HIDE DEF c, step
  <2>5. QED
    BY <2>2, <2>3, <2>4 DEF IsSum
<1>5. SumFunctionOnSet(f, S) =
        (CHOOSE g : g = [T \in SUBSET S |-> IF T = {} THEN 0
                          ELSE f[CHOOSE x \in T : TRUE] + g[T \ {CHOOSE x \in T : TRUE}]])[S]
  BY DEF SumFunctionOnSet, FoldFunctionOnSet, MapThenFoldSet
<1>6. SumFunctionOnSet(f, S) = (CHOOSE g : IsSum(g, f, S))[S]
  BY <1>5 DEF IsSum, Pick
<1>7. QED
  BY <1>4, <1>6

(* Of a subset the same sum is taken.                                      *)
LEMMA SumsAgree ==
  ASSUME NEW S, IsFiniteSet(S), NEW T \in SUBSET S, NEW f, NEW g, NEW h, IsSum(g, f, S), IsSum(h, f, T)
  PROVE  g[T] = h[T]
<1> DEFINE G == {U \in SUBSET T : g[U] = h[U]}
<1>1. ASSUME NEW U \in SUBSET T, \A x \in U : U \ {x} \in G
      PROVE  U \in G
  <2>1. U \in SUBSET S
    OBVIOUS
  <2>2. g[U] = IF U = {} THEN 0 ELSE f[Pick(U)] + g[U \ {Pick(U)}]
    BY <2>1 DEF IsSum
  <2>3. h[U] = IF U = {} THEN 0 ELSE f[Pick(U)] + h[U \ {Pick(U)}]
    BY DEF IsSum
  <2>4. U # {} => Pick(U) \in U
    BY DEF Pick
  <2>5. U # {} => g[U \ {Pick(U)}] = h[U \ {Pick(U)}]
    BY <1>1, <2>4
  <2>6. QED
    BY <2>2, <2>3, <2>5
<1>2. IsFiniteSet(T)
  BY FS_Subset
<1>3. SUBSET T \subseteq G
  <2> HIDE DEF G
  <2>1. QED
    BY <1>1, <1>2, SubsetInduction
<1>4. QED
  BY <1>3

(* Nothing sums to 0.                                                      *)
LEMMA SumEmpty ==
  ASSUME NEW f
  PROVE  SumFunctionOnSet(f, {}) = 0
<1>1. Counts(f, {})
  BY FS_EmptySet DEF Counts
<1>2. QED
  BY <1>1, SumSteps DEF IsSum

(* The sum is of one element and of the others.                            *)
LEMMA SumUnfold ==
  ASSUME NEW S, NEW f, Counts(f, S), S # {}
  PROVE  /\ Pick(S) \in S
         /\ SumFunctionOnSet(f, S) = f[Pick(S)] + SumFunctionOnSet(f, S \ {Pick(S)})
<1> DEFINE T == S \ {Pick(S)}
<1>1. Counts(f, T)
  BY FS_Subset DEF Counts
<1>2. PICK g : IsSum(g, f, S) /\ SumFunctionOnSet(f, S) = g[S]
  BY SumSteps
<1>3. PICK h : IsSum(h, f, T) /\ SumFunctionOnSet(f, T) = h[T]
  BY <1>1, SumSteps
<1>4. g[T] = h[T]
  BY <1>2, <1>3, SumsAgree DEF Counts
<1>5. g[S] = f[Pick(S)] + g[T]
  BY <1>2 DEF IsSum
<1>6. Pick(S) \in S
  BY DEF Pick
<1>7. QED
  BY <1>2, <1>3, <1>4, <1>5, <1>6

(* A sum of numbers is a number.                                           *)
LEMMA SumNat ==
  ASSUME NEW S, NEW f, Counts(f, S)
  PROVE  SumFunctionOnSet(f, S) \in Nat
<1> DEFINE G == {T \in SUBSET S : SumFunctionOnSet(f, T) \in Nat}
<1>1. ASSUME NEW T \in SUBSET S, \A x \in T : T \ {x} \in G
      PROVE  T \in G
  <2>1. Counts(f, T)
    BY FS_Subset DEF Counts
  <2>2. CASE T = {}
    BY <2>2, SumEmpty
  <2>3. CASE T # {}
    <3>1. /\ Pick(T) \in T
          /\ SumFunctionOnSet(f, T) = f[Pick(T)] + SumFunctionOnSet(f, T \ {Pick(T)})
      BY <2>1, <2>3, SumUnfold
    <3>2. SumFunctionOnSet(f, T \ {Pick(T)}) \in Nat /\ f[Pick(T)] \in Nat
      BY <1>1, <2>1, <3>1 DEF Counts
    <3>3. QED
      BY <3>1, <3>2
  <2>4. QED
    BY <2>2, <2>3
<1>2. SUBSET S \subseteq G
  <2> HIDE DEF G
  <2>1. QED
    BY <1>1, SubsetInduction DEF Counts
<1>3. QED
  BY <1>2

(* Whichever element is set apart.                                         *)
LEMMA SumRemove ==
  ASSUME NEW S, NEW f, Counts(f, S), NEW y \in S
  PROVE  SumFunctionOnSet(f, S) = f[y] + SumFunctionOnSet(f, S \ {y})
<1> DEFINE Sum(T) == SumFunctionOnSet(f, T)
           G == {T \in SUBSET S : \A x \in T : Sum(T) = f[x] + Sum(T \ {x})}
<1>1. ASSUME NEW T \in SUBSET S, \A x \in T : T \ {x} \in G, NEW x \in T
      PROVE  Sum(T) = f[x] + Sum(T \ {x})
  <2>1. \A U \in SUBSET S : Counts(f, U)
    BY FS_Subset DEF Counts
  <2>2. Pick(T) \in T /\ Sum(T) = f[Pick(T)] + Sum(T \ {Pick(T)})
    BY <2>1, SumUnfold
  <2>3. CASE Pick(T) = x
    BY <2>2, <2>3
  <2>4. CASE Pick(T) # x
    <3> DEFINE c == Pick(T)
               U == T \ {c, x}
    <3>1. T \ {c} \in G /\ T \ {x} \in G /\ x \in T \ {c} /\ c \in T \ {x}
      BY <1>1, <2>2, <2>4
    <3>2. (T \ {c}) \ {x} = U /\ (T \ {x}) \ {c} = U
      OBVIOUS
    <3>3. Sum(T \ {c}) = f[x] + Sum(U) /\ Sum(T \ {x}) = f[c] + Sum(U)
      BY <3>1, <3>2
    <3>4. Sum(U) \in Nat /\ f[x] \in Nat /\ f[c] \in Nat
      BY <2>1, <2>2, SumNat DEF Counts
    <3> HIDE DEF Sum, U
    <3>5. QED
      BY <2>2, <3>3, <3>4
  <2>5. QED
    BY <2>3, <2>4
<1>2. \A T \in SUBSET S : (\A x \in T : T \ {x} \in G) => T \in G
  BY <1>1
<1>3. SUBSET S \subseteq G
  <2> HIDE DEF G
  <2>1. QED
    BY <1>2, SubsetInduction DEF Counts
<1>4. QED
  BY <1>3

(* Functions that agree have the same sum.                                 *)
LEMMA SumSame ==
  ASSUME NEW S, NEW f, NEW g, Counts(f, S), \A x \in S : f[x] = g[x]
  PROVE  SumFunctionOnSet(f, S) = SumFunctionOnSet(g, S)
<1> DEFINE G == {T \in SUBSET S : SumFunctionOnSet(f, T) = SumFunctionOnSet(g, T)}
<1>1. ASSUME NEW T \in SUBSET S, \A x \in T : T \ {x} \in G
      PROVE  T \in G
  <2>1. Counts(f, T) /\ Counts(g, T)
    BY FS_Subset DEF Counts
  <2>2. CASE T = {}
    BY <2>2, SumEmpty
  <2>3. CASE T # {}
    <3>1. /\ Pick(T) \in T
          /\ SumFunctionOnSet(f, T) = f[Pick(T)] + SumFunctionOnSet(f, T \ {Pick(T)})
          /\ SumFunctionOnSet(g, T) = g[Pick(T)] + SumFunctionOnSet(g, T \ {Pick(T)})
      BY <2>1, <2>3, SumUnfold
    <3>2. SumFunctionOnSet(f, T \ {Pick(T)}) = SumFunctionOnSet(g, T \ {Pick(T)})
      BY <1>1, <3>1
    <3>3. QED
      BY <3>1, <3>2
  <2>4. QED
    BY <2>2, <2>3
<1>2. SUBSET S \subseteq G
  <2> HIDE DEF G
  <2>1. QED
    BY <1>1, SubsetInduction DEF Counts
<1>3. QED
  BY <1>2

(* The sum is no less than an element, and has one that is not zero if it  *)
(* is not.                                                                 *)
LEMMA SumAtLeast ==
  ASSUME NEW S, NEW f, Counts(f, S), NEW y \in S
  PROVE  SumFunctionOnSet(f, S) >= f[y]
<1>1. Counts(f, S \ {y})
  BY FS_Subset DEF Counts
<1>2. SumFunctionOnSet(f, S \ {y}) \in Nat /\ f[y] \in Nat
  BY <1>1, SumNat DEF Counts
<1>3. QED
  BY <1>2, SumRemove

(* A sum of zeros is 0.                                                    *)
LEMMA SumOfZeros ==
  ASSUME NEW S, NEW f, Counts(f, S), \A x \in S : f[x] = 0
  PROVE  SumFunctionOnSet(f, S) = 0
<1> DEFINE G == {T \in SUBSET S : SumFunctionOnSet(f, T) = 0}
<1>1. ASSUME NEW T \in SUBSET S, \A x \in T : T \ {x} \in G
      PROVE  T \in G
  <2>1. Counts(f, T)
    BY FS_Subset DEF Counts
  <2>2. CASE T = {}
    BY <2>2, SumEmpty
  <2>3. CASE T # {}
    <3>1. /\ Pick(T) \in T
          /\ SumFunctionOnSet(f, T) = f[Pick(T)] + SumFunctionOnSet(f, T \ {Pick(T)})
      BY <2>1, <2>3, SumUnfold
    <3>2. SumFunctionOnSet(f, T \ {Pick(T)}) = 0 /\ f[Pick(T)] = 0
      BY <1>1, <3>1
    <3>3. QED
      BY <3>1, <3>2
  <2>4. QED
    BY <2>2, <2>3
<1>2. SUBSET S \subseteq G
  <2> HIDE DEF G
  <2>1. QED
    BY <1>1, SubsetInduction DEF Counts
<1>3. QED
  BY <1>2

(* The element that was picked may be any: also said of numbers 1 .. n.    *)
LEMMA SumUpTo ==
  ASSUME NEW n \in Nat, NEW f, \A k \in 1 .. n + 1 : f[k] \in Nat
  PROVE  /\ SumFunctionOnSet(f, 1 .. n) \in Nat
         /\ SumFunctionOnSet(f, 1 .. n + 1) = f[n + 1] + SumFunctionOnSet(f, 1 .. n)
<1>1. IsFiniteSet(1 .. n + 1) /\ IsFiniteSet(1 .. n)
  BY FS_Interval
<1>2. Counts(f, 1 .. n + 1) /\ Counts(f, 1 .. n)
  BY <1>1 DEF Counts
<1>3. n + 1 \in 1 .. n + 1 /\ (1 .. n + 1) \ {n + 1} = 1 .. n
  OBVIOUS
<1>4. SumFunctionOnSet(f, 1 .. n) \in Nat
  BY <1>2, SumNat
<1>5. SumFunctionOnSet(f, 1 .. n + 1) = f[n + 1] + SumFunctionOnSet(f, (1 .. n + 1) \ {n + 1})
  BY <1>2, <1>3, SumRemove
<1>6. QED
  BY <1>3, <1>4, <1>5

(* A function computed from 0 up to N, each value from the one before.     *)
IsChain(g, N, V, base, step) ==
  /\ g \in [0 .. N -> V]
  /\ \A k \in 0 .. N : g[k] = IF k = 0 THEN base ELSE step[<<k, g[k - 1]>>]

LEMMA ChainExists ==
  ASSUME NEW N \in Nat, NEW V, NEW base \in V, NEW step,
         \A n \in 1 .. N, v \in V : step[<<n, v>>] \in V
  PROVE  \E g : IsChain(g, N, V, base, step)
<1> DEFINE Chain(g, n) == IsChain(g, n, V, base, step)
           G == {n \in Nat : n <= N => \E g : Chain(g, n)}
<1>1. 0 \in G
  <2> DEFINE g == [k \in 0 .. 0 |-> base]
  <2>1. Chain(g, 0)
    BY DEF IsChain
  <2> HIDE DEF Chain, g
  <2>2. QED
    BY <2>1
<1>2. ASSUME NEW n \in Nat, n \in G PROVE n + 1 \in G
  <2>1. SUFFICES ASSUME n + 1 <= N PROVE \E g : Chain(g, n + 1)
    OBVIOUS
  <2>2. PICK g : Chain(g, n)
    BY <1>2, <2>1
  <2> DEFINE last == step[<<n + 1, g[n]>>]
             h == [k \in 0 .. n + 1 |-> IF k = n + 1 THEN last ELSE g[k]]
  <2>3. last \in V
    <3>1. n + 1 \in 1 .. N
      BY <2>1
    <3>2. g[n] \in V
      <4>1. g \in [0 .. n -> V] /\ n \in 0 .. n
        BY <2>2 DEF IsChain
      <4>2. QED
        BY <4>1
    <3>3. QED
      BY <3>1, <3>2
  <2>4. h \in [0 .. n + 1 -> V]
    <3> HIDE DEF last
    <3>1. QED
      BY <2>2, <2>3 DEF IsChain
  <2>5. ASSUME NEW k \in 0 .. n + 1
        PROVE  h[k] = IF k = 0 THEN base ELSE step[<<k, h[k - 1]>>]
    <3>1. CASE k = n + 1
      <4>1. h[k] = step[<<k, g[k - 1]>>] /\ k # 0 /\ h[k - 1] = g[k - 1]
        BY <3>1
      <4>2. QED
        BY <4>1
    <3>2. CASE k # n + 1
      <4>1. k \in 0 .. n
        BY <3>2
      <4>2. h[k] = g[k] /\ (k # 0 => h[k - 1] = g[k - 1])
        BY <4>1
      <4>3. QED
        BY <2>2, <4>1, <4>2 DEF IsChain
    <3>3. QED
      BY <3>1, <3>2
  <2>6. Chain(h, n + 1)
    BY <2>4, <2>5 DEF IsChain
  <2> HIDE DEF Chain, h
  <2>7. QED
    BY <2>6
<1>3. N \in G
  <2> HIDE DEF G
  <2>1. QED
    BY <1>1, <1>2, SetInduction
<1>4. QED
  BY <1>3

-----------------------------------------------------------------------------
(* Division: monotone.                                                     *)
LEMMA DivIs ==
  ASSUME NEW D \in Nat \ {0}, NEW a \in Nat
  PROVE  a \div D \in Nat /\ D * (a \div D) <= a /\ a < D * (a \div D) + D
OBVIOUS

LEMMA DivMono ==
  ASSUME NEW D \in Nat \ {0}, NEW a \in Nat, NEW b \in Nat, a <= b
  PROVE  a \div D <= b \div D
<1> DEFINE p == a \div D
           q == b \div D
<1>1. p \in Nat /\ q \in Nat /\ D * p <= a /\ b < D * q + D
  BY DivIs
<1> HIDE DEF p, q
<1>2. ASSUME ~(p <= q) PROVE FALSE
  <2>1. q + 1 <= p
    BY <1>1, <1>2
  <2>2. D * (q + 1) <= D * p /\ D * (q + 1) = D * q + D
    BY <1>1, <2>1
  <2>3. D * q \in Int /\ D * p \in Int
    BY <1>1
  <2>4. QED
    BY <1>1, <2>2, <2>3
<1>3. p <= q
  BY <1>2
<1>4. QED
  BY <1>3 DEF p, q

-----------------------------------------------------------------------------
(* Sequences: what is left of one, and numbers not yet in use.             *)

Distinct(rs) == \A j, k \in DOMAIN rs : rs[j] = rs[k] => j = k

IsFilter(g, rs, left) ==
  g = [T \in SUBSET (DOMAIN rs) |->
         IF T = {} THEN << >>
         ELSE IF rs[Max(T)] \in left THEN Append(g[T \ {Max(T)}], rs[Max(T)]) ELSE g[T \ {Max(T)}]]

(* The entries are taken one after the other.                              *)
LEMMA FilterSteps ==
  ASSUME NEW R, NEW rs \in Seq(R), NEW left
  PROVE  \E g : IsFilter(g, rs, left) /\ Filtered(rs, left) = g[DOMAIN rs]
<1> DEFINE D == DOMAIN rs
           c == [T \in SUBSET D |-> Max(T)]
           step == [p \in D \X Seq(R) |-> IF rs[p[1]] \in left THEN Append(p[2], rs[p[1]]) ELSE p[2]]
<1>1. D = 1 .. Len(rs) /\ IsFiniteSet(D)
  BY FS_Interval
<1>2. \A T \in SUBSET D : T # {} => c[T] \in T /\ c[T] = Max(T)
  <2>1. ASSUME NEW T \in SUBSET D, T # {} PROVE Max(T) \in T
    <3>1. T \in SUBSET Nat /\ IsFiniteSet(T)
      BY <1>1, FS_Subset
    <3>2. QED
      BY <2>1, <3>1, MaxIsMax
  <2>2. QED
    BY <2>1
<1>3. \A k \in D, acc \in Seq(R) :
        /\ step[<<k, acc>>] = IF rs[k] \in left THEN Append(acc, rs[k]) ELSE acc
        /\ step[<<k, acc>>] \in Seq(R)
  OBVIOUS
<1>4. \E g : IsFold(g, D, Seq(R), << >>, c, step)
  <2>1. << >> \in Seq(R)
    OBVIOUS
  <2> HIDE DEF c, step
  <2>2. QED
    BY <1>1, <1>2, <1>3, <2>1, FoldExists
<1>5. \E g : IsFilter(g, rs, left)
  <2>1. PICK g : IsFold(g, D, Seq(R), << >>, c, step)
    BY <1>4
  <2>2. ASSUME NEW T \in SUBSET D, T # {}
        PROVE  g[T] = IF rs[Max(T)] \in left THEN Append(g[T \ {Max(T)}], rs[Max(T)]) ELSE g[T \ {Max(T)}]
    <3>1. g[T] = step[<<c[T], g[T \ {c[T]}]>>]
      BY <2>1, <2>2 DEF IsFold
    <3>2. c[T] = Max(T) /\ c[T] \in D /\ g[T \ {c[T]}] \in Seq(R)
      BY <1>2, <2>1, <2>2 DEF IsFold
    <3> HIDE DEF c, step
    <3>3. QED
      BY <1>3, <3>1, <3>2
  <2>3. g[{}] = << >>
    BY <2>1 DEF IsFold
  <2>4. g = [T \in SUBSET D |-> g[T]]
    BY <2>1 DEF IsFold
  <2> HIDE DEF c, step
  <2>5. QED
    BY <2>2, <2>3, <2>4 DEF IsFilter
<1>6. Filtered(rs, left) = (CHOOSE g : IsFilter(g, rs, left))[D]
  <2>1. Filtered(rs, left) =
          (CHOOSE g : g = [T \in SUBSET (DOMAIN rs) |->
             IF T = {} THEN << >>
             ELSE IF rs[Max(T)] \in left THEN Append(g[T \ {Max(T)}], rs[Max(T)]) ELSE g[T \ {Max(T)}]])[DOMAIN rs]
    BY DEF Filtered, FoldLeft, MapThenFoldSet
  <2>2. QED
    BY <2>1 DEF IsFilter
<1>7. QED
  BY <1>5, <1>6

(* What is left are the entries wanted, each once.                         *)
IsLeft(new, rs, T, left, R) ==
  /\ new \in Seq(R)
  /\ \A j \in DOMAIN new : new[j] \in left /\ \E k \in T : new[j] = rs[k]
  /\ \A k \in T : rs[k] \in left => \E j \in DOMAIN new : new[j] = rs[k]
  /\ Distinct(rs) => Distinct(new)

(* One more entry.                                                         *)
LEMMA OneMoreLeft ==
  ASSUME NEW R, NEW rs \in Seq(R), NEW left, NEW T \in SUBSET (DOMAIN rs), NEW k \in T, NEW new,
         IsLeft(new, rs, T \ {k}, left, R)
  PROVE  IsLeft(IF rs[k] \in left THEN Append(new, rs[k]) ELSE new, rs, T, left, R)
<1>1. rs[k] \in R /\ new \in Seq(R)
  BY DEF IsLeft
<1>2. CASE rs[k] \notin left
  BY <1>2 DEF IsLeft
<1>3. CASE rs[k] \in left
  <2> DEFINE more == Append(new, rs[k])
  <2>1. /\ more \in Seq(R) /\ DOMAIN more = 1 .. Len(new) + 1 /\ DOMAIN new = 1 .. Len(new) /\ Len(new) \in Nat
        /\ more[Len(new) + 1] = rs[k]
        /\ \A j \in DOMAIN new : more[j] = new[j]
    BY <1>1
  <2> HIDE DEF more
  <2>2. \A j \in DOMAIN more : j \in DOMAIN new \/ j = Len(new) + 1
    BY <2>1
  <2>3. \A j \in DOMAIN more : more[j] \in left /\ \E i \in T : more[j] = rs[i]
    BY <1>3, <2>1, <2>2 DEF IsLeft
  <2>4. DOMAIN new \subseteq DOMAIN more /\ Len(new) + 1 \in DOMAIN more
    BY <2>1
  <2>5. \A i \in T : rs[i] \in left => \E j \in DOMAIN more : more[j] = rs[i]
    <3>1. ASSUME NEW i \in T \ {k}, rs[i] \in left PROVE \E j \in DOMAIN more : more[j] = rs[i]
      <4>1. PICK j \in DOMAIN new : new[j] = rs[i]
        BY <3>1 DEF IsLeft
      <4>2. QED
        BY <2>1, <2>4, <4>1
    <3>2. \E j \in DOMAIN more : more[j] = rs[k]
      BY <2>1, <2>4
    <3>3. QED
      BY <3>1, <3>2
  <2>6. ASSUME Distinct(rs) PROVE Distinct(more)
    <3>1. \A j \in DOMAIN new : new[j] # rs[k]
      BY <2>6 DEF Distinct, IsLeft
    <3>2. Distinct(new)
      BY <2>6 DEF IsLeft
    <3>3. QED
      BY <2>1, <2>2, <3>1, <3>2 DEF Distinct
  <2>7. IsLeft(more, rs, T, left, R)
    BY <2>1, <2>3, <2>5, <2>6 DEF IsLeft
  <2>8. QED
    BY <1>3, <2>7 DEF more
<1>4. QED
  BY <1>2, <1>3

(* Filtered leaves the entries wanted.                                     *)
LEMMA FilteredIsLeft ==
  ASSUME NEW R, NEW rs \in Seq(R), NEW left
  PROVE  IsLeft(Filtered(rs, left), rs, DOMAIN rs, left, R)
<1>1. PICK g : IsFilter(g, rs, left) /\ Filtered(rs, left) = g[DOMAIN rs]
  BY FilterSteps
<1> DEFINE D == DOMAIN rs
           G == {T \in SUBSET D : IsLeft(g[T], rs, T, left, R)}
<1>2. IsFiniteSet(D) /\ D \subseteq Nat
  <2>1. D = 1 .. Len(rs)
    OBVIOUS
  <2>2. QED
    BY <2>1, FS_Interval
<1>3. ASSUME NEW T \in SUBSET D, \A x \in T : T \ {x} \in G
      PROVE  T \in G
  <2>1. CASE T = {}
    <3>1. g[T] = << >>
      BY <1>1, <2>1 DEF IsFilter
    <3>2. IsLeft(<< >>, rs, {}, left, R)
      BY DEF IsLeft, Distinct
    <3>3. QED
      BY <2>1, <3>1, <3>2
  <2>2. CASE T # {}
    <3>1. Max(T) \in T
      BY <1>2, <2>2, FS_Subset, MaxIsMax
    <3>2. g[T] = IF rs[Max(T)] \in left THEN Append(g[T \ {Max(T)}], rs[Max(T)]) ELSE g[T \ {Max(T)}]
      BY <1>1, <2>2 DEF IsFilter
    <3>3. IsLeft(g[T \ {Max(T)}], rs, T \ {Max(T)}, left, R)
      BY <1>3, <3>1
    <3>4. IsLeft(g[T], rs, T, left, R)
      BY <3>1, <3>2, <3>3, OneMoreLeft
    <3>5. QED
      BY <3>4
  <2>3. QED
    BY <2>1, <2>2
<1>4. SUBSET D \subseteq G
  <2> HIDE DEF G, D
  <2>1. QED
    BY <1>2, <1>3, SubsetInduction
<1>5. QED
  BY <1>1, <1>4

(* A set of numbers has a smallest one.                                    *)
LEMMA MinIsIn ==
  ASSUME NEW S \in SUBSET Nat, S # {}
  PROVE  Min(S) \in S
<1> DEFINE R == OpToRel(<, Nat)
<1>1. IsWellFoundedOn(R, Nat)
  BY NatLessThanWellFounded
<1>2. \E n \in S : \A k \in S : <<k, n>> \notin R
  <2> HIDE DEF R
  <2>1. QED
    BY <1>1, WFMin
<1>3. PICK n \in S : \A k \in S : ~(k < n)
  BY <1>2 DEF OpToRel
<1>4. \A k \in S : n <= k
  BY <1>3
<1>5. QED
  BY <1>4 DEF Min

(* The next id is one no row has.                                          *)
LEMMA FreeIdIsFree ==
  ASSUME NEW R, NEW rs \in Seq(R)
  PROVE  FreeId(rs) \in Nat \ Ids(rs)
<1> DEFINE n == Len(rs)
           f == [k \in DOMAIN rs |-> rs[k].id]
<1>1. n \in Nat /\ DOMAIN rs = 1 .. n
  OBVIOUS
<1>2. IsFiniteSet(DOMAIN rs) /\ Cardinality(DOMAIN rs) = n
  <2>1. IsFiniteSet(1 .. n) /\ Cardinality(1 .. n) = n - 1 + 1
    BY <1>1, FS_Interval
  <2>2. QED
    BY <1>1, <2>1
<1>3. f \in Surjection(DOMAIN rs, Ids(rs))
  BY DEF Surjection, Ids
<1>4. IsFiniteSet(Ids(rs)) /\ Cardinality(Ids(rs)) <= n /\ Cardinality(Ids(rs)) \in Nat
  <2>1. IsFiniteSet(Ids(rs)) /\ Cardinality(Ids(rs)) <= Cardinality(DOMAIN rs)
    BY <1>2, <1>3, FS_Surjection
  <2>2. QED
    BY <1>2, <2>1, FS_CardinalityType
<1>5. IsFiniteSet(1 .. n + 1) /\ Cardinality(1 .. n + 1) = n + 1
  <2>1. IsFiniteSet(1 .. n + 1) /\ Cardinality(1 .. n + 1) = n + 1 - 1 + 1
    BY <1>1, FS_Interval
  <2>2. QED
    BY <1>1, <2>1
<1>6. (1 .. n + 1) \ Ids(rs) # {}
  <2>1. SUFFICES ASSUME (1 .. n + 1) \subseteq Ids(rs) PROVE FALSE
    OBVIOUS
  <2>2. Cardinality(1 .. n + 1) <= Cardinality(Ids(rs))
    BY <1>4, <2>1, FS_Subset
  <2>3. QED
    BY <1>1, <1>4, <1>5, <2>2
<1>7. (1 .. n + 1) \ Ids(rs) \in SUBSET Nat
  BY <1>1
<1>8. Min((1 .. n + 1) \ Ids(rs)) \in (1 .. n + 1) \ Ids(rs)
  BY <1>6, <1>7, MinIsIn
<1>9. QED
  BY <1>7, <1>8 DEF FreeId

-----------------------------------------------------------------------------
(* The inductive invariant.                                                *)

Item == [vendor : Vendors \cup {None}, total : Totals \cup {0}]
PaymentRow == [id : Nat, vendor : Vendors \cup {None}, amount : Nat, tag : Vendors \cup {None}]

(* The items of a card, and the rows of a form: a tagged row is paid to the*)
(* supplier it is tagged with, and no supplier has two.                    *)
IsCard(its) == IsFiniteSet(Keys(its)) /\ Keys(its) \subseteq Items /\ its \in [Keys(its) -> Item]

IsRows(rs) ==
  /\ rs \in Seq(PaymentRow)
  /\ \A j, k \in DOMAIN rs : rs[j].id = rs[k].id => j = k
  /\ \A j \in DOMAIN rs : rs[j].tag # None => rs[j].vendor = rs[j].tag
  /\ \A j, k \in DOMAIN rs : rs[j].tag = rs[k].tag /\ rs[j].tag # None => j = k

Tagged(rs, v) == \E k \in DOMAIN rs : rs[k].tag = v
InSync(rs, its) == \A v \in Vendors : Tagged(rs, v) <=> Bill(its, v) > 0

(* All that is paid to the supplier is its Paid row, of the bill's amount. *)
OnlyPaidRow(rs, its, v) ==
  \A k \in DOMAIN rs : rs[k].vendor = v => rs[k].tag = v /\ rs[k].amount = Bill(its, v)

(* A day as it is saved and opened: no tags, and a payment for every bill. *)
IsDay(day) ==
  /\ IsCard(day.items) /\ IsRows(day.rows)
  /\ \A k \in DOMAIN day.rows : day.rows[k].tag = None
  /\ \A v \in Vendors : Bill(day.items, v) > 0 => \E k \in DOMAIN day.rows : day.rows[k].vendor = v /\ day.rows[k].amount > 0

Synced == ~loaded => InSync(rows, items)
Opened ==
  loaded =>
    /\ reopened
    /\ \A k \in DOMAIN rows : rows[k].tag = None
    /\ \A v \in Vendors : Bill(items, v) > 0 => \E k \in DOMAIN rows : rows[k].vendor = v
Untyped == ~reopened => \A v \in Vendors \ typed : OnlyPaidRow(rows, items, v)

Inv ==
  /\ TypeOK
  /\ IsCard(items) /\ IsRows(rows) /\ IsDay(saved)
  /\ dismissed = {} /\ prev = purchaseVendorTotalsFromLines(items)
  /\ Synced /\ Opened /\ Untyped

-----------------------------------------------------------------------------
(* Bills.                                                                  *)

(* The total of an item is a number.                                       *)
LEMMA ItemTotal ==
  ASSUME NEW its, IsCard(its), NEW i \in Keys(its)
  PROVE  its[i].total \in Nat
<1>1. its[i] \in Item
  BY DEF IsCard
<1>2. its[i].total \in Totals \cup {0}
  BY <1>1 DEF Item
<1>3. \A t \in Totals \cup {0} : t \in Nat
  BY FormAssumption
<1>4. QED
  BY <1>2, <1>3

(* The totals a bill is the sum of are numbers, and finitely many.         *)
LEMMA CardCounts ==
  ASSUME NEW its, IsCard(its), NEW v
  PROVE  Counts([i \in Keys(its) |-> its[i].total], {i \in Keys(its) : its[i].vendor = v})
<1>1. ASSUME NEW i \in Keys(its) PROVE its[i].total \in Nat
  BY ItemTotal
<1>2. IsFiniteSet({i \in Keys(its) : its[i].vendor = v})
  BY FS_Subset DEF IsCard
<1>3. QED
  BY <1>1, <1>2 DEF Counts

(* A bill is a number.                                                     *)
LEMMA BillNat ==
  ASSUME NEW its, IsCard(its), NEW v
  PROVE  Bill(its, v) \in Nat
  BY CardCounts, SumNat DEF Bill

(* Who has a bill has an item, and who has an item with a total has a bill.*)
LEMMA BillHasItem ==
  ASSUME NEW its, NEW v, Bill(its, v) # 0
  PROVE  \E i \in Keys(its) : its[i].vendor = v
<1>1. SUFFICES ASSUME {i \in Keys(its) : its[i].vendor = v} = {} PROVE FALSE
  OBVIOUS
<1>2. Bill(its, v) = 0
  BY <1>1, SumEmpty DEF Bill
<1>3. QED
  BY <1>2

(* The supplier of an item that costs something has a bill.                *)
LEMMA ItemHasBill ==
  ASSUME NEW its, IsCard(its), NEW i \in Keys(its), its[i].total > 0
  PROVE  Bill(its, its[i].vendor) > 0
<1> DEFINE v == its[i].vendor
           f == [j \in Keys(its) |-> its[j].total]
           S == {j \in Keys(its) : its[j].vendor = v}
<1>1. Counts(f, S)
  BY CardCounts
<1>2. i \in S /\ f[i] = its[i].total /\ its[i].total \in Nat
  BY ItemTotal
<1>3. Bill(its, v) = SumFunctionOnSet(f, S)
  BY DEF Bill
<1>4. SumFunctionOnSet(f, S) >= f[i] /\ SumFunctionOnSet(f, S) \in Nat
  <2> HIDE DEF f, S
  <2>1. QED
    BY <1>1, <1>2, SumAtLeast, SumNat
<1>5. QED
  BY <1>2, <1>3, <1>4

(* An empty card has no bills.                                             *)
LEMMA NoItemsNoBill ==
  ASSUME NEW v
  PROVE  Bill(<< >>, v) = 0
<1>1. {i \in Keys(<< >>) : (<< >>)[i].vendor = v} = {}
  BY DEF Keys
<1>2. QED
  BY <1>1, SumEmpty DEF Bill

(* An item added leaves a card.                                            *)
LEMMA WithCard ==
  ASSUME NEW its, IsCard(its), NEW i \in Items, NEW v \in Vendors \cup {None}
  PROVE  IsCard(With(its, i, [vendor |-> v, total |-> 0]))
<1> DEFINE new == With(its, i, [vendor |-> v, total |-> 0])
<1>1. Keys(new) = Keys(its) \cup {i}
  BY DEF With, Keys
<1>2. IsFiniteSet(Keys(its) \cup {i})
  BY FS_AddElement DEF IsCard
<1>3. [vendor |-> v, total |-> 0] \in Item
  BY DEF Item
<1>4. new \in [Keys(its) \cup {i} -> Item]
  BY <1>3 DEF IsCard, With, Keys
<1>5. IsCard(new)
  <2> HIDE DEF new
  <2>1. QED
    BY <1>1, <1>2, <1>4 DEF IsCard
<1>6. QED
  BY <1>5

(* So does another total, ...                                              *)
LEMMA PatchedCard ==
  ASSUME NEW its, IsCard(its), NEW i \in Keys(its), NEW t \in Totals \cup {0}
  PROVE  IsCard([its EXCEPT ![i].total = t])
  BY DEF IsCard, Keys, Item

(* ... another supplier for a group, ...                                   *)
LEMMA RenamedCard ==
  ASSUME NEW its, IsCard(its), NEW from, NEW to \in Vendors \cup {None}
  PROVE  IsCard([i \in Keys(its) |-> IF its[i].vendor = from THEN [its[i] EXCEPT !.vendor = to] ELSE its[i]])
  BY DEF IsCard, Keys, Item

(* ... and items removed, which leaves the others as they are.             *)
LEMMA WithoutCard ==
  ASSUME NEW its, IsCard(its), NEW gone
  PROVE  /\ IsCard(Without(its, gone))
         /\ Keys(Without(its, gone)) = Keys(its) \ gone
         /\ \A i \in Keys(its) \ gone : Without(its, gone)[i] = its[i]
<1>1. Keys(Without(its, gone)) = Keys(its) \ gone
  BY DEF Without, Keys
<1>2. IsFiniteSet(Keys(its) \ gone)
  BY FS_Subset DEF IsCard
<1>3. QED
  BY <1>1, <1>2 DEF IsCard, Without, Keys

-----------------------------------------------------------------------------
(* Serving one supplier.                                                   *)

(* Row k is taken as the Paid row of v, and gets the bill's amount or keeps*)
(* its own.                                                                *)
Taken(rs, new, k, v, its) ==
  /\ new \in Seq(PaymentRow) /\ DOMAIN new = DOMAIN rs
  /\ \A j \in DOMAIN rs \ {k} : new[j] = rs[j]
  /\ new[k].id = rs[k].id /\ new[k].vendor = v /\ new[k].tag = v
Added(rs, new, v, its) ==
  /\ new \in Seq(PaymentRow) /\ DOMAIN new = DOMAIN rs \cup {Len(rs) + 1} /\ Len(rs) + 1 \notin DOMAIN rs
  /\ \A j \in DOMAIN rs : new[j] = rs[j]
  /\ new[Len(rs) + 1].id \notin Ids(rs) /\ new[Len(rs) + 1].vendor = v /\ new[Len(rs) + 1].tag = v
  /\ new[Len(rs) + 1].amount = Bill(its, v)

(* What the code does: nothing, take a row, or add one.                    *)
Served(rs, new, v, its, before) ==
  \/ (Bill(its, v) = 0 \/ Tagged(rs, v)) /\ new = rs
  \/ /\ Bill(its, v) > 0 /\ ~Tagged(rs, v)
     /\ \E k \in DOMAIN rs : /\ rs[k].tag = None /\ rs[k].vendor = v
                             /\ rs[k].amount = Bill(its, v) \/ before[v] > 0
                             /\ Taken(rs, new, k, v, its)
  \/ Bill(its, v) > 0 /\ ~Tagged(rs, v) /\ Added(rs, new, v, its)

(* A row is made of its four fields.                                       *)
LEMMA RowIsRow ==
  ASSUME NEW i \in Nat, NEW v \in Vendors \cup {None}, NEW a \in Nat, NEW t \in Vendors \cup {None}
  PROVE  /\ Row(i, v, a, t) \in PaymentRow
         /\ Row(i, v, a, t).id = i /\ Row(i, v, a, t).vendor = v
         /\ Row(i, v, a, t).amount = a /\ Row(i, v, a, t).tag = t
  BY DEF Row, PaymentRow

(* The row the code tags is taken, in the sense above.                     *)
LEMMA TakenRow ==
  ASSUME NEW rs \in Seq(PaymentRow), NEW k \in DOMAIN rs, NEW v \in Vendors, rs[k].vendor = v,
         NEW its, NEW before, IsCard(its)
  PROVE  Taken(rs, [rs EXCEPT ![k].tag = v,
                              ![k].amount = IF Tracks(rs[k], v, its, before) THEN Bill(its, v) ELSE @], k, v, its)
<1> DEFINE a == IF Tracks(rs[k], v, its, before) THEN Bill(its, v) ELSE rs[k].amount
           r == [[rs[k] EXCEPT !.tag = v] EXCEPT !.amount = a]
           new == [rs EXCEPT ![k] = r]
<1>1. rs[k] \in PaymentRow
  OBVIOUS
<1>2. a \in Nat
  BY <1>1, BillNat DEF PaymentRow
<1> HIDE DEF a
<1>3. r \in PaymentRow /\ r.id = rs[k].id /\ r.vendor = v /\ r.tag = v
  BY <1>1, <1>2 DEF PaymentRow
<1> HIDE DEF r
<1>4. new \in Seq(PaymentRow) /\ DOMAIN new = DOMAIN rs /\ new[k] = r /\ \A j \in DOMAIN rs \ {k} : new[j] = rs[j]
  BY <1>3
<1>5. [rs EXCEPT ![k].tag = v, ![k].amount = IF Tracks(rs[k], v, its, before) THEN Bill(its, v) ELSE @] = new
  BY DEF r, a
<1>6. QED
  BY <1>3, <1>4, <1>5 DEF Taken

(* WithPaidRow does one of the three, whichever branch it goes through.    *)
LEMMA ServedCases ==
  ASSUME NEW rs, IsRows(rs), NEW its, IsCard(its), NEW v \in Vendors, NEW before
  PROVE  Served(rs, WithPaidRow(rs, v, its, {}, before), v, its, before)
<1> DEFINE new == WithPaidRow(rs, v, its, {}, before)
           mine == {k \in DOMAIN rs : rs[k].tag = None /\ rs[k].vendor = v}
           equal == {k \in mine : rs[k].amount = Bill(its, v)}
           take(k) == [rs EXCEPT ![k].tag = v,
                                 ![k].amount = IF Tracks(rs[k], v, its, before) THEN Bill(its, v) ELSE @]
           more == Append(rs, Row(FreeId(rs), v, Bill(its, v), v))
<1>1. new = IF Bill(its, v) = 0 \/ v \in {} \/ \E k \in DOMAIN rs : rs[k].tag = v THEN rs
            ELSE IF equal # {} THEN take(Min(equal))
            ELSE IF before[v] > 0 /\ mine # {} THEN take(Min(mine))
            ELSE more
  BY DEF WithPaidRow
<1>2. rs \in Seq(PaymentRow) /\ Bill(its, v) \in Nat
  BY BillNat DEF IsRows
<1>3. (equal # {} => Min(equal) \in equal) /\ (mine # {} => Min(mine) \in mine)
  <2>1. DOMAIN rs \subseteq Nat
    BY <1>2
  <2>2. equal \in SUBSET Nat /\ mine \in SUBSET Nat
    BY <2>1
  <2> HIDE DEF equal, mine
  <2>3. QED
    BY <2>2, MinIsIn
<1>4. \A k \in mine : Taken(rs, take(k), k, v, its)
  BY <1>2, TakenRow
<1>5. Added(rs, more, v, its)
  <2>1. FreeId(rs) \in Nat \ Ids(rs)
    BY <1>2, FreeIdIsFree
  <2> DEFINE r == Row(FreeId(rs), v, Bill(its, v), v)
  <2>2. r \in PaymentRow /\ r.id \notin Ids(rs) /\ r.vendor = v /\ r.tag = v /\ r.amount = Bill(its, v)
    BY <1>2, <2>1, RowIsRow
  <2> HIDE DEF r
  <2>3. /\ Append(rs, r) \in Seq(PaymentRow)
        /\ DOMAIN Append(rs, r) = DOMAIN rs \cup {Len(rs) + 1} /\ Len(rs) + 1 \notin DOMAIN rs
        /\ \A j \in DOMAIN rs : Append(rs, r)[j] = rs[j]
        /\ Append(rs, r)[Len(rs) + 1] = r
    BY <1>2, <2>2
  <2>4. more = Append(rs, r)
    BY DEF r
  <2>5. QED
    BY <2>2, <2>3, <2>4 DEF Added
<1>6. CASE Bill(its, v) = 0 \/ Tagged(rs, v)
  BY <1>1, <1>6 DEF Served, Tagged
<1>7. CASE Bill(its, v) # 0 /\ ~Tagged(rs, v) /\ equal # {}
  <2>1. new = take(Min(equal)) /\ Min(equal) \in equal
    BY <1>1, <1>3, <1>7 DEF Tagged
  <2>2. PICK k \in equal : new = take(k)
    BY <2>1
  <2>3. Taken(rs, new, k, v, its)
    BY <1>4, <2>2
  <2>4. QED
    <3> HIDE DEF new
    <3>1. Served(rs, new, v, its, before)
      BY <1>2, <1>7, <2>3 DEF Served
    <3>2. QED
      BY <3>1 DEF new
<1>8. CASE Bill(its, v) # 0 /\ ~Tagged(rs, v) /\ equal = {} /\ before[v] > 0 /\ mine # {}
  <2>1. new = take(Min(mine)) /\ Min(mine) \in mine
    BY <1>1, <1>3, <1>8 DEF Tagged
  <2>2. PICK k \in mine : new = take(k)
    BY <2>1
  <2>3. Taken(rs, new, k, v, its)
    BY <1>4, <2>2
  <2>4. QED
    <3> HIDE DEF new
    <3>1. Served(rs, new, v, its, before)
      BY <1>2, <1>8, <2>3 DEF Served
    <3>2. QED
      BY <3>1 DEF new
<1>9. CASE Bill(its, v) # 0 /\ ~Tagged(rs, v) /\ equal = {} /\ ~(before[v] > 0 /\ mine # {})
  <2>1. new = more
    BY <1>1, <1>9 DEF Tagged
  <2>2. QED
    <3> HIDE DEF new, more
    <3>1. Served(rs, new, v, its, before)
      BY <1>2, <1>5, <1>9, <2>1 DEF Served
    <3>2. QED
      BY <3>1 DEF new
<1>10. QED
  BY <1>6, <1>7, <1>8, <1>9

(* A payment that is nobody's Paid row, nor taken for one.                 *)
Other(r, its, before, rs) ==
  /\ r.tag = None
  /\ r.vendor \in Vendors => /\ r.amount = Bill(its, r.vendor) => Bill(its, r.vendor) = 0
                             /\ before[r.vendor] > 0 /\ Bill(its, r.vendor) > 0 => Tagged(rs, r.vendor)
Has(rs, r) == \E j \in DOMAIN rs : rs[j] = r

(* What serving one supplier gives: it has a Paid row if it has a bill, the*)
(* others are as they were, and so are all other payments.                 *)
Serves(rs, new, T, its, before) ==
  /\ IsRows(new)
  /\ \A v \in Vendors : Tagged(rs, v) => Tagged(new, v)
  /\ \A v \in Vendors : Tagged(new, v) => Tagged(rs, v) \/ Bill(its, v) > 0
  /\ \A v \in T : Bill(its, v) > 0 => Tagged(new, v)
  /\ \A v \in Vendors : OnlyPaidRow(rs, its, v) => OnlyPaidRow(new, its, v)
  /\ \A j \in DOMAIN rs : Other(rs[j], its, before, rs) => Has(new, rs[j])

(* Each of the three serves the supplier.                                  *)
LEMMA ServedServes ==
  ASSUME NEW rs, IsRows(rs), NEW its, IsCard(its), NEW v \in Vendors, NEW before, NEW new,
         Served(rs, new, v, its, before)
  PROVE  Serves(rs, new, {v}, its, before)
<1>0. v # None /\ rs \in Seq(PaymentRow) /\ Bill(its, v) \in Nat
  BY FormAssumption, BillNat DEF IsRows
<1>1. CASE (Bill(its, v) = 0 \/ Tagged(rs, v)) /\ new = rs
  <2>1. \A j \in DOMAIN rs : Has(rs, rs[j])
    BY DEF Has
  <2>2. QED
    BY <1>1, <2>1 DEF Serves
<1>2. ASSUME Bill(its, v) > 0, ~Tagged(rs, v),
             NEW k \in DOMAIN rs, rs[k].tag = None, rs[k].vendor = v,
             rs[k].amount = Bill(its, v) \/ before[v] > 0, Taken(rs, new, k, v, its)
      PROVE  Serves(rs, new, {v}, its, before)
  <2>1. /\ new \in Seq(PaymentRow) /\ DOMAIN new = DOMAIN rs
        /\ \A j \in DOMAIN rs : j # k => new[j] = rs[j]
        /\ new[k].id = rs[k].id /\ new[k].vendor = v /\ new[k].tag = v
    BY <1>2 DEF Taken
  <2>2. \A j \in DOMAIN rs : rs[j].tag # v
    BY <1>2 DEF Tagged
  <2>3. \A j \in DOMAIN rs : new[j].id = rs[j].id /\ new[j].vendor = rs[j].vendor /\ (new[j].tag = rs[j].tag \/ j = k)
    BY <1>2, <2>1
  <2>4. \A i, j \in DOMAIN rs : new[i].tag = new[j].tag /\ new[i].tag # None => i = j
    BY <1>2, <2>1, <2>2 DEF IsRows
  <2>5. \A j \in DOMAIN rs : new[j].tag # None => new[j].vendor = new[j].tag
    BY <1>2, <2>1 DEF IsRows
  <2>6. \A i, j \in DOMAIN rs : new[i].id = new[j].id => i = j
    BY <2>3 DEF IsRows
  <2>7. IsRows(new)
    BY <2>1, <2>4, <2>5, <2>6 DEF IsRows
  <2>8. ASSUME NEW w \in Vendors, Tagged(rs, w) PROVE Tagged(new, w)
    <3>1. PICK j \in DOMAIN rs : rs[j].tag = w
      BY <2>8 DEF Tagged
    <3>2. j # k
      BY <1>2, <3>1, FormAssumption
    <3>3. QED
      BY <2>1, <3>1, <3>2 DEF Tagged
  <2>9. ASSUME NEW w \in Vendors, Tagged(new, w) PROVE Tagged(rs, w) \/ Bill(its, w) > 0
    BY <1>2, <2>1, <2>9 DEF Tagged
  <2>10. Tagged(new, v)
    BY <2>1 DEF Tagged
  <2>11. ASSUME NEW w \in Vendors, OnlyPaidRow(rs, its, w) PROVE OnlyPaidRow(new, its, w)
    <3>1. w # v
      BY <1>0, <1>2, <2>11 DEF OnlyPaidRow
    <3>2. QED
      BY <2>1, <2>11, <3>1 DEF OnlyPaidRow
  <2>12. ASSUME NEW j \in DOMAIN rs, Other(rs[j], its, before, rs) PROVE Has(new, rs[j])
    <3>1. j # k
      BY <1>0, <1>2, <2>12 DEF Other
    <3>2. QED
      BY <2>1, <3>1 DEF Has
  <2>13. QED
    BY <2>7, <2>8, <2>9, <2>10, <2>11, <2>12 DEF Serves
<1>3. ASSUME Bill(its, v) > 0, ~Tagged(rs, v), Added(rs, new, v, its)
      PROVE  Serves(rs, new, {v}, its, before)
  <2> DEFINE n == Len(rs) + 1
  <2>1. /\ new \in Seq(PaymentRow) /\ DOMAIN new = DOMAIN rs \cup {n} /\ n \notin DOMAIN rs
        /\ \A j \in DOMAIN rs : new[j] = rs[j]
        /\ new[n].id \notin Ids(rs) /\ new[n].vendor = v /\ new[n].tag = v /\ new[n].amount = Bill(its, v)
    BY <1>3 DEF Added
  <2> HIDE DEF n
  <2>2. \A j \in DOMAIN rs : rs[j].tag # v /\ rs[j].id \in Ids(rs)
    BY <1>3 DEF Tagged, Ids
  <2>3. \A i, j \in DOMAIN new : new[i].tag = new[j].tag /\ new[i].tag # None => i = j
    BY <2>1, <2>2 DEF IsRows
  <2>4. \A j \in DOMAIN new : new[j].tag # None => new[j].vendor = new[j].tag
    BY <2>1 DEF IsRows
  <2>5. \A i, j \in DOMAIN new : new[i].id = new[j].id => i = j
    BY <2>1, <2>2 DEF IsRows
  <2>6. IsRows(new)
    BY <2>1, <2>3, <2>4, <2>5 DEF IsRows
  <2>7. \A w \in Vendors : Tagged(rs, w) => Tagged(new, w)
    BY <2>1 DEF Tagged
  <2>8. \A w \in Vendors : Tagged(new, w) => Tagged(rs, w) \/ Bill(its, w) > 0
    BY <1>3, <2>1 DEF Tagged
  <2>9. Tagged(new, v)
    BY <2>1 DEF Tagged
  <2>10. \A w \in Vendors : OnlyPaidRow(rs, its, w) => OnlyPaidRow(new, its, w)
    BY <2>1 DEF OnlyPaidRow
  <2>11. \A j \in DOMAIN rs : Has(new, rs[j])
    BY <2>1 DEF Has
  <2>12. QED
    BY <2>6, <2>7, <2>8, <2>9, <2>10, <2>11 DEF Serves
<1>4. QED
  BY <1>1, <1>2, <1>3 DEF Served

(* One supplier after the others.                                          *)
LEMMA ServesOn ==
  ASSUME NEW rs, NEW mid, NEW new, NEW T, NEW v \in Vendors, NEW its, NEW before,
         Serves(rs, mid, T \ {v}, its, before), Serves(mid, new, {v}, its, before), T \subseteq Vendors
  PROVE  Serves(rs, new, T, its, before)
<1>1. \A w \in T : Bill(its, w) > 0 => Tagged(new, w)
  BY DEF Serves
<1>2. ASSUME NEW j \in DOMAIN rs, Other(rs[j], its, before, rs) PROVE Has(new, rs[j])
  <2>1. Has(mid, rs[j])
    BY <1>2 DEF Serves
  <2>2. PICK i \in DOMAIN mid : mid[i] = rs[j]
    BY <2>1 DEF Has
  <2>3. \A w \in Vendors : Tagged(rs, w) => Tagged(mid, w)
    BY DEF Serves
  <2>4. Other(rs[j], its, before, mid)
    BY <1>2, <2>3 DEF Other
  <2>5. Other(mid[i], its, before, mid)
    BY <2>2, <2>4
  <2>6. Has(new, mid[i])
    BY <2>5 DEF Serves
  <2>7. QED
    BY <2>2, <2>6
<1>3. \A w \in Vendors : Tagged(new, w) => Tagged(rs, w) \/ Bill(its, w) > 0
  BY DEF Serves
<1>4. QED
  BY <1>1, <1>2, <1>3 DEF Serves

-----------------------------------------------------------------------------
(* Serving all of them.                                                    *)

IsServing(g, rs, its, before) ==
  g = [T \in SUBSET Vendors |-> IF T = {} THEN rs ELSE WithPaidRow(g[T \ {Pick(T)}], Pick(T), its, {}, before)]

(* Serving a supplier leaves rows.                                         *)
LEMMA ServedRows ==
  ASSUME NEW rs, IsRows(rs), NEW its, IsCard(its), NEW v \in Vendors, NEW before
  PROVE  /\ IsRows(WithPaidRow(rs, v, its, {}, before))
         /\ Serves(rs, WithPaidRow(rs, v, its, {}, before), {v}, its, before)
<1>1. Serves(rs, WithPaidRow(rs, v, its, {}, before), {v}, its, before)
  BY ServedCases, ServedServes
<1>2. QED
  BY <1>1 DEF Serves

(* The sync serves one supplier after the other.                           *)
LEMMA ServingSteps ==
  ASSUME NEW all, NEW its, IsCard(its), NEW before, IsRows(KeptRows(all, its, before))
  PROVE  \E g : /\ IsServing(g, KeptRows(all, its, before), its, before)
                /\ syncVendorExpensesFromPurchases(all, its, {}, before) = g[Vendors]
<1> DEFINE rs == KeptRows(all, its, before)
           V == {x \in Seq(PaymentRow) : IsRows(x)}
           c == [T \in SUBSET Vendors |-> Pick(T)]
           step == [p \in Vendors \X V |-> WithPaidRow(p[2], p[1], its, {}, before)]
<1>1. rs \in V
  BY DEF IsRows
<1> HIDE DEF rs
<1>2. \A T \in SUBSET Vendors : T # {} => c[T] \in T /\ c[T] = Pick(T)
  BY DEF Pick
<1>3. ASSUME NEW v \in Vendors, NEW x \in V
      PROVE  step[<<v, x>>] = WithPaidRow(x, v, its, {}, before) /\ step[<<v, x>>] \in V
  <2>1. step[<<v, x>>] = WithPaidRow(x, v, its, {}, before)
    OBVIOUS
  <2>2. IsRows(WithPaidRow(x, v, its, {}, before))
    BY ServedRows
  <2>3. WithPaidRow(x, v, its, {}, before) \in V
    BY <2>2 DEF IsRows
  <2> HIDE DEF V, step
  <2>4. QED
    BY <2>1, <2>3
<1>4. \E g : IsFold(g, Vendors, V, rs, c, step)
  <2>1. IsFiniteSet(Vendors)
    BY FormAssumption
  <2> HIDE DEF V, c, step
  <2>2. QED
    BY <1>1, <1>2, <1>3, <2>1, FoldExists
<1>5. \E g : IsServing(g, rs, its, before)
  <2>1. PICK g : IsFold(g, Vendors, V, rs, c, step)
    BY <1>4
  <2>2. ASSUME NEW T \in SUBSET Vendors, T # {}
        PROVE  g[T] = WithPaidRow(g[T \ {Pick(T)}], Pick(T), its, {}, before)
    <3> HIDE DEF V, c, step
    <3>1. g[T] = step[<<c[T], g[T \ {c[T]}]>>]
      BY <2>1, <2>2 DEF IsFold
    <3>2. c[T] = Pick(T) /\ c[T] \in Vendors /\ g[T \ {c[T]}] \in V
      BY <1>2, <2>1, <2>2 DEF IsFold
    <3>3. QED
      BY <1>3, <3>1, <3>2
  <2> HIDE DEF V, c, step
  <2>3. g[{}] = rs
    BY <2>1 DEF IsFold
  <2>4. g = [T \in SUBSET Vendors |-> g[T]]
    BY <2>1 DEF IsFold
  <2>5. QED
    BY <2>2, <2>3, <2>4 DEF IsServing
<1>6. syncVendorExpensesFromPurchases(all, its, {}, before) = 
        (CHOOSE g : IsServing(g, rs, its, before))[Vendors]
  <2>1. syncVendorExpensesFromPurchases(all, its, {}, before) =
          (CHOOSE g : g = [T \in SUBSET Vendors |->
             IF T = {} THEN rs
             ELSE WithPaidRow(g[T \ {CHOOSE x \in T : TRUE}], CHOOSE x \in T : TRUE, its, {}, before)])[Vendors]
    BY DEF syncVendorExpensesFromPurchases, FoldSet, MapThenFoldSet, rs
  <2>2. QED
    BY <2>1 DEF IsServing, Pick
<1>7. QED
  BY <1>5, <1>6 DEF rs

(* So it serves them all.                                                  *)
LEMMA AllServed ==
  ASSUME NEW all, NEW its, IsCard(its), NEW before, IsRows(KeptRows(all, its, before))
  PROVE  Serves(KeptRows(all, its, before), syncVendorExpensesFromPurchases(all, its, {}, before), Vendors, its, before)
<1> DEFINE rs == KeptRows(all, its, before)
<1>1. PICK g : /\ IsServing(g, rs, its, before)
               /\ syncVendorExpensesFromPurchases(all, its, {}, before) = g[Vendors]
  BY ServingSteps
<1> HIDE DEF rs
<1>0. IsRows(rs)
  BY DEF rs
<1> DEFINE G == {T \in SUBSET Vendors : Serves(rs, g[T], T, its, before)}
<1>2. ASSUME NEW T \in SUBSET Vendors, \A x \in T : T \ {x} \in G
      PROVE  T \in G
  <2>1. CASE T = {}
    <3>1. g[T] = rs
      BY <1>1, <2>1 DEF IsServing
    <3>2. Serves(rs, rs, {}, its, before)
      BY <1>0 DEF Serves, Has
    <3>3. QED
      BY <2>1, <3>1, <3>2
  <2>2. CASE T # {}
    <3> DEFINE v == Pick(T)
               mid == g[T \ {v}]
    <3>1. v \in T
      BY <2>2 DEF Pick
    <3>2. g[T] = WithPaidRow(mid, v, its, {}, before)
      BY <1>1, <2>2 DEF IsServing
    <3>3. Serves(rs, mid, T \ {v}, its, before)
      BY <1>2, <3>1
    <3> HIDE DEF v, mid
    <3>4. Serves(mid, g[T], {v}, its, before)
      BY <3>1, <3>2, <3>3, ServedRows DEF Serves
    <3>5. Serves(rs, g[T], T, its, before)
      BY <3>1, <3>3, <3>4, ServesOn
    <3>6. QED
      BY <3>5
  <2>3. QED
    BY <2>1, <2>2
<1>3. SUBSET Vendors \subseteq G
  <2>1. IsFiniteSet(Vendors)
    BY FormAssumption
  <2> HIDE DEF G
  <2>2. QED
    BY <1>2, <2>1, SubsetInduction
<1>4. Serves(rs, g[Vendors], Vendors, its, before)
  BY <1>3
<1>5. QED
  BY <1>1, <1>4 DEF rs

-----------------------------------------------------------------------------
(* The rows before any supplier is served, and the sync as a whole.        *)

(* What KeptRows makes of a row.                                           *)
Updated(r, its, before) ==
  IF r.tag # None /\ (r.vendor # r.tag \/ Tracks(r, r.tag, its, before))
  THEN [r EXCEPT !.vendor = r.tag, !.amount = Bill(its, r.tag)] ELSE r

(* Only the amount of a tagged row changes, and to the bill where it       *)
(* follows it.                                                             *)
LEMMA UpdatedRow ==
  ASSUME NEW r \in PaymentRow, r.tag # None => r.vendor = r.tag, NEW its, IsCard(its), NEW before
  PROVE  LET u == Updated(r, its, before) IN
         /\ u \in PaymentRow /\ u.id = r.id /\ u.vendor = r.vendor /\ u.tag = r.tag
         /\ r.tag = None => u = r
         /\ r.tag # None /\ Tracks(r, r.tag, its, before) => u.amount = Bill(its, r.tag)
<1>1. Bill(its, r.tag) \in Nat
  BY BillNat
<1>2. QED
  BY <1>1 DEF Updated, PaymentRow

(* A sequence entry by entry.                                              *)
LEMMA MappedSeq ==
  ASSUME NEW R, NEW s, s \in Seq(R), NEW new, DOMAIN new = DOMAIN s, new = [k \in DOMAIN s |-> new[k]],
         \A k \in DOMAIN s : new[k] \in R
  PROVE  new \in Seq(R)
<1>1. DOMAIN s = 1 .. Len(s) /\ Len(s) \in Nat
  OBVIOUS
<1>2. new \in [1 .. Len(s) -> R]
  BY <1>1
<1>3. QED
  BY <1>1, <1>2

(* What is left of rows are rows.                                          *)
LEMMA FilteredRows ==
  ASSUME NEW rs, IsRows(rs), NEW left
  PROVE  /\ IsRows(Filtered(rs, left))
         /\ IsLeft(Filtered(rs, left), rs, DOMAIN rs, left, PaymentRow)
<1> DEFINE new == Filtered(rs, left)
<1>1. rs \in Seq(PaymentRow) /\ IsLeft(new, rs, DOMAIN rs, left, PaymentRow)
  BY FilteredIsLeft DEF IsRows
<1> HIDE DEF new
<1>2. Distinct(rs)
  BY DEF IsRows, Distinct
<1>3. new \in Seq(PaymentRow) /\ Distinct(new) /\ \A j \in DOMAIN new : \E k \in DOMAIN rs : new[j] = rs[k]
  BY <1>1, <1>2 DEF IsLeft
<1>4. ASSUME NEW i \in DOMAIN new, NEW j \in DOMAIN new,
             new[i].id = new[j].id \/ (new[i].tag = new[j].tag /\ new[i].tag # None)
      PROVE  i = j
  <2>1. PICK k \in DOMAIN rs : new[i] = rs[k]
    BY <1>3
  <2>2. PICK l \in DOMAIN rs : new[j] = rs[l]
    BY <1>3
  <2>3. k = l
    BY <1>4, <2>1, <2>2 DEF IsRows
  <2>4. QED
    BY <1>3, <2>1, <2>2, <2>3 DEF Distinct
<1>5. ASSUME NEW j \in DOMAIN new, new[j].tag # None PROVE new[j].vendor = new[j].tag
  BY <1>3, <1>5 DEF IsRows
<1>6. IsRows(new)
  BY <1>3, <1>4, <1>5 DEF IsRows
<1>7. QED
  BY <1>1, <1>6 DEF new

(* What KeptRows gives: the tags of suppliers with a bill, the rows without*)
(* a tag, and rows of the bill's amount where they followed it.            *)
Keeps(rs, kept, its, before) ==
  /\ IsRows(kept)
  /\ \A v \in Vendors : Tagged(kept, v) <=> Tagged(rs, v) /\ Bill(its, v) > 0
  /\ \A k \in DOMAIN rs : rs[k].tag = None => Has(kept, rs[k])
  /\ \A v \in Vendors : 
       (\A k \in DOMAIN rs : rs[k].vendor = v => rs[k].tag = v /\ Tracks(rs[k], v, its, before)) => OnlyPaidRow(kept, its, v)

(* KeptRows keeps tags of those with a bill, and every row without a tag.  *)
LEMMA KeptRowsKeeps ==
  ASSUME NEW rs, IsRows(rs), NEW its, IsCard(its), NEW before
  PROVE  Keeps(rs, KeptRows(rs, its, before), its, before)
<1> DEFINE wanted == {r \in Range(rs) : r.tag = None \/ Bill(its, r.tag) > 0}
           left == Filtered(rs, wanted)
           kept == KeptRows(rs, its, before)
<1>1. kept = [k \in DOMAIN left |-> Updated(left[k], its, before)]
  BY DEF KeptRows, Updated
<1>2. IsRows(left) /\ IsLeft(left, rs, DOMAIN rs, wanted, PaymentRow)
  BY FilteredRows
<1>3. \A r : r \in wanted <=> (\E k \in DOMAIN rs : rs[k] = r) /\ (r.tag = None \/ Bill(its, r.tag) > 0)
  BY DEF Range
<1>4. DOMAIN kept = DOMAIN left /\ kept = [k \in DOMAIN left |-> kept[k]]
      /\ \A k \in DOMAIN left : kept[k] = Updated(left[k], its, before)
  BY <1>1
<1> HIDE DEF wanted, left, kept
<1>5. left \in Seq(PaymentRow) /\ \A k \in DOMAIN left : left[k] \in PaymentRow
  <2>1. left \in Seq(PaymentRow)
    BY <1>2 DEF IsRows
  <2>2. QED
    BY <2>1
<1>6. ASSUME NEW k \in DOMAIN left
      PROVE  /\ kept[k] \in PaymentRow /\ kept[k].id = left[k].id
             /\ kept[k].vendor = left[k].vendor /\ kept[k].tag = left[k].tag
             /\ left[k].tag = None => kept[k] = left[k]
             /\ left[k].tag # None /\ Tracks(left[k], left[k].tag, its, before) => kept[k].amount = Bill(its, left[k].tag)
  <2>1. left[k].tag # None => left[k].vendor = left[k].tag
    BY <1>2 DEF IsRows
  <2>2. left[k] \in PaymentRow
    BY <1>5
  <2>3. QED
    BY <1>4, <2>1, <2>2, UpdatedRow
<1>7. kept \in Seq(PaymentRow)
  <2>1. \A k \in DOMAIN left : kept[k] \in PaymentRow
    BY <1>6
  <2>2. QED
    BY <1>4, <1>5, <2>1, MappedSeq
<1>8. IsRows(kept)
  BY <1>2, <1>4, <1>6, <1>7 DEF IsRows
<1>9. ASSUME NEW v \in Vendors PROVE Tagged(kept, v) <=> Tagged(rs, v) /\ Bill(its, v) > 0
  <2>0. v # None
    BY FormAssumption
  <2>1. ASSUME NEW j \in DOMAIN kept, kept[j].tag = v PROVE Tagged(rs, v) /\ Bill(its, v) > 0
    <3>1. left[j] \in wanted /\ left[j].tag = v /\ \E k \in DOMAIN rs : left[j] = rs[k]
      BY <1>2, <1>4, <1>6, <2>1 DEF IsLeft
    <3>2. QED
      BY <1>3, <2>0, <3>1 DEF Tagged
  <2>2. ASSUME NEW k \in DOMAIN rs, rs[k].tag = v, Bill(its, v) > 0 PROVE Tagged(kept, v)
    <3>1. rs[k] \in wanted
      BY <1>3, <2>2
    <3>2. PICK j \in DOMAIN left : left[j] = rs[k]
      BY <1>2, <3>1 DEF IsLeft
    <3>3. QED
      BY <1>4, <1>6, <2>2, <3>2 DEF Tagged
  <2>3. QED
    BY <2>1, <2>2 DEF Tagged
<1>10. ASSUME NEW k \in DOMAIN rs, rs[k].tag = None PROVE Has(kept, rs[k])
  <2>1. rs[k] \in wanted
    BY <1>3, <1>10
  <2>2. PICK j \in DOMAIN left : left[j] = rs[k]
    BY <1>2, <2>1 DEF IsLeft
  <2>3. kept[j] = rs[k] /\ j \in DOMAIN kept
    BY <1>4, <1>6, <1>10, <2>2
  <2>4. QED
    BY <2>3 DEF Has
<1>11. ASSUME NEW v \in Vendors,
              \A k \in DOMAIN rs : rs[k].vendor = v => rs[k].tag = v /\ Tracks(rs[k], v, its, before)
       PROVE  OnlyPaidRow(kept, its, v)
  <2>0. v # None
    BY FormAssumption
  <2>1. ASSUME NEW j \in DOMAIN kept, kept[j].vendor = v PROVE kept[j].tag = v /\ kept[j].amount = Bill(its, v)
    <3>1. left[j].vendor = v /\ \E k \in DOMAIN rs : left[j] = rs[k]
      BY <1>2, <1>4, <1>6, <2>1 DEF IsLeft
    <3>2. left[j].tag = v /\ Tracks(left[j], v, its, before)
      BY <1>11, <3>1
    <3>3. QED
      BY <1>4, <1>6, <2>0, <3>2
  <2>2. QED
    BY <2>1 DEF OnlyPaidRow
<1>12. Keeps(rs, kept, its, before)
  BY <1>8, <1>9, <1>10, <1>11 DEF Keeps
<1>13. QED
  BY <1>12 DEF kept

(* The sync gives every supplier with a bill its Paid row, and no other.   *)
(* Payments that are not a bill's stay, and so does a supplier with nothing*)
(* but its Paid row.                                                       *)
LEMMA SyncGives ==
  ASSUME NEW rs, IsRows(rs), NEW its, IsCard(its), NEW before
  PROVE  LET new == syncVendorExpensesFromPurchases(rs, its, {}, before) IN
         /\ IsRows(new) /\ InSync(new, its)
         /\ \A v \in Vendors :
              (\A k \in DOMAIN rs : rs[k].vendor = v => rs[k].tag = v /\ Tracks(rs[k], v, its, before))
                => OnlyPaidRow(new, its, v)
         /\ \A k \in DOMAIN rs :
              /\ rs[k].tag = None
              /\ rs[k].vendor \in Vendors => /\ rs[k].amount = Bill(its, rs[k].vendor) => Bill(its, rs[k].vendor) = 0
                                             /\ before[rs[k].vendor] > 0 => Tagged(rs, rs[k].vendor)
              => Has(new, rs[k])
<1> DEFINE new == syncVendorExpensesFromPurchases(rs, its, {}, before)
           kept == KeptRows(rs, its, before)
<1>1. Keeps(rs, kept, its, before)
  BY KeptRowsKeeps
<1>2. Serves(kept, new, Vendors, its, before)
  BY <1>1, AllServed DEF Keeps
<1> HIDE DEF new, kept
<1>3. IsRows(new) /\ InSync(new, its)
  BY <1>1, <1>2 DEF Keeps, Serves, InSync
<1>4. ASSUME NEW v \in Vendors,
             \A k \in DOMAIN rs : rs[k].vendor = v => rs[k].tag = v /\ Tracks(rs[k], v, its, before)
      PROVE  OnlyPaidRow(new, its, v)
  BY <1>1, <1>2, <1>4 DEF Keeps, Serves
<1>5. ASSUME NEW k \in DOMAIN rs, rs[k].tag = None,
             rs[k].vendor \in Vendors => /\ rs[k].amount = Bill(its, rs[k].vendor) => Bill(its, rs[k].vendor) = 0
                                         /\ before[rs[k].vendor] > 0 => Tagged(rs, rs[k].vendor)
      PROVE  Has(new, rs[k])
  <2>1. PICK j \in DOMAIN kept : kept[j] = rs[k]
    BY <1>1, <1>5 DEF Keeps, Has
  <2>2. \A v \in Vendors : Tagged(kept, v) <=> Tagged(rs, v) /\ Bill(its, v) > 0
    BY <1>1 DEF Keeps
  <2>3. Other(kept[j], its, before, kept)
    BY <1>5, <2>1, <2>2 DEF Other
  <2>4. QED
    BY <1>2, <2>1, <2>3 DEF Serves
<1>6. QED
  BY <1>3, <1>4, <1>5 DEF new

-----------------------------------------------------------------------------
(* The initial state and every step have the invariant.                    *)

(* The totals of a card are its bills.                                     *)
LEMMA BillsAreNat ==
  ASSUME NEW its, IsCard(its)
  PROVE  /\ purchaseVendorTotalsFromLines(its) \in [Vendors -> Nat]
         /\ \A v \in Vendors : purchaseVendorTotalsFromLines(its)[v] = Bill(its, v)
  BY BillNat DEF purchaseVendorTotalsFromLines

(* A new day has the invariant: no items, no rows.                         *)
LEMMA InitInv ==
  ASSUME Init
  PROVE  Inv
<1>1. /\ items = << >> /\ rows = << >> /\ saved.items = << >> /\ saved.rows = << >>
      /\ groups = {} /\ dismissed = {} /\ hand = {} /\ typed = {} /\ loaded = FALSE /\ reopened = FALSE
      /\ prev = [v \in Vendors |-> 0]
  BY DEF Init
<1>2. IsCard(<< >>)
  BY FS_EmptySet DEF IsCard, Keys
<1>3. IsRows(<< >>)
  BY DEF IsRows
<1>4. \A v : Bill(<< >>, v) = 0
  BY NoItemsNoBill
<1>5. \A v : ~Tagged(<< >>, v)
  BY DEF Tagged
<1>6. IsDay(saved)
  BY <1>1, <1>2, <1>3, <1>4 DEF IsDay
<1>7. Synced /\ Opened
  BY <1>1, <1>4, <1>5 DEF Synced, InSync, Opened
<1>8. Untyped
  BY <1>1 DEF Untyped, OnlyPaidRow
<1>9. prev = purchaseVendorTotalsFromLines(items)
  BY <1>1, <1>4 DEF purchaseVendorTotalsFromLines
<1>10. TypeOK
  BY <1>1, <1>2, <1>3 DEF TypeOK, IsCard, IsRows, Item, PaymentRow
<1>11. QED
  BY <1>1, <1>2, <1>3, <1>6, <1>7, <1>8, <1>9, <1>10 DEF Inv

(* The types of a form whose card and rows are a card and rows.            *)
LEMMA TypeNext ==
  ASSUME IsCard(items'), IsRows(rows'), groups' \subseteq Vendors \cup {None}, dismissed' = {},
         prev' = purchaseVendorTotalsFromLines(items'), hand' \subseteq Ids(rows'), typed' \subseteq Vendors
  PROVE  TypeOK'
<1>1. prev' \in [Vendors -> Nat]
  BY BillsAreNat
<1>2. /\ Keys(items') \subseteq Items
      /\ items' \in [Keys(items') -> [vendor : Vendors \cup {None}, total : Totals \cup {0}]]
  BY DEF IsCard, Item
<1>3. /\ rows' \in Seq([id : Nat, vendor : Vendors \cup {None}, amount : Nat, tag : Vendors \cup {None}])
      /\ \A j, k \in DOMAIN rows' : rows'[j].id = rows'[k].id => j = k
  BY DEF IsRows, PaymentRow
<1>4. QED
  BY <1>1, <1>2, <1>3 DEF TypeOK

(* A sync, with the rows it is called with.                                *)
LEMMA SyncInv ==
  ASSUME Inv, NEW rs, IsRows(rs), NEW its, IsCard(its), NEW gone, gone = {},
         applyPurchaseVendorExpenseSync(rs, its, gone),
         groups' \subseteq Vendors \cup {None}, hand' \subseteq Ids(rows'),
         typed \subseteq typed', typed' \subseteq Vendors, loaded' = FALSE, reopened' = reopened, saved' = saved,
         \A k \in DOMAIN rs : rs[k].vendor \in Vendors \ typed' => Has(rows, rs[k])
  PROVE  Inv'
<1>1. /\ items' = its /\ dismissed' = {} /\ rows' = syncVendorExpensesFromPurchases(rs, its, {}, prev)
      /\ prev' = purchaseVendorTotalsFromLines(its)
  <2>1. {v \in gone : Bill(its, v) > 0 /\ prev[v] = Bill(its, v)} = {}
    OBVIOUS
  <2>2. QED
    BY <2>1 DEF applyPurchaseVendorExpenseSync
<1>2. /\ IsRows(rows') /\ InSync(rows', its)
      /\ \A v \in Vendors :
           (\A k \in DOMAIN rs : rs[k].vendor = v => rs[k].tag = v /\ Tracks(rs[k], v, its, prev))
             => OnlyPaidRow(rows', its, v)
  BY <1>1, SyncGives
<1>3. ASSUME ~reopened, NEW v \in Vendors \ typed' PROVE OnlyPaidRow(rows', its, v)
  <2>1. OnlyPaidRow(rows, items, v) /\ InSync(rows, items) /\ prev[v] = Bill(items, v)
    BY <1>3, BillsAreNat DEF Inv, Untyped, Synced, Opened
  <2>3. ASSUME NEW k \in DOMAIN rs, rs[k].vendor = v PROVE rs[k].tag = v /\ Tracks(rs[k], v, its, prev)
    <3>1. PICK j \in DOMAIN rows : rows[j] = rs[k]
      BY <2>3 DEF Has
    <3>2. rs[k].tag = v /\ rs[k].amount = prev[v]
      BY <2>1, <2>3, <3>1 DEF OnlyPaidRow
    <3>3. prev[v] > 0
      BY <2>1, <3>1, <3>2 DEF InSync, Tagged
    <3>4. QED
      BY <3>2, <3>3 DEF Tracks
  <2>4. QED
    BY <1>2, <2>3
<1>4. Synced' /\ Opened'
  BY <1>1, <1>2 DEF Synced, Opened
<1>5. Untyped'
  BY <1>1, <1>3 DEF Untyped
<1>6. IsDay(saved')
  BY DEF Inv
<1>7. TypeOK'
  BY <1>1, <1>2, TypeNext
<1>8. QED
  BY <1>1, <1>2, <1>4, <1>5, <1>6, <1>7 DEF Inv

(* A change of the card.                                                   *)
LEMMA CardInv ==
  ASSUME Inv, NEW its, IsCard(its), applyPurchaseVendorExpenseSync(rows, its, dismissed), CardChanged,
         groups' \subseteq Vendors \cup {None}
  PROVE  Inv'
<1>1. hand' \subseteq Ids(rows') /\ typed' = typed /\ loaded' = FALSE /\ reopened' = reopened /\ saved' = saved
  BY DEF CardChanged, Remember
<1>2. IsRows(rows) /\ dismissed = {} /\ typed \subseteq Vendors
  BY DEF Inv, TypeOK
<1>3. \A k \in DOMAIN rows : Has(rows, rows[k])
  BY DEF Has
<1>4. QED
  BY <1>1, <1>2, <1>3, SyncInv

(* The groups on the card are of suppliers, or of none yet.                *)
LEMMA OnCardTypes ==
  ASSUME Inv
  PROVE  /\ groups \subseteq Vendors \cup {None} /\ OnCard \subseteq Vendors \cup {None}
         /\ \A i \in Keys(items) : items[i].vendor \in Vendors \cup {None}
<1>1. \A i \in Keys(items) : items[i].vendor \in Vendors \cup {None}
  BY DEF Inv, IsCard, Item
<1>2. groups \subseteq Vendors \cup {None}
  BY DEF Inv, TypeOK
<1>3. QED
  BY <1>1, <1>2 DEF OnCard

(* Adding an item, ...                                                     *)
LEMMA AddItemInv ==
  ASSUME Inv, NEW i \in Items, NEW v \in Vendors \cup {None}, addPurchaseItemForVendor(i, v)
  PROVE  Inv'
<1> DEFINE its == With(items, i, [vendor |-> v, total |-> 0])
<1>1. IsCard(its)
  BY WithCard DEF Inv
<1>2. applyPurchaseVendorExpenseSync(rows, its, dismissed) /\ CardChanged /\ groups' = groups \cup {v}
  BY DEF addPurchaseItemForVendor
<1>3. groups' \subseteq Vendors \cup {None}
  BY <1>2, OnCardTypes
<1> HIDE DEF its
<1>4. QED
  BY <1>1, <1>2, <1>3, CardInv

(* ... typing a total, ...                                                 *)
LEMMA PatchItemInv ==
  ASSUME Inv, NEW i \in Items, NEW t \in Totals \cup {0}, patchPurchaseItem(i, t)
  PROVE  Inv'
<1> DEFINE its == [items EXCEPT ![i].total = t]
<1>1. IsCard(its)
  <2>1. i \in Keys(items)
    BY DEF patchPurchaseItem
  <2>2. QED
    BY <2>1, PatchedCard DEF Inv
<1>2. applyPurchaseVendorExpenseSync(rows, its, dismissed) /\ CardChanged /\ groups' = groups
  BY DEF patchPurchaseItem
<1>3. groups' \subseteq Vendors \cup {None}
  BY <1>2, OnCardTypes
<1> HIDE DEF its
<1>4. QED
  BY <1>1, <1>2, <1>3, CardInv

(* ... naming a group, ...                                                 *)
LEMMA RenameInv ==
  ASSUME Inv, NEW from \in Vendors \cup {None}, NEW to \in Vendors \cup {None}, setPurchaseVendorGroupName(from, to)
  PROVE  Inv'
<1> DEFINE its == [i \in Keys(items) |-> IF items[i].vendor = from THEN [items[i] EXCEPT !.vendor = to] ELSE items[i]]
<1>1. IsCard(its)
  BY RenamedCard DEF Inv
<1>2. applyPurchaseVendorExpenseSync(rows, its, dismissed) /\ CardChanged
  BY DEF setPurchaseVendorGroupName
<1>3. groups' \subseteq Vendors \cup {None}
  BY OnCardTypes DEF setPurchaseVendorGroupName
<1> HIDE DEF its
<1>4. QED
  BY <1>1, <1>2, <1>3, CardInv

(* ... removing an item ...                                                *)
LEMMA RemoveItemInv ==
  ASSUME Inv, NEW i \in Items, removePurchaseItem(i)
  PROVE  Inv'
<1> DEFINE its == Without(items, {i})
<1>1. IsCard(its)
  BY WithoutCard DEF Inv
<1>2. applyPurchaseVendorExpenseSync(rows, its, dismissed) /\ CardChanged /\ groups' = groups
  BY DEF removePurchaseItem
<1>3. groups' \subseteq Vendors \cup {None}
  BY <1>2, OnCardTypes
<1> HIDE DEF its
<1>4. QED
  BY <1>1, <1>2, <1>3, CardInv

(* ... or a group: the card changes and the rows are synced.               *)
LEMMA RemoveGroupInv ==
  ASSUME Inv, NEW v \in Vendors \cup {None}, removePurchaseVendorGroup(v)
  PROVE  Inv'
<1> DEFINE its == Without(items, {i \in Keys(items) : items[i].vendor = v})
<1>1. IsCard(its)
  BY WithoutCard DEF Inv
<1>2. applyPurchaseVendorExpenseSync(rows, its, dismissed) /\ CardChanged /\ groups' = groups \ {v}
  BY DEF removePurchaseVendorGroup
<1>3. groups' \subseteq Vendors \cup {None}
  BY <1>2, OnCardTypes
<1> HIDE DEF its
<1>4. QED
  BY <1>1, <1>2, <1>3, CardInv

-----------------------------------------------------------------------------
(* Changes of the rows alone.                                              *)

(* Rows change, the card does not: tags stay where they were, suppliers    *)
(* with a bill keep a row, and rows that are not of a supplier typed for   *)
(* were there before.                                                      *)
LEMMA RowsInv ==
  ASSUME Inv, UNCHANGED <<items, groups, prev, saved, reopened>>, loaded' = loaded, hand' \subseteq Ids(rows'),
         typed \subseteq typed', typed' \subseteq Vendors, dismissed' = {}, IsRows(rows'),
         \A v \in Vendors : Tagged(rows', v) <=> Tagged(rows, v),
         \A v \in Vendors : Bill(items, v) > 0 => \E k \in DOMAIN rows' : rows'[k].vendor = v,
         \A k \in DOMAIN rows' : rows'[k].vendor \in Vendors \ typed' => Has(rows, rows'[k])
  PROVE  Inv'
<1>1. TypeOK'
  <2>1. IsCard(items') /\ groups' \subseteq Vendors \cup {None} /\ prev' = purchaseVendorTotalsFromLines(items')
    BY OnCardTypes DEF Inv
  <2>2. QED
    BY <2>1, TypeNext
<1>2. Synced'
  BY DEF Inv, Synced, InSync
<1>3. Opened'
  <2>1. ASSUME loaded, NEW k \in DOMAIN rows', rows'[k].tag # None PROVE FALSE
    <3>1. rows'[k] \in PaymentRow
      BY DEF IsRows
    <3>2. rows'[k].tag \in Vendors
      BY <2>1, <3>1 DEF PaymentRow
    <3>3. Tagged(rows', rows'[k].tag)
      BY DEF Tagged
    <3>4. Tagged(rows, rows'[k].tag)
      BY <3>2, <3>3
    <3>5. QED
      BY <2>1, <3>2, <3>4, FormAssumption DEF Inv, Opened, Tagged
  <2>2. loaded => reopened
    BY DEF Inv, Opened
  <2>3. QED
    BY <2>1, <2>2 DEF Opened
<1>4. Untyped'
  <2>1. ASSUME ~reopened, NEW v \in Vendors \ typed', NEW k \in DOMAIN rows', rows'[k].vendor = v
        PROVE  rows'[k].tag = v /\ rows'[k].amount = Bill(items, v)
    <3>1. PICK j \in DOMAIN rows : rows[j] = rows'[k]
      BY <2>1 DEF Has
    <3>2. OnlyPaidRow(rows, items, v)
      BY <2>1 DEF Inv, Untyped
    <3>3. QED
      BY <2>1, <3>1, <3>2 DEF OnlyPaidRow
  <2>2. QED
    BY <2>1 DEF Untyped, OnlyPaidRow
<1>5. IsCard(items') /\ IsDay(saved') /\ prev' = purchaseVendorTotalsFromLines(items')
  BY DEF Inv
<1>6. QED
  BY <1>1, <1>2, <1>3, <1>4, <1>5 DEF Inv

(* The row of an id.                                                       *)
LEMMA AtIs ==
  ASSUME Inv, NEW id \in Ids(rows)
  PROVE  At(id) \in DOMAIN rows /\ rows[At(id)].id = id
<1>1. \E k \in DOMAIN rows : rows[k].id = id
  BY DEF Ids
<1>2. QED
  BY <1>1 DEF At

(* Every supplier with a bill has the row behind its Paid field, tagged or *)
(* not, and that row is not listed.                                        *)
LEMMA PaidRowIs ==
  ASSUME Inv, NEW v \in Vendors, Bill(items, v) > 0
  PROVE  \E p \in DOMAIN rows : PaidRow(v) = {p} /\ rows[p].vendor = v
<1>1. TaggedRow(v) \in SUBSET Nat /\ RowsOf(v) \in SUBSET Nat /\ rows \in Seq(PaymentRow)
  <2>1. rows \in Seq(PaymentRow)
    BY DEF Inv, IsRows
  <2>2. DOMAIN rows \subseteq Nat
    BY <2>1
  <2>3. QED
    BY <2>1, <2>2 DEF TaggedRow, RowsOf
<1>2. CASE TaggedRow(v) # {}
  <2>1. Min(TaggedRow(v)) \in TaggedRow(v)
    BY <1>1, <1>2, MinIsIn
  <2>2. PaidRow(v) = {Min(TaggedRow(v))}
    BY <1>2 DEF PaidRow
  <2>3. Min(TaggedRow(v)) \in DOMAIN rows /\ rows[Min(TaggedRow(v))].tag = v
    BY <2>1 DEF TaggedRow
  <2>4. v # None
    BY FormAssumption
  <2>5. rows[Min(TaggedRow(v))].vendor = v
    BY <2>3, <2>4 DEF Inv, IsRows
  <2>6. QED
    BY <2>2, <2>3, <2>5
<1>3. CASE TaggedRow(v) = {}
  <2>1. ~Tagged(rows, v)
    BY <1>3 DEF Tagged, TaggedRow
  <2>2. loaded
    BY <2>1 DEF Inv, Synced, InSync
  <2>3. RowsOf(v) # {}
    BY <2>2 DEF Inv, Opened, RowsOf
  <2>4. v \in OnCard
    <3>1. PICK i \in Keys(items) : items[i].vendor = v
      BY BillHasItem
    <3>2. QED
      BY <3>1 DEF OnCard
  <2>5. Min(RowsOf(v)) \in RowsOf(v)
    BY <1>1, <2>3, MinIsIn
  <2>6. PaidRow(v) = {Min(RowsOf(v))}
    BY <1>3, <2>3, <2>4 DEF PaidRow
  <2>7. QED
    BY <2>5, <2>6 DEF RowsOf
<1>4. QED
  BY <1>2, <1>3

(* A payment added by hand is a row of nobody.                             *)
LEMMA AddPaymentInv ==
  ASSUME Inv, addVendorExpenseLine
  PROVE  Inv'
<1> DEFINE r == Row(FreeId(rows), None, 0, None)
           n == Len(rows) + 1
<1>1. /\ rows' = Append(rows, r) /\ dismissed' = dismissed
      /\ UNCHANGED <<items, groups, prev, saved, reopened>> /\ loaded' = loaded /\ typed' = typed
      /\ hand' \subseteq Ids(rows')
  BY DEF addVendorExpenseLine, RowsChanged, Remember
<1>2. rows \in Seq(PaymentRow) /\ dismissed = {} /\ typed \subseteq Vendors
  BY DEF Inv, IsRows, TypeOK
<1>3. r \in PaymentRow /\ r.id \notin Ids(rows) /\ r.vendor = None /\ r.tag = None
  <2>1. FreeId(rows) \in Nat \ Ids(rows)
    BY <1>2, FreeIdIsFree
  <2>2. QED
    BY <2>1, RowIsRow
<1> HIDE DEF r
<1>4. /\ rows' \in Seq(PaymentRow) /\ DOMAIN rows' = DOMAIN rows \cup {n} /\ n \notin DOMAIN rows
      /\ \A j \in DOMAIN rows : rows'[j] = rows[j]
      /\ rows'[n] = r
  BY <1>1, <1>2, <1>3
<1> HIDE DEF n
<1>5. \A j \in DOMAIN rows : rows[j].id \in Ids(rows)
  BY DEF Ids
<1>6. IsRows(rows)
  BY DEF Inv
<1>7. \A j, k \in DOMAIN rows' : rows'[j].id = rows'[k].id => j = k
  BY <1>3, <1>4, <1>5, <1>6 DEF IsRows
<1>8. IsRows(rows')
  BY <1>3, <1>4, <1>6, <1>7 DEF IsRows
<1>9. None \notin Vendors
  BY FormAssumption
<1>10. \A v \in Vendors : Tagged(rows', v) <=> Tagged(rows, v)
  BY <1>3, <1>4, <1>9 DEF Tagged
<1>11. \A v \in Vendors : Bill(items, v) > 0 => \E k \in DOMAIN rows' : rows'[k].vendor = v
  <2>1. ASSUME NEW v \in Vendors, Bill(items, v) > 0 PROVE \E k \in DOMAIN rows' : rows'[k].vendor = v
    <3>1. PICK p \in DOMAIN rows : rows[p].vendor = v
      BY <2>1, PaidRowIs
    <3>2. QED
      BY <1>4, <3>1
  <2>2. QED
    BY <2>1
<1>12. \A k \in DOMAIN rows' : rows'[k].vendor \in Vendors \ typed' => Has(rows, rows'[k])
  BY <1>3, <1>4, <1>9 DEF Has
<1>13. QED
  BY <1>1, <1>2, <1>8, <1>10, <1>11, <1>12, RowsInv

(* A listed row gets another supplier or amount.                           *)
LEMMA EditInv ==
  ASSUME Inv, NEW id, Listed(id), NEW r \in PaymentRow, r.id = id, r.tag = None,
         rows' = [rows EXCEPT ![At(id)] = r], dismissed' = {},
         UNCHANGED <<items, groups, prev, saved, reopened>>, loaded' = loaded, hand' \subseteq Ids(rows'),
         typed \subseteq typed', typed' \subseteq Vendors, r.vendor \in Vendors => r.vendor \in typed'
  PROVE  Inv'
<1>1. /\ id \in Ids(rows) /\ rows[At(id)].tag = None
      /\ \A v \in Vendors : At(id) \notin PaidRow(v)
  BY DEF Listed
<1>2. At(id) \in DOMAIN rows /\ rows[At(id)].id = id
  BY <1>1, AtIs
<1>3. IsRows(rows) /\ rows \in Seq(PaymentRow) /\ None \notin Vendors
  BY FormAssumption DEF Inv, IsRows
<1>4. /\ rows' \in Seq(PaymentRow) /\ DOMAIN rows' = DOMAIN rows /\ rows'[At(id)] = r
      /\ \A j \in DOMAIN rows : j # At(id) => rows'[j] = rows[j]
  BY <1>2, <1>3
<1>5. \A j \in DOMAIN rows : rows'[j].id = rows[j].id /\ rows'[j].tag = rows[j].tag
  BY <1>1, <1>2, <1>4
<1>6. \A j \in DOMAIN rows : rows'[j].tag # None => rows'[j].vendor = rows'[j].tag
  BY <1>3, <1>4 DEF IsRows
<1>7. IsRows(rows')
  BY <1>3, <1>4, <1>5, <1>6 DEF IsRows
<1>8. \A v \in Vendors : Tagged(rows', v) <=> Tagged(rows, v)
  BY <1>4, <1>5 DEF Tagged
<1>9. ASSUME NEW v \in Vendors, Bill(items, v) > 0 PROVE \E k \in DOMAIN rows' : rows'[k].vendor = v
  <2>1. PICK p \in DOMAIN rows : PaidRow(v) = {p} /\ rows[p].vendor = v
    BY <1>9, PaidRowIs
  <2>2. p # At(id)
    BY <1>1, <2>1
  <2>3. QED
    BY <1>4, <2>1, <2>2
<1>10. \A k \in DOMAIN rows' : rows'[k].vendor \in Vendors \ typed' => Has(rows, rows'[k])
  BY <1>4 DEF Has
<1>11. QED
  BY <1>7, <1>8, <1>9, <1>10, RowsInv

(* Another supplier for a listed row, ...                                  *)
LEMMA PatchVendorInv ==
  ASSUME Inv, NEW id \in Ids(rows), NEW v \in Vendors \cup {None}, patchVendor(id, v)
  PROVE  Inv'
<1> DEFINE o == rows[At(id)]
           r == [[o EXCEPT !.vendor = v] EXCEPT !.tag = None]
<1>1. Listed(id) /\ At(id) \in DOMAIN rows /\ o.id = id /\ o.tag = None
  BY AtIs DEF patchVendor, Listed
<1>2. o \in PaymentRow /\ dismissed = {} /\ typed \subseteq Vendors
  <2>1. rows \in Seq(PaymentRow)
    BY DEF Inv, IsRows
  <2>2. QED
    BY <1>1, <2>1 DEF Inv, TypeOK
<1>3. r \in PaymentRow /\ r.id = id /\ r.tag = None /\ r.vendor = v
  <2> HIDE DEF o
  <2>1. QED
    BY <1>1, <1>2 DEF PaymentRow
<1>4. rows' = [rows EXCEPT ![At(id)] = r]
  BY DEF patchVendor
<1>5. /\ dismissed' = dismissed \cup ({o.tag} \ {None})
      /\ UNCHANGED <<items, groups, prev, saved, reopened>> /\ loaded' = loaded
      /\ hand' \subseteq Ids(rows') /\ typed' = typed \cup ({v, o.vendor} \ {None})
  BY DEF patchVendor, RowsChanged, Remember
<1>6. o.vendor \in Vendors \cup {None}
  BY <1>2 DEF PaymentRow
<1> HIDE DEF r, o
<1>7. dismissed' = {} /\ typed \subseteq typed' /\ typed' \subseteq Vendors /\ (v \in Vendors => v \in typed')
  BY <1>1, <1>2, <1>5, <1>6, FormAssumption
<1>8. QED
  BY <1>1, <1>3, <1>4, <1>5, <1>7, EditInv

(* ... another amount ...                                                  *)
LEMMA PatchAmountInv ==
  ASSUME Inv, NEW id \in Ids(rows), NEW a \in Amounts, patchAmount(id, a)
  PROVE  Inv'
<1> DEFINE o == rows[At(id)]
           r == [o EXCEPT !.amount = a]
<1>1. Listed(id) /\ At(id) \in DOMAIN rows /\ o.id = id /\ o.tag = None
  BY AtIs DEF patchAmount, Listed
<1>2. o \in PaymentRow /\ dismissed = {} /\ typed \subseteq Vendors
  <2>1. rows \in Seq(PaymentRow)
    BY DEF Inv, IsRows
  <2>2. QED
    BY <1>1, <2>1 DEF Inv, TypeOK
<1>3. r \in PaymentRow /\ r.id = id /\ r.tag = None /\ r.vendor = o.vendor
  <2>1. a \in Nat
    BY FormAssumption DEF Amounts
  <2> HIDE DEF o
  <2>2. QED
    BY <1>1, <1>2, <2>1 DEF PaymentRow
<1>4. rows' = [rows EXCEPT ![At(id)] = r]
  BY DEF patchAmount
<1>5. /\ dismissed' = dismissed
      /\ UNCHANGED <<items, groups, prev, saved, reopened>> /\ loaded' = loaded
      /\ hand' \subseteq Ids(rows') /\ typed' = typed \cup ({o.vendor} \ {None})
  BY DEF patchAmount, RowsChanged, Remember
<1>6. o.vendor \in Vendors \cup {None}
  BY <1>2 DEF PaymentRow
<1> HIDE DEF r, o
<1>7. dismissed' = {} /\ typed \subseteq typed' /\ typed' \subseteq Vendors /\ (o.vendor \in Vendors => o.vendor \in typed')
  BY <1>2, <1>5, <1>6, FormAssumption
<1>8. QED
  BY <1>1, <1>3, <1>4, <1>5, <1>7, EditInv

(* ... and its removal, which leaves the rows that stand for Paid fields.  *)
LEMMA RemovePaymentInv ==
  ASSUME Inv, NEW id \in Ids(rows), removeExpenseLine(id)
  PROVE  Inv'
<1> DEFINE o == rows[At(id)]
           left == {r \in Range(rows) : r.id # id}
<1>1. /\ Listed(id) /\ At(id) \in DOMAIN rows /\ o.id = id /\ o.tag = None
      /\ \A v \in Vendors : At(id) \notin PaidRow(v)
  BY AtIs DEF removeExpenseLine, Listed
<1>2. o \in PaymentRow /\ dismissed = {} /\ typed \subseteq Vendors /\ IsRows(rows) /\ None \notin Vendors
  <2>1. rows \in Seq(PaymentRow)
    BY DEF Inv, IsRows
  <2>2. QED
    BY <1>1, <2>1, FormAssumption DEF Inv, TypeOK
<1>3. /\ rows' = Filtered(rows, left)
      /\ dismissed' = dismissed \cup ({o.tag} \ {None})
      /\ UNCHANGED <<items, groups, prev, saved, reopened>> /\ loaded' = loaded
      /\ hand' \subseteq Ids(rows') /\ typed' = typed \cup ({o.vendor} \ {None})
  BY DEF removeExpenseLine, RowsChanged, Remember
<1>4. \A k \in DOMAIN rows : rows[k] \in left <=> k # At(id)
  BY <1>1, <1>2 DEF Range, IsRows
<1>5. o.vendor \in Vendors \cup {None}
  BY <1>2 DEF PaymentRow
<1>6. \A r \in left : r.id # id
  OBVIOUS
<1> HIDE DEF left
<1>7. IsRows(rows') /\ IsLeft(rows', rows, DOMAIN rows, left, PaymentRow)
  BY <1>2, <1>3, FilteredRows
<1>8. /\ \A j \in DOMAIN rows' : \E k \in DOMAIN rows : rows'[j] = rows[k]
      /\ \A k \in DOMAIN rows : k # At(id) => \E j \in DOMAIN rows' : rows'[j] = rows[k]
  BY <1>4, <1>7 DEF IsLeft
<1>9. \A v \in Vendors : Tagged(rows', v) <=> Tagged(rows, v)
  BY <1>1, <1>2, <1>8 DEF Tagged
<1>10. ASSUME NEW v \in Vendors, Bill(items, v) > 0 PROVE \E k \in DOMAIN rows' : rows'[k].vendor = v
  <2>1. PICK p \in DOMAIN rows : PaidRow(v) = {p} /\ rows[p].vendor = v
    BY <1>10, PaidRowIs
  <2>2. p # At(id)
    BY <1>1, <2>1
  <2>3. QED
    BY <1>8, <2>1, <2>2
<1>11. \A k \in DOMAIN rows' : Has(rows, rows'[k])
  BY <1>8 DEF Has
<1> HIDE DEF o
<1>12. dismissed' = {} /\ typed \subseteq typed' /\ typed' \subseteq Vendors
  BY <1>1, <1>2, <1>3, <1>5
<1>13. QED
  BY <1>3, <1>7, <1>9, <1>10, <1>11, <1>12, RowsInv

(* The Paid field of a supplier that has a tagged row.                     *)
LEMMA PaidRowChanges ==
  ASSUME Inv, NEW v \in Vendors, TaggedRow(v) # {}, NEW a \in Amounts \cup Totals, setPurchaseVendorPaid(v, a)
  PROVE  LET p == Min(TaggedRow(v)) IN
         /\ p \in DOMAIN rows /\ rows[p].tag = v /\ rows[p].vendor = v
         /\ PaidRow(v) = {p}
         /\ rows' \in Seq(PaymentRow) /\ DOMAIN rows' = DOMAIN rows
         /\ \A j \in DOMAIN rows : j # p => rows'[j] = rows[j]
         /\ rows'[p].id = rows[p].id /\ rows'[p].vendor = v /\ rows'[p].tag = v /\ rows'[p].amount = a
<1> DEFINE p == Min(TaggedRow(v))
           r == [rows[p] EXCEPT !.amount = a]
<1>1. rows \in Seq(PaymentRow) /\ IsRows(rows) /\ v # None
  BY FormAssumption DEF Inv, IsRows
<1>2. p \in DOMAIN rows /\ rows[p].tag = v
  <2>1. DOMAIN rows \subseteq Nat
    BY <1>1
  <2>2. TaggedRow(v) \in SUBSET Nat
    BY <2>1 DEF TaggedRow
  <2>3. p \in TaggedRow(v)
    BY <2>2, MinIsIn
  <2>4. QED
    BY <2>3 DEF TaggedRow
<1>3. PaidRow(v) = {p}
  BY DEF PaidRow
<1>4. rows' = [rows EXCEPT ![p] = r]
  BY DEF setPurchaseVendorPaid
<1>5. a \in Nat
  BY FormAssumption DEF Amounts
<1> HIDE DEF p
<1>6. rows[p] \in PaymentRow /\ rows[p].vendor = v
  BY <1>1, <1>2 DEF IsRows
<1>7. r \in PaymentRow /\ r.id = rows[p].id /\ r.vendor = v /\ r.tag = v /\ r.amount = a
  BY <1>2, <1>5, <1>6 DEF PaymentRow
<1> HIDE DEF r
<1>8. /\ rows' \in Seq(PaymentRow) /\ DOMAIN rows' = DOMAIN rows /\ rows'[p] = r
      /\ \A j \in DOMAIN rows : j # p => rows'[j] = rows[j]
  BY <1>1, <1>2, <1>4, <1>7
<1>9. QED
  BY <1>2, <1>3, <1>6, <1>7, <1>8 DEF p

(* That of a supplier without one: the rows the form is synced with.       *)
LEMMA AppendedRow ==
  ASSUME Inv, NEW v \in Vendors, TaggedRow(v) = {}, NEW a \in Amounts \cup Totals
  PROVE  LET rs == Append(rows, Row(FreeId(rows), v, a, v)) IN
         /\ IsRows(rs)
         /\ \A k \in DOMAIN rs : rs[k].vendor # v => Has(rows, rs[k])
         /\ \A k \in DOMAIN rows : Has(rs, rows[k])
<1> DEFINE r == Row(FreeId(rows), v, a, v)
           rs == Append(rows, r)
           n == Len(rows) + 1
<1>1. IsRows(rows) /\ rows \in Seq(PaymentRow) /\ None \notin Vendors
  BY FormAssumption DEF Inv, IsRows
<1>2. r \in PaymentRow /\ r.id \notin Ids(rows) /\ r.vendor = v /\ r.tag = v
  <2>1. FreeId(rows) \in Nat \ Ids(rows)
    BY <1>1, FreeIdIsFree
  <2>2. a \in Nat
    BY FormAssumption DEF Amounts
  <2>3. QED
    BY <2>1, <2>2, RowIsRow
<1> HIDE DEF r
<1>3. /\ rs \in Seq(PaymentRow) /\ DOMAIN rs = DOMAIN rows \cup {n} /\ n \notin DOMAIN rows
      /\ \A j \in DOMAIN rows : rs[j] = rows[j]
      /\ rs[n] = r
  BY <1>1, <1>2
<1> HIDE DEF rs, n
<1>4. \A j \in DOMAIN rows : rows[j].id \in Ids(rows) /\ rows[j].tag # v
  BY DEF Ids, TaggedRow
<1>5. \A j, k \in DOMAIN rs : rs[j].id = rs[k].id => j = k
  BY <1>1, <1>2, <1>3, <1>4 DEF IsRows
<1>6. \A j, k \in DOMAIN rs : rs[j].tag = rs[k].tag /\ rs[j].tag # None => j = k
  BY <1>1, <1>2, <1>3, <1>4 DEF IsRows
<1>7. \A j \in DOMAIN rs : rs[j].tag # None => rs[j].vendor = rs[j].tag
  BY <1>1, <1>2, <1>3 DEF IsRows
<1>8. IsRows(rs)
  BY <1>3, <1>5, <1>6, <1>7 DEF IsRows
<1>9. \A k \in DOMAIN rs : rs[k].vendor # v => Has(rows, rs[k])
  BY <1>2, <1>3 DEF Has
<1>10. \A k \in DOMAIN rows : Has(rs, rows[k])
  BY <1>3 DEF Has
<1>11. QED
  BY <1>8, <1>9, <1>10 DEF rs, r

(* The Paid field sets the amount of the tagged row, or adds one and syncs.*)
LEMMA SetPaidInv ==
  ASSUME Inv, NEW v \in Vendors, NEW a \in Amounts \cup Totals, setPurchaseVendorPaid(v, a)
  PROVE  Inv'
<1>0. IsRows(rows) /\ rows \in Seq(PaymentRow) /\ dismissed = {} /\ typed \subseteq Vendors /\ None \notin Vendors
  BY FormAssumption DEF Inv, IsRows, TypeOK
<1>1. CASE TaggedRow(v) # {}
  <2> DEFINE p == Min(TaggedRow(v))
  <2>1. /\ p \in DOMAIN rows /\ rows[p].tag = v /\ rows[p].vendor = v
        /\ rows' \in Seq(PaymentRow) /\ DOMAIN rows' = DOMAIN rows
        /\ \A j \in DOMAIN rows : j # p => rows'[j] = rows[j]
        /\ rows'[p].id = rows[p].id /\ rows'[p].vendor = v /\ rows'[p].tag = v
    BY <1>1, PaidRowChanges
  <2>2. /\ UNCHANGED <<items, groups, prev, saved, reopened>> /\ loaded' = loaded
        /\ hand' \subseteq Ids(rows') /\ typed' = typed \cup {v} /\ dismissed' = dismissed
    BY <1>1 DEF setPurchaseVendorPaid, RowsChanged, Remember
  <2> HIDE DEF p
  <2>3. \A j \in DOMAIN rows :
          rows'[j].id = rows[j].id /\ rows'[j].tag = rows[j].tag /\ rows'[j].vendor = rows[j].vendor
    BY <2>1
  <2>4. IsRows(rows')
    BY <1>0, <2>1, <2>3 DEF IsRows
  <2>5. \A w \in Vendors : Tagged(rows', w) <=> Tagged(rows, w)
    BY <2>1, <2>3 DEF Tagged
  <2>6. ASSUME NEW w \in Vendors, Bill(items, w) > 0 PROVE \E k \in DOMAIN rows' : rows'[k].vendor = w
    <3>1. PICK k \in DOMAIN rows : rows[k].vendor = w
      BY <2>6, PaidRowIs
    <3>2. QED
      BY <2>1, <2>3, <3>1
  <2>7. \A k \in DOMAIN rows' : rows'[k].vendor \in Vendors \ typed' => Has(rows, rows'[k])
    BY <2>1, <2>2 DEF Has
  <2>8. typed \subseteq typed' /\ typed' \subseteq Vendors /\ dismissed' = {}
    BY <1>0, <2>2
  <2>9. QED
    BY <2>2, <2>4, <2>5, <2>6, <2>7, <2>8, RowsInv
<1>2. CASE TaggedRow(v) = {}
  <2> DEFINE rs == Append(rows, Row(FreeId(rows), v, a, v))
             gone == dismissed \ {v}
  <2>1. /\ applyPurchaseVendorExpenseSync(rs, items, gone)
        /\ hand' \subseteq Ids(rows') /\ typed' = typed \cup {v} /\ loaded' = FALSE
        /\ UNCHANGED <<groups, saved, reopened>>
    BY <1>2 DEF setPurchaseVendorPaid, Remember
  <2>2. IsRows(rs) /\ \A k \in DOMAIN rs : rs[k].vendor # v => Has(rows, rs[k])
    BY <1>2, AppendedRow
  <2> HIDE DEF rs
  <2>3. \A k \in DOMAIN rs : rs[k].vendor \in Vendors \ typed' => Has(rows, rs[k])
    BY <2>1, <2>2
  <2>4. gone = {} /\ typed \subseteq typed' /\ typed' \subseteq Vendors /\ groups' \subseteq Vendors \cup {None}
    BY <1>0, <2>1, OnCardTypes
  <2>5. IsCard(items)
    BY DEF Inv
  <2> HIDE DEF gone
  <2>6. QED
    BY <2>1, <2>2, <2>3, <2>4, <2>5, SyncInv
<1>3. QED
  BY <1>1, <1>2

-----------------------------------------------------------------------------
(* Saving and opening.                                                     *)

(* A saved day that is opened has no tags, but a payment for every bill.   *)
LEMMA OpenInv ==
  ASSUME Inv, NEW day, IsDay(day), OpenDay(day), saved' = day
  PROVE  Inv'
<1>1. /\ items' = day.items /\ rows' = day.rows /\ dismissed' = {} /\ loaded' = TRUE /\ reopened' = TRUE
      /\ prev' = purchaseVendorTotalsFromLines(day.items) /\ hand' \subseteq Ids(rows') /\ typed' = typed
      /\ groups' = {day.items[i].vendor : i \in Keys(day.items)}
  BY DEF OpenDay, Remember
<1>2. IsCard(items') /\ IsRows(rows') /\ IsDay(saved')
  BY <1>1 DEF IsDay
<1>3. groups' \subseteq Vendors \cup {None}
  <2>1. \A i \in Keys(day.items) : day.items[i].vendor \in Vendors \cup {None}
    BY DEF IsDay, IsCard, Item
  <2>2. QED
    BY <1>1, <2>1
<1>4. Synced' /\ Opened' /\ Untyped'
  BY <1>1 DEF Synced, Opened, Untyped, IsDay
<1>5. TypeOK'
  <2>1. typed \subseteq Vendors
    BY DEF Inv, TypeOK
  <2>2. QED
    BY <1>1, <1>2, <1>3, <2>1, TypeNext
<1>6. QED
  BY <1>1, <1>2, <1>4, <1>5 DEF Inv

(* Rows without their tags.                                                *)
LEMMA UntaggedRows ==
  ASSUME NEW rs, IsRows(rs), NEW new, new = [k \in DOMAIN rs |-> [rs[k] EXCEPT !.tag = None]]
  PROVE  /\ IsRows(new) /\ DOMAIN new = DOMAIN rs
         /\ \A k \in DOMAIN rs : /\ new[k].tag = None /\ new[k].vendor = rs[k].vendor
                                 /\ new[k].amount = rs[k].amount
<1>1. DOMAIN new = DOMAIN rs /\ new = [k \in DOMAIN rs |-> new[k]] /\ rs \in Seq(PaymentRow)
  BY DEF IsRows
<1>2. ASSUME NEW k \in DOMAIN rs
      PROVE  /\ new[k] \in PaymentRow /\ new[k].tag = None /\ new[k].vendor = rs[k].vendor
             /\ new[k].amount = rs[k].amount /\ new[k].id = rs[k].id
  <2>1. rs[k] \in PaymentRow
    BY <1>1
  <2>2. new[k] = [rs[k] EXCEPT !.tag = None]
    OBVIOUS
  <2>3. QED
    BY <2>1, <2>2 DEF PaymentRow
<1>3. new \in Seq(PaymentRow)
  BY <1>1, <1>2, MappedSeq
<1>4. IsRows(new)
  BY <1>1, <1>2, <1>3 DEF IsRows
<1>5. QED
  BY <1>1, <1>2, <1>4

(* A day is saved with a payment beside every bill.                        *)
LEMMA SavedDay ==
  ASSUME Inv, Valid
  PROVE  IsDay(buildExpenseLinesToSaveFromDrafts)
<1> DEFINE day == buildExpenseLinesToSaveFromDrafts
           gone == {i \in Keys(items) : ~Complete(i)}
           wanted == {r \in Range(rows) : r.vendor # None /\ r.amount > 0}
           filled == Filtered(rows, wanted)
<1>1. day.items = Without(items, gone) /\ day.rows = [k \in DOMAIN filled |-> [filled[k] EXCEPT !.tag = None]]
  BY DEF buildExpenseLinesToSaveFromDrafts
<1>2. \A k \in DOMAIN rows : rows[k].vendor # None => rows[k] \in wanted
  BY DEF Range, Valid
<1>3. \A r \in wanted : r.amount > 0
  OBVIOUS
<1>4. \A i \in Keys(items) \ gone : Complete(i)
  OBVIOUS
<1>5. IsRows(rows) /\ IsCard(items) /\ None \notin Vendors
  BY FormAssumption DEF Inv
<1> HIDE DEF day, gone, wanted
<1>6. IsRows(filled) /\ IsLeft(filled, rows, DOMAIN rows, wanted, PaymentRow)
  BY <1>5, FilteredRows
<1> HIDE DEF filled
<1>7. /\ IsRows(day.rows) /\ DOMAIN day.rows = DOMAIN filled
      /\ \A k \in DOMAIN filled : /\ day.rows[k].tag = None /\ day.rows[k].vendor = filled[k].vendor
                                  /\ day.rows[k].amount = filled[k].amount
  BY <1>1, <1>6, UntaggedRows
<1>8. /\ IsCard(day.items) /\ Keys(day.items) = Keys(items) \ gone
      /\ \A i \in Keys(items) \ gone : day.items[i] = items[i]
  BY <1>1, <1>5, WithoutCard
<1>9. ASSUME NEW v \in Vendors, Bill(day.items, v) > 0
      PROVE  \E k \in DOMAIN day.rows : day.rows[k].vendor = v /\ day.rows[k].amount > 0
  <2>1. PICK i \in Keys(day.items) : day.items[i].vendor = v
    BY <1>9, BillHasItem
  <2>2. items[i].vendor = v /\ items[i].total > 0 /\ i \in Keys(items)
    BY <1>4, <1>8, <2>1 DEF Complete
  <2>3. Bill(items, v) > 0
    BY <1>5, <2>2, ItemHasBill
  <2>4. PICK p \in DOMAIN rows : rows[p].vendor = v
    BY <2>3, PaidRowIs
  <2>5. rows[p] \in wanted
    BY <1>2, <1>5, <2>4
  <2>6. PICK k \in DOMAIN filled : filled[k] = rows[p]
    BY <1>6, <2>5 DEF IsLeft
  <2>7. QED
    BY <1>3, <1>7, <2>4, <2>5, <2>6
<1>10. IsDay(day)
  BY <1>7, <1>8, <1>9 DEF IsDay
<1>11. QED
  BY <1>10 DEF day

(* A day that is saved had every bill paid, as its errors say.             *)
LEMMA SaveInv ==
  ASSUME Inv, handleSave
  PROVE  Inv'
<1>1. Valid /\ saved' = buildExpenseLinesToSaveFromDrafts /\ OpenDay(saved')
  BY DEF handleSave
<1>2. IsDay(saved')
  BY <1>1, SavedDay
<1>3. QED
  BY <1>1, <1>2, OpenInv

(* Every step keeps the invariant.                                         *)
LEMMA NextInv ==
  ASSUME Inv, [Next]_vars
  PROVE  Inv'
<1>1. CASE UNCHANGED vars
  BY <1>1 DEF vars, form, history, Inv, TypeOK, Synced, Opened, Untyped
<1>2. ASSUME addPurchaseExpenseLine PROVE Inv'
  <2>1. /\ groups' = groups \cup {None} /\ UNCHANGED <<items, rows, dismissed, prev, saved, reopened>>
        /\ hand' \subseteq Ids(rows') /\ typed' = typed /\ loaded' = loaded
    BY <1>2 DEF addPurchaseExpenseLine, Remember
  <2>2. groups' \subseteq Vendors \cup {None}
    BY <2>1, OnCardTypes
  <2>3. typed \subseteq Vendors
    BY DEF Inv, TypeOK
  <2>4. IsCard(items') /\ IsRows(rows') /\ IsDay(saved') /\ dismissed' = {} /\ prev' = purchaseVendorTotalsFromLines(items')
    BY <2>1 DEF Inv
  <2>5. TypeOK'
    BY <2>1, <2>2, <2>3, <2>4, TypeNext
  <2>6. Synced' /\ Opened' /\ Untyped'
    BY <2>1 DEF Inv, Synced, Opened, Untyped
  <2>7. QED
    BY <2>4, <2>5, <2>6 DEF Inv
<1>3. ASSUME Reopen PROVE Inv'
  <2>1. IsDay(saved) /\ OpenDay(saved) /\ saved' = saved
    BY <1>3 DEF Inv, Reopen
  <2>2. QED
    BY <2>1, OpenInv
<1>4. QED
  BY <1>1, <1>2, <1>3, AddItemInv, PatchItemInv, RenameInv, RemoveItemInv, RemoveGroupInv,
     AddPaymentInv, PatchVendorInv, PatchAmountInv, RemovePaymentInv, SetPaidInv, SaveInv DEF Next

(* The form keeps its rows in step with the card.                          *)
THEOREM FormConsistent == Spec => []Inv
<1>1. Init => Inv
  BY InitInv
<1>2. Inv /\ [Next]_vars => Inv'
  BY NextInv
<1>3. QED
  BY <1>1, <1>2, PTL DEF Spec

(* The card, the rows and the saved day keep their types, for any          *)
(* suppliers, totals and payments.                                         *)
THEOREM FormTypes == Spec => []TypeOK
<1>1. Inv => TypeOK
  BY DEF Inv
<1>2. QED
  BY <1>1, FormConsistent, PTL

-----------------------------------------------------------------------------
(* What follows.                                                           *)

(* The sum of what rows pay to one supplier.                               *)
LEMMA PaidCounts ==
  ASSUME NEW rs, IsRows(rs), NEW v
  PROVE  Counts([k \in DOMAIN rs |-> rs[k].amount], {k \in DOMAIN rs : rs[k].vendor = v})
<1>1. rs \in Seq(PaymentRow)
  BY DEF IsRows
<1>2. ASSUME NEW k \in DOMAIN rs PROVE rs[k].amount \in Nat
  <2>1. rs[k] \in PaymentRow
    BY <1>1
  <2>2. QED
    BY <2>1 DEF PaymentRow
<1>3. IsFiniteSet({k \in DOMAIN rs : rs[k].vendor = v})
  <2>1. DOMAIN rs = 1 .. Len(rs)
    BY <1>1
  <2>2. IsFiniteSet(DOMAIN rs)
    BY <2>1, FS_Interval
  <2>3. QED
    BY <2>2, FS_Subset
<1>4. QED
  BY <1>2, <1>3 DEF Counts

(* What is paid to a supplier with one row is that row's amount, ...       *)
LEMMA PaidToOne ==
  ASSUME NEW rs, IsRows(rs), NEW v, NEW p \in DOMAIN rs, \A k \in DOMAIN rs : rs[k].vendor = v <=> k = p
  PROVE  PaidTo(rs, v) = rs[p].amount
<1> DEFINE f == [k \in DOMAIN rs |-> rs[k].amount]
           S == {k \in DOMAIN rs : rs[k].vendor = v}
<1>1. Counts(f, S)
  BY PaidCounts
<1>2. PaidTo(rs, v) = SumFunctionOnSet(f, S)
  BY DEF PaidTo
<1>3. p \in S /\ S \ {p} = {} /\ f[p] = rs[p].amount
  OBVIOUS
<1> HIDE DEF f, S
<1>4. SumFunctionOnSet(f, S) = f[p] + SumFunctionOnSet(f, {}) /\ f[p] \in Nat
  BY <1>1, <1>3, SumRemove DEF Counts
<1>5. SumFunctionOnSet(f, {}) = 0
  BY SumEmpty
<1>6. QED
  BY <1>2, <1>3, <1>4, <1>5

(* ... and to one without, nothing.                                        *)
LEMMA PaidToNone ==
  ASSUME NEW rs, NEW v, \A k \in DOMAIN rs : rs[k].vendor # v
  PROVE  PaidTo(rs, v) = 0
<1>1. {k \in DOMAIN rs : rs[k].vendor = v} = {}
  OBVIOUS
<1>2. QED
  BY <1>1, SumEmpty DEF PaidTo

(* One Paid row for every bill, none for the others, and suppliers nobody  *)
(* paid by hand get what they bill.                                        *)
THEOREM PaidRowsFollowBills == Spec => []PaidFollowsBill
<1>1. ASSUME Inv PROVE PaidFollowsBill
  <2>1. ASSUME NEW v \in Vendors
        PROVE  Cardinality(TaggedRow(v)) = IF Bill(items, v) > 0 /\ ~loaded THEN 1 ELSE 0
    <3>0. v # None
      BY FormAssumption
    <3>1. Tagged(rows, v) <=> Bill(items, v) > 0 /\ ~loaded
      BY <1>1, <3>0 DEF Inv, Synced, InSync, Opened, Tagged
    <3>2. CASE Tagged(rows, v)
      <4>1. PICK k \in DOMAIN rows : rows[k].tag = v
        BY <3>2 DEF Tagged
      <4>2. \A j \in DOMAIN rows : rows[j].tag = v => j = k
        BY <1>1, <3>0, <4>1 DEF Inv, IsRows
      <4>3. TaggedRow(v) = {k}
        BY <4>1, <4>2 DEF TaggedRow
      <4>4. QED
        BY <3>1, <3>2, <4>3, FS_Singleton
    <3>3. CASE ~Tagged(rows, v)
      <4>1. TaggedRow(v) = {}
        BY <3>3 DEF Tagged, TaggedRow
      <4>2. QED
        BY <3>1, <3>3, <4>1, FS_EmptySet
    <3>4. QED
      BY <3>2, <3>3
  <2>2. ASSUME ~reopened, NEW v \in Vendors \ typed PROVE PaidTo(rows, v) = Bill(items, v)
    <3>0. v # None /\ IsRows(rows) /\ Bill(items, v) \in Nat
      BY <1>1, FormAssumption, BillNat DEF Inv
    <3>1. OnlyPaidRow(rows, items, v) /\ (Tagged(rows, v) <=> Bill(items, v) > 0)
      BY <1>1, <2>2 DEF Inv, Untyped, Synced, Opened, InSync
    <3>2. CASE Tagged(rows, v)
      <4>1. PICK k \in DOMAIN rows : rows[k].tag = v
        BY <3>2 DEF Tagged
      <4>2. rows[k].vendor = v /\ rows[k].amount = Bill(items, v)
        BY <3>0, <3>1, <4>1 DEF IsRows, OnlyPaidRow
      <4>3. \A j \in DOMAIN rows : rows[j].vendor = v <=> j = k
        BY <3>0, <3>1, <4>1, <4>2 DEF IsRows, OnlyPaidRow
      <4>4. QED
        BY <3>0, <4>2, <4>3, PaidToOne
    <3>3. CASE ~Tagged(rows, v)
      <4>1. \A j \in DOMAIN rows : rows[j].vendor # v
        BY <3>1, <3>3 DEF OnlyPaidRow, Tagged
      <4>2. PaidTo(rows, v) = 0
        BY <4>1, PaidToNone
      <4>3. QED
        BY <3>0, <3>1, <3>3, <4>2
    <3>4. QED
      BY <3>2, <3>3
  <2>3. QED
    BY <2>1, <2>2 DEF PaidFollowsBill
<1>2. QED
  BY <1>1, FormConsistent, PTL

(* Every saved bill has a payment beside it.                               *)
THEOREM SavedBillsArePaid == Spec => []SavedBillsPaid
<1>1. ASSUME Inv PROVE SavedBillsPaid
  <2>1. ASSUME NEW v \in Vendors, Bill(saved.items, v) > 0 PROVE PaidTo(saved.rows, v) > 0
    <3> DEFINE rs == saved.rows
               f == [k \in DOMAIN rs |-> rs[k].amount]
               S == {k \in DOMAIN rs : rs[k].vendor = v}
    <3>1. IsRows(rs) /\ \E k \in DOMAIN rs : rs[k].vendor = v /\ rs[k].amount > 0
      BY <1>1, <2>1 DEF Inv, IsDay
    <3>2. PICK k \in S : f[k] > 0
      BY <3>1
    <3>3. Counts(f, S)
      BY <3>1, PaidCounts
    <3>4. PaidTo(rs, v) = SumFunctionOnSet(f, S)
      BY DEF PaidTo
    <3> HIDE DEF f, S
    <3>5. SumFunctionOnSet(f, S) >= f[k] /\ SumFunctionOnSet(f, S) \in Nat /\ f[k] \in Nat
      BY <3>2, <3>3, SumAtLeast, SumNat DEF Counts
    <3>6. QED
      BY <3>2, <3>4, <3>5
  <2>2. QED
    BY <2>1 DEF SavedBillsPaid
<1>2. QED
  BY <1>1, FormConsistent, PTL

(* What is typed into the Paid field replaces the amount shown.            *)
THEOREM PaidFieldReplacesAmount == Spec => PaidFieldReplaces
<1>1. ASSUME Inv, NEW v \in Vendors, NEW a \in Amounts \cup Totals, setPurchaseVendorPaid(v, a),
             Bill(items, v) > 0, ~loaded
      PROVE  PaidTo(rows', v) = PaidTo(rows, v) - Shown(v) + a
  <2> DEFINE p == Min(TaggedRow(v))
             f == [k \in DOMAIN rows |-> rows[k].amount]
             g == [k \in DOMAIN rows' |-> rows'[k].amount]
             S == {k \in DOMAIN rows : rows[k].vendor = v}
  <2>1. TaggedRow(v) # {}
    BY <1>1 DEF Inv, Synced, InSync, Tagged, TaggedRow
  <2>2. /\ p \in DOMAIN rows /\ rows[p].tag = v /\ rows[p].vendor = v /\ PaidRow(v) = {p}
        /\ rows' \in Seq(PaymentRow) /\ DOMAIN rows' = DOMAIN rows
        /\ \A j \in DOMAIN rows : j # p => rows'[j] = rows[j]
        /\ rows'[p].vendor = v /\ rows'[p].amount = a
    BY <1>1, <2>1, PaidRowChanges
  <2> HIDE DEF p
  <2>3. Shown(v) = rows[p].amount
    <3>1. Min({p}) = p
      <4>1. {p} \in SUBSET Nat
        <5>1. rows \in Seq(PaymentRow)
          BY <1>1 DEF Inv, IsRows
        <5>2. QED
          BY <2>2, <5>1
      <4>2. Min({p}) \in {p}
        BY <4>1, MinIsIn
      <4>3. QED
        BY <4>2
    <3>2. QED
      BY <2>2, <3>1 DEF Shown
  <2>4. {k \in DOMAIN rows' : rows'[k].vendor = v} = S
    BY <2>2
  <2>5. PaidTo(rows, v) = SumFunctionOnSet(f, S) /\ PaidTo(rows', v) = SumFunctionOnSet(g, S)
    BY <2>4 DEF PaidTo
  <2>6. Counts(f, S)
    BY <1>1, PaidCounts DEF Inv
  <2>7. Counts(g, S)
    <3>1. Inv'
      BY <1>1, SetPaidInv
    <3>2. IsRows(rows')
      BY <3>1 DEF Inv
    <3>3. Counts(g, {k \in DOMAIN rows' : rows'[k].vendor = v})
      BY <3>2, PaidCounts
    <3> HIDE DEF g, S
    <3>4. QED
      BY <2>4, <3>3
  <2>8. p \in S /\ f[p] = rows[p].amount /\ g[p] = a /\ \A k \in S \ {p} : f[k] = g[k]
    BY <2>2
  <2> HIDE DEF f, g, S
  <2>9. SumFunctionOnSet(f, S) = f[p] + SumFunctionOnSet(f, S \ {p}) /\ SumFunctionOnSet(g, S) = g[p] + SumFunctionOnSet(g, S \ {p})
    BY <2>6, <2>7, <2>8, SumRemove
  <2>10. Counts(f, S \ {p})
    BY <2>6, FS_Subset DEF Counts
  <2>11. SumFunctionOnSet(f, S \ {p}) = SumFunctionOnSet(g, S \ {p}) /\ SumFunctionOnSet(f, S \ {p}) \in Nat
    BY <2>8, <2>10, SumSame, SumNat
  <2>12. f[p] \in Nat /\ g[p] \in Nat
    BY <2>6, <2>7, <2>8 DEF Counts
  <2>13. QED
    BY <2>3, <2>5, <2>8, <2>9, <2>11, <2>12
<1>2. Inv /\ [Next]_vars => 
        [\A v \in Vendors, a \in Amounts \cup Totals :
           setPurchaseVendorPaid(v, a) /\ Bill(items, v) > 0 /\ ~loaded =>
             PaidTo(rows', v) = PaidTo(rows, v) - Shown(v) + a]_vars
  BY <1>1
<1>3. QED
  BY <1>2, FormConsistent, PTL DEF Spec, PaidFieldReplaces

-----------------------------------------------------------------------------
(* Payments entered by hand.                                               *)

(* A sync leaves a payment that is nobody's Paid row and not of the bill's *)
(* amount.                                                                 *)
LEMMA SyncKeepsPayment ==
  ASSUME Inv, ~reopened, NEW rs, IsRows(rs), \A k \in DOMAIN rows : Has(rs, rows[k]),
         NEW its, IsCard(its), NEW gone, gone = {}, applyPurchaseVendorExpenseSync(rs, its, gone),
         NEW k \in DOMAIN rows, rows[k].tag = None,
         ~(rows[k].vendor # None /\ rows[k].amount > 0 /\ rows[k].amount = Bill(items', rows[k].vendor))
  PROVE  Has(rows', rows[k])
<1> DEFINE v == rows[k].vendor
<1>1. items' = its /\ rows' = syncVendorExpensesFromPurchases(rs, its, {}, prev)
  <2>1. {w \in gone : Bill(its, w) > 0 /\ prev[w] = Bill(its, w)} = {}
    OBVIOUS
  <2>2. QED
    BY <2>1 DEF applyPurchaseVendorExpenseSync
<1>2. PICK j \in DOMAIN rs : rs[j] = rows[k]
  BY DEF Has
<1>3. rs[j].tag = None
  BY <1>2
<1>4. ASSUME rs[j].vendor \in Vendors
      PROVE  /\ rs[j].amount = Bill(its, rs[j].vendor) => Bill(its, rs[j].vendor) = 0
             /\ prev[rs[j].vendor] > 0 => Tagged(rs, rs[j].vendor)
  <2>1. Bill(its, v) \in Nat
    BY BillNat
  <2>2. v # None
    BY <1>2, <1>4, FormAssumption
  <2>3. rs[j].amount = Bill(its, v) => Bill(its, v) = 0
    BY <1>1, <1>2, <2>1, <2>2
  <2>4. ASSUME prev[v] > 0 PROVE Tagged(rs, v)
    <3>1. Bill(items, v) > 0
      BY <1>2, <1>4, <2>4, BillsAreNat DEF Inv
    <3>2. Tagged(rows, v)
      BY <1>2, <1>4, <3>1 DEF Inv, Synced, Opened, InSync
    <3>3. PICK i \in DOMAIN rows : rows[i].tag = v
      BY <3>2 DEF Tagged
    <3>4. QED
      BY <3>3 DEF Has, Tagged
  <2>5. QED
    BY <1>2, <2>3, <2>4
<1>5. Has(rows', rs[j])
  BY <1>1, <1>3, <1>4, SyncGives
<1>6. QED
  BY <1>2, <1>5

(* A change of the card leaves it, too.                                    *)
LEMMA CardKeepsPayment ==
  ASSUME Inv, ~reopened, NEW its, IsCard(its), applyPurchaseVendorExpenseSync(rows, its, dismissed),
         NEW k \in DOMAIN rows, rows[k].tag = None,
         ~(rows[k].vendor # None /\ rows[k].amount > 0 /\ rows[k].amount = Bill(items', rows[k].vendor))
  PROVE  Has(rows', rows[k])
<1>1. IsRows(rows) /\ dismissed = {} /\ \A j \in DOMAIN rows : Has(rows, rows[j])
  BY DEF Inv, Has
<1>2. QED
  BY <1>1, SyncKeepsPayment

(* What a step does to a row that is not edited.                           *)
LEMMA StepKeepsPayment ==
  ASSUME Inv, Next, ~reopened', NEW id \in Ids(rows), rows[At(id)].tag = None,
         ~(/\ rows[At(id)].vendor # None /\ rows[At(id)].amount > 0
           /\ rows[At(id)].amount = Bill(items', rows[At(id)].vendor))
  PROVE  \/ Has(rows', rows[At(id)])
         \/ removeExpenseLine(id)
         \/ \E v \in Vendors \cup {None} : patchVendor(id, v)
         \/ \E a \in Amounts : patchAmount(id, a)
<1> DEFINE k == At(id)
<1>1. k \in DOMAIN rows /\ rows[k].id = id /\ IsCard(items) /\ IsRows(rows) /\ rows \in Seq(PaymentRow)
  BY AtIs DEF Inv, IsRows
<1>2. k \in DOMAIN rows /\ rows[k].tag = None
      /\ ~(rows[k].vendor # None /\ rows[k].amount > 0 /\ rows[k].amount = Bill(items', rows[k].vendor))
  BY <1>1
<1>3. ASSUME addPurchaseExpenseLine PROVE Has(rows', rows[k])
  BY <1>1, <1>3 DEF addPurchaseExpenseLine, Has
<1>4. ASSUME NEW i \in Items, NEW v \in Vendors \cup {None}, addPurchaseItemForVendor(i, v) PROVE Has(rows', rows[k])
  <2> DEFINE its == With(items, i, [vendor |-> v, total |-> 0])
  <2>1. IsCard(its)
    BY <1>1, WithCard
  <2>2. applyPurchaseVendorExpenseSync(rows, its, dismissed) /\ ~reopened
    BY <1>4 DEF addPurchaseItemForVendor, CardChanged
  <2> HIDE DEF its, k
  <2>3. QED
    BY <1>2, <2>1, <2>2, CardKeepsPayment
<1>5. ASSUME NEW i \in Items, NEW t \in Totals \cup {0}, patchPurchaseItem(i, t) PROVE Has(rows', rows[k])
  <2> DEFINE its == [items EXCEPT ![i].total = t]
  <2>1. IsCard(its)
    BY <1>1, <1>5, PatchedCard DEF patchPurchaseItem
  <2>2. applyPurchaseVendorExpenseSync(rows, its, dismissed) /\ ~reopened
    BY <1>5 DEF patchPurchaseItem, CardChanged
  <2> HIDE DEF its, k
  <2>3. QED
    BY <1>2, <2>1, <2>2, CardKeepsPayment
<1>6. ASSUME NEW from \in Vendors \cup {None}, NEW to \in Vendors \cup {None}, setPurchaseVendorGroupName(from, to)
      PROVE  Has(rows', rows[k])
  <2> DEFINE its == [i \in Keys(items) |-> IF items[i].vendor = from THEN [items[i] EXCEPT !.vendor = to] ELSE items[i]]
  <2>1. IsCard(its)
    BY <1>1, RenamedCard
  <2>2. applyPurchaseVendorExpenseSync(rows, its, dismissed) /\ ~reopened
    BY <1>6 DEF setPurchaseVendorGroupName, CardChanged
  <2> HIDE DEF its, k
  <2>3. QED
    BY <1>2, <2>1, <2>2, CardKeepsPayment
<1>7. ASSUME NEW i \in Items, removePurchaseItem(i) PROVE Has(rows', rows[k])
  <2> DEFINE its == Without(items, {i})
  <2>1. IsCard(its)
    BY <1>1, WithoutCard
  <2>2. applyPurchaseVendorExpenseSync(rows, its, dismissed) /\ ~reopened
    BY <1>7 DEF removePurchaseItem, CardChanged
  <2> HIDE DEF its, k
  <2>3. QED
    BY <1>2, <2>1, <2>2, CardKeepsPayment
<1>8. ASSUME NEW v \in Vendors \cup {None}, removePurchaseVendorGroup(v) PROVE Has(rows', rows[k])
  <2> DEFINE its == Without(items, {i \in Keys(items) : items[i].vendor = v})
  <2>1. IsCard(its)
    BY <1>1, WithoutCard
  <2>2. applyPurchaseVendorExpenseSync(rows, its, dismissed) /\ ~reopened
    BY <1>8 DEF removePurchaseVendorGroup, CardChanged
  <2> HIDE DEF its, k
  <2>3. QED
    BY <1>2, <2>1, <2>2, CardKeepsPayment
<1>9. ASSUME addVendorExpenseLine PROVE Has(rows', rows[k])
  <2> DEFINE r == Row(FreeId(rows), None, 0, None)
  <2>1. rows' = Append(rows, r)
    BY <1>9 DEF addVendorExpenseLine
  <2> HIDE DEF r, k
  <2>2. Append(rows, r)[k] = rows[k] /\ k \in DOMAIN Append(rows, r)
    BY <1>1
  <2>3. QED
    BY <2>1, <2>2 DEF Has
<1>10. ASSUME NEW o \in Ids(rows), o # id, NEW r, rows' = [rows EXCEPT ![At(o)] = r] PROVE Has(rows', rows[k])
  <2>1. At(o) # k
    BY <1>1, <1>10, AtIs
  <2> HIDE DEF k
  <2>2. rows'[k] = rows[k] /\ k \in DOMAIN rows'
    BY <1>1, <1>10, <2>1
  <2>3. QED
    BY <2>2 DEF Has
<1>11. ASSUME NEW o \in Ids(rows), o # id, NEW v \in Vendors \cup {None}, patchVendor(o, v) PROVE Has(rows', rows[k])
  <2> DEFINE r == [[rows[At(o)] EXCEPT !.vendor = v] EXCEPT !.tag = None]
  <2>1. rows' = [rows EXCEPT ![At(o)] = r]
    BY <1>11 DEF patchVendor
  <2> HIDE DEF r, k
  <2>2. QED
    BY <1>10, <1>11, <2>1
<1>12. ASSUME NEW o \in Ids(rows), o # id, NEW a \in Amounts, patchAmount(o, a) PROVE Has(rows', rows[k])
  <2> DEFINE r == [rows[At(o)] EXCEPT !.amount = a]
  <2>1. rows' = [rows EXCEPT ![At(o)] = r]
    BY <1>12 DEF patchAmount
  <2> HIDE DEF r, k
  <2>2. QED
    BY <1>10, <1>12, <2>1
<1>13. ASSUME NEW o \in Ids(rows), o # id, removeExpenseLine(o) PROVE Has(rows', rows[k])
  <2> DEFINE left == {r \in Range(rows) : r.id # o}
  <2>1. rows' = Filtered(rows, left)
    BY <1>13 DEF removeExpenseLine
  <2>2. rows[k] \in left
    BY <1>1, <1>13 DEF Range
  <2> HIDE DEF left, k
  <2>3. IsLeft(rows', rows, DOMAIN rows, left, PaymentRow)
    BY <1>1, <2>1, FilteredRows
  <2>4. QED
    BY <1>1, <2>2, <2>3 DEF IsLeft, Has
<1>14. ASSUME NEW v \in Vendors, NEW a \in Amounts \cup Totals, setPurchaseVendorPaid(v, a) PROVE Has(rows', rows[k])
  <2>1. CASE TaggedRow(v) # {}
    <3> DEFINE p == Min(TaggedRow(v))
    <3>1. /\ rows[p].tag = v /\ DOMAIN rows' = DOMAIN rows
          /\ \A j \in DOMAIN rows : j # p => rows'[j] = rows[j]
      BY <1>14, <2>1, PaidRowChanges
    <3> HIDE DEF p, k
    <3>2. k # p
      BY <1>2, <3>1, FormAssumption
    <3>3. QED
      BY <1>1, <3>1, <3>2 DEF Has
  <2>2. CASE TaggedRow(v) = {}
    <3> DEFINE rs == Append(rows, Row(FreeId(rows), v, a, v))
               gone == dismissed \ {v}
    <3>1. applyPurchaseVendorExpenseSync(rs, items, gone) /\ ~reopened
      BY <1>14, <2>2 DEF setPurchaseVendorPaid
    <3>2. IsRows(rs) /\ \A j \in DOMAIN rows : Has(rs, rows[j])
      BY <2>2, AppendedRow
    <3>3. gone = {}
      BY DEF Inv
    <3> HIDE DEF rs, gone, k
    <3>4. QED
      BY <1>1, <1>2, <3>1, <3>2, <3>3, SyncKeepsPayment
  <2>3. QED
    BY <2>1, <2>2
<1>15. ~handleSave /\ ~Reopen
  BY DEF handleSave, Reopen, OpenDay
<1> HIDE DEF k
<1>16. QED
  BY <1>3, <1>4, <1>5, <1>6, <1>7, <1>8, <1>9, <1>11, <1>12, <1>13, <1>14, <1>15 DEF Next, k

(* A payment entered by hand stays until it is edited itself.              *)
THEOREM PaymentsAreKept == Spec => PaymentsKept
<1> DEFINE Kept == ~reopened' => \A id \in hand : LET r == rows[At(id)] IN
                     \/ r.tag # None \/ (r.vendor # None /\ r.amount > 0 /\ r.amount = Bill(items', r.vendor))
                     \/ \E k \in DOMAIN rows' : rows'[k] = r
                     \/ removeExpenseLine(id)
                     \/ \E v \in Vendors \cup {None} : patchVendor(id, v)
                     \/ \E a \in Amounts : patchAmount(id, a)
<1>1. Inv /\ [Next]_vars => [Kept]_vars
  <2>1. SUFFICES ASSUME Inv, Next PROVE Kept
    OBVIOUS
  <2>2. hand \subseteq Ids(rows)
    BY <2>1 DEF Inv, TypeOK
  <2>3. QED
    BY <2>1, <2>2, StepKeepsPayment DEF Has
<1>2. QED
  BY <1>1, FormConsistent, PTL DEF Spec, PaymentsKept

-----------------------------------------------------------------------------
(* Bundles, as a set.                                                      *)
Sheets == [locked : BOOLEAN, rows : UNION {[who -> RegisterRow] : who \in SUBSET Emps}]
Bundles == UNION {[months -> Sheets] : months \in SUBSET Months}

LEMMA SheetIs ==
  ASSUME NEW sheet
  PROVE  IsSheet(sheet) <=> sheet \in Sheets
<1>1. ASSUME IsSheet(sheet) PROVE sheet \in Sheets
  <2>1. sheet.rows \in UNION {[who -> RegisterRow] : who \in SUBSET Emps}
    BY <1>1 DEF IsSheet
  <2>2. QED
    BY <1>1, <2>1 DEF IsSheet, Sheets
<1>2. ASSUME sheet \in Sheets PROVE IsSheet(sheet)
  <2>1. PICK who \in SUBSET Emps : sheet.rows \in [who -> RegisterRow]
    BY <1>2 DEF Sheets
  <2>2. sheet = [locked |-> sheet.locked, rows |-> sheet.rows] /\ sheet.locked \in BOOLEAN
    BY <1>2 DEF Sheets
  <2>3. QED
    BY <2>1, <2>2 DEF IsSheet
<1>3. QED
  BY <1>1, <1>2

LEMMA BundleIs ==
  ASSUME NEW b
  PROVE  IsBundle(b) <=> b \in Bundles
<1>1. ASSUME IsBundle(b) PROVE b \in Bundles
  <2>1. \A m \in DOMAIN b : b[m] \in Sheets
    BY <1>1, SheetIs DEF IsBundle
  <2>2. DOMAIN b \in SUBSET Months /\ b = [m \in DOMAIN b |-> b[m]]
    BY <1>1 DEF IsBundle
  <2>3. b \in [DOMAIN b -> Sheets]
    BY <2>1, <2>2
  <2>4. QED
    BY <2>2, <2>3 DEF Bundles
<1>2. ASSUME b \in Bundles PROVE IsBundle(b)
  <2>1. PICK months \in SUBSET Months : b \in [months -> Sheets]
    BY <1>2 DEF Bundles
  <2>2. \A m \in DOMAIN b : IsSheet(b[m])
    BY <2>1, SheetIs
  <2>3. QED
    BY <2>1, <2>2 DEF IsBundle
<1>3. QED
  BY <1>1, <1>2

-----------------------------------------------------------------------------
(* Days and months.                                                        *)
LastMonth == MonthOf(LastDay)

LEMMA MonthFacts ==
  /\ LastMonth \in Nat \ {0} /\ Months = 1 .. LastMonth
  /\ \A d \in Days : MonthOf(d) \in Months
  /\ \A c, d \in Days : c <= d => MonthOf(c) <= MonthOf(d)
<1>1. LastDay \in Nat \ {0} /\ DaysPerMonth \in Nat \ {0}
  BY RegisterAssumption
<1>2. \A d \in Days : d \in Nat /\ d - 1 \in Nat /\ d <= LastDay
  BY <1>1 DEF Days
<1>3. \A a \in Nat : a \div DaysPerMonth \in Nat
  BY <1>1, DivIs
<1>4. \A a, b \in Nat : a <= b => a \div DaysPerMonth <= b \div DaysPerMonth
  BY <1>1, DivMono
<1>5. \A c, d \in Days : c <= d => MonthOf(c) <= MonthOf(d)
  <2>1. SUFFICES ASSUME NEW c \in Days, NEW d \in Days, c <= d
                 PROVE  MonthOf(c) <= MonthOf(d)
    OBVIOUS
  <2>2. c - 1 \in Nat /\ d - 1 \in Nat /\ c - 1 <= d - 1
    BY <1>2, <2>1
  <2>3. (c - 1) \div DaysPerMonth <= (d - 1) \div DaysPerMonth
    BY <1>4, <2>2
  <2>4. (c - 1) \div DaysPerMonth \in Nat /\ (d - 1) \div DaysPerMonth \in Nat
    BY <1>3, <2>2
  <2>5. QED
    BY <2>3, <2>4 DEF MonthOf
<1>6. \A d \in Days : MonthOf(d) \in Nat \ {0}
  <2>1. SUFFICES ASSUME NEW d \in Days PROVE MonthOf(d) \in Nat \ {0}
    OBVIOUS
  <2>2. (d - 1) \div DaysPerMonth \in Nat
    BY <1>2, <1>3
  <2>3. QED
    BY <2>2 DEF MonthOf
<1>7. LastDay \in Days
  BY <1>1 DEF Days
<1>8. \A d \in Days : MonthOf(d) <= LastMonth
  BY <1>2, <1>5, <1>7 DEF LastMonth
<1>9. QED
  BY <1>5, <1>6, <1>7, <1>8 DEF LastMonth, Months

-----------------------------------------------------------------------------
(* What a month owes.                                                      *)

LEMMA RowOf ==
  ASSUME NEW b, IsBundle(b), NEW m, NEW e, HasRow(b, m, e)
  PROVE  m \in Months /\ e \in Emps /\ b[m].rows[e] \in RegisterRow
<1>1. m \in DOMAIN b /\ IsSheet(b[m]) /\ e \in DOMAIN b[m].rows
  BY DEF HasRow, IsBundle
<1>2. QED
  BY <1>1 DEF IsSheet, IsBundle

LEMMA PaidOfNat ==
  ASSUME NEW pays \in SUBSET Pay, IsFiniteSet(pays)
  PROVE  /\ Counts([p \in pays |-> p.amt], pays)
         /\ PaidOf(pays) \in Nat
<1>1. \A p \in pays : [q \in pays |-> q.amt][p] \in Nat
  BY DEF Pay
<1>2. Counts([p \in pays |-> p.amt], pays)
  BY <1>1 DEF Counts
<1>3. QED
  BY <1>2, SumNat DEF PaidOf

LEMMA PayNat ==
  ASSUME NEW b, IsBundle(b), NEW m, NEW e, NEW except
  PROVE  Payable(b, m, e) \in Nat /\ Paid(b, m, e, except) \in Nat
<1>1. CASE ~HasRow(b, m, e)
  BY <1>1 DEF Payable, Paid
<1>2. CASE HasRow(b, m, e)
  <2>1. b[m].rows[e] \in RegisterRow
    BY <1>2, RowOf
  <2> DEFINE row == b[m].rows[e]
             counted == Counted(row, except)
  <2>2. row.basic \in Nat /\ row.extra \in Int /\ row.pays \in SUBSET Pay /\ IsFiniteSet(row.pays)
    BY <2>1 DEF RegisterRow
  <2>3. counted \in SUBSET Pay /\ IsFiniteSet(counted)
    <3>1. counted \subseteq row.pays
      BY DEF Counted
    <3>2. QED
      BY <2>2, <3>1, FS_Subset
  <2>4. PaidOf(counted) \in Nat
    BY <2>3, PaidOfNat
  <2>5. totalPayableForRow(row) \in Nat
    BY <2>2 DEF totalPayableForRow, AtLeastZero
  <2>6. QED
    BY <1>2, <2>4, <2>5 DEF Payable, Paid
<1>3. QED
  BY <1>1, <1>2

(* Credit is carried month by month.                                       *)
LEMMA CarrySteps ==
  ASSUME NEW b, IsBundle(b), NEW e, NEW except
  PROVE  LET carry == CarriedOut(b, e, except)
         IN /\ carry \in [0 .. LastMonth -> Nat]
            /\ carry[0] = 0
            /\ \A m \in Months :
                 carry[m] = AtLeastZero(Paid(b, m, e, except) + carry[m - 1] - Payable(b, m, e))
<1> DEFINE step == [p \in Months \X Nat |-> AtLeastZero(Paid(b, p[1], e, except) + p[2] - Payable(b, p[1], e))]
           IsCarry(g) == g = [m \in 0 .. LastMonth |->
                               IF m = 0 THEN 0
                               ELSE AtLeastZero(Paid(b, m, e, except) + g[m - 1] - Payable(b, m, e))]
           carry == CarriedOut(b, e, except)
<1>1. \A m \in Months, n \in Nat :
        /\ step[<<m, n>>] = AtLeastZero(Paid(b, m, e, except) + n - Payable(b, m, e))
        /\ step[<<m, n>>] \in Nat
  <2>1. SUFFICES ASSUME NEW m \in Months, NEW n \in Nat
                 PROVE  /\ step[<<m, n>>] = AtLeastZero(Paid(b, m, e, except) + n - Payable(b, m, e))
                        /\ AtLeastZero(Paid(b, m, e, except) + n - Payable(b, m, e)) \in Nat
    OBVIOUS
  <2>2. Payable(b, m, e) \in Nat /\ Paid(b, m, e, except) \in Nat
    BY PayNat
  <2>3. QED
    BY <2>2 DEF AtLeastZero
<1>2. LastMonth \in Nat /\ Months = 1 .. LastMonth
  BY MonthFacts
<1>3. \E g : IsChain(g, LastMonth, Nat, 0, step)
  <2> HIDE DEF step
  <2>1. \A n \in 1 .. LastMonth, v \in Nat : step[<<n, v>>] \in Nat
    BY <1>1, <1>2
  <2>2. LastMonth \in Nat /\ 0 \in Nat
    BY <1>2
  <2>3. QED
    BY <2>1, <2>2, ChainExists
<1>4. PICK g : IsChain(g, LastMonth, Nat, 0, step)
  BY <1>3
<1>5. ASSUME NEW h, h \in [0 .. LastMonth -> Nat], NEW n \in 0 .. LastMonth
      PROVE  (IF n = 0 THEN 0 ELSE step[<<n, h[n - 1]>>])
             = (IF n = 0 THEN 0 ELSE AtLeastZero(Paid(b, n, e, except) + h[n - 1] - Payable(b, n, e)))
  <2>1. CASE n = 0
    BY <2>1
  <2>2. CASE n # 0
    <3>1. n \in Months /\ n - 1 \in 0 .. LastMonth
      BY <1>2, <2>2
    <3>2. h[n - 1] \in Nat
      BY <1>5, <3>1
    <3> HIDE DEF step
    <3>3. QED
      BY <1>1, <3>1, <3>2, <2>2
  <2>3. QED
    BY <2>1, <2>2
<1>6. IsCarry(g)
  <2> HIDE DEF step
  <2>1. \A n \in 0 .. LastMonth : g[n] = IF n = 0 THEN 0 ELSE step[<<n, g[n - 1]>>]
    BY <1>4 DEF IsChain
  <2>2. \A n \in 0 .. LastMonth :
          g[n] = IF n = 0 THEN 0 ELSE AtLeastZero(Paid(b, n, e, except) + g[n - 1] - Payable(b, n, e))
    BY <1>4, <1>5, <2>1 DEF IsChain
  <2>3. QED
    BY <1>4, <2>2 DEF IsChain
<1>7. carry = CHOOSE f : IsCarry(f)
  BY DEF CarriedOut, LastMonth
<1>8. IsCarry(carry)
  <2> HIDE DEF IsCarry, carry
  <2>1. QED
    BY <1>6, <1>7
<1>9. \A n \in 0 .. LastMonth :
        carry[n] = IF n = 0 THEN 0 ELSE AtLeastZero(Paid(b, n, e, except) + carry[n - 1] - Payable(b, n, e))
  <2> HIDE DEF carry
  <2>1. QED
    BY <1>8
<1>10. carry = [n \in 0 .. LastMonth |-> carry[n]]
  <2> HIDE DEF carry
  <2>1. QED
    BY <1>8
<1>11. \A n \in 0 .. LastMonth : carry[n] \in Nat
  <2> DEFINE G == {n \in Nat : n <= LastMonth => carry[n] \in Nat}
  <2>1. 0 \in G
    BY <1>9, <1>2
  <2>2. ASSUME NEW n \in Nat, n \in G PROVE n + 1 \in G
    <3>1. SUFFICES ASSUME n + 1 <= LastMonth PROVE carry[n + 1] \in Nat
      OBVIOUS
    <3>2. carry[n] \in Nat /\ n + 1 \in Months /\ n + 1 \in 0 .. LastMonth /\ n + 1 # 0 /\ n + 1 - 1 = n
      BY <1>2, <2>2, <3>1
    <3>3. carry[n + 1] = AtLeastZero(Paid(b, n + 1, e, except) + carry[n] - Payable(b, n + 1, e))
      BY <1>9, <3>2
    <3>4. QED
      BY <3>2, <3>3, <1>1
  <2>3. Nat \subseteq G
    <3> HIDE DEF G
    <3>1. QED
      BY <2>1, <2>2, SetInduction
  <2>4. QED
    BY <2>3, <1>2
<1>12. QED
  <2>1. 0 \in 0 .. LastMonth /\ \A m \in Months : m \in 0 .. LastMonth /\ m # 0
    BY <1>2
  <2> HIDE DEF carry
  <2>2. carry[0] = 0
    BY <1>9, <2>1
  <2>3. carry \in [0 .. LastMonth -> Nat]
    BY <1>10, <1>11
  <2>4. \A m \in Months :
          carry[m] = AtLeastZero(Paid(b, m, e, except) + carry[m - 1] - Payable(b, m, e))
    BY <1>9, <2>1
  <2>5. QED
    BY <2>2, <2>3, <2>4 DEF carry

LEMMA OwedIs ==
  ASSUME NEW b, IsBundle(b), NEW e, NEW except, NEW m \in Months
  PROVE  /\ StillOwed(b, e, except)[m] \in Nat
         /\ StillOwed(b, e, except)[m]
              = AtLeastZero(Payable(b, m, e) - CarriedOut(b, e, except)[m - 1] - Paid(b, m, e, except))
         /\ CarriedOut(b, e, except)[m] \in Nat /\ CarriedOut(b, e, except)[m - 1] \in Nat
         /\ CarriedOut(b, e, except)[m]
              = AtLeastZero(Paid(b, m, e, except) + CarriedOut(b, e, except)[m - 1] - Payable(b, m, e))
<1> DEFINE carry == CarriedOut(b, e, except)
<1>1. m \in 0 .. LastMonth /\ m - 1 \in 0 .. LastMonth
  BY MonthFacts
<1>2. /\ carry[m] \in Nat /\ carry[m - 1] \in Nat
      /\ carry[m] = AtLeastZero(Paid(b, m, e, except) + carry[m - 1] - Payable(b, m, e))
  BY <1>1, CarrySteps
<1>3. Payable(b, m, e) \in Nat /\ Paid(b, m, e, except) \in Nat
  BY PayNat
<1>4. StillOwed(b, e, except)[m] = AtLeastZero(Payable(b, m, e) - carry[m - 1] - Paid(b, m, e, except))
  BY DEF StillOwed
<1> HIDE DEF carry
<1>5. AtLeastZero(Payable(b, m, e) - carry[m - 1] - Paid(b, m, e, except)) \in Nat
  BY <1>2, <1>3 DEF AtLeastZero
<1>6. QED
  BY <1>2, <1>4, <1>5 DEF carry

(* What is due through a month and what was paid make pay and credit.      *)
LEMMA Balanced ==
  ASSUME NEW b, IsBundle(b), NEW e, NEW except, NEW m \in Months
  PROVE  SumOver(StillOwed(b, e, except), 1 .. m)
           + SumOver([k \in Months |-> Paid(b, k, e, except)], 1 .. m)
         = SumOver([k \in Months |-> Payable(b, k, e)], 1 .. m) + CarriedOut(b, e, except)[m]
<1> DEFINE owed == StillOwed(b, e, except)
           paid == [k \in Months |-> Paid(b, k, e, except)]
           payable == [k \in Months |-> Payable(b, k, e)]
           carry == CarriedOut(b, e, except)
           G == {n \in Nat : n <= LastMonth =>
                   /\ SumFunctionOnSet(owed, 1 .. n) \in Nat
                   /\ SumFunctionOnSet(paid, 1 .. n) \in Nat
                   /\ SumFunctionOnSet(payable, 1 .. n) \in Nat
                   /\ SumFunctionOnSet(owed, 1 .. n) + SumFunctionOnSet(paid, 1 .. n)
                        = SumFunctionOnSet(payable, 1 .. n) + carry[n]}
<1>1. /\ LastMonth \in Nat /\ Months = 1 .. LastMonth /\ m <= LastMonth /\ m \in Nat
  BY MonthFacts
<1>2. ASSUME NEW k \in Months
      PROVE  /\ owed[k] \in Nat /\ paid[k] \in Nat /\ payable[k] \in Nat
             /\ carry[k] \in Nat /\ carry[k - 1] \in Nat
             /\ owed[k] + paid[k] + carry[k - 1] = payable[k] + carry[k]
  <2>1. /\ owed[k] \in Nat
        /\ owed[k] = AtLeastZero(Payable(b, k, e) - carry[k - 1] - Paid(b, k, e, except))
        /\ carry[k] \in Nat /\ carry[k - 1] \in Nat
        /\ carry[k] = AtLeastZero(Paid(b, k, e, except) + carry[k - 1] - Payable(b, k, e))
    BY OwedIs
  <2>2. Payable(b, k, e) \in Nat /\ Paid(b, k, e, except) \in Nat
    BY PayNat
  <2>3. payable[k] = Payable(b, k, e) /\ paid[k] = Paid(b, k, e, except)
    OBVIOUS
  <2> HIDE DEF owed, paid, payable, carry
  <2>4. QED
    BY <2>1, <2>2, <2>3 DEF AtLeastZero
<1>3. 0 \in G
  <2>1. carry[0] = 0
    BY CarrySteps
  <2>2. 1 .. 0 = {}
    OBVIOUS
  <2>3. SumFunctionOnSet(owed, 1 .. 0) = 0 /\ SumFunctionOnSet(paid, 1 .. 0) = 0
          /\ SumFunctionOnSet(payable, 1 .. 0) = 0
    BY <2>2, SumEmpty
  <2> HIDE DEF owed, paid, payable, carry
  <2>4. QED
    BY <2>1, <2>3
<1>4. ASSUME NEW n \in Nat, n \in G PROVE n + 1 \in G
  <2> HIDE DEF owed, paid, payable, carry
  <2>1. SUFFICES ASSUME n + 1 <= LastMonth
                 PROVE  /\ SumFunctionOnSet(owed, 1 .. n + 1) \in Nat
                        /\ SumFunctionOnSet(paid, 1 .. n + 1) \in Nat
                        /\ SumFunctionOnSet(payable, 1 .. n + 1) \in Nat
                        /\ SumFunctionOnSet(owed, 1 .. n + 1) + SumFunctionOnSet(paid, 1 .. n + 1)
                             = SumFunctionOnSet(payable, 1 .. n + 1) + carry[n + 1]
    OBVIOUS
  <2>2. \A k \in 1 .. n + 1 : k \in Months
    BY <1>1, <2>1
  <2>3. /\ \A k \in 1 .. n + 1 : owed[k] \in Nat
        /\ \A k \in 1 .. n + 1 : paid[k] \in Nat
        /\ \A k \in 1 .. n + 1 : payable[k] \in Nat
    BY <1>2, <2>2
  <2>4. /\ SumFunctionOnSet(owed, 1 .. n + 1) = owed[n + 1] + SumFunctionOnSet(owed, 1 .. n)
        /\ SumFunctionOnSet(paid, 1 .. n + 1) = paid[n + 1] + SumFunctionOnSet(paid, 1 .. n)
        /\ SumFunctionOnSet(payable, 1 .. n + 1) = payable[n + 1] + SumFunctionOnSet(payable, 1 .. n)
    BY <2>3, SumUpTo
  <2>5. /\ SumFunctionOnSet(owed, 1 .. n) \in Nat
        /\ SumFunctionOnSet(paid, 1 .. n) \in Nat
        /\ SumFunctionOnSet(payable, 1 .. n) \in Nat
        /\ SumFunctionOnSet(owed, 1 .. n) + SumFunctionOnSet(paid, 1 .. n)
             = SumFunctionOnSet(payable, 1 .. n) + carry[n]
    BY <1>4, <1>1, <2>1
  <2>6. n + 1 \in Months /\ n + 1 - 1 = n
    BY <2>2
  <2>7. /\ owed[n + 1] \in Nat /\ paid[n + 1] \in Nat /\ payable[n + 1] \in Nat
        /\ carry[n + 1] \in Nat /\ carry[n] \in Nat
        /\ owed[n + 1] + paid[n + 1] + carry[n] = payable[n + 1] + carry[n + 1]
    BY <1>2, <2>6
  <2> DEFINE so == SumFunctionOnSet(owed, 1 .. n)
             sp == SumFunctionOnSet(paid, 1 .. n)
             sy == SumFunctionOnSet(payable, 1 .. n)
  <2>8. so \in Nat /\ sp \in Nat /\ sy \in Nat /\ so + sp = sy + carry[n]
    BY <2>5
  <2> DEFINE to == SumFunctionOnSet(owed, 1 .. n + 1)
             tp == SumFunctionOnSet(paid, 1 .. n + 1)
             ty == SumFunctionOnSet(payable, 1 .. n + 1)
  <2>9. to = owed[n + 1] + so /\ tp = paid[n + 1] + sp /\ ty = payable[n + 1] + sy
    BY <2>4
  <2> HIDE DEF so, sp, sy, to, tp, ty
  <2>10. to \in Nat /\ tp \in Nat /\ ty \in Nat /\ to + tp = ty + carry[n + 1]
    BY <2>7, <2>8, <2>9
  <2>11. QED
    BY <2>10 DEF to, tp, ty
<1>5. m \in G
  <2> HIDE DEF G
  <2>1. QED
    BY <1>1, <1>3, <1>4, SetInduction
<1>6. QED
  BY <1>1, <1>5 DEF SumOver

LEMMA RowExt ==
  ASSUME NEW x \in RegisterRow, NEW y \in RegisterRow, x.basic = y.basic, x.extra = y.extra, x.pays = y.pays
  PROVE  x = y
BY DEF RegisterRow

LEMMA NewRowIs ==
  ASSUME NEW r, IsRoster(r), NEW e \in DOMAIN r
  PROVE  /\ NewRow(r, e) \in RegisterRow /\ e \in Emps
         /\ NewRow(r, e).basic = r[e].basic /\ NewRow(r, e).extra = 0 /\ NewRow(r, e).pays = {}
<1>1. r[e].basic \in Nat /\ e \in Emps
  BY DEF IsRoster, Person
<1>2. {} \in {pays \in SUBSET Pay : IsFiniteSet(pays)}
  BY FS_EmptySet
<1>3. QED
  BY <1>1, <1>2 DEF NewRow, RegisterRow

LEMMA SheetExt ==
  ASSUME NEW x, IsSheet(x), NEW y, IsSheet(y), x.locked = y.locked, x.rows = y.rows
  PROVE  x = y
BY DEF IsSheet

(* A sheet with other rows.                                                *)
LEMMA RowsPut ==
  ASSUME NEW sheet, IsSheet(sheet), NEW rws, DOMAIN rws \subseteq Emps, rws \in [DOMAIN rws -> RegisterRow]
  PROVE  /\ IsSheet([sheet EXCEPT !.rows = rws])
         /\ [sheet EXCEPT !.rows = rws].locked = sheet.locked
         /\ [sheet EXCEPT !.rows = rws].rows = rws
BY DEF IsSheet

(* A sheet brought in line with the roster.                                *)
LEMMA SyncedSheet ==
  ASSUME NEW sheet, IsSheet(sheet), NEW r, IsRoster(r)
  PROVE  LET doc == syncDocRowsToEmployees(sheet, r)
         IN /\ IsSheet(doc) /\ doc.locked = sheet.locked
            /\ sheet.locked \/ Active(r) = {} => doc = sheet
            /\ ~sheet.locked /\ Active(r) # {} =>
                 /\ DOMAIN doc.rows = Active(r)
                 /\ \A e \in Active(r) :
                      /\ doc.rows[e] \in RegisterRow /\ doc.rows[e].basic = r[e].basic
                      /\ e \in DOMAIN sheet.rows => /\ doc.rows[e].extra = sheet.rows[e].extra
                                                    /\ doc.rows[e].pays = sheet.rows[e].pays
                      /\ e \notin DOMAIN sheet.rows => doc.rows[e] = NewRow(r, e)
<1> DEFINE doc == syncDocRowsToEmployees(sheet, r)
<1>1. CASE sheet.locked \/ Active(r) = {}
  <2>1. doc = sheet
    BY <1>1 DEF syncDocRowsToEmployees
  <2>2. QED
    BY <1>1, <2>1
<1>2. CASE ~sheet.locked /\ Active(r) # {}
  <2> DEFINE Of(e) == IF e \in DOMAIN sheet.rows THEN [sheet.rows[e] EXCEPT !.basic = r[e].basic]
                      ELSE NewRow(r, e)
             rws == [e \in Active(r) |-> Of(e)]
  <2>1. ASSUME NEW e \in Active(r)
        PROVE  /\ Of(e) \in RegisterRow /\ Of(e).basic = r[e].basic /\ e \in Emps
               /\ e \in DOMAIN sheet.rows => /\ Of(e).extra = sheet.rows[e].extra
                                             /\ Of(e).pays = sheet.rows[e].pays
               /\ e \notin DOMAIN sheet.rows => Of(e) = NewRow(r, e)
    <3>1. e \in DOMAIN r /\ r[e].basic \in Nat
      BY DEF Active, IsRoster, Person
    <3>2. CASE e \in DOMAIN sheet.rows
      <4>1. sheet.rows[e] \in RegisterRow
        BY <3>2 DEF IsSheet
      <4>2. Of(e) = [sheet.rows[e] EXCEPT !.basic = r[e].basic]
        BY <3>2
      <4>3. QED
        BY <3>1, <3>2, <4>1, <4>2, NewRowIs DEF RegisterRow
    <3>3. CASE e \notin DOMAIN sheet.rows
      <4>1. Of(e) = NewRow(r, e)
        BY <3>3
      <4>2. QED
        BY <3>1, <3>3, <4>1, NewRowIs
    <3>4. QED
      BY <3>2, <3>3
  <2>2. DOMAIN rws = Active(r) /\ \A e \in Active(r) : rws[e] = Of(e)
    OBVIOUS
  <2>3. doc = [sheet EXCEPT !.rows = rws]
    BY <1>2 DEF syncDocRowsToEmployees
  <2> HIDE DEF Of
  <2>4. DOMAIN rws \subseteq Emps /\ rws \in [DOMAIN rws -> RegisterRow]
    BY <2>1
  <2>5. IsSheet(doc) /\ doc.locked = sheet.locked /\ doc.rows = rws
    <3> HIDE DEF rws, doc
    <3>1. QED
      BY <2>3, <2>4, RowsPut
  <2> HIDE DEF rws, doc
  <2>6. \A e \in Active(r) : doc.rows[e] = Of(e)
    BY <2>2, <2>5
  <2>7. QED
    BY <1>2, <2>1, <2>2, <2>5, <2>6 DEF doc
<1>3. QED
  BY <1>1, <1>2

LEMMA NewSheetIs ==
  ASSUME NEW r, IsRoster(r)
  PROVE  /\ IsSheet(NewSheet(r)) /\ NewSheet(r).locked = FALSE
         /\ DOMAIN NewSheet(r).rows = Active(r)
         /\ \A e \in Active(r) : NewSheet(r).rows[e] = NewRow(r, e)
<1>1. \A e \in Active(r) : NewRow(r, e) \in RegisterRow /\ e \in Emps
  BY NewRowIs DEF Active
<1>2. QED
  BY <1>1 DEF NewSheet, IsSheet

(* The sheet of a month, there or made, in line with the roster.           *)
LEMMA Ensured ==
  ASSUME NEW b, IsBundle(b), NEW m \in Months, NEW r, IsRoster(r)
  PROVE  LET doc == ensureMonthDoc(b, m, r)
         IN /\ IsSheet(doc)
            /\ ~doc.locked /\ Active(r) # {} =>
                 /\ DOMAIN doc.rows = Active(r)
                 /\ \A e \in Active(r) : doc.rows[e].basic = r[e].basic
            /\ m \in DOMAIN b =>
                 /\ doc.locked = b[m].locked
                 /\ doc.locked \/ Active(r) = {} => doc = b[m]
                 /\ ~doc.locked => \A e \in Active(r) :
                      /\ e \in DOMAIN b[m].rows => /\ doc.rows[e].extra = b[m].rows[e].extra
                                                   /\ doc.rows[e].pays = b[m].rows[e].pays
                      /\ e \notin DOMAIN b[m].rows => doc.rows[e] = NewRow(r, e)
            /\ m \notin DOMAIN b =>
                 /\ ~doc.locked /\ DOMAIN doc.rows = Active(r)
                 /\ \A e \in Active(r) : doc.rows[e] = NewRow(r, e)
<1> DEFINE sheet == IF m \in DOMAIN b THEN b[m] ELSE NewSheet(r)
           doc == ensureMonthDoc(b, m, r)
<1>1. IsSheet(sheet)
  BY NewSheetIs DEF IsBundle
<1>2. doc = syncDocRowsToEmployees(sheet, r)
  BY DEF ensureMonthDoc
<1> HIDE DEF doc
<1>3. /\ IsSheet(doc) /\ doc.locked = sheet.locked
      /\ sheet.locked \/ Active(r) = {} => doc = sheet
      /\ ~sheet.locked /\ Active(r) # {} =>
           /\ DOMAIN doc.rows = Active(r)
           /\ \A e \in Active(r) :
                /\ doc.rows[e] \in RegisterRow /\ doc.rows[e].basic = r[e].basic
                /\ e \in DOMAIN sheet.rows => /\ doc.rows[e].extra = sheet.rows[e].extra
                                              /\ doc.rows[e].pays = sheet.rows[e].pays
                /\ e \notin DOMAIN sheet.rows => doc.rows[e] = NewRow(r, e)
  <2> HIDE DEF sheet
  <2>1. QED
    BY <1>1, <1>2, SyncedSheet
<1>4. CASE m \in DOMAIN b
  <2>1. sheet = b[m]
    BY <1>4
  <2> HIDE DEF sheet
  <2>2. QED
    BY <1>3, <1>4, <2>1 DEF doc
<1>5. CASE m \notin DOMAIN b
  <2>1. sheet = NewSheet(r)
    BY <1>5
  <2> HIDE DEF sheet
  <2>2. /\ ~sheet.locked /\ DOMAIN sheet.rows = Active(r)
        /\ \A e \in Active(r) : sheet.rows[e] = NewRow(r, e)
    BY <2>1, NewSheetIs
  <2>3. CASE Active(r) = {}
    BY <1>3, <1>5, <2>2, <2>3 DEF doc
  <2>4. CASE Active(r) # {}
    <3>1. ASSUME NEW e \in Active(r)
          PROVE  doc.rows[e] = NewRow(r, e) /\ doc.rows[e].basic = r[e].basic
      <4>1. /\ doc.rows[e] \in RegisterRow /\ doc.rows[e].basic = r[e].basic
            /\ doc.rows[e].extra = sheet.rows[e].extra /\ doc.rows[e].pays = sheet.rows[e].pays
            /\ sheet.rows[e] = NewRow(r, e)
        BY <1>3, <2>2, <2>4
      <4>2. NewRow(r, e) \in RegisterRow /\ NewRow(r, e).basic = r[e].basic
        BY NewRowIs DEF Active
      <4>3. QED
        BY <4>1, <4>2, RowExt
    <3>2. DOMAIN doc.rows = Active(r) /\ ~doc.locked
      BY <1>3, <2>2, <2>4
    <3>3. QED
      BY <1>3, <1>5, <3>1, <3>2 DEF doc
  <2>5. QED
    BY <2>3, <2>4
<1>6. QED
  BY <1>4, <1>5

LEMMA LeastExists ==
  ASSUME NEW S \in SUBSET Nat, S # {}
  PROVE  \E n \in S : \A k \in S : n <= k
<1>1. IsWellFoundedOn(OpToRel(<, Nat), Nat)
  BY NatLessThanWellFounded
<1>2. \E n \in S : \A k \in S : <<k, n>> \notin OpToRel(<, Nat)
  BY <1>1, WFMin
<1>3. PICK n \in S : \A k \in S : ~(k < n)
  BY <1>2 DEF OpToRel
<1>4. QED
  BY <1>3

(* Staff lines of days.                                                    *)
StaffLine == [line : LineIds, emp : Emps, amt : Nat, advance : BOOLEAN, day : Days]

LEMMA PayoutIs ==
  ASSUME NEW i \in StaffLine
  PROVE  Payout(i) \in Pay /\ Payout(i).day = i.day /\ Payout(i).advance = i.advance /\ Payout(i).amt = i.amt
         /\ Payout(i).line = i.line
BY DEF StaffLine, Payout, Pay

LEMMA SamePayout ==
  ASSUME NEW i \in StaffLine, NEW j \in StaffLine, i.emp = j.emp, Payout(i) = Payout(j)
  PROVE  i = j
<1>1. i.line = j.line /\ i.amt = j.amt /\ i.day = j.day /\ i.advance = j.advance
  BY PayoutIs
<1>2. QED
  BY <1>1 DEF StaffLine

(* The month a payout goes to.                                             *)
LEMMA TargetIs ==
  ASSUME NEW b, IsBundle(b), NEW i \in StaffLine
  PROVE  LET t == TargetMonth(b, i)
             own == MonthOf(i.day)
             owed == StillOwed(b, i.emp, Manual)
         IN /\ own \in Months /\ t \in Months /\ t <= own
            /\ t # own => HasRow(b, t, i.emp)
            /\ ~i.advance => \A k \in Months : k < t => owed[k] = 0
            /\ i.advance => t = own
            /\ ~i.advance => \/ owed[t] > 0
                             \/ t = own /\ \A k \in Months : k <= own => owed[k] = 0
<1> DEFINE t == TargetMonth(b, i)
           own == MonthOf(i.day)
           owed == StillOwed(b, i.emp, Manual)
           owing == OwingMonths(b, i.emp, own)
<1>1. i.day \in Days /\ own \in Months /\ i.advance \in BOOLEAN
  BY MonthFacts DEF StaffLine
<1>2. Months \subseteq Nat /\ \A k \in Nat : k \in 1 .. own <=> k \in Months /\ k <= own
  BY <1>1, MonthFacts
<1>3. owing = {k \in 1 .. own : owed[k] > 0}
  BY DEF OwingMonths
<1>4. \A k \in Months : owed[k] \in Nat
  BY OwedIs
<1>5. t = IF i.advance \/ owing = {} THEN own ELSE CHOOSE k \in owing : \A j \in owing : k <= j
  BY DEF TargetMonth
<1> HIDE DEF t, own, owed, owing
<1>6. CASE i.advance
  <2>1. t = own /\ own \in Nat
    BY <1>1, <1>2, <1>5, <1>6
  <2>2. t \in Months /\ t <= own
    BY <1>1, <2>1
  <2>3. QED
    BY <1>1, <1>6, <2>1, <2>2 DEF t, own, owed
<1>7. CASE ~i.advance /\ owing = {}
  <2>1. t = own
    BY <1>5, <1>7
  <2>2. \A k \in Months : k <= own => owed[k] = 0
    BY <1>2, <1>3, <1>4, <1>7
  <2>3. \A k \in Months : k < t => owed[k] = 0
    BY <1>1, <1>2, <2>1, <2>2
  <2>4. t \in Months /\ t <= own
    BY <1>1, <1>2, <2>1
  <2>5. QED
    BY <1>1, <1>7, <2>1, <2>2, <2>3, <2>4 DEF t, own, owed
<1>8. CASE ~i.advance /\ owing # {}
  <2>1. owing \subseteq Nat
    BY <1>2, <1>3
  <2>2. \E n \in owing : \A k \in owing : n <= k
    BY <2>1, <1>8, LeastExists
  <2>3. t \in owing /\ \A k \in owing : t <= k
    BY <1>5, <1>8, <2>2
  <2>4. t \in Months /\ t <= own /\ owed[t] > 0
    BY <1>2, <1>3, <2>1, <2>3
  <2>5. \A k \in Months : k < t => owed[k] = 0
    <3>1. SUFFICES ASSUME NEW k \in Months, k < t, owed[k] # 0 PROVE FALSE
      OBVIOUS
    <3>2. k \in 1 .. own /\ owed[k] > 0 /\ k \in Nat /\ t \in Nat
      BY <1>1, <1>2, <1>4, <2>4, <3>1
    <3>3. k \in owing
      BY <1>3, <3>2
    <3>4. QED
      BY <2>3, <3>1, <3>2, <3>3
  <2>6. HasRow(b, t, i.emp)
    <3>1. SUFFICES ASSUME ~HasRow(b, t, i.emp) PROVE FALSE
      OBVIOUS
    <3>2. Payable(b, t, i.emp) = 0
      BY <3>1 DEF Payable
    <3>3. owed[t] = AtLeastZero(Payable(b, t, i.emp) - CarriedOut(b, i.emp, Manual)[t - 1] - Paid(b, t, i.emp, Manual))
            /\ CarriedOut(b, i.emp, Manual)[t - 1] \in Nat /\ Paid(b, t, i.emp, Manual) \in Nat
      BY <2>4, OwedIs, PayNat DEF owed
    <3>4. owed[t] = 0
      BY <3>2, <3>3 DEF AtLeastZero
    <3>5. QED
      BY <2>4, <3>4
  <2>7. QED
    BY <1>1, <1>8, <2>4, <2>5, <2>6 DEF t, own, owed
<1>9. QED
  BY <1>6, <1>7, <1>8

-----------------------------------------------------------------------------
(* One payout posted to a bundle.                                          *)

LEMMA AddedPay ==
  ASSUME NEW row \in RegisterRow, NEW p \in Pay
  PROVE  /\ [row EXCEPT !.pays = @ \cup {p}] \in RegisterRow
         /\ [row EXCEPT !.pays = @ \cup {p}].basic = row.basic
         /\ [row EXCEPT !.pays = @ \cup {p}].extra = row.extra
         /\ [row EXCEPT !.pays = @ \cup {p}].pays = row.pays \cup {p}
         /\ [row EXCEPT !.pays = {p}] \in RegisterRow
         /\ [row EXCEPT !.pays = {p}].basic = row.basic
         /\ [row EXCEPT !.pays = {p}].extra = row.extra
         /\ [row EXCEPT !.pays = {p}].pays = {p}
<1>1. row.pays \in SUBSET Pay /\ IsFiniteSet(row.pays)
  BY DEF RegisterRow
<1>2. IsFiniteSet(row.pays \cup {p}) /\ IsFiniteSet({p})
  BY <1>1, FS_AddElement, FS_Singleton
<1>3. QED
  BY <1>1, <1>2 DEF RegisterRow

LEMMA WithSheetIs ==
  ASSUME NEW b, IsBundle(b), NEW m \in Months, NEW sheet, IsSheet(sheet)
  PROVE  LET c == WithSheet(b, m, sheet)
         IN IsBundle(c) /\ DOMAIN c = DOMAIN b \cup {m} /\ c[m] = sheet
            /\ \A k \in DOMAIN b : k # m => c[k] = b[k]
BY DEF WithSheet, IsBundle

(* Bundle c is b with item i posted to month t, whose sheet was doc.        *)
PostedTo(b, i, r, t, c, doc) ==
  /\ IsBundle(c) /\ t \in Months
  /\ DOMAIN c = DOMAIN b \cup {t}
  /\ \A m \in DOMAIN b : m # t => c[m] = b[m]
  /\ c[t].locked = doc.locked
  /\ \A e : e \in DOMAIN c[t].rows <=> e \in DOMAIN doc.rows \/ (e = i.emp /\ i.emp \in DOMAIN r)
  /\ \A e \in DOMAIN doc.rows : e # i.emp => c[t].rows[e] = doc.rows[e]
  /\ i.emp \in DOMAIN doc.rows =>
       /\ c[t].rows[i.emp].basic = doc.rows[i.emp].basic
       /\ c[t].rows[i.emp].extra = doc.rows[i.emp].extra
       /\ c[t].rows[i.emp].pays = doc.rows[i.emp].pays \cup {Payout(i)}
  /\ i.emp \notin DOMAIN doc.rows /\ i.emp \in DOMAIN r =>
       /\ c[t].rows[i.emp].basic = r[i.emp].basic
       /\ c[t].rows[i.emp].extra = 0
       /\ c[t].rows[i.emp].pays = {Payout(i)}

LEMMA Posted ==
  ASSUME NEW b, IsBundle(b), NEW i \in StaffLine, NEW r, IsRoster(r)
  PROVE  LET t == TargetMonth(b, i)
         IN PostedTo(b, i, r, t, PostPayout(b, i, r), ensureMonthDoc(b, t, r))
<1> DEFINE t == TargetMonth(b, i)
           c == PostPayout(b, i, r)
           doc == ensureMonthDoc(b, t, r)
           e == i.emp
           p == Payout(i)
           WithRow(row) == [k \in DOMAIN doc.rows \cup {e} |-> IF k = e THEN row ELSE doc.rows[k]]
           grown == [doc.rows[e] EXCEPT !.pays = @ \cup {p}]
           fresh == [NewRow(r, e) EXCEPT !.pays = {p}]
           rws == IF e \in DOMAIN doc.rows THEN WithRow(grown)
                   ELSE IF e \in DOMAIN r THEN WithRow(fresh) ELSE doc.rows
           sheet == [doc EXCEPT !.rows = rws]
<1>1. t \in Months
  BY TargetIs
<1>2. p \in Pay /\ e \in Emps
  BY PayoutIs DEF StaffLine
<1>3. IsSheet(doc)
  <2> HIDE DEF t
  <2>1. QED
    BY <1>1, Ensured
<1>4. c = WithSheet(b, t, sheet)
  BY DEF PostPayout, appendPaymentToEmployeeMonth
<1> HIDE DEF t, c, doc, p
<1>5. \A k \in DOMAIN doc.rows : doc.rows[k] \in RegisterRow /\ k \in Emps
  BY <1>3 DEF IsSheet
<1>6. DOMAIN rws \subseteq Emps /\ rws \in [DOMAIN rws -> RegisterRow]
      /\ (\A k : k \in DOMAIN rws <=> k \in DOMAIN doc.rows \/ (k = e /\ e \in DOMAIN r))
      /\ (\A k \in DOMAIN doc.rows : k # e => rws[k] = doc.rows[k])
      /\ (e \in DOMAIN doc.rows => rws[e] = grown)
      /\ (e \notin DOMAIN doc.rows /\ e \in DOMAIN r => rws[e] = fresh)
  <2>1. CASE e \in DOMAIN doc.rows
    <3>1. grown \in RegisterRow
      BY <1>2, <1>5, <2>1, AddedPay
    <3>2. rws = WithRow(grown)
      BY <2>1
    <3> HIDE DEF grown, fresh, rws
    <3>3. QED
      BY <1>2, <1>5, <2>1, <3>1, <3>2
  <2>2. CASE e \notin DOMAIN doc.rows /\ e \in DOMAIN r
    <3>1. fresh \in RegisterRow
      BY <1>2, <2>2, AddedPay, NewRowIs
    <3>2. rws = WithRow(fresh)
      BY <2>2
    <3> HIDE DEF grown, fresh, rws
    <3>3. QED
      BY <1>2, <1>5, <2>2, <3>1, <3>2
  <2>3. CASE e \notin DOMAIN doc.rows /\ e \notin DOMAIN r
    <3>1. rws = doc.rows
      BY <2>3
    <3> HIDE DEF grown, fresh, rws
    <3>2. doc.rows \in [DOMAIN doc.rows -> RegisterRow] /\ DOMAIN doc.rows \subseteq Emps
      BY <1>3 DEF IsSheet
    <3>3. QED
      BY <2>3, <3>1, <3>2
  <2>4. QED
    BY <2>1, <2>2, <2>3
<1>7. IsSheet(sheet) /\ sheet.locked = doc.locked /\ sheet.rows = rws
  <2>1. DOMAIN rws \subseteq Emps /\ rws \in [DOMAIN rws -> RegisterRow]
    BY <1>6
  <2> HIDE DEF rws
  <2>2. QED
    BY <1>3, <2>1, RowsPut
<1> HIDE DEF rws, sheet
<1>8. /\ IsBundle(c) /\ DOMAIN c = DOMAIN b \cup {t} /\ c[t] = sheet
      /\ \A m \in DOMAIN b : m # t => c[m] = b[m]
  <2>1. IsSheet(sheet)
    BY <1>7
  <2>2. QED
    BY <1>1, <1>4, <2>1, WithSheetIs
<1>9. e \in DOMAIN doc.rows => /\ grown.basic = doc.rows[e].basic /\ grown.extra = doc.rows[e].extra
                               /\ grown.pays = doc.rows[e].pays \cup {p}
  BY <1>2, <1>5, AddedPay
<1>10. e \in DOMAIN r => fresh.basic = r[e].basic /\ fresh.extra = 0 /\ fresh.pays = {p}
  BY <1>2, AddedPay, NewRowIs
<1> HIDE DEF grown, fresh
<1>11. c[t].rows = rws /\ c[t].locked = doc.locked
  BY <1>7, <1>8
<1>12. QED
  <2>1. PostedTo(b, i, r, t, c, doc)
    BY <1>1, <1>6, <1>8, <1>9, <1>10, <1>11 DEF PostedTo, p
  <2>2. QED
    BY <2>1 DEF t, c, doc

(* The staff lines of typed days.                                          *)
Lined(lines) == lines \in [Days -> DayLines]

LEMMA StaffLinesAre ==
  ASSUME NEW lines, Lined(lines)
  PROVE  /\ StaffLines(lines) \subseteq StaffLine /\ IsFiniteSet(StaffLines(lines))
         /\ \A i, j \in StaffLines(lines) : i.day = j.day /\ i.line = j.line => i = j
         /\ \A i : i \in StaffLines(lines) <=>
              \E d \in Days : \E x \in lines[d] :
                i = [line |-> x.line, emp |-> x.emp, amt |-> x.amt, advance |-> x.advance, day |-> d]
<1> DEFINE Of(x, d) == [line |-> x.line, emp |-> x.emp, amt |-> x.amt, advance |-> x.advance, day |-> d]
           On(d) == {Of(x, d) : x \in lines[d]}
<1>1. StaffLines(lines) = UNION {On(d) : d \in Days}
  BY DEF StaffLines
<1>2. ASSUME NEW d \in Days
      PROVE  lines[d] \subseteq Line /\ IsFiniteSet(lines[d])
             /\ \A x, y \in lines[d] : x.line = y.line => x = y
  BY DEF Lined, DayLines
<1>3. ASSUME NEW d \in Days, NEW x \in lines[d] PROVE Of(x, d) \in StaffLine
  <2>1. x \in Line
    BY <1>2
  <2>2. x.line \in LineIds /\ x.emp \in Emps /\ x.amt \in Nat /\ x.advance \in BOOLEAN
    BY <2>1, PostingAssumption DEF Line
  <2>3. QED
    BY <2>2 DEF StaffLine
<1>4. IsFiniteSet(UNION {On(d) : d \in Days})
  <2>1. \A d \in Days : IsFiniteSet(On(d))
    <3>1. SUFFICES ASSUME NEW d \in Days PROVE IsFiniteSet(On(d))
      OBVIOUS
    <3>2. IsFiniteSet(lines[d])
      BY <1>2
    <3> DEFINE f == [x \in lines[d] |-> Of(x, d)]
    <3>3. On(d) \subseteq {f[x] : x \in lines[d]}
      OBVIOUS
    <3>4. f \in Surjection(lines[d], On(d))
      BY DEF Surjection
    <3> HIDE DEF f, On
    <3>5. QED
      BY <3>2, <3>4, FS_Surjection
  <2>2. IsFiniteSet(Days)
    BY FS_Interval, RegisterAssumption DEF Days
  <2> DEFINE g == [d \in Days |-> On(d)]
             All == {On(d) : d \in Days}
  <2>3. g \in Surjection(Days, All)
    BY DEF Surjection
  <2>4. IsFiniteSet(All)
    <3> HIDE DEF g, All
    <3>1. QED
      BY <2>2, <2>3, FS_Surjection
  <2>5. \A U \in All : IsFiniteSet(U)
    BY <2>1
  <2> HIDE DEF All, On
  <2>6. IsFiniteSet(UNION All)
    BY <2>4, <2>5, FS_UNION
  <2>7. QED
    BY <2>6 DEF All
<1>5. \A i : i \in StaffLines(lines) <=> \E d \in Days : \E x \in lines[d] : i = Of(x, d)
  BY <1>1
<1>6. ASSUME NEW i \in StaffLines(lines), NEW j \in StaffLines(lines), i.day = j.day, i.line = j.line
      PROVE  i = j
  <2> HIDE DEF Of
  <2>1. PICK c \in Days : \E x \in lines[c] : i = Of(x, c)
    BY <1>5
  <2>2. PICK d \in Days : \E y \in lines[d] : j = Of(y, d)
    BY <1>5
  <2>6. PICK x \in lines[c] : i = Of(x, c)
    BY <2>1
  <2>7. PICK y \in lines[d] : j = Of(y, d)
    BY <2>2
  <2>3. i.day = c /\ j.day = d /\ i.line = x.line /\ j.line = y.line
    BY <2>6, <2>7 DEF Of
  <2>4. c = d /\ x = y
    BY <1>2, <1>6, <2>3
  <2>5. QED
    BY <2>6, <2>7, <2>4
<1>7. StaffLines(lines) \subseteq StaffLine
  BY <1>3, <1>5
<1>8. QED
  BY <1>1, <1>4, <1>5, <1>6, <1>7

-----------------------------------------------------------------------------
(* The order of the rebuild.                                               *)
LEMMA BeforeOrders ==
  /\ \A i \in StaffLine : ~Before(i, i)
  /\ \A i, j, k \in StaffLine : Before(i, j) /\ Before(j, k) => Before(i, k)
  /\ \A i, j \in StaffLine : Before(i, j) \/ Before(j, i) \/ (i.day = j.day /\ i.line = j.line)
  /\ \A i, j \in StaffLine : ~Before(i, j) => j.day <= i.day
<1>1. ASSUME NEW i \in StaffLine PROVE i.day \in Nat /\ i.line \in Nat
  <2>1. i.day \in Days /\ i.line \in LineIds
    BY DEF StaffLine
  <2>2. LastDay \in Nat /\ \A l \in LineIds : l \in Nat
    BY RegisterAssumption
  <2>3. \A d \in Days : d \in Nat
    BY <2>2 DEF Days
  <2>4. QED
    BY <2>1, <2>2, <2>3
<1>2. \A i \in StaffLine : ~Before(i, i)
  BY <1>1 DEF Before
<1>3. \A i, j, k \in StaffLine : Before(i, j) /\ Before(j, k) => Before(i, k)
  <2>1. SUFFICES ASSUME NEW i \in StaffLine, NEW j \in StaffLine, NEW k \in StaffLine, Before(i, j), Before(j, k)
                 PROVE  Before(i, k)
    OBVIOUS
  <2>2. /\ i.day \in Nat /\ j.day \in Nat /\ k.day \in Nat
        /\ i.line \in Nat /\ j.line \in Nat /\ k.line \in Nat
    BY <1>1
  <2>3. QED
    BY <2>1, <2>2 DEF Before
<1>4. \A i, j \in StaffLine : Before(i, j) \/ Before(j, i) \/ (i.day = j.day /\ i.line = j.line)
  <2>1. SUFFICES ASSUME NEW i \in StaffLine, NEW j \in StaffLine
                 PROVE  Before(i, j) \/ Before(j, i) \/ (i.day = j.day /\ i.line = j.line)
    OBVIOUS
  <2>2. i.day \in Nat /\ j.day \in Nat /\ i.line \in Nat /\ j.line \in Nat
    BY <1>1
  <2>3. \A a, b, c, d \in Nat : \/ a < b \/ (a = b /\ c < d) \/ b < a \/ (b = a /\ d < c)
                                 \/ (a = b /\ c = d)
    OBVIOUS
  <2>4. \/ i.day < j.day \/ (i.day = j.day /\ i.line < j.line)
        \/ j.day < i.day \/ (j.day = i.day /\ j.line < i.line) \/ (i.day = j.day /\ i.line = j.line)
    BY <2>2, <2>3
  <2>5. QED
    BY <2>4 DEF Before
<1>5. \A i, j \in StaffLine : ~Before(i, j) => j.day <= i.day
  BY <1>1 DEF Before
<1>6. QED
  BY <1>2, <1>3, <1>4, <1>5

LEMMA LastIsLast ==
  ASSUME NEW S \in SUBSET StaffLine, IsFiniteSet(S), S # {}
  PROVE  LastOf(S) \in S /\ \A j \in S : ~Before(LastOf(S), j)
<1> DEFINE G == {T \in SUBSET S : T # {} => \E i \in T : \A j \in T : ~Before(i, j)}
<1>1. ASSUME NEW T \in SUBSET S, \A x \in T : T \ {x} \in G
      PROVE  T \in G
  <2>1. SUFFICES ASSUME T # {} PROVE \E i \in T : \A j \in T : ~Before(i, j)
    OBVIOUS
  <2>2. PICK y \in T : TRUE
    BY <2>1
  <2>3. CASE T \ {y} = {}
    <3>1. \A j \in T : ~Before(y, j)
      BY <2>3, BeforeOrders
    <3>2. QED
      BY <3>1
  <2>4. CASE T \ {y} # {}
    <3>1. PICK i \in T \ {y} : \A j \in T \ {y} : ~Before(i, j)
      BY <1>1, <2>4
    <3>2. CASE Before(i, y)
      <4>1. ASSUME NEW j \in T, Before(y, j) PROVE FALSE
        <5>1. Before(i, j) /\ j # y
          BY <3>2, <4>1, BeforeOrders
        <5>2. QED
          BY <3>1, <5>1
      <4>2. QED
        BY <4>1
    <3>3. CASE ~Before(i, y)
      BY <3>1, <3>3
    <3>4. QED
      BY <3>2, <3>3
  <2>5. QED
    BY <2>3, <2>4
<1>2. S \in G
  <2> HIDE DEF G
  <2>1. QED
    BY <1>1, SubsetInduction
<1>3. QED
  BY <1>2 DEF LastOf

-----------------------------------------------------------------------------
(* All payouts dropped.                                                    *)
LEMMA NoPays ==
  ASSUME NEW sheet, IsSheet(sheet)
  PROVE  LET doc == clearAllRowPayments(sheet)
         IN /\ IsSheet(doc) /\ doc.locked = sheet.locked
            /\ DOMAIN doc.rows = DOMAIN sheet.rows
            /\ \A e \in DOMAIN sheet.rows :
                 /\ doc.rows[e].basic = sheet.rows[e].basic /\ doc.rows[e].extra = sheet.rows[e].extra
                 /\ doc.rows[e].pays = {}
<1> DEFINE rws == [e \in DOMAIN sheet.rows |-> [sheet.rows[e] EXCEPT !.pays = {}]]
           doc == clearAllRowPayments(sheet)
<1>1. doc = [sheet EXCEPT !.rows = rws]
  BY DEF clearAllRowPayments
<1>2. ASSUME NEW e \in DOMAIN sheet.rows
      PROVE  /\ e \in Emps /\ rws[e] \in RegisterRow /\ rws[e].basic = sheet.rows[e].basic
             /\ rws[e].extra = sheet.rows[e].extra /\ rws[e].pays = {}
  <2>1. e \in Emps /\ sheet.rows[e] \in RegisterRow
    BY DEF IsSheet
  <2>2. {} \in {pays \in SUBSET Pay : IsFiniteSet(pays)}
    BY FS_EmptySet
  <2>3. QED
    BY <2>1, <2>2 DEF RegisterRow
<1>3. DOMAIN rws = DOMAIN sheet.rows /\ rws = [e \in DOMAIN sheet.rows |-> rws[e]]
  OBVIOUS
<1> HIDE DEF rws, doc
<1>4. DOMAIN rws \subseteq Emps /\ rws \in [DOMAIN rws -> RegisterRow]
  BY <1>2, <1>3
<1>5. IsSheet(doc) /\ doc.locked = sheet.locked /\ doc.rows = rws
  BY <1>1, <1>4, RowsPut
<1>6. QED
  BY <1>2, <1>3, <1>5 DEF doc

LEMMA ClearedIs ==
  ASSUME NEW b, IsBundle(b), NEW staff \in SUBSET StaffLine, NEW r, IsRoster(r)
  PROVE  LET c == Cleared(b, staff, r)
         IN /\ IsBundle(c) /\ DOMAIN c = DOMAIN b \cup MonthsOf(staff)
            /\ \A m \in DOMAIN c : c[m] = clearAllRowPayments(ensureMonthDoc(b, m, r))
<1> DEFINE c == Cleared(b, staff, r)
           M == DOMAIN b \cup MonthsOf(staff)
<1>1. DOMAIN c = M /\ c = [m \in M |-> c[m]]
      /\ \A m \in M : c[m] = clearAllRowPayments(ensureMonthDoc(b, m, r))
  BY DEF Cleared
<1>2. M \subseteq Months
  <2>1. \A i \in staff : MonthOf(i.day) \in Months
    BY MonthFacts DEF StaffLine
  <2>2. QED
    BY <2>1 DEF MonthsOf, IsBundle
<1>3. \A m \in M : IsSheet(c[m])
  <2>1. SUFFICES ASSUME NEW m \in M PROVE IsSheet(c[m])
    OBVIOUS
  <2>2. IsSheet(ensureMonthDoc(b, m, r))
    BY <1>2, Ensured
  <2>3. QED
    BY <1>1, <2>2, NoPays
<1> HIDE DEF c, M
<1>4. IsBundle(c)
  BY <1>1, <1>2, <1>3 DEF IsBundle
<1>5. QED
  BY <1>1, <1>4 DEF c, M

-----------------------------------------------------------------------------
(* The rebuild goes through the staff, for every subset of them.           *)
IsRebuild(g, b, staff, r) ==
  /\ g[{}] = Cleared(b, staff, r)
  /\ \A T \in SUBSET staff :
       /\ IsBundle(g[T])
       /\ T # {} => g[T] = PostPayout(g[T \ {LastOf(T)}], LastOf(T), r)

LEMMA Rebuilds ==
  ASSUME NEW b, IsBundle(b), NEW lines, Lined(lines), NEW r, IsRoster(r)
  PROVE  \E g : /\ IsRebuild(g, b, StaffLines(lines), r)
                /\ reconcileSalaryMonthFromDailyMap(b, lines, r) = g[StaffLines(lines)]
<1> DEFINE S == StaffLines(lines)
           base == Cleared(b, S, r)
           c == [T \in SUBSET S |-> LastOf(T)]
           step == [p \in S \X Bundles |-> PostPayout(p[2], p[1], r)]
           Body(f, T) == IF T = {} THEN base ELSE PostPayout(f[T \ {LastOf(T)}], LastOf(T), r)
           IsIt(f) == f = [T \in SUBSET S |-> Body(f, T)]
<1>1. S \in SUBSET StaffLine /\ IsFiniteSet(S)
  BY StaffLinesAre
<1>2. base \in Bundles
  <2> HIDE DEF S
  <2>1. IsBundle(base)
    BY <1>1, ClearedIs
  <2>2. QED
    BY <2>1, BundleIs
<1>3. \A T \in SUBSET S : T # {} => c[T] = LastOf(T) /\ LastOf(T) \in T
  <2> HIDE DEF S
  <2>1. SUFFICES ASSUME NEW T \in SUBSET S, T # {} PROVE c[T] = LastOf(T) /\ LastOf(T) \in T
    OBVIOUS
  <2>2. IsFiniteSet(T) /\ T \in SUBSET StaffLine
    BY <1>1, FS_Subset
  <2>3. QED
    BY <2>1, <2>2, LastIsLast
<1>4. \A i \in S, v \in Bundles : step[<<i, v>>] = PostPayout(v, i, r) /\ step[<<i, v>>] \in Bundles
  <2> HIDE DEF S
  <2>1. SUFFICES ASSUME NEW i \in S, NEW v \in Bundles
                 PROVE  step[<<i, v>>] = PostPayout(v, i, r) /\ step[<<i, v>>] \in Bundles
    OBVIOUS
  <2>2. step[<<i, v>>] = PostPayout(v, i, r)
    OBVIOUS
  <2>3. IsBundle(v) /\ i \in StaffLine
    BY <1>1, BundleIs
  <2>4. IsBundle(PostPayout(v, i, r))
    BY <2>3, Posted DEF PostedTo
  <2>5. QED
    BY <2>2, <2>4, BundleIs
<1>5. \E g : IsFold(g, S, Bundles, base, c, step)
  <2> HIDE DEF S, base, c, step
  <2>1. \A T \in SUBSET S : T # {} => c[T] \in T
    BY <1>3
  <2>2. \A i \in S, v \in Bundles : step[<<i, v>>] \in Bundles
    BY <1>4
  <2>3. QED
    BY <1>1, <1>2, <2>1, <2>2, FoldExists
<1>6. PICK h : IsFold(h, S, Bundles, base, c, step)
  BY <1>5
<1>7. IsIt(h)
  <2> HIDE DEF S, base, c, step
  <2>1. ASSUME NEW T \in SUBSET S, T # {}
        PROVE  h[T] = PostPayout(h[T \ {LastOf(T)}], LastOf(T), r)
    <3>1. h[T] = step[<<c[T], h[T \ {c[T]}]>>]
      BY <1>6, <2>1 DEF IsFold
    <3>2. c[T] = LastOf(T) /\ LastOf(T) \in S /\ h[T \ {c[T]}] \in Bundles
      BY <1>3, <1>6, <2>1 DEF IsFold
    <3>3. QED
      BY <1>4, <3>1, <3>2
  <2>2. h[{}] = base /\ h = [T \in SUBSET S |-> h[T]]
    BY <1>6 DEF IsFold
  <2>3. \A T \in SUBSET S : h[T] = Body(h, T)
    BY <2>1, <2>2
  <2>4. QED
    BY <2>2, <2>3
<1>8. reconcileSalaryMonthFromDailyMap(b, lines, r) = (CHOOSE f : IsIt(f))[S]
  BY DEF reconcileSalaryMonthFromDailyMap, MapThenFoldSet
<1> DEFINE g == CHOOSE f : IsIt(f)
<1>9. IsIt(g)
  <2> HIDE DEF IsIt
  <2>1. QED
    BY <1>7
<1>10. g[{}] = base /\ \A T \in SUBSET S : T # {} => g[T] = PostPayout(g[T \ {LastOf(T)}], LastOf(T), r)
  <2> HIDE DEF S, base, g
  <2>1. \A T \in SUBSET S : g[T] = Body(g, T)
    BY <1>9
  <2>2. QED
    BY <2>1
<1>11. \A T \in SUBSET S : IsBundle(g[T])
  <2> HIDE DEF S, base, g
  <2> DEFINE G == {T \in SUBSET S : IsBundle(g[T])}
  <2>1. ASSUME NEW T \in SUBSET S, \A x \in T : T \ {x} \in G
        PROVE  T \in G
    <3>1. CASE T = {}
      BY <1>2, <1>10, <3>1, BundleIs
    <3>2. CASE T # {}
      <4>1. LastOf(T) \in T /\ LastOf(T) \in StaffLine
        BY <1>1, <1>3, <3>2
      <4>2. IsBundle(g[T \ {LastOf(T)}])
        BY <2>1, <4>1
      <4>3. g[T] = PostPayout(g[T \ {LastOf(T)}], LastOf(T), r)
        BY <1>10, <3>2
      <4>4. IsBundle(PostPayout(g[T \ {LastOf(T)}], LastOf(T), r))
        BY <4>1, <4>2, Posted DEF PostedTo
      <4>5. QED
        BY <4>3, <4>4
    <3>3. QED
      BY <3>1, <3>2
  <2>2. SUBSET S \subseteq G
    <3> HIDE DEF G
    <3>1. QED
      BY <1>1, <2>1, SubsetInduction
  <2>3. QED
    BY <2>2
<1> HIDE DEF IsIt, g
<1>12. IsRebuild(g, b, S, r)
  BY <1>10, <1>11 DEF IsRebuild
<1>13. QED
  BY <1>8, <1>12 DEF g

(* An unlocked sheet has a row of the roster's salary for everybody active.*)
Tidy(b, r) ==
  \A m \in DOMAIN b : ~b[m].locked =>
    \A e \in Active(r) : e \in DOMAIN b[m].rows /\ b[m].rows[e].basic = r[e].basic

Pays(b, m, e) == IF HasRow(b, m, e) THEN b[m].rows[e].pays ELSE {}

(* Such a sheet already is in line with the roster, for them.              *)
LEMMA TidyEnsured ==
  ASSUME NEW b, IsBundle(b), NEW r, IsRoster(r), Tidy(b, r), NEW m \in DOMAIN b, NEW e \in Active(r)
  PROVE  LET doc == ensureMonthDoc(b, m, r)
         IN /\ IsSheet(doc) /\ doc.locked = b[m].locked
            /\ e \in DOMAIN doc.rows <=> e \in DOMAIN b[m].rows
            /\ e \in DOMAIN doc.rows => doc.rows[e] = b[m].rows[e]
            /\ ~doc.locked => e \in DOMAIN doc.rows
<1> DEFINE doc == ensureMonthDoc(b, m, r)
<1>1. m \in Months /\ IsSheet(b[m]) /\ Active(r) # {}
  BY DEF IsBundle
<1>2. IsSheet(doc)
      /\ (~doc.locked => DOMAIN doc.rows = Active(r) /\ \A k \in Active(r) : doc.rows[k].basic = r[k].basic)
      /\ doc.locked = b[m].locked /\ (doc.locked => doc = b[m])
      /\ (~doc.locked => \A k \in Active(r) : k \in DOMAIN b[m].rows =>
            doc.rows[k].extra = b[m].rows[k].extra /\ doc.rows[k].pays = b[m].rows[k].pays)
  BY <1>1, Ensured
<1> HIDE DEF doc
<1>3. CASE doc.locked
  BY <1>2, <1>3 DEF doc
<1>4. CASE ~doc.locked
  <2>1. e \in DOMAIN b[m].rows /\ b[m].rows[e].basic = r[e].basic
    BY <1>2, <1>4 DEF Tidy
  <2>2. /\ e \in DOMAIN doc.rows /\ doc.rows[e].basic = r[e].basic
        /\ doc.rows[e].extra = b[m].rows[e].extra /\ doc.rows[e].pays = b[m].rows[e].pays
    BY <1>2, <1>4, <2>1
  <2>3. doc.rows[e] \in RegisterRow /\ b[m].rows[e] \in RegisterRow
    BY <1>1, <1>2, <2>1, <2>2 DEF IsSheet
  <2>4. doc.rows[e] = b[m].rows[e]
    BY <2>1, <2>2, <2>3, RowExt
  <2>5. QED
    BY <1>2, <2>1, <2>2, <2>4 DEF doc
<1>5. QED
  BY <1>3, <1>4

LEMMA ClearedTidy ==
  ASSUME NEW b, IsBundle(b), NEW staff \in SUBSET StaffLine, NEW r, IsRoster(r)
  PROVE  /\ Tidy(Cleared(b, staff, r), r)
         /\ \A m, e : Pays(Cleared(b, staff, r), m, e) = {}
<1> DEFINE c == Cleared(b, staff, r)
<1>1. /\ IsBundle(c)
      /\ \A m \in DOMAIN c : c[m] = clearAllRowPayments(ensureMonthDoc(b, m, r))
  BY ClearedIs
<1> HIDE DEF c
<1>2. ASSUME NEW m \in DOMAIN c
      PROVE  /\ ~c[m].locked => \A e \in Active(r) : e \in DOMAIN c[m].rows /\ c[m].rows[e].basic = r[e].basic
             /\ \A e \in DOMAIN c[m].rows : c[m].rows[e].pays = {}
  <2> DEFINE doc == ensureMonthDoc(b, m, r)
  <2>1. m \in Months
    BY <1>1 DEF IsBundle
  <2>2. IsSheet(doc)
        /\ (~doc.locked /\ Active(r) # {} =>
              DOMAIN doc.rows = Active(r) /\ \A k \in Active(r) : doc.rows[k].basic = r[k].basic)
    BY <2>1, Ensured
  <2>3. c[m] = clearAllRowPayments(doc)
    BY <1>1
  <2> HIDE DEF doc
  <2>4. /\ c[m].locked = doc.locked /\ DOMAIN c[m].rows = DOMAIN doc.rows
        /\ \A e \in DOMAIN doc.rows : c[m].rows[e].basic = doc.rows[e].basic /\ c[m].rows[e].pays = {}
    BY <2>2, <2>3, NoPays
  <2>5. QED
    BY <2>2, <2>4
<1>3. Tidy(c, r)
  BY <1>2 DEF Tidy
<1>4. \A m, e : Pays(c, m, e) = {}
  BY <1>2 DEF Pays, HasRow
<1>5. QED
  BY <1>3, <1>4 DEF c

(* What one payout posted changes for everybody active.                    *)
PostedFor(b, i, r, t, c) ==
  /\ IsBundle(c) /\ DOMAIN c = DOMAIN b /\ Tidy(c, r)
  /\ \A m, e : e \in Active(r) =>
       /\ HasRow(c, m, e) <=> HasRow(b, m, e) \/ (m = t /\ e = i.emp)
       /\ Pays(c, m, e) = IF m = t /\ e = i.emp THEN Pays(b, m, e) \cup {Payout(i)} ELSE Pays(b, m, e)
       /\ HasRow(b, m, e) => /\ c[m].rows[e].basic = b[m].rows[e].basic
                             /\ c[m].rows[e].extra = b[m].rows[e].extra
       /\ HasRow(c, m, e) /\ ~HasRow(b, m, e) =>
            c[m].rows[e].basic = r[e].basic /\ c[m].rows[e].extra = 0

LEMMA PostedActive ==
  ASSUME NEW b, IsBundle(b), NEW i \in StaffLine, NEW r, IsRoster(r), Tidy(b, r),
         TargetMonth(b, i) \in DOMAIN b
  PROVE  PostedFor(b, i, r, TargetMonth(b, i), PostPayout(b, i, r))
<1> DEFINE t == TargetMonth(b, i)
           c == PostPayout(b, i, r)
           doc == ensureMonthDoc(b, t, r)
           x == i.emp
           p == Payout(i)
<1>10. PostedTo(b, i, r, t, c, doc)
  BY Posted
<1> HIDE DEF t, c, doc
<1>1. /\ IsBundle(c) /\ t \in Months
      /\ DOMAIN c = DOMAIN b \cup {t}
      /\ \A m \in DOMAIN b : m # t => c[m] = b[m]
      /\ c[t].locked = doc.locked
      /\ \A e : e \in DOMAIN c[t].rows <=> e \in DOMAIN doc.rows \/ (e = x /\ x \in DOMAIN r)
      /\ \A e \in DOMAIN doc.rows : e # x => c[t].rows[e] = doc.rows[e]
      /\ x \in DOMAIN doc.rows =>
           /\ c[t].rows[x].basic = doc.rows[x].basic
           /\ c[t].rows[x].extra = doc.rows[x].extra
           /\ c[t].rows[x].pays = doc.rows[x].pays \cup {p}
      /\ x \notin DOMAIN doc.rows /\ x \in DOMAIN r =>
           /\ c[t].rows[x].basic = r[x].basic
           /\ c[t].rows[x].extra = 0
           /\ c[t].rows[x].pays = {p}
  BY <1>10 DEF PostedTo
<1>2. t \in DOMAIN b
  BY DEF t
<1>3. /\ IsSheet(doc) /\ doc.locked = b[t].locked
      /\ \A e \in Active(r) :
           /\ e \in DOMAIN doc.rows <=> e \in DOMAIN b[t].rows
           /\ e \in DOMAIN doc.rows => doc.rows[e] = b[t].rows[e]
           /\ ~doc.locked => e \in DOMAIN doc.rows
  <2>1. t \in Months /\ IsSheet(b[t])
    BY <1>1, <1>2 DEF IsBundle
  <2>2. IsSheet(doc) /\ doc.locked = b[t].locked
    <3>1. QED
      BY <1>2, <2>1, Ensured DEF doc
  <2>3. \A e \in Active(r) :
           /\ e \in DOMAIN doc.rows <=> e \in DOMAIN b[t].rows
           /\ e \in DOMAIN doc.rows => doc.rows[e] = b[t].rows[e]
           /\ ~doc.locked => e \in DOMAIN doc.rows
    <3>1. QED
      BY <1>2, TidyEnsured DEF doc
  <2>4. QED
    BY <2>2, <2>3
<1> HIDE DEF p
<1>4. DOMAIN c = DOMAIN b
  BY <1>1, <1>2
<1>5. ASSUME NEW m, NEW e \in Active(r), m # t
      PROVE  /\ HasRow(c, m, e) <=> HasRow(b, m, e)
             /\ HasRow(b, m, e) => c[m].rows[e] = b[m].rows[e]
             /\ Pays(c, m, e) = Pays(b, m, e)
  <2>1. m \in DOMAIN b => c[m] = b[m]
    BY <1>1, <1>5
  <2>2. QED
    BY <1>4, <2>1 DEF HasRow, Pays
<1>6. ASSUME NEW e \in Active(r)
      PROVE  /\ HasRow(c, t, e) <=> HasRow(b, t, e) \/ e = x
             /\ Pays(c, t, e) = IF e = x THEN Pays(b, t, e) \cup {p} ELSE Pays(b, t, e)
             /\ HasRow(b, t, e) => /\ c[t].rows[e].basic = b[t].rows[e].basic
                                   /\ c[t].rows[e].extra = b[t].rows[e].extra
             /\ HasRow(c, t, e) /\ ~HasRow(b, t, e) =>
                  c[t].rows[e].basic = r[e].basic /\ c[t].rows[e].extra = 0
  <2>1. e \in DOMAIN r
    BY DEF Active
  <2>2. (HasRow(b, t, e) <=> e \in DOMAIN doc.rows) /\ (HasRow(c, t, e) <=> e \in DOMAIN c[t].rows)
    BY <1>2, <1>3, <1>4 DEF HasRow
  <2>3. HasRow(b, t, e) => doc.rows[e] = b[t].rows[e]
    BY <1>3, <2>2
  <2>4. CASE e # x
    <3>1. (HasRow(c, t, e) <=> HasRow(b, t, e)) /\ (HasRow(b, t, e) => c[t].rows[e] = b[t].rows[e])
      BY <1>1, <2>2, <2>3, <2>4
    <3>2. QED
      BY <2>4, <3>1 DEF Pays
  <2>5. CASE e = x /\ HasRow(b, t, e)
    <3>1. /\ HasRow(c, t, e) /\ c[t].rows[e].basic = b[t].rows[e].basic
          /\ c[t].rows[e].extra = b[t].rows[e].extra /\ c[t].rows[e].pays = b[t].rows[e].pays \cup {p}
      BY <1>1, <2>2, <2>3, <2>5
    <3>2. QED
      BY <2>5, <3>1 DEF Pays
  <2>6. CASE e = x /\ ~HasRow(b, t, e)
    <3>1. /\ HasRow(c, t, e) /\ c[t].rows[e].basic = r[e].basic
          /\ c[t].rows[e].extra = 0 /\ c[t].rows[e].pays = {p}
      BY <1>1, <2>1, <2>2, <2>6
    <3>2. QED
      BY <2>6, <3>1 DEF Pays
  <2>7. QED
    BY <2>4, <2>5, <2>6
<1>7. Tidy(c, r)
  <2>1. SUFFICES ASSUME NEW m \in DOMAIN c, ~c[m].locked, NEW e \in Active(r)
                 PROVE  e \in DOMAIN c[m].rows /\ c[m].rows[e].basic = r[e].basic
    BY DEF Tidy
  <2>2. CASE m # t
    <3>1. c[m] = b[m] /\ m \in DOMAIN b
      BY <1>1, <1>4, <2>2
    <3>2. QED
      BY <2>1, <3>1 DEF Tidy
  <2>3. CASE m = t
    <3>1. ~b[t].locked /\ t \in DOMAIN b
      BY <1>1, <1>2, <1>3, <2>1, <2>3
    <3>2. e \in DOMAIN b[t].rows /\ b[t].rows[e].basic = r[e].basic
      BY <3>1 DEF Tidy
    <3>3. HasRow(b, t, e)
      BY <1>2, <3>2 DEF HasRow
    <3>4. HasRow(c, t, e) /\ c[t].rows[e].basic = b[t].rows[e].basic
      BY <1>6, <3>3
    <3>5. QED
      BY <2>3, <3>2, <3>4 DEF HasRow
  <2>4. QED
    BY <2>2, <2>3
<1>8. ASSUME NEW m, NEW e \in Active(r)
      PROVE  /\ HasRow(c, m, e) <=> HasRow(b, m, e) \/ (m = t /\ e = x)
             /\ Pays(c, m, e) = IF m = t /\ e = x THEN Pays(b, m, e) \cup {p} ELSE Pays(b, m, e)
             /\ HasRow(b, m, e) => /\ c[m].rows[e].basic = b[m].rows[e].basic
                                   /\ c[m].rows[e].extra = b[m].rows[e].extra
             /\ HasRow(c, m, e) /\ ~HasRow(b, m, e) =>
                  c[m].rows[e].basic = r[e].basic /\ c[m].rows[e].extra = 0
  <2>1. CASE m = t
    BY <1>6, <2>1
  <2>2. CASE m # t
    BY <1>5, <2>2
  <2>3. QED
    BY <2>1, <2>2
<1>9. QED
  <2>1. PostedFor(b, i, r, t, c)
    BY <1>1, <1>4, <1>7, <1>8 DEF PostedFor, p
  <2>2. QED
    BY <2>1 DEF t, c

(* What payouts sum to, with one more.                                     *)
LEMMA PaidMore ==
  ASSUME NEW pays \in SUBSET Pay, IsFiniteSet(pays), NEW p \in Pay
  PROVE  /\ PaidOf(pays) \in Nat /\ PaidOf(pays \cup {p}) \in Nat /\ p.amt \in Nat
         /\ PaidOf(pays \cup {p}) = IF p \in pays THEN PaidOf(pays) ELSE PaidOf(pays) + p.amt
<1> DEFINE more == pays \cup {p}
           f == [q \in pays |-> q.amt]
           h == [q \in more |-> q.amt]
<1>1. more \in SUBSET Pay /\ IsFiniteSet(more)
  BY FS_AddElement
<1>2. PaidOf(pays) \in Nat /\ PaidOf(more) \in Nat /\ p.amt \in Nat
  <2>1. p.amt \in Nat
    BY DEF Pay
  <2> HIDE DEF more
  <2>2. QED
    BY <1>1, <2>1, PaidOfNat
<1>3. CASE p \in pays
  <2>1. more = pays
    BY <1>3
  <2>2. QED
    BY <1>2, <1>3, <2>1
<1>4. CASE p \notin pays
  <2>1. Counts(h, more) /\ Counts(f, pays)
    <3>1. PaidOf(more) \in Nat /\ Counts(h, more)
      <4> HIDE DEF more
      <4>1. QED
        BY <1>1, PaidOfNat
    <3>2. QED
      BY <3>1, PaidOfNat
  <2>2. p \in more /\ more \ {p} = pays /\ h[p] = p.amt /\ \A q \in pays : h[q] = f[q]
    BY <1>4
  <2>3. PaidOf(more) = SumFunctionOnSet(h, more) /\ PaidOf(pays) = SumFunctionOnSet(f, pays)
    BY DEF PaidOf
  <2> HIDE DEF more, f, h
  <2>4. SumFunctionOnSet(h, more) = h[p] + SumFunctionOnSet(h, more \ {p})
    BY <2>1, <2>2, SumRemove
  <2>5. SumFunctionOnSet(f, pays) = SumFunctionOnSet(h, pays)
    BY <2>1, <2>2, SumSame
  <2>6. PaidOf(more) = p.amt + PaidOf(pays)
    BY <2>2, <2>3, <2>4, <2>5
  <2>7. QED
    BY <1>2, <1>4, <2>6 DEF more
<1>5. QED
  BY <1>3, <1>4

LEMMA PaysAre ==
  ASSUME NEW b, IsBundle(b), NEW m, NEW e
  PROVE  /\ Pays(b, m, e) \in SUBSET Pay /\ IsFiniteSet(Pays(b, m, e))
         /\ Paid(b, m, e, Manual) = PaidOf(Pays(b, m, e))
<1>1. CASE HasRow(b, m, e)
  <2>1. b[m].rows[e] \in RegisterRow
    BY <1>1, RowOf
  <2>2. b[m].rows[e].pays \in SUBSET Pay /\ IsFiniteSet(b[m].rows[e].pays)
    BY <2>1 DEF RegisterRow
  <2>3. Counted(b[m].rows[e], Manual) = b[m].rows[e].pays
    BY DEF Counted
  <2>4. QED
    BY <1>1, <2>2, <2>3 DEF Pays, Paid
<1>2. CASE ~HasRow(b, m, e)
  <2>1. Pays(b, m, e) = {} /\ Paid(b, m, e, Manual) = 0
    BY <1>2 DEF Pays, Paid
  <2>2. PaidOf({}) = 0
    BY SumEmpty DEF PaidOf
  <2>3. QED
    BY <2>1, <2>2, FS_EmptySet
<1>3. QED
  BY <1>1, <1>2

(* With the same pay and no less paid up to month n, no less is carried,   *)
(* and no more is owed.                                                    *)
LEMMA OwedDown ==
  ASSUME NEW b, IsBundle(b), NEW c, IsBundle(c), NEW e, NEW x, NEW y, NEW n \in Nat, n <= LastMonth,
         \A k \in Months : k <= n => /\ Payable(c, k, e) = Payable(b, k, e)
                                     /\ Paid(c, k, e, y) >= Paid(b, k, e, x)
  PROVE  /\ \A k \in Months : k <= n => StillOwed(c, e, y)[k] <= StillOwed(b, e, x)[k]
         /\ \A k \in 0 .. n : CarriedOut(c, e, y)[k] >= CarriedOut(b, e, x)[k]
<1> DEFINE before == CarriedOut(b, e, x)
           after == CarriedOut(c, e, y)
           G == {k \in Nat : k <= n => after[k] >= before[k]}
<1>1. LastMonth \in Nat /\ Months = 1 .. LastMonth
  BY MonthFacts
<1>2. 0 \in G
  <2>1. after[0] = 0 /\ before[0] = 0
    BY CarrySteps
  <2> HIDE DEF before, after
  <2>2. QED
    BY <2>1
<1>3. ASSUME NEW k \in Nat, k \in G PROVE k + 1 \in G
  <2>1. SUFFICES ASSUME k + 1 <= n PROVE after[k + 1] >= before[k + 1]
    OBVIOUS
  <2>2. k + 1 \in Months /\ k + 1 - 1 = k /\ after[k] >= before[k]
    BY <1>1, <1>3, <2>1
  <2>3. /\ before[k + 1] = AtLeastZero(Paid(b, k + 1, e, x) + before[k] - Payable(b, k + 1, e))
        /\ after[k + 1] = AtLeastZero(Paid(c, k + 1, e, y) + after[k] - Payable(c, k + 1, e))
        /\ before[k] \in Nat /\ after[k] \in Nat
    <3>1. k \in 0 .. LastMonth
      BY <1>1, <2>1
    <3>2. /\ before \in [0 .. LastMonth -> Nat]
          /\ \A m \in Months : before[m] = AtLeastZero(Paid(b, m, e, x) + before[m - 1] - Payable(b, m, e))
      BY CarrySteps
    <3>3. /\ after \in [0 .. LastMonth -> Nat]
          /\ \A m \in Months : after[m] = AtLeastZero(Paid(c, m, e, y) + after[m - 1] - Payable(c, m, e))
      BY CarrySteps
    <3> HIDE DEF before, after
    <3>4. QED
      BY <2>2, <3>1, <3>2, <3>3
  <2>4. /\ Payable(c, k + 1, e) = Payable(b, k + 1, e) /\ Paid(c, k + 1, e, y) >= Paid(b, k + 1, e, x)
        /\ Payable(b, k + 1, e) \in Nat /\ Paid(c, k + 1, e, y) \in Nat /\ Paid(b, k + 1, e, x) \in Nat
    BY <2>1, <2>2, PayNat
  <2> HIDE DEF before, after
  <2>5. QED
    BY <2>2, <2>3, <2>4 DEF AtLeastZero
<1>4. Nat \subseteq G
  <2> HIDE DEF G
  <2>1. QED
    BY <1>2, <1>3, SetInduction
<1>5. ASSUME NEW k \in Months, k <= n PROVE StillOwed(c, e, y)[k] <= StillOwed(b, e, x)[k]
  <2>1. k - 1 \in Nat /\ k - 1 <= n
    BY <1>1, <1>5
  <2>2. after[k - 1] >= before[k - 1]
    BY <1>4, <2>1
  <2>3. /\ StillOwed(b, e, x)[k] = AtLeastZero(Payable(b, k, e) - before[k - 1] - Paid(b, k, e, x))
        /\ StillOwed(c, e, y)[k] = AtLeastZero(Payable(c, k, e) - after[k - 1] - Paid(c, k, e, y))
        /\ before[k - 1] \in Nat /\ after[k - 1] \in Nat
    BY OwedIs
  <2>4. /\ Payable(c, k, e) = Payable(b, k, e) /\ Paid(c, k, e, y) >= Paid(b, k, e, x)
        /\ Payable(b, k, e) \in Nat /\ Paid(c, k, e, y) \in Nat /\ Paid(b, k, e, x) \in Nat
    BY <1>5, PayNat
  <2> HIDE DEF before, after
  <2>5. QED
    BY <2>2, <2>3, <2>4 DEF AtLeastZero
<1>6. \A k \in 0 .. n : after[k] >= before[k]
  <2> HIDE DEF before, after
  <2>1. QED
    BY <1>4
<1>7. QED
  BY <1>5, <1>6

(* Rebuilding b from the staff, sensibly.                                  *)
Rebuilding(g, b, S, r) ==
  IsBundle(b) /\ S \in SUBSET StaffLine /\ IsFiniteSet(S) /\ IsRoster(r) /\ IsRebuild(g, b, S, r)

LEMMA TargetThere ==
  ASSUME NEW b, IsBundle(b), NEW i \in StaffLine, MonthOf(i.day) \in DOMAIN b
  PROVE  TargetMonth(b, i) \in DOMAIN b
<1> DEFINE t == TargetMonth(b, i)
<1>1. t # MonthOf(i.day) => HasRow(b, t, i.emp)
  BY TargetIs
<1>2. QED
  BY <1>1 DEF HasRow

LEMMA RebuildTidy ==
  ASSUME NEW g, NEW b, NEW S, NEW r, Rebuilding(g, b, S, r)
  PROVE  \A T \in SUBSET S : IsBundle(g[T]) /\ Tidy(g[T], r) /\ DOMAIN g[T] = DOMAIN b \cup MonthsOf(S)
<1> DEFINE M == DOMAIN b \cup MonthsOf(S)
           G == {T \in SUBSET S : Tidy(g[T], r) /\ DOMAIN g[T] = M}
<1>1. /\ IsBundle(b) /\ S \in SUBSET StaffLine /\ IsFiniteSet(S) /\ IsRoster(r)
      /\ g[{}] = Cleared(b, S, r)
      /\ \A T \in SUBSET S : /\ IsBundle(g[T])
                             /\ T # {} => g[T] = PostPayout(g[T \ {LastOf(T)}], LastOf(T), r)
  BY DEF Rebuilding, IsRebuild
<1>2. ASSUME NEW T \in SUBSET S, \A x \in T : T \ {x} \in G
      PROVE  T \in G
  <2>1. CASE T = {}
    <3> DEFINE c == Cleared(b, S, r)
    <3>1. g[T] = c
      BY <1>1, <2>1
    <3>2. DOMAIN c = M /\ Tidy(c, r)
      BY <1>1, ClearedIs, ClearedTidy
    <3> HIDE DEF c, M
    <3>3. QED
      BY <3>1, <3>2
  <2>2. CASE T # {}
    <3> DEFINE i == LastOf(T)
               U == T \ {i}
    <3>1. i \in T
      <4>1. T \in SUBSET StaffLine /\ IsFiniteSet(T)
        BY <1>1, FS_Subset
      <4>2. QED
        BY <2>2, <4>1, LastIsLast
    <3>2. U \in G /\ U \in SUBSET S
      BY <1>2, <3>1
    <3>3. i \in StaffLine /\ MonthOf(i.day) \in M /\ IsBundle(g[U]) /\ g[T] = PostPayout(g[U], i, r)
      BY <1>1, <2>2, <3>1, <3>2 DEF MonthsOf
    <3> HIDE DEF i, U, M
    <3>4. Tidy(g[U], r) /\ DOMAIN g[U] = M
      BY <3>2
    <3>5. TargetMonth(g[U], i) \in DOMAIN g[U]
      BY <3>3, <3>4, TargetThere
    <3>6. PostedFor(g[U], i, r, TargetMonth(g[U], i), PostPayout(g[U], i, r))
      BY <1>1, <3>3, <3>4, <3>5, PostedActive
    <3>7. QED
      BY <3>3, <3>4, <3>6 DEF PostedFor
  <2>3. QED
    BY <2>1, <2>2
<1>3. SUBSET S \subseteq G
  <2> HIDE DEF G
  <2>1. QED
    BY <1>1, <1>2, SubsetInduction
<1>4. QED
  BY <1>1, <1>3

(* The last item is posted to what the others gave.                        *)
LEMMA RebuildStep ==
  ASSUME NEW g, NEW b, NEW S, NEW r, Rebuilding(g, b, S, r), NEW T \in SUBSET S, T # {}
  PROVE  LET i == LastOf(T)
             U == T \ {i}
         IN /\ i \in T /\ i \in StaffLine /\ U \in SUBSET S /\ \A j \in T : ~Before(i, j)
            /\ IsBundle(g[U]) /\ Tidy(g[U], r) /\ IsRoster(r)
            /\ TargetMonth(g[U], i) \in DOMAIN g[U]
            /\ PostedFor(g[U], i, r, TargetMonth(g[U], i), g[T])
            /\ g[T] = PostPayout(g[U], i, r)
<1> DEFINE i == LastOf(T)
           U == T \ {i}
<1>1. /\ IsBundle(b) /\ S \in SUBSET StaffLine /\ IsFiniteSet(S) /\ IsRoster(r)
      /\ g[T] = PostPayout(g[T \ {LastOf(T)}], LastOf(T), r)
  BY DEF Rebuilding, IsRebuild
<1>2. i \in T /\ i \in StaffLine /\ \A j \in T : ~Before(i, j)
  <2>1. T \in SUBSET StaffLine /\ IsFiniteSet(T)
    BY <1>1, FS_Subset
  <2>2. QED
    BY <2>1, LastIsLast
<1>3. U \in SUBSET S /\ g[T] = PostPayout(g[U], i, r)
  BY <1>1
<1> HIDE DEF i, U
<1>4. IsBundle(g[U]) /\ Tidy(g[U], r) /\ MonthOf(i.day) \in DOMAIN g[U]
  BY <1>2, <1>3, RebuildTidy DEF MonthsOf
<1>5. TargetMonth(g[U], i) \in DOMAIN g[U]
  BY <1>2, <1>4, TargetThere
<1>6. PostedFor(g[U], i, r, TargetMonth(g[U], i), PostPayout(g[U], i, r))
  BY <1>1, <1>2, <1>4, <1>5, PostedActive
<1>7. QED
  BY <1>1, <1>2, <1>3, <1>4, <1>5, <1>6 DEF i, U

-----------------------------------------------------------------------------
(* The payouts of e in bundle c are those of the staff, each in one month. *)
PlacedOnce(c, T, e) ==
  /\ \A m : \A p \in Pays(c, m, e) : \E i \in T : i.emp = e /\ p = Payout(i)
  /\ \A i \in T : i.emp = e => \E m : Payout(i) \in Pays(c, m, e)
  /\ \A m, k : \A p \in Pays(c, m, e) : p \in Pays(c, k, e) => m = k

LEMMA Placing ==
  ASSUME NEW g, NEW b, NEW S, NEW r, Rebuilding(g, b, S, r), NEW e \in Active(r)
  PROVE  \A T \in SUBSET S : PlacedOnce(g[T], T, e)
<1> DEFINE G == {T \in SUBSET S : PlacedOnce(g[T], T, e)}
<1>1. ASSUME NEW T \in SUBSET S, \A x \in T : T \ {x} \in G
      PROVE  T \in G
  <2>1. CASE T = {}
    <3>1. \A m : Pays(g[T], m, e) = {}
      BY <2>1, ClearedTidy DEF Rebuilding, IsRebuild
    <3>2. QED
      BY <2>1, <3>1 DEF PlacedOnce
  <2>2. CASE T # {}
    <3> DEFINE i == LastOf(T)
               U == T \ {i}
               t == TargetMonth(g[U], i)
               old(m) == Pays(g[U], m, e)
               new(m) == Pays(g[T], m, e)
    <3>1. i \in T /\ i \in StaffLine /\ PostedFor(g[U], i, r, t, g[T])
      BY <2>2, RebuildStep
    <3>2. PlacedOnce(g[U], U, e)
      BY <1>1, <3>1
    <3> HIDE DEF t, i
    <3>3. \A m : new(m) = IF m = t /\ e = i.emp THEN old(m) \cup {Payout(i)} ELSE old(m)
      BY <3>1 DEF PostedFor
    <3>4. /\ \A m : \A p \in old(m) : \E j \in U : j.emp = e /\ p = Payout(j)
          /\ \A j \in U : j.emp = e => \E m : Payout(j) \in old(m)
          /\ \A m, k : \A p \in old(m) : p \in old(k) => m = k
      BY <3>2 DEF PlacedOnce
    <3>5. \A j \in U : j \in StaffLine /\ j # i
      BY DEF Rebuilding
    <3> HIDE DEF old, new
    <3>6. CASE e # i.emp
      <4>1. \A m : new(m) = old(m)
        BY <3>3, <3>6
      <4>2. \A j \in T : j.emp = e => j \in U
        BY <3>6
      <4>3. /\ \A m : \A p \in new(m) : \E j \in T : j.emp = e /\ p = Payout(j)
            /\ \A j \in T : j.emp = e => \E m : Payout(j) \in new(m)
            /\ \A m, k : \A p \in new(m) : p \in new(k) => m = k
        BY <3>4, <4>1, <4>2
      <4>4. QED
        BY <4>3 DEF PlacedOnce, new
    <3>7. CASE e = i.emp
      <4>1. \A m : Payout(i) \notin old(m)
        <5>1. SUFFICES ASSUME NEW m, Payout(i) \in old(m) PROVE FALSE
          OBVIOUS
        <5>2. PICK j \in U : j.emp = e /\ Payout(i) = Payout(j)
          BY <3>4, <5>1
        <5>3. i = j
          BY <3>1, <3>5, <3>7, <5>2, SamePayout
        <5>4. QED
          BY <3>5, <5>3
      <4>2. \A m : new(m) = IF m = t THEN old(m) \cup {Payout(i)} ELSE old(m)
        BY <3>3, <3>7
      <4>3. \A m : \A p \in new(m) : \E j \in T : j.emp = e /\ p = Payout(j)
        <5>1. SUFFICES ASSUME NEW m, NEW p \in new(m) PROVE \E j \in T : j.emp = e /\ p = Payout(j)
          OBVIOUS
        <5>2. p \in old(m) \/ p = Payout(i)
          BY <4>2
        <5>3. QED
          BY <3>1, <3>4, <3>7, <5>2
      <4>4. \A j \in T : j.emp = e => \E m : Payout(j) \in new(m)
        <5>1. SUFFICES ASSUME NEW j \in T, j.emp = e PROVE \E m : Payout(j) \in new(m)
          OBVIOUS
        <5>2. CASE j = i
          <6>1. Payout(j) \in new(t)
            BY <4>2, <5>2
          <6>2. QED
            BY <6>1
        <5>3. CASE j # i
          <6>1. PICK m : Payout(j) \in old(m)
            BY <3>4, <5>1, <5>3
          <6>2. Payout(j) \in new(m)
            BY <4>2, <6>1
          <6>3. QED
            BY <6>2
        <5>4. QED
          BY <5>2, <5>3
      <4>5. \A m, k : \A p \in new(m) : p \in new(k) => m = k
        <5>1. SUFFICES ASSUME NEW m, NEW k, NEW p \in new(m), p \in new(k) PROVE m = k
          OBVIOUS
        <5>2. CASE p = Payout(i)
          <6>1. p \notin old(m) /\ p \notin old(k)
            BY <4>1, <5>2
          <6>2. m = t /\ k = t
            BY <4>2, <5>1, <6>1
          <6>3. QED
            BY <6>2
        <5>3. CASE p # Payout(i)
          <6>1. p \in old(m) /\ p \in old(k)
            BY <4>2, <5>1, <5>3
          <6>2. QED
            BY <3>4, <6>1
        <5>4. QED
          BY <5>2, <5>3
      <4>6. QED
        BY <4>3, <4>4, <4>5 DEF PlacedOnce, new
    <3>8. QED
      BY <3>6, <3>7
  <2>3. QED
    BY <2>1, <2>2
<1>2. SUBSET S \subseteq G
  <2> HIDE DEF G
  <2>1. QED
    BY <1>1, SubsetInduction DEF Rebuilding
<1>3. QED
  BY <1>2

LEMMA PayableSame ==
  ASSUME NEW b, NEW c, NEW m, NEW e, HasRow(c, m, e) <=> HasRow(b, m, e),
         HasRow(b, m, e) => c[m].rows[e].basic = b[m].rows[e].basic /\ c[m].rows[e].extra = b[m].rows[e].extra
  PROVE  Payable(c, m, e) = Payable(b, m, e)
BY DEF Payable, totalPayableForRow

(* A payout is in no month after its own, and a regular one in none after  *)
(* a month that still owes.                                                *)
Oldest(c, e) ==
  \A m \in Months : \A p \in Pays(c, m, e) :
    /\ m <= MonthOf(p.day)
    /\ ~p.advance => \A k \in Months : k < m => StillOwed(c, e, Manual)[k] = 0

LEMMA Settling ==
  ASSUME NEW g, NEW b, NEW S, NEW r, Rebuilding(g, b, S, r), NEW e \in Active(r)
  PROVE  \A T \in SUBSET S : Oldest(g[T], e)
<1> DEFINE G == {T \in SUBSET S : Oldest(g[T], e)}
<1>1. ASSUME NEW T \in SUBSET S, \A x \in T : T \ {x} \in G
      PROVE  T \in G
  <2>1. CASE T = {}
    <3>1. \A m : Pays(g[T], m, e) = {}
      BY <2>1, ClearedTidy DEF Rebuilding, IsRebuild
    <3>2. QED
      BY <3>1 DEF Oldest
  <2>2. CASE T # {}
    <3> DEFINE i == LastOf(T)
               U == T \ {i}
               t == TargetMonth(g[U], i)
               before == StillOwed(g[U], e, Manual)
               after == StillOwed(g[T], e, Manual)
               n == IF e # i.emp \/ HasRow(g[U], t, e) THEN LastMonth ELSE t - 1
    <3>1. /\ i \in T /\ i \in StaffLine /\ U \in SUBSET S /\ \A j \in T : ~Before(i, j)
          /\ IsBundle(g[U]) /\ PostedFor(g[U], i, r, t, g[T])
      BY <2>2, RebuildStep
    <3>2. Oldest(g[U], e) /\ PlacedOnce(g[U], U, e)
      BY <1>1, <3>1, Placing
    <3>3. /\ MonthOf(i.day) \in Months /\ t \in Months /\ t <= MonthOf(i.day)
          /\ t # MonthOf(i.day) => HasRow(g[U], t, i.emp)
          /\ ~i.advance => \A k \in Months : k < t => StillOwed(g[U], i.emp, Manual)[k] = 0
      BY <3>1, TargetIs
    <3> HIDE DEF i, U, t
    <3>4. /\ IsBundle(g[T])
          /\ \A m : /\ HasRow(g[T], m, e) <=> HasRow(g[U], m, e) \/ (m = t /\ e = i.emp)
                    /\ Pays(g[T], m, e) = IF m = t /\ e = i.emp THEN Pays(g[U], m, e) \cup {Payout(i)}
                                          ELSE Pays(g[U], m, e)
                    /\ HasRow(g[U], m, e) => /\ g[T][m].rows[e].basic = g[U][m].rows[e].basic
                                             /\ g[T][m].rows[e].extra = g[U][m].rows[e].extra
      BY <3>1 DEF PostedFor
    <3>5. Payout(i) \in Pay /\ Payout(i).day = i.day /\ Payout(i).advance = i.advance
      BY <3>1, PayoutIs
    <3>6. n \in Nat /\ n <= LastMonth /\ LastMonth \in Nat /\ Months = 1 .. LastMonth
      BY <3>3, MonthFacts
    <3>7. ASSUME NEW k \in Months, k <= n
          PROVE  /\ Payable(g[T], k, e) = Payable(g[U], k, e)
                 /\ Paid(g[T], k, e, Manual) >= Paid(g[U], k, e, Manual)
      <4>1. HasRow(g[T], k, e) <=> HasRow(g[U], k, e)
        <5>1. CASE e # i.emp \/ HasRow(g[U], t, e)
          BY <3>4, <5>1
        <5>2. CASE ~(e # i.emp \/ HasRow(g[U], t, e))
          <6>1. k # t
            BY <3>3, <3>6, <3>7, <5>2
          <6>2. QED
            BY <3>4, <6>1
        <5>3. QED
          BY <5>1, <5>2
      <4>2. Payable(g[T], k, e) = Payable(g[U], k, e)
        BY <3>4, <4>1, PayableSame
      <4>3. /\ Pays(g[U], k, e) \in SUBSET Pay /\ IsFiniteSet(Pays(g[U], k, e))
            /\ Paid(g[U], k, e, Manual) = PaidOf(Pays(g[U], k, e))
            /\ Paid(g[T], k, e, Manual) = PaidOf(Pays(g[T], k, e))
        BY <3>1, <3>4, PaysAre
      <4>4. PaidOf(Pays(g[U], k, e) \cup {Payout(i)}) >= PaidOf(Pays(g[U], k, e))
            /\ PaidOf(Pays(g[U], k, e)) \in Nat
        BY <3>5, <4>3, PaidMore
      <4>5. Pays(g[T], k, e) = Pays(g[U], k, e) \cup {Payout(i)} \/ Pays(g[T], k, e) = Pays(g[U], k, e)
        BY <3>4
      <4>6. Paid(g[T], k, e, Manual) >= Paid(g[U], k, e, Manual)
        BY <4>3, <4>4, <4>5
      <4>7. QED
        BY <4>2, <4>6
    <3>8. \A k \in Months : k <= n => after[k] <= before[k] /\ after[k] \in Nat /\ before[k] \in Nat
      <4> HIDE DEF n
      <4>1. \A k \in Months : k <= n => after[k] <= before[k]
        BY <3>1, <3>4, <3>6, <3>7, OwedDown
      <4>2. \A k \in Months : after[k] \in Nat /\ before[k] \in Nat
        BY <3>1, <3>4, OwedIs
      <4>3. QED
        BY <4>1, <4>2
    <3>9. ASSUME NEW m \in Months, NEW p \in Pays(g[T], m, e)
          PROVE  /\ m <= MonthOf(p.day)
                 /\ ~p.advance => \A k \in Months : k < m => after[k] = 0
      <4>1. CASE p \in Pays(g[U], m, e)
        <5>1. /\ m <= MonthOf(p.day)
              /\ ~p.advance => \A k \in Months : k < m => before[k] = 0
          BY <3>2, <4>1 DEF Oldest
        <5>2. \A k \in Months : k < m => k <= n
          <6>1. CASE e # i.emp \/ HasRow(g[U], t, e)
            BY <3>6, <6>1
          <6>2. CASE ~(e # i.emp \/ HasRow(g[U], t, e))
            <7>1. t = MonthOf(i.day)
              BY <3>3, <6>2
            <7>2. PICK j \in U : j.emp = e /\ p = Payout(j)
              BY <3>2, <4>1 DEF PlacedOnce
            <7>3. j \in T /\ j \in StaffLine
              BY <7>2 DEF U, Rebuilding
            <7>4. j.day <= i.day /\ p.day = j.day /\ j.day \in Days /\ i.day \in Days
              BY <3>1, <7>2, <7>3, BeforeOrders, PayoutIs DEF StaffLine
            <7>5. MonthOf(p.day) <= MonthOf(i.day) /\ MonthOf(p.day) \in Months
              BY <7>4, MonthFacts
            <7>6. m <= t
              BY <3>3, <3>6, <5>1, <7>1, <7>5
            <7>7. QED
              BY <3>3, <3>6, <6>2, <7>6
          <6>3. QED
            BY <6>1, <6>2
        <5>3. QED
          <6> HIDE DEF n, before, after
          <6>1. QED
            BY <3>8, <5>1, <5>2
      <4>2. CASE p \notin Pays(g[U], m, e)
        <5>1. m = t /\ e = i.emp /\ p = Payout(i)
          BY <3>4, <4>2
        <5>2. m <= MonthOf(p.day)
          BY <3>3, <3>5, <5>1
        <5>3. ~p.advance => \A k \in Months : k < m => before[k] = 0
          BY <3>3, <3>5, <5>1
        <5>4. \A k \in Months : k < m => k <= n
          BY <3>3, <3>6, <5>1
        <5>5. QED
          <6> HIDE DEF n, before, after
          <6>1. QED
            BY <3>8, <5>2, <5>3, <5>4
      <4>3. QED
        BY <4>1, <4>2
    <3>10. QED
      BY <3>9 DEF Oldest
  <2>3. QED
    BY <2>1, <2>2
<1>2. SUBSET S \subseteq G
  <2> HIDE DEF G
  <2>1. QED
    BY <1>1, SubsetInduction DEF Rebuilding
<1>3. QED
  BY <1>2

(* Unlocked sheets have rows of everybody active and nobody else.          *)
InLine(b, r) ==
  \A m \in DOMAIN b : ~b[m].locked /\ Active(r) # {} =>
    DOMAIN b[m].rows = Active(r) /\ \A e \in Active(r) : b[m].rows[e].basic = r[e].basic

LEMMA InLineEnsured ==
  ASSUME NEW b, IsBundle(b), NEW r, IsRoster(r), InLine(b, r), NEW m \in DOMAIN b
  PROVE  ensureMonthDoc(b, m, r) = b[m]
<1> DEFINE doc == ensureMonthDoc(b, m, r)
<1>1. m \in Months /\ IsSheet(b[m])
  BY DEF IsBundle
<1>2. IsSheet(doc)
      /\ (~doc.locked /\ Active(r) # {} =>
            DOMAIN doc.rows = Active(r) /\ \A k \in Active(r) : doc.rows[k].basic = r[k].basic)
      /\ doc.locked = b[m].locked /\ (doc.locked \/ Active(r) = {} => doc = b[m])
      /\ (~doc.locked => \A k \in Active(r) : k \in DOMAIN b[m].rows =>
            doc.rows[k].extra = b[m].rows[k].extra /\ doc.rows[k].pays = b[m].rows[k].pays)
  BY <1>1, Ensured
<1> HIDE DEF doc
<1>3. CASE ~doc.locked /\ Active(r) # {}
  <2>1. DOMAIN b[m].rows = Active(r) /\ DOMAIN doc.rows = Active(r)
    BY <1>2, <1>3 DEF InLine
  <2>2. ASSUME NEW e \in Active(r) PROVE doc.rows[e] = b[m].rows[e]
    <3>1. /\ doc.rows[e].basic = r[e].basic /\ b[m].rows[e].basic = r[e].basic
          /\ doc.rows[e].extra = b[m].rows[e].extra /\ doc.rows[e].pays = b[m].rows[e].pays
      BY <1>2, <1>3, <2>1 DEF InLine
    <3>2. doc.rows[e] \in RegisterRow /\ b[m].rows[e] \in RegisterRow
      BY <1>1, <1>2, <2>1 DEF IsSheet
    <3>3. QED
      BY <3>1, <3>2, RowExt
  <2>3. doc.rows = b[m].rows
    BY <1>1, <1>2, <2>1, <2>2 DEF IsSheet
  <2>4. doc = b[m]
    BY <1>1, <1>2, <2>3, SheetExt
  <2>5. QED
    BY <2>4 DEF doc
<1>4. QED
  BY <1>2, <1>3 DEF doc

(* One payout posted to such a bundle, for somebody active.                *)
PostedAll(b, i, r, t, c) ==
  /\ IsBundle(c) /\ DOMAIN c = DOMAIN b /\ InLine(c, r)
  /\ \A m \in DOMAIN b :
       /\ c[m].locked = b[m].locked
       /\ \A e : e \in DOMAIN c[m].rows <=> e \in DOMAIN b[m].rows \/ (m = t /\ e = i.emp)
       /\ \A e \in DOMAIN b[m].rows : m # t \/ e # i.emp => c[m].rows[e] = b[m].rows[e]
  /\ i.emp \in DOMAIN b[t].rows =>
       /\ c[t].rows[i.emp].basic = b[t].rows[i.emp].basic
       /\ c[t].rows[i.emp].extra = b[t].rows[i.emp].extra
       /\ c[t].rows[i.emp].pays = b[t].rows[i.emp].pays \cup {Payout(i)}
  /\ i.emp \notin DOMAIN b[t].rows =>
       /\ c[t].rows[i.emp].basic = r[i.emp].basic
       /\ c[t].rows[i.emp].extra = 0
       /\ c[t].rows[i.emp].pays = {Payout(i)}

LEMMA PostedInLine ==
  ASSUME NEW b, IsBundle(b), NEW i \in StaffLine, NEW r, IsRoster(r), InLine(b, r), i.emp \in Active(r),
         TargetMonth(b, i) \in DOMAIN b
  PROVE  PostedAll(b, i, r, TargetMonth(b, i), PostPayout(b, i, r))
<1> DEFINE t == TargetMonth(b, i)
           c == PostPayout(b, i, r)
           doc == ensureMonthDoc(b, t, r)
<1>1. PostedTo(b, i, r, t, c, doc)
  BY Posted
<1>2. t \in DOMAIN b /\ doc = b[t]
  BY InLineEnsured
<1>3. i.emp \in DOMAIN r
  BY DEF Active
<1> HIDE DEF t, c, doc
<1>4. DOMAIN c = DOMAIN b /\ IsBundle(c)
  BY <1>1, <1>2 DEF PostedTo
<1>5. ASSUME NEW m \in DOMAIN b
      PROVE  /\ c[m].locked = b[m].locked
             /\ \A e : e \in DOMAIN c[m].rows <=> e \in DOMAIN b[m].rows \/ (m = t /\ e = i.emp)
             /\ \A e \in DOMAIN b[m].rows : m # t \/ e # i.emp => c[m].rows[e] = b[m].rows[e]
  <2>1. CASE m # t
    <3>1. c[m] = b[m]
      BY <1>1, <2>1 DEF PostedTo
    <3>2. QED
      BY <2>1, <3>1
  <2>2. CASE m = t
    BY <1>1, <1>2, <1>3, <2>2 DEF PostedTo
  <2>3. QED
    BY <2>1, <2>2
<1>6. /\ i.emp \in DOMAIN b[t].rows =>
           /\ c[t].rows[i.emp].basic = b[t].rows[i.emp].basic
           /\ c[t].rows[i.emp].extra = b[t].rows[i.emp].extra
           /\ c[t].rows[i.emp].pays = b[t].rows[i.emp].pays \cup {Payout(i)}
      /\ i.emp \notin DOMAIN b[t].rows =>
           /\ c[t].rows[i.emp].basic = r[i.emp].basic
           /\ c[t].rows[i.emp].extra = 0
           /\ c[t].rows[i.emp].pays = {Payout(i)}
  BY <1>1, <1>2, <1>3 DEF PostedTo
<1>7. InLine(c, r)
  <2>1. SUFFICES ASSUME NEW m \in DOMAIN c, ~c[m].locked, Active(r) # {}
                 PROVE  /\ DOMAIN c[m].rows = Active(r)
                        /\ \A e \in Active(r) : c[m].rows[e].basic = r[e].basic
    BY DEF InLine
  <2>2. m \in DOMAIN b /\ ~b[m].locked
    BY <1>4, <1>5, <2>1
  <2>3. DOMAIN b[m].rows = Active(r) /\ \A e \in Active(r) : b[m].rows[e].basic = r[e].basic
    BY <2>1, <2>2 DEF InLine
  <2>4. DOMAIN c[m].rows = Active(r)
    BY <1>5, <2>2, <2>3
  <2>5. ASSUME NEW e \in Active(r) PROVE c[m].rows[e].basic = r[e].basic
    <3>1. CASE m = t /\ e = i.emp
      BY <1>6, <2>3, <3>1
    <3>2. CASE m # t \/ e # i.emp
      BY <1>5, <2>2, <2>3, <3>2
    <3>3. QED
      BY <3>1, <3>2
  <2>6. QED
    BY <2>4, <2>5
<1>8. PostedAll(b, i, r, t, c)
  BY <1>4, <1>5, <1>6, <1>7 DEF PostedAll
<1>9. QED
  BY <1>8 DEF t, c

LEMMA ClearedInLine ==
  ASSUME NEW b, IsBundle(b), NEW staff \in SUBSET StaffLine, NEW r, IsRoster(r)
  PROVE  InLine(Cleared(b, staff, r), r)
<1> DEFINE c == Cleared(b, staff, r)
<1>1. IsBundle(c) /\ \A m \in DOMAIN c : c[m] = clearAllRowPayments(ensureMonthDoc(b, m, r))
  BY ClearedIs
<1> HIDE DEF c
<1>2. SUFFICES ASSUME NEW m \in DOMAIN c, ~c[m].locked, Active(r) # {}
               PROVE  /\ DOMAIN c[m].rows = Active(r)
                      /\ \A e \in Active(r) : c[m].rows[e].basic = r[e].basic
  BY DEF InLine, c
<1> DEFINE doc == ensureMonthDoc(b, m, r)
<1>3. m \in Months
  BY <1>1 DEF IsBundle
<1>4. IsSheet(doc)
      /\ (~doc.locked /\ Active(r) # {} =>
            DOMAIN doc.rows = Active(r) /\ \A k \in Active(r) : doc.rows[k].basic = r[k].basic)
  BY <1>3, Ensured
<1>5. c[m] = clearAllRowPayments(doc)
  BY <1>1
<1> HIDE DEF doc
<1>6. /\ c[m].locked = doc.locked /\ DOMAIN c[m].rows = DOMAIN doc.rows
      /\ \A e \in DOMAIN doc.rows : c[m].rows[e].basic = doc.rows[e].basic
  BY <1>4, <1>5, NoPays
<1>7. QED
  BY <1>2, <1>4, <1>6

-----------------------------------------------------------------------------
(* A rebuild from lines of active employees only.                          *)
Orderly(S, r) ==
  /\ \A i \in S : i.emp \in Active(r)
  /\ \A i, j \in S : i.day = j.day /\ i.line = j.line => i = j

(* Rows only come, with the roster's salary, to those that were there.     *)
Grown(c, d, r) ==
  /\ DOMAIN d = DOMAIN c
  /\ \A m \in DOMAIN c :
       /\ d[m].locked = c[m].locked
       /\ \A e \in DOMAIN c[m].rows :
            /\ e \in DOMAIN d[m].rows
            /\ d[m].rows[e].basic = c[m].rows[e].basic /\ d[m].rows[e].extra = c[m].rows[e].extra
       /\ \A e \in DOMAIN d[m].rows : e \notin DOMAIN c[m].rows =>
            e \in Active(r) /\ d[m].rows[e].basic = r[e].basic /\ d[m].rows[e].extra = 0

LEMMA RebuildInLine ==
  ASSUME NEW g, NEW b, NEW S, NEW r, Rebuilding(g, b, S, r), Orderly(S, r)
  PROVE  \A T \in SUBSET S : InLine(g[T], r) /\ Grown(Cleared(b, S, r), g[T], r)
<1> DEFINE c == Cleared(b, S, r)
           G == {T \in SUBSET S : InLine(g[T], r) /\ Grown(c, g[T], r)}
<1>1. ASSUME NEW T \in SUBSET S, \A x \in T : T \ {x} \in G
      PROVE  T \in G
  <2>1. CASE T = {}
    <3>1. g[T] = c /\ InLine(c, r)
      BY <2>1, ClearedInLine DEF Rebuilding, IsRebuild
    <3>2. Grown(c, c, r)
      <4> HIDE DEF c
      <4>1. QED
        BY DEF Grown
    <3>3. QED
      BY <3>1, <3>2
  <2>2. CASE T # {}
    <3> DEFINE i == LastOf(T)
               U == T \ {i}
               t == TargetMonth(g[U], i)
    <3>1. /\ i \in T /\ i \in StaffLine /\ U \in SUBSET S /\ IsBundle(g[U]) /\ IsRoster(r)
          /\ t \in DOMAIN g[U] /\ g[T] = PostPayout(g[U], i, r)
      BY <2>2, RebuildStep
    <3>2. InLine(g[U], r) /\ Grown(c, g[U], r) /\ i.emp \in Active(r)
      BY <1>1, <3>1 DEF Orderly
    <3>3. PostedAll(g[U], i, r, t, g[T])
      <4> HIDE DEF i, U
      <4>1. QED
        BY <3>1, <3>2, PostedInLine
    <3> HIDE DEF i, U, t, c
    <3>4. InLine(g[T], r) /\ DOMAIN g[T] = DOMAIN g[U] /\ DOMAIN g[U] = DOMAIN c
      BY <3>2, <3>3 DEF PostedAll, Grown
    <3>5. ASSUME NEW m \in DOMAIN c
          PROVE  /\ g[T][m].locked = c[m].locked
                 /\ \A e \in DOMAIN c[m].rows :
                      /\ e \in DOMAIN g[T][m].rows
                      /\ g[T][m].rows[e].basic = c[m].rows[e].basic
                      /\ g[T][m].rows[e].extra = c[m].rows[e].extra
                 /\ \A e \in DOMAIN g[T][m].rows : e \notin DOMAIN c[m].rows =>
                      e \in Active(r) /\ g[T][m].rows[e].basic = r[e].basic /\ g[T][m].rows[e].extra = 0
      <4>1. m \in DOMAIN g[U]
        BY <3>4
      <4>2. /\ g[U][m].locked = c[m].locked
            /\ \A e \in DOMAIN c[m].rows :
                 /\ e \in DOMAIN g[U][m].rows
                 /\ g[U][m].rows[e].basic = c[m].rows[e].basic
                 /\ g[U][m].rows[e].extra = c[m].rows[e].extra
            /\ \A e \in DOMAIN g[U][m].rows : e \notin DOMAIN c[m].rows =>
                 e \in Active(r) /\ g[U][m].rows[e].basic = r[e].basic /\ g[U][m].rows[e].extra = 0
        BY <3>2 DEF Grown
      <4>3. /\ g[T][m].locked = g[U][m].locked
            /\ \A e : e \in DOMAIN g[T][m].rows <=> e \in DOMAIN g[U][m].rows \/ (m = t /\ e = i.emp)
            /\ \A e \in DOMAIN g[U][m].rows : m # t \/ e # i.emp => g[T][m].rows[e] = g[U][m].rows[e]
        BY <3>3, <4>1 DEF PostedAll
      <4>4. \A e \in DOMAIN g[U][m].rows : /\ g[T][m].rows[e].basic = g[U][m].rows[e].basic
                                           /\ g[T][m].rows[e].extra = g[U][m].rows[e].extra
        <5>1. SUFFICES ASSUME NEW e \in DOMAIN g[U][m].rows
                       PROVE  /\ g[T][m].rows[e].basic = g[U][m].rows[e].basic
                              /\ g[T][m].rows[e].extra = g[U][m].rows[e].extra
          OBVIOUS
        <5>2. CASE m = t /\ e = i.emp
          BY <3>3, <5>2 DEF PostedAll
        <5>3. CASE m # t \/ e # i.emp
          BY <4>3, <5>3
        <5>4. QED
          BY <5>2, <5>3
      <4>5. \A e \in DOMAIN g[T][m].rows : e \notin DOMAIN g[U][m].rows =>
              e \in Active(r) /\ g[T][m].rows[e].basic = r[e].basic /\ g[T][m].rows[e].extra = 0
        <5>1. SUFFICES ASSUME NEW e \in DOMAIN g[T][m].rows, e \notin DOMAIN g[U][m].rows
                       PROVE  e \in Active(r) /\ g[T][m].rows[e].basic = r[e].basic
                              /\ g[T][m].rows[e].extra = 0
          OBVIOUS
        <5>2. m = t /\ e = i.emp
          BY <4>3, <5>1
        <5>3. QED
          BY <3>2, <3>3, <5>1, <5>2 DEF PostedAll
      <4>6. QED
        BY <4>2, <4>3, <4>4, <4>5
    <3>6. Grown(c, g[T], r)
      BY <3>4, <3>5 DEF Grown
    <3>7. QED
      BY <3>4, <3>6
  <2>3. QED
    BY <2>1, <2>2
<1>2. SUBSET S \subseteq G
  <2> HIDE DEF G
  <2>1. QED
    BY <1>1, SubsetInduction DEF Rebuilding
<1>3. QED
  BY <1>2

LEMMA RebuildAll ==
  ASSUME NEW g, NEW b, NEW S, NEW r, Rebuilding(g, b, S, r), Orderly(S, r), NEW T \in SUBSET S, T # {}
  PROVE  LET i == LastOf(T)
             U == T \ {i}
         IN PostedAll(g[U], i, r, TargetMonth(g[U], i), g[T])
<1> DEFINE i == LastOf(T)
           U == T \ {i}
<1>1. /\ i \in T /\ i \in StaffLine /\ U \in SUBSET S /\ IsBundle(g[U]) /\ IsRoster(r)
      /\ TargetMonth(g[U], i) \in DOMAIN g[U] /\ g[T] = PostPayout(g[U], i, r)
  BY RebuildStep
<1>2. InLine(g[U], r) /\ i.emp \in Active(r)
  BY <1>1, RebuildInLine DEF Orderly
<1> HIDE DEF i, U
<1>3. PostedAll(g[U], i, r, TargetMonth(g[U], i), g[T])
  BY <1>1, <1>2, PostedInLine
<1>4. QED
  BY <1>3 DEF i, U

(* Items up to some point of the rebuild.                                  *)
Prefix(T, S) == T \in SUBSET S /\ \A i \in T, j \in S \ T : ~Before(j, i)

LEMMA PrefixLess ==
  ASSUME NEW S \in SUBSET StaffLine, IsFiniteSet(S), NEW T, Prefix(T, S), T # {}
  PROVE  /\ Prefix(T \ {LastOf(T)}, S)
         /\ \A j \in S \ (T \ {LastOf(T)}) : MonthOf(LastOf(T).day) <= MonthOf(j.day)
<1> DEFINE i == LastOf(T)
           U == T \ {i}
<1>1. i \in T /\ i \in StaffLine /\ \A j \in T : ~Before(i, j)
  <2>1. T \in SUBSET StaffLine /\ IsFiniteSet(T)
    BY FS_Subset DEF Prefix
  <2>2. QED
    BY <2>1, LastIsLast
<1> HIDE DEF i
<1>2. \A j \in S \ U : j \in S \ T \/ j = i
  OBVIOUS
<1>3. Prefix(U, S)
  BY <1>1, <1>2 DEF Prefix
<1>4. ASSUME NEW j \in S \ U PROVE MonthOf(i.day) <= MonthOf(j.day)
  <2>1. j \in StaffLine /\ ~Before(j, i)
    BY <1>1, <1>2 DEF Prefix
  <2>2. i.day <= j.day /\ i.day \in Days /\ j.day \in Days
    BY <1>1, <2>1, BeforeOrders DEF StaffLine
  <2>3. QED
    BY <2>2, MonthFacts
<1>5. QED
  BY <1>3, <1>4 DEF i

(* After a point of the rebuild rows come in the months of later staff.    *)
LEMMA RowsLate ==
  ASSUME NEW g, NEW b, NEW S, NEW r, Rebuilding(g, b, S, r), Orderly(S, r), NEW T, Prefix(T, S)
  PROVE  \A m \in DOMAIN g[S] : \A e :
           /\ e \in DOMAIN g[T][m].rows => e \in DOMAIN g[S][m].rows
           /\ e \in DOMAIN g[S][m].rows /\ e \notin DOMAIN g[T][m].rows =>
                \E j \in S \ T : MonthOf(j.day) = m
<1> DEFINE Late(U) == \A m \in DOMAIN g[U] : \A e :
                        /\ e \in DOMAIN g[T][m].rows => e \in DOMAIN g[U][m].rows
                        /\ e \in DOMAIN g[U][m].rows /\ e \notin DOMAIN g[T][m].rows =>
                             \E j \in U \ T : MonthOf(j.day) = m
           G == {U \in SUBSET S : T \subseteq U => Late(U)}
<1>1. ASSUME NEW U \in SUBSET S, \A x \in U : U \ {x} \in G
      PROVE  U \in G
  <2>1. SUFFICES ASSUME T \subseteq U PROVE Late(U)
    OBVIOUS
  <2>2. CASE U = T
    BY <2>2
  <2>3. CASE U # T
    <3> DEFINE i == LastOf(U)
               W == U \ {i}
               t == TargetMonth(g[W], i)
    <3>1. U # {}
      BY <2>1, <2>3
    <3>2. /\ i \in U /\ i \in StaffLine /\ W \in SUBSET S /\ IsBundle(g[W]) /\ \A j \in U : ~Before(i, j)
          /\ t \in DOMAIN g[W]
      BY <3>1, RebuildStep
    <3>3. PostedAll(g[W], i, r, t, g[U])
      BY <3>1, RebuildAll
    <3>4. i \notin T
      <4>1. SUFFICES ASSUME i \in T PROVE FALSE
        OBVIOUS
      <4>2. PICK j \in U \ T : TRUE
        BY <2>1, <2>3
      <4>3. ~Before(j, i) /\ ~Before(i, j) /\ i \in S /\ j \in S
        BY <3>2, <4>1, <4>2 DEF Prefix
      <4>4. j \in StaffLine
        BY <4>3 DEF Rebuilding
      <4> HIDE DEF i
      <4>5. i.day = j.day /\ i.line = j.line
        BY <3>2, <4>3, <4>4, BeforeOrders
      <4>6. i = j
        BY <4>3, <4>5 DEF Orderly
      <4>7. QED
        BY <4>1, <4>2, <4>6
    <3>5. T \subseteq W /\ W \in G
      BY <1>1, <2>1, <3>2, <3>4
    <3>6. Late(W)
      BY <3>5
    <3>7. t # MonthOf(i.day) => HasRow(g[W], t, i.emp)
      <4> HIDE DEF i, W
      <4>1. QED
        BY <3>2, TargetIs
    <3>8. i \in U \ T /\ W \subseteq U
      BY <3>2, <3>4
    <3> HIDE DEF i, W, t, G
    <3>9. SUFFICES ASSUME NEW m \in DOMAIN g[U], NEW e
                   PROVE  /\ e \in DOMAIN g[T][m].rows => e \in DOMAIN g[U][m].rows
                          /\ e \in DOMAIN g[U][m].rows /\ e \notin DOMAIN g[T][m].rows =>
                               \E j \in U \ T : MonthOf(j.day) = m
      OBVIOUS
    <3>10. m \in DOMAIN g[W] /\ (e \in DOMAIN g[U][m].rows <=> e \in DOMAIN g[W][m].rows \/ (m = t /\ e = i.emp))
      BY <3>3, <3>9 DEF PostedAll
    <3>13. e \in DOMAIN g[T][m].rows => e \in DOMAIN g[U][m].rows
      BY <3>6, <3>10
    <3>11. CASE e \in DOMAIN g[W][m].rows /\ e \notin DOMAIN g[T][m].rows
      <4>1. PICK j \in W \ T : MonthOf(j.day) = m
        BY <3>6, <3>10, <3>11
      <4>2. QED
        BY <3>8, <3>13, <4>1
    <3>12. CASE e \in DOMAIN g[U][m].rows /\ e \notin DOMAIN g[W][m].rows
      <4>1. m = t /\ e = i.emp /\ ~HasRow(g[W], t, i.emp)
        BY <3>10, <3>12 DEF HasRow
      <4>2. m = MonthOf(i.day)
        BY <3>7, <4>1
      <4>3. QED
        BY <3>8, <3>13, <4>2
    <3>14. QED
      BY <3>11, <3>12, <3>13
  <2>4. QED
    BY <2>2, <2>3
<1>2. SUBSET S \subseteq G
  <2> HIDE DEF G
  <2>1. QED
    BY <1>1, SubsetInduction DEF Rebuilding
<1>3. S \in G /\ T \subseteq S
  BY <1>2 DEF Prefix
<1>4. QED
  BY <1>3

(* The same payout goes to the same month in two bundles that agree about  *)
(* its employee before its own month.                                      *)
LEMMA SameTarget ==
  ASSUME NEW b, IsBundle(b), NEW c, IsBundle(c), NEW i \in StaffLine,
         \A k \in Months : k < MonthOf(i.day) => /\ Payable(c, k, i.emp) = Payable(b, k, i.emp)
                                                 /\ Paid(c, k, i.emp, Manual) = Paid(b, k, i.emp, Manual)
  PROVE  TargetMonth(c, i) = TargetMonth(b, i)
<1> DEFINE e == i.emp
           own == MonthOf(i.day)
           s == TargetMonth(b, i)
           t == TargetMonth(c, i)
           x == StillOwed(b, e, Manual)
           y == StillOwed(c, e, Manual)
<1>1. /\ own \in Months /\ s \in Months /\ s <= own
      /\ ~i.advance => \A k \in Months : k < s => x[k] = 0
      /\ i.advance => s = own
      /\ ~i.advance => \/ x[s] > 0
                       \/ s = own /\ \A k \in Months : k <= own => x[k] = 0
  BY TargetIs
<1>2. /\ t \in Months /\ t <= own
      /\ ~i.advance => \A k \in Months : k < t => y[k] = 0
      /\ i.advance => t = own
      /\ ~i.advance => \/ y[t] > 0
                       \/ t = own /\ \A k \in Months : k <= own => y[k] = 0
  BY TargetIs
<1>3. Months = 1 .. LastMonth /\ LastMonth \in Nat
  BY MonthFacts
<1>4. \A k \in Months : k < own => x[k] = y[k] /\ x[k] \in Nat
  <2> DEFINE n == own - 1
  <2>1. n \in Nat /\ n <= LastMonth /\ \A k \in Months : k < own <=> k <= n
    BY <1>1, <1>3
  <2>2. \A k \in Months : k <= n =>
          /\ Payable(c, k, e) = Payable(b, k, e)
          /\ Paid(c, k, e, Manual) = Paid(b, k, e, Manual)
          /\ Paid(c, k, e, Manual) \in Nat /\ Paid(b, k, e, Manual) \in Nat
    BY <2>1, PayNat
  <2> HIDE DEF n, e
  <2>3. \A k \in Months : k <= n => StillOwed(c, e, Manual)[k] <= StillOwed(b, e, Manual)[k]
    <3>1. \A k \in Months : k <= n => /\ Payable(c, k, e) = Payable(b, k, e)
                                      /\ Paid(c, k, e, Manual) >= Paid(b, k, e, Manual)
      BY <2>2
    <3>2. QED
      BY <2>1, <3>1, OwedDown
  <2>4. \A k \in Months : k <= n => StillOwed(b, e, Manual)[k] <= StillOwed(c, e, Manual)[k]
    <3>1. \A k \in Months : k <= n => /\ Payable(b, k, e) = Payable(c, k, e)
                                      /\ Paid(b, k, e, Manual) >= Paid(c, k, e, Manual)
      BY <2>2
    <3>2. QED
      BY <2>1, <3>1, OwedDown
  <2>5. \A k \in Months : x[k] \in Nat /\ y[k] \in Nat
    BY OwedIs
  <2> HIDE DEF x, y
  <2>6. \A k \in Months : k <= n => x[k] <= y[k] /\ y[k] <= x[k]
    BY <2>3, <2>4 DEF x, y
  <2>7. QED
    BY <2>1, <2>5, <2>6
<1> HIDE DEF own, s, t, x, y
<1>5. CASE i.advance
  BY <1>1, <1>2, <1>5 DEF s, t
<1>6. CASE ~i.advance
  <2>1. ASSUME s < t PROVE FALSE
    <3>1. s < own /\ y[s] = 0
      BY <1>1, <1>2, <1>3, <1>6, <2>1
    <3>2. x[s] > 0
      BY <1>1, <1>3, <1>6, <3>1
    <3>3. QED
      BY <1>1, <1>4, <3>1, <3>2
  <2>2. ASSUME t < s PROVE FALSE
    <3>1. t < own /\ x[t] = 0
      BY <1>1, <1>2, <1>3, <1>6, <2>2
    <3>2. y[t] > 0
      BY <1>2, <1>3, <1>6, <3>1
    <3>3. QED
      BY <1>2, <1>4, <3>1, <3>2
  <2>3. s \in Nat /\ t \in Nat
    BY <1>1, <1>2, <1>3
  <2>4. QED
    BY <2>1, <2>2, <2>3 DEF s, t
<1>7. QED
  BY <1>5, <1>6, <1>1 DEF s, t

(* Where two rebuilds from the same staff are at the same point: c of the  *)
(* registers as they were, d of the registers last that the first made.    *)
Alike(c, d, last, r) ==
  /\ DOMAIN c = DOMAIN last /\ DOMAIN d = DOMAIN last
  /\ \A m \in DOMAIN last :
       /\ d[m].locked = c[m].locked
       /\ DOMAIN d[m].rows = DOMAIN last[m].rows
       /\ \A e \in DOMAIN c[m].rows : e \in DOMAIN last[m].rows /\ d[m].rows[e] = c[m].rows[e]
       /\ \A e \in DOMAIN last[m].rows : e \notin DOMAIN c[m].rows =>
            d[m].rows[e].basic = r[e].basic /\ d[m].rows[e].extra = 0 /\ d[m].rows[e].pays = {}

LEMMA RowIn ==
  ASSUME NEW b, IsBundle(b), NEW m \in DOMAIN b, NEW e \in DOMAIN b[m].rows
  PROVE  b[m].rows[e] \in RegisterRow
BY DEF IsBundle, IsSheet

LEMMA ClearedAlike ==
  ASSUME NEW g, NEW b, NEW S, NEW r, Rebuilding(g, b, S, r), Orderly(S, r)
  PROVE  Alike(Cleared(b, S, r), Cleared(g[S], S, r), g[S], r)
<1> DEFINE c == Cleared(b, S, r)
           last == g[S]
           d == Cleared(last, S, r)
<1>1. /\ IsBundle(b) /\ S \in SUBSET StaffLine /\ IsRoster(r) /\ S \in SUBSET S
  BY DEF Rebuilding
<1>2. IsBundle(last) /\ DOMAIN last = DOMAIN b \cup MonthsOf(S)
  BY <1>1, RebuildTidy
<1>3. InLine(last, r) /\ Grown(c, last, r)
  BY <1>1, RebuildInLine
<1>4. IsBundle(c) /\ \A m, e : Pays(c, m, e) = {}
  BY <1>1, ClearedIs, ClearedTidy
<1> HIDE DEF last, c
<1>5. IsBundle(d) /\ DOMAIN d = DOMAIN last \cup MonthsOf(S)
      /\ \A m \in DOMAIN d : d[m] = clearAllRowPayments(ensureMonthDoc(last, m, r))
  BY <1>1, <1>2, ClearedIs
<1> HIDE DEF d
<1>6. DOMAIN d = DOMAIN last /\ DOMAIN c = DOMAIN last
  BY <1>2, <1>3, <1>5 DEF Grown
<1>7. ASSUME NEW m \in DOMAIN last
      PROVE  /\ d[m].locked = c[m].locked
             /\ DOMAIN d[m].rows = DOMAIN last[m].rows
             /\ \A e \in DOMAIN c[m].rows : e \in DOMAIN last[m].rows /\ d[m].rows[e] = c[m].rows[e]
             /\ \A e \in DOMAIN last[m].rows : e \notin DOMAIN c[m].rows =>
                  d[m].rows[e].basic = r[e].basic /\ d[m].rows[e].extra = 0 /\ d[m].rows[e].pays = {}
  <2>1. ensureMonthDoc(last, m, r) = last[m] /\ IsSheet(last[m])
    BY <1>1, <1>2, <1>3, InLineEnsured DEF IsBundle
  <2>2. d[m] = clearAllRowPayments(last[m])
    BY <1>5, <1>6, <2>1
  <2>3. /\ d[m].locked = last[m].locked /\ DOMAIN d[m].rows = DOMAIN last[m].rows
        /\ \A e \in DOMAIN last[m].rows :
             /\ d[m].rows[e].basic = last[m].rows[e].basic /\ d[m].rows[e].extra = last[m].rows[e].extra
             /\ d[m].rows[e].pays = {}
    BY <2>1, <2>2, NoPays
  <2>4. /\ last[m].locked = c[m].locked
        /\ \A e \in DOMAIN c[m].rows :
             /\ e \in DOMAIN last[m].rows
             /\ last[m].rows[e].basic = c[m].rows[e].basic /\ last[m].rows[e].extra = c[m].rows[e].extra
        /\ \A e \in DOMAIN last[m].rows : e \notin DOMAIN c[m].rows =>
             last[m].rows[e].basic = r[e].basic /\ last[m].rows[e].extra = 0
    BY <1>3, <1>6 DEF Grown
  <2>5. ASSUME NEW e \in DOMAIN c[m].rows PROVE d[m].rows[e] = c[m].rows[e]
    <3>1. c[m].rows[e] \in RegisterRow /\ d[m].rows[e] \in RegisterRow
      BY <1>4, <1>5, <1>6, <2>3, <2>4, RowIn
    <3>2. c[m].rows[e].pays = {}
      BY <1>4, <1>6 DEF Pays, HasRow
    <3>3. QED
      BY <2>3, <2>4, <3>1, <3>2, RowExt
  <2>6. QED
    BY <2>3, <2>4, <2>5
<1>8. Alike(c, d, last, r)
  BY <1>6, <1>7 DEF Alike
<1>9. QED
  BY <1>8 DEF c, d, last

(* Both take the next payout to the same month.                            *)
LEMMA AlikeTarget ==
  ASSUME NEW c, IsBundle(c), NEW d, IsBundle(d), NEW last, NEW r, Alike(c, d, last, r), NEW i \in StaffLine,
         \A k \in DOMAIN last : k < MonthOf(i.day) =>
            \A e \in DOMAIN last[k].rows : e \in DOMAIN c[k].rows
  PROVE  TargetMonth(d, i) = TargetMonth(c, i)
<1>1. ASSUME NEW k \in Months, k < MonthOf(i.day)
      PROVE  /\ Payable(d, k, i.emp) = Payable(c, k, i.emp)
             /\ Paid(d, k, i.emp, Manual) = Paid(c, k, i.emp, Manual)
  <2>1. HasRow(d, k, i.emp) <=> HasRow(c, k, i.emp)
    BY <1>1 DEF Alike, HasRow
  <2>2. HasRow(c, k, i.emp) => d[k].rows[i.emp] = c[k].rows[i.emp]
    BY DEF Alike, HasRow
  <2>3. QED
    BY <2>1, <2>2 DEF Payable, Paid
<1>2. QED
  BY <1>1, SameTarget

(* And stay alike.                                                         *)
LEMMA AlikePosted ==
  ASSUME NEW b, NEW c, NEW d, NEW f, NEW last, NEW i \in StaffLine, NEW r, NEW t,
         Alike(b, c, last, r), PostedAll(b, i, r, t, d), PostedAll(c, i, r, t, f), IsBundle(last),
         t \in DOMAIN last, i.emp \in DOMAIN last[t].rows
  PROVE  Alike(d, f, last, r)
<1>1. DOMAIN d = DOMAIN last /\ DOMAIN f = DOMAIN last /\ DOMAIN b = DOMAIN last /\ DOMAIN c = DOMAIN last
  BY DEF Alike, PostedAll
<1>2. IsBundle(d) /\ IsBundle(f)
  BY DEF PostedAll
<1>3. ASSUME NEW m \in DOMAIN last
      PROVE  /\ f[m].locked = d[m].locked
             /\ DOMAIN f[m].rows = DOMAIN last[m].rows
             /\ \A e \in DOMAIN d[m].rows : e \in DOMAIN last[m].rows /\ f[m].rows[e] = d[m].rows[e]
             /\ \A e \in DOMAIN last[m].rows : e \notin DOMAIN d[m].rows =>
                  f[m].rows[e].basic = r[e].basic /\ f[m].rows[e].extra = 0 /\ f[m].rows[e].pays = {}
  <2>1. /\ c[m].locked = b[m].locked
        /\ DOMAIN c[m].rows = DOMAIN last[m].rows
        /\ \A e \in DOMAIN b[m].rows : e \in DOMAIN last[m].rows /\ c[m].rows[e] = b[m].rows[e]
        /\ \A e \in DOMAIN last[m].rows : e \notin DOMAIN b[m].rows =>
             c[m].rows[e].basic = r[e].basic /\ c[m].rows[e].extra = 0 /\ c[m].rows[e].pays = {}
    BY DEF Alike
  <2>2. /\ d[m].locked = b[m].locked
        /\ \A e : e \in DOMAIN d[m].rows <=> e \in DOMAIN b[m].rows \/ (m = t /\ e = i.emp)
        /\ \A e \in DOMAIN b[m].rows : m # t \/ e # i.emp => d[m].rows[e] = b[m].rows[e]
    BY <1>1 DEF PostedAll
  <2>3. /\ f[m].locked = c[m].locked
        /\ \A e : e \in DOMAIN f[m].rows <=> e \in DOMAIN c[m].rows \/ (m = t /\ e = i.emp)
        /\ \A e \in DOMAIN c[m].rows : m # t \/ e # i.emp => f[m].rows[e] = c[m].rows[e]
    BY <1>1 DEF PostedAll
  <2>4. \A e : e \in DOMAIN f[m].rows <=> e \in DOMAIN last[m].rows
    BY <2>1, <2>3
  <2>5. ASSUME NEW e \in DOMAIN d[m].rows
        PROVE  e \in DOMAIN last[m].rows /\ f[m].rows[e] = d[m].rows[e]
    <3>1. CASE m # t \/ e # i.emp
      BY <2>1, <2>2, <2>3, <3>1
    <3>2. CASE m = t /\ e = i.emp
      <4>1. e \in DOMAIN last[m].rows
        BY <3>2
      <4>2. f[m].rows[e] \in RegisterRow /\ d[m].rows[e] \in RegisterRow
        BY <1>1, <1>2, <2>4, <4>1, RowIn
      <4>3. /\ f[m].rows[e].basic = c[m].rows[e].basic /\ f[m].rows[e].extra = c[m].rows[e].extra
            /\ f[m].rows[e].pays = c[m].rows[e].pays \cup {Payout(i)}
        BY <2>1, <3>2, <4>1 DEF PostedAll
      <4>4. CASE e \in DOMAIN b[m].rows
        <5>1. /\ d[m].rows[e].basic = b[m].rows[e].basic /\ d[m].rows[e].extra = b[m].rows[e].extra
              /\ d[m].rows[e].pays = b[m].rows[e].pays \cup {Payout(i)}
          BY <3>2, <4>4 DEF PostedAll
        <5>2. c[m].rows[e] = b[m].rows[e]
          BY <2>1, <4>4
        <5>3. QED
          BY <4>1, <4>2, <4>3, <5>1, <5>2, RowExt
      <4>5. CASE e \notin DOMAIN b[m].rows
        <5>1. /\ d[m].rows[e].basic = r[e].basic /\ d[m].rows[e].extra = 0
              /\ d[m].rows[e].pays = {Payout(i)}
          BY <3>2, <4>5 DEF PostedAll
        <5>2. c[m].rows[e].basic = r[e].basic /\ c[m].rows[e].extra = 0 /\ c[m].rows[e].pays = {}
          BY <2>1, <4>1, <4>5
        <5>3. f[m].rows[e].pays = d[m].rows[e].pays
          BY <4>3, <5>1, <5>2
        <5>4. QED
          BY <4>1, <4>2, <4>3, <5>1, <5>2, <5>3, RowExt
      <4>6. QED
        BY <4>4, <4>5
    <3>3. QED
      BY <3>1, <3>2
  <2>6. ASSUME NEW e \in DOMAIN last[m].rows, e \notin DOMAIN d[m].rows
        PROVE  f[m].rows[e].basic = r[e].basic /\ f[m].rows[e].extra = 0 /\ f[m].rows[e].pays = {}
    <3>1. e \notin DOMAIN b[m].rows /\ (m # t \/ e # i.emp)
      BY <2>2, <2>6
    <3>2. f[m].rows[e] = c[m].rows[e]
      BY <2>1, <2>3, <3>1
    <3>3. QED
      BY <2>1, <3>1, <3>2
  <2>7. DOMAIN f[m].rows = DOMAIN last[m].rows
    BY <2>4
  <2>8. QED
    BY <2>1, <2>2, <2>3, <2>5, <2>6, <2>7
<1>4. QED
  BY <1>1, <1>3 DEF Alike

(* Two rebuilds, the second of what the first made, stay alike.            *)
LEMMA AlikeThroughout ==
  ASSUME NEW g, NEW h, NEW b, NEW S, NEW r, Rebuilding(g, b, S, r), Rebuilding(h, g[S], S, r), Orderly(S, r)
  PROVE  \A T \in SUBSET S : Prefix(T, S) => Alike(g[T], h[T], g[S], r)
<1> DEFINE last == g[S]
           G == {T \in SUBSET S : Prefix(T, S) => Alike(g[T], h[T], last, r)}
<1>1. ASSUME NEW T \in SUBSET S, \A x \in T : T \ {x} \in G
      PROVE  T \in G
  <2>1. SUFFICES ASSUME Prefix(T, S) PROVE Alike(g[T], h[T], last, r)
    OBVIOUS
  <2>2. CASE T = {}
    <3>1. g[{}] = Cleared(b, S, r) /\ h[{}] = Cleared(last, S, r)
      BY DEF Rebuilding, IsRebuild
    <3>2. Alike(Cleared(b, S, r), Cleared(last, S, r), last, r)
      BY ClearedAlike
    <3> HIDE DEF last
    <3>3. QED
      BY <2>2, <3>1, <3>2
  <2>3. CASE T # {}
    <3> DEFINE i == LastOf(T)
               U == T \ {i}
               t == TargetMonth(g[U], i)
               s == TargetMonth(h[U], i)
    <3>1. i \in T /\ i \in StaffLine /\ U \in SUBSET S /\ IsBundle(g[U]) /\ t \in DOMAIN g[U]
      BY <2>3, RebuildStep
    <3>2. IsBundle(h[U])
      BY <2>3, RebuildStep
    <3>3. PostedAll(g[U], i, r, t, g[T])
      BY <2>3, RebuildAll
    <3>4. PostedAll(h[U], i, r, s, h[T])
      BY <2>3, RebuildAll
    <3>5. Prefix(U, S) /\ \A j \in S \ U : MonthOf(i.day) <= MonthOf(j.day)
      BY <2>1, <2>3, PrefixLess DEF Rebuilding
    <3>6. Alike(g[U], h[U], last, r)
      BY <1>1, <3>1, <3>5
    <3>7. \A m \in DOMAIN last : \A e : /\ e \in DOMAIN g[U][m].rows => e \in DOMAIN last[m].rows
                                        /\ e \in DOMAIN last[m].rows /\ e \notin DOMAIN g[U][m].rows =>
                                             \E j \in S \ U : MonthOf(j.day) = m
      <4> HIDE DEF U
      <4>1. QED
        BY <3>5, RowsLate
    <3>8. \A m \in DOMAIN last : \A e \in DOMAIN g[T][m].rows : e \in DOMAIN last[m].rows
      BY <2>1, RowsLate
    <3>9. IsBundle(last) /\ S \in SUBSET StaffLine
      BY RebuildTidy DEF Rebuilding
    <3> HIDE DEF i, U, t, s, last, G
    <3>10. \A k \in DOMAIN last : k < MonthOf(i.day) => \A e \in DOMAIN last[k].rows : e \in DOMAIN g[U][k].rows
      <4>1. SUFFICES ASSUME NEW k \in DOMAIN last, k < MonthOf(i.day), NEW e \in DOMAIN last[k].rows,
                            e \notin DOMAIN g[U][k].rows
                     PROVE  FALSE
        OBVIOUS
      <4>2. PICK j \in S \ U : MonthOf(j.day) = k
        BY <3>7, <4>1
      <4>3. MonthOf(i.day) <= k /\ k \in Months /\ MonthOf(i.day) \in Months
        BY <3>1, <3>5, <3>9, <4>2, MonthFacts DEF StaffLine
      <4>4. k \in Int /\ MonthOf(i.day) \in Int
        BY <4>3, MonthFacts
      <4>5. QED
        BY <4>1, <4>3, <4>4
    <3>11. s = t
      BY <3>1, <3>2, <3>6, <3>10, AlikeTarget DEF s, t
    <3>12. t \in DOMAIN last /\ i.emp \in DOMAIN last[t].rows
      <4>1. t \in DOMAIN last
        BY <3>1, <3>6 DEF Alike
      <4>2. i.emp \in DOMAIN g[T][t].rows
        BY <3>1, <3>3 DEF PostedAll
      <4>3. QED
        BY <3>8, <4>1, <4>2
    <3>13. PostedAll(h[U], i, r, t, h[T])
      BY <3>4, <3>11
    <3>14. Alike(g[T], h[T], last, r)
      BY <3>1, <3>3, <3>6, <3>9, <3>12, <3>13, AlikePosted
    <3>15. QED
      BY <3>14 DEF last
  <2>4. QED
    BY <2>2, <2>3
<1>2. SUBSET S \subseteq G
  <2> HIDE DEF G
  <2>1. QED
    BY <1>1, SubsetInduction DEF Rebuilding
<1>3. QED
  BY <1>2

LEMMA BundleExt ==
  ASSUME NEW c, IsBundle(c), NEW d, IsBundle(d), DOMAIN c = DOMAIN d, \A m \in DOMAIN d : c[m] = d[m]
  PROVE  c = d
BY DEF IsBundle

LEMMA AlikeSame ==
  ASSUME NEW last, IsBundle(last), NEW d, IsBundle(d), NEW r, Alike(last, d, last, r)
  PROVE  d = last
<1>1. DOMAIN d = DOMAIN last
  BY DEF Alike
<1>2. ASSUME NEW m \in DOMAIN last PROVE d[m] = last[m]
  <2>1. IsSheet(d[m]) /\ IsSheet(last[m])
    BY <1>1 DEF IsBundle
  <2>2. /\ d[m].locked = last[m].locked /\ DOMAIN d[m].rows = DOMAIN last[m].rows
        /\ \A e \in DOMAIN last[m].rows : d[m].rows[e] = last[m].rows[e]
    BY DEF Alike
  <2>3. d[m].rows = last[m].rows
    BY <2>1, <2>2 DEF IsSheet
  <2>4. QED
    BY <2>1, <2>2, <2>3, SheetExt
<1>3. QED
  BY <1>1, <1>2, BundleExt

(* A rebuild of what a rebuild made changes nothing.                       *)
LEMMA RebuiltTwice ==
  ASSUME NEW b, IsBundle(b), NEW lines, Lined(lines), NEW r, IsRoster(r), Orderly(StaffLines(lines), r)
  PROVE  reconcileSalaryMonthFromDailyMap(reconcileSalaryMonthFromDailyMap(b, lines, r), lines, r)
         = reconcileSalaryMonthFromDailyMap(b, lines, r)
<1> DEFINE S == StaffLines(lines)
           last == reconcileSalaryMonthFromDailyMap(b, lines, r)
<1>1. S \in SUBSET StaffLine /\ IsFiniteSet(S) /\ S \in SUBSET S
  BY StaffLinesAre
<1>2. PICK g : IsRebuild(g, b, S, r) /\ last = g[S]
  BY Rebuilds
<1>3. Rebuilding(g, b, S, r)
  BY <1>1, <1>2 DEF Rebuilding
<1>4. IsBundle(last)
  BY <1>1, <1>2 DEF IsRebuild
<1>5. PICK h : IsRebuild(h, last, S, r) /\ reconcileSalaryMonthFromDailyMap(last, lines, r) = h[S]
  <2> HIDE DEF last
  <2>1. QED
    BY <1>4, Rebuilds
<1> HIDE DEF S
<1>6. Rebuilding(h, g[S], S, r)
  BY <1>1, <1>2, <1>3, <1>4, <1>5 DEF Rebuilding
<1>7. Prefix(S, S)
  BY DEF Prefix
<1>8. Orderly(S, r)
  BY DEF S
<1>9. Alike(g[S], h[S], g[S], r)
  BY <1>1, <1>3, <1>6, <1>7, <1>8, AlikeThroughout
<1>10. IsBundle(h[S]) /\ IsBundle(g[S])
  BY <1>1, <1>3, <1>6 DEF Rebuilding, IsRebuild
<1>11. h[S] = g[S]
  BY <1>9, <1>10, AlikeSame
<1>12. QED
  BY <1>2, <1>5, <1>11

LEMMA LinesTyped ==
  ASSUME NEW map, map \in [Days -> Day]
  PROVE  Lined(LinesOf(map))
<1>1. \A d \in Days : map[d].lines \in DayLines
  BY DEF Day
<1>2. QED
  BY <1>1 DEF Lined, LinesOf

LEMMA PlacedIs ==
  ASSUME NEW b, IsBundle(b), NEW e
  PROVE  /\ \A mp \in Placed(b, e) : mp[1] \in Months /\ mp[2] \in Pays(b, mp[1], e) /\ mp = <<mp[1], mp[2]>>
         /\ \A m \in Months : \A p \in Pays(b, m, e) : <<m, p>> \in Placed(b, e)
<1>1. ASSUME NEW mp \in Placed(b, e)
      PROVE  mp[1] \in Months /\ mp[2] \in Pays(b, mp[1], e) /\ mp = <<mp[1], mp[2]>>
  <2>1. /\ mp \in PaidIn(b, e) /\ mp[2] \in b[mp[1]].rows[e].pays
    BY DEF Placed
  <2>2. PICK m \in {k \in Months : HasRow(b, k, e)} :
          \E p \in UNION {b[k].rows[e].pays : k \in {j \in Months : HasRow(b, j, e)}} : mp = <<m, p>>
    BY <2>1 DEF PaidIn
  <2>3. mp[1] = m /\ mp = <<mp[1], mp[2]>>
    BY <2>2
  <2>4. QED
    BY <2>1, <2>2, <2>3 DEF Pays
<1>2. ASSUME NEW m \in Months, NEW p \in Pays(b, m, e)
      PROVE  <<m, p>> \in Placed(b, e)
  <2>1. HasRow(b, m, e) /\ p \in b[m].rows[e].pays
    BY DEF Pays
  <2>2. p \in UNION {b[k].rows[e].pays : k \in {j \in Months : HasRow(b, j, e)}}
    BY <2>1
  <2>3. <<m, p>> \in PaidIn(b, e)
    BY <2>1, <2>2 DEF PaidIn
  <2>4. <<m, p>>[1] = m /\ <<m, p>>[2] = p
    OBVIOUS
  <2> DEFINE mp == <<m, p>>
  <2>5. mp \in PaidIn(b, e) /\ mp[2] \in b[mp[1]].rows[e].pays
    BY <2>1, <2>3, <2>4
  <2> HIDE DEF mp
  <2>6. mp \in Placed(b, e)
    BY <2>5 DEF Placed
  <2>7. QED
    BY <2>6 DEF mp
<1>3. QED
  BY <1>1, <1>2

(* Somebody's payouts, each placed once, are as many as the staff.         *)
LEMMA PlacedCount ==
  ASSUME NEW b, IsBundle(b), NEW e, NEW S \in SUBSET StaffLine, IsFiniteSet(S), PlacedOnce(b, S, e)
  PROVE  LET mine == {i \in S : i.emp = e}
         IN /\ {mp[2] : mp \in Placed(b, e)} = {Payout(i) : i \in mine}
            /\ Cardinality(Placed(b, e)) = Cardinality(mine)
<1> DEFINE mine == {i \in S : i.emp = e}
           P == Placed(b, e)
           MonthWith(i) == CHOOSE m \in Months : Payout(i) \in Pays(b, m, e)
           f == [i \in mine |-> <<MonthWith(i), Payout(i)>>]
<1>1. /\ \A m : \A p \in Pays(b, m, e) : \E i \in mine : p = Payout(i)
      /\ \A i \in mine : \E m : Payout(i) \in Pays(b, m, e)
      /\ \A m, k : \A p \in Pays(b, m, e) : p \in Pays(b, k, e) => m = k
  BY DEF PlacedOnce
<1>2. \A i \in mine : MonthWith(i) \in Months /\ Payout(i) \in Pays(b, MonthWith(i), e)
  <2>1. SUFFICES ASSUME NEW i \in mine PROVE MonthWith(i) \in Months /\ Payout(i) \in Pays(b, MonthWith(i), e)
    OBVIOUS
  <2>2. PICK m : Payout(i) \in Pays(b, m, e)
    BY <1>1
  <2>3. m \in Months
    BY <2>2 DEF Pays, HasRow, IsBundle
  <2>4. QED
    BY <2>2, <2>3
<1> HIDE DEF MonthWith
<1>3. /\ \A mp \in P : mp[1] \in Months /\ mp[2] \in Pays(b, mp[1], e) /\ mp = <<mp[1], mp[2]>>
      /\ \A m \in Months : \A p \in Pays(b, m, e) : <<m, p>> \in P
  BY PlacedIs
<1>4. \A i, j \in mine : Payout(i) = Payout(j) => i = j
  BY SamePayout
<1> HIDE DEF P, mine
<1>5. f \in [mine -> P]
  BY <1>2, <1>3
<1>6. \A i \in mine : f[i] = <<MonthWith(i), Payout(i)>>
  OBVIOUS
<1> HIDE DEF f
<1>7. \A i, j \in mine : f[i] = f[j] => i = j
  BY <1>4, <1>6
<1>8. ASSUME NEW mp \in P PROVE \E i \in mine : f[i] = mp
  <2>1. mp[1] \in Months /\ mp[2] \in Pays(b, mp[1], e) /\ mp = <<mp[1], mp[2]>>
    BY <1>3
  <2>2. PICK i \in mine : mp[2] = Payout(i)
    BY <1>1, <2>1
  <2>3. MonthWith(i) = mp[1]
    BY <1>1, <1>2, <2>1, <2>2
  <2>4. QED
    BY <1>6, <2>1, <2>2, <2>3
<1>9. {mp[2] : mp \in P} = {Payout(i) : i \in mine}
  <2>1. ASSUME NEW mp \in P PROVE mp[2] \in {Payout(i) : i \in mine}
    BY <1>1, <1>3
  <2>2. ASSUME NEW i \in mine PROVE Payout(i) \in {mp[2] : mp \in P}
    <3>1. f[i] \in P /\ f[i][2] = Payout(i)
      BY <1>5, <1>6
    <3>2. QED
      BY <3>1
  <2>3. QED
    BY <2>1, <2>2
<1>10. f \in Bijection(mine, P)
  <2>1. DOMAIN f = mine
    BY <1>5
  <2>2. f \in Injection(mine, P)
    BY <1>5, <1>7, <2>1 DEF Injection, IsInjective
  <2>3. f \in Surjection(mine, P)
    BY <1>5, <1>8 DEF Surjection
  <2>4. QED
    BY <2>2, <2>3 DEF Bijection
<1>11. IsFiniteSet(mine)
  BY FS_Subset DEF mine
<1>12. Cardinality(P) = Cardinality(mine)
  BY <1>10, <1>11, FS_Bijection DEF ExistsBijection
<1>13. QED
  BY <1>9, <1>12 DEF P, mine

(* The state.                                                              *)
LEMMA RebuiltIs ==
  ASSUME PostingTypeOK
  PROVE  /\ IsBundle(Rebuilt)
         /\ StaffLines(LinesOf(cache)) \in SUBSET StaffLine /\ IsFiniteSet(StaffLines(LinesOf(cache)))
         /\ \A e \in Active(roster) : /\ PlacedOnce(Rebuilt, StaffLines(LinesOf(cache)), e)
                                      /\ Oldest(Rebuilt, e)
<1> DEFINE lines == LinesOf(cache)
           S == StaffLines(lines)
<1>1. IsBundle(bundle) /\ Lined(lines) /\ IsRoster(roster)
  BY LinesTyped DEF PostingTypeOK
<1> HIDE DEF lines
<1>2. S \in SUBSET StaffLine /\ IsFiniteSet(S) /\ S \in SUBSET S
  BY <1>1, StaffLinesAre
<1>3. PICK g : IsRebuild(g, bundle, S, roster) /\ reconcileSalaryMonthFromDailyMap(bundle, lines, roster) = g[S]
  BY <1>1, Rebuilds
<1>4. Rebuilt = g[S]
  BY <1>3 DEF Rebuilt, Reconciled, lines
<1> HIDE DEF S
<1>5. Rebuilding(g, bundle, S, roster)
  BY <1>1, <1>2, <1>3 DEF Rebuilding
<1>6. IsBundle(g[S])
  BY <1>2, <1>3 DEF IsRebuild
<1>7. ASSUME NEW e \in Active(roster) PROVE PlacedOnce(g[S], S, e) /\ Oldest(g[S], e)
  <2>1. PlacedOnce(g[S], S, e)
    BY <1>2, <1>5, Placing
  <2>2. Oldest(g[S], e)
    BY <1>2, <1>5, Settling
  <2>3. QED
    BY <2>1, <2>2
<1>8. QED
  BY <1>2, <1>4, <1>6, <1>7 DEF S, lines

LEMMA TypesGiveMirrors ==
  ASSUME PostingTypeOK
  PROVE  RegisterMirrors
<1> DEFINE S == StaffLines(LinesOf(cache))
<1>1. /\ IsBundle(Rebuilt) /\ S \in SUBSET StaffLine /\ IsFiniteSet(S)
      /\ \A e \in Active(roster) : PlacedOnce(Rebuilt, S, e)
  BY RebuiltIs
<1>2. ASSUME NEW e \in Active(roster) PROVE Mirrors(e)
  <2> DEFINE mine == {i \in S : i.emp = e}
             c == Rebuilt
  <2>1. IsBundle(c) /\ PlacedOnce(c, S, e)
    BY <1>1
  <2>2. Owed(e) = mine
    BY DEF Owed
  <2> HIDE DEF c, S
  <2>3. /\ {mp[2] : mp \in Placed(c, e)} = {Payout(i) : i \in mine}
        /\ Cardinality(Placed(c, e)) = Cardinality(mine)
    BY <1>1, <2>1, PlacedCount DEF S
  <2> HIDE DEF mine
  <2>4. QED
    BY <2>2, <2>3 DEF Mirrors, c
<1>3. ASSUME \A d \in Days, x \in Line : x \in cache[d].lines => x.emp \in Active(roster)
      PROVE  reconcileSalaryMonthFromDailyMap(Rebuilt, LinesOf(cache), roster) = Rebuilt
  <2> DEFINE lines == LinesOf(cache)
  <2>1. IsBundle(bundle) /\ IsRoster(roster) /\ Lined(lines)
    BY LinesTyped DEF PostingTypeOK
  <2>2. \A d \in Days : \A x \in lines[d] : x.emp \in Active(roster)
    <3>1. \A d \in Days : lines[d] = cache[d].lines /\ cache[d].lines \subseteq Line
      BY DEF LinesOf, PostingTypeOK, Day, DayLines
    <3>2. QED
      BY <1>3, <3>1
  <2> HIDE DEF lines
  <2>3. Orderly(StaffLines(lines), roster)
    <3>1. /\ \A i, j \in StaffLines(lines) : i.day = j.day /\ i.line = j.line => i = j
          /\ \A i : i \in StaffLines(lines) <=>
               \E d \in Days : \E x \in lines[d] :
                 i = [line |-> x.line, emp |-> x.emp, amt |-> x.amt, advance |-> x.advance, day |-> d]
      BY <2>1, StaffLinesAre
    <3>2. ASSUME NEW i \in StaffLines(lines) PROVE i.emp \in Active(roster)
      <4>1. PICK d \in Days : \E x \in lines[d] :
                 i = [line |-> x.line, emp |-> x.emp, amt |-> x.amt, advance |-> x.advance, day |-> d]
        BY <3>1
      <4>2. PICK x \in lines[d] :
                 i = [line |-> x.line, emp |-> x.emp, amt |-> x.amt, advance |-> x.advance, day |-> d]
        BY <4>1
      <4>3. i.emp = x.emp
        BY <4>2
      <4>4. QED
        BY <2>2, <4>3
    <3>3. QED
      BY <3>1, <3>2 DEF Orderly
  <2>4. QED
    BY <2>1, <2>3, RebuiltTwice DEF Rebuilt, Reconciled, lines
<1>4. QED
  BY <1>2, <1>3 DEF RegisterMirrors

LEMMA TypesGiveOldestFirst ==
  ASSUME PostingTypeOK
  PROVE  OldestFirst
<1> DEFINE c == Rebuilt
<1>1. IsBundle(c) /\ \A e \in Active(roster) : Oldest(c, e)
  BY RebuiltIs
<1> HIDE DEF c
<1>2. ASSUME NEW e \in Active(roster), NEW mp \in Placed(c, e)
      PROVE  /\ mp[1] <= MonthOf(mp[2].day)
             /\ ~mp[2].advance => \A k \in 1 .. mp[1] - 1 : StillOwed(c, e, Manual)[k] = 0
  <2>1. mp[1] \in Months /\ mp[2] \in Pays(c, mp[1], e)
    BY <1>1, PlacedIs
  <2>2. /\ mp[1] <= MonthOf(mp[2].day)
        /\ ~mp[2].advance => \A k \in Months : k < mp[1] => StillOwed(c, e, Manual)[k] = 0
    BY <1>1, <2>1 DEF Oldest
  <2>3. \A k \in 1 .. mp[1] - 1 : k \in Months /\ k < mp[1]
    BY <2>1, MonthFacts
  <2>4. QED
    BY <2>2, <2>3
<1>3. QED
  BY <1>2 DEF OldestFirst, c

LEMMA TypesGiveBalance ==
  ASSUME PostingTypeOK
  PROVE  DueBalances
BY Balanced DEF PostingTypeOK, DueBalances

-----------------------------------------------------------------------------
(* What the operations make of bundles.                                    *)
LEMMA RebuiltTyped ==
  ASSUME NEW b, IsBundle(b), NEW lines, Lined(lines), NEW r, IsRoster(r)
  PROVE  IsBundle(reconcileSalaryMonthFromDailyMap(b, lines, r))
<1> DEFINE S == StaffLines(lines)
<1>1. PICK g : IsRebuild(g, b, S, r) /\ reconcileSalaryMonthFromDailyMap(b, lines, r) = g[S]
  BY Rebuilds
<1> HIDE DEF S
<1>2. IsBundle(g[S])
  BY <1>1 DEF IsRebuild
<1>3. QED
  BY <1>1, <1>2

LEMMA MonthTyped ==
  ASSUME NEW b, IsBundle(b), NEW m \in Months, NEW r, IsRoster(r)
  PROVE  IsSheet(ensureMonthDoc(b, m, r))
BY Ensured

LEMMA SyncTyped ==
  ASSUME NEW b, IsBundle(b), NEW r, IsRoster(r)
  PROVE  IsBundle(syncSalaryBundleToEmployees(b, r))
<1> DEFINE c == syncSalaryBundleToEmployees(b, r)
<1>1. DOMAIN b \subseteq Months
  BY DEF IsBundle
<1>2. \A m \in DOMAIN b : IsSheet(ensureMonthDoc(b, m, r))
  BY <1>1, MonthTyped
<1>3. DOMAIN c = DOMAIN b /\ c = [m \in DOMAIN b |-> c[m]]
      /\ \A m \in DOMAIN b : c[m] = ensureMonthDoc(b, m, r)
  BY DEF syncSalaryBundleToEmployees
<1> HIDE DEF c
<1>4. IsBundle(c)
  BY <1>1, <1>2, <1>3 DEF IsBundle
<1>5. QED
  BY <1>4 DEF c

LEMMA SheetPut ==
  ASSUME NEW b, IsBundle(b), NEW m \in Months, NEW sheet, IsSheet(sheet)
  PROVE  IsBundle(WithSheet(b, m, sheet))
BY WithSheetIs

LEMMA SheetLocked ==
  ASSUME NEW sheet, IsSheet(sheet)
  PROVE  IsSheet([sheet EXCEPT !.locked = ~@])
BY DEF IsSheet

LEMMA RowFigure ==
  ASSUME NEW sheet, IsSheet(sheet), NEW e \in DOMAIN sheet.rows, NEW n \in Int
  PROVE  IsSheet([sheet EXCEPT !.rows[e].extra = n])
<1> DEFINE row == [sheet.rows[e] EXCEPT !.extra = n]
           rws == [sheet.rows EXCEPT ![e] = row]
<1>1. row \in RegisterRow
  BY DEF IsSheet, RegisterRow
<1>2. [sheet EXCEPT !.rows[e].extra = n] = [sheet EXCEPT !.rows = rws]
  BY DEF IsSheet
<1>3. DOMAIN rws = DOMAIN sheet.rows /\ rws \in [DOMAIN rws -> RegisterRow] /\ DOMAIN rws \subseteq Emps
  <2> HIDE DEF row
  <2>1. QED
    BY <1>1 DEF IsSheet
<1> HIDE DEF rws
<1>4. QED
  BY <1>2, <1>3, RowsPut

LEMMA SheetReplaced ==
  ASSUME NEW b, IsBundle(b), NEW m \in DOMAIN b, NEW sheet, IsSheet(sheet)
  PROVE  IsBundle([b EXCEPT ![m] = sheet])
BY DEF IsBundle

LEMMA PaysLess ==
  ASSUME NEW row \in RegisterRow, NEW pays \in SUBSET row.pays
  PROVE  [row EXCEPT !.pays = pays] \in RegisterRow
<1>1. row.pays \in SUBSET Pay /\ IsFiniteSet(row.pays)
  BY DEF RegisterRow
<1>2. IsFiniteSet(pays)
  BY <1>1, FS_Subset
<1>3. QED
  BY <1>1, <1>2 DEF RegisterRow

LEMMA PayoutTaken ==
  ASSUME NEW b, IsBundle(b), NEW m, NEW e, HasRow(b, m, e), NEW p
  PROVE  IsBundle([b EXCEPT ![m].rows[e].pays = @ \ {p}])
<1> DEFINE row == [b[m].rows[e] EXCEPT !.pays = b[m].rows[e].pays \ {p}]
           rws == [b[m].rows EXCEPT ![e] = row]
           sheet == [b[m] EXCEPT !.rows = rws]
<1>1. m \in DOMAIN b /\ e \in DOMAIN b[m].rows /\ IsSheet(b[m]) /\ b[m].rows[e] \in RegisterRow
  BY RowOf DEF HasRow, IsBundle
<1>2. row \in RegisterRow
  BY <1>1, PaysLess
<1>3. [b EXCEPT ![m].rows[e].pays = @ \ {p}] = [b EXCEPT ![m] = sheet]
  OBVIOUS
<1> HIDE DEF row
<1>4. DOMAIN rws = DOMAIN b[m].rows /\ rws \in [DOMAIN rws -> RegisterRow] /\ DOMAIN rws \subseteq Emps
  BY <1>1, <1>2 DEF IsSheet
<1> HIDE DEF rws
<1>5. IsSheet(sheet)
  BY <1>1, <1>4, RowsPut
<1> HIDE DEF sheet
<1>6. QED
  BY <1>1, <1>3, <1>5, SheetReplaced

LEMMA DayTaken ==
  ASSUME NEW b, IsBundle(b), NEW d
  PROVE  IsBundle(WithoutDay(b, d))
<1> DEFINE kept(m, e) == {p \in b[m].rows[e].pays : p.day # d \/ p.line = Manual}
           rws(m) == [e \in DOMAIN b[m].rows |-> [b[m].rows[e] EXCEPT !.pays = kept(m, e)]]
           c == WithoutDay(b, d)
<1>1. /\ DOMAIN c = DOMAIN b /\ c = [m \in DOMAIN b |-> c[m]]
      /\ \A m \in DOMAIN b : c[m] = b[m] \/ c[m] = [b[m] EXCEPT !.rows = rws(m)]
  BY DEF WithoutDay
<1>2. ASSUME NEW m \in DOMAIN b PROVE IsSheet([b[m] EXCEPT !.rows = rws(m)])
  <2>1. IsSheet(b[m])
    BY DEF IsBundle
  <2>2. ASSUME NEW e \in DOMAIN b[m].rows PROVE [b[m].rows[e] EXCEPT !.pays = kept(m, e)] \in RegisterRow
    <3>1. b[m].rows[e] \in RegisterRow
      BY <2>1 DEF IsSheet
    <3>2. kept(m, e) \in SUBSET b[m].rows[e].pays
      OBVIOUS
    <3> HIDE DEF kept
    <3>3. QED
      BY <3>1, <3>2, PaysLess
  <2> HIDE DEF kept
  <2>3. DOMAIN rws(m) \subseteq Emps /\ rws(m) \in [DOMAIN rws(m) -> RegisterRow]
    BY <2>1, <2>2 DEF IsSheet
  <2> HIDE DEF rws
  <2>4. QED
    BY <2>1, <2>3, RowsPut
<1> HIDE DEF c, rws
<1>3. \A m \in DOMAIN c : IsSheet(c[m])
  BY <1>1, <1>2 DEF IsBundle
<1>4. IsBundle(c)
  BY <1>1, <1>3 DEF IsBundle
<1>5. QED
  BY <1>4 DEF c

LEMMA MonthsLess ==
  ASSUME NEW b, IsBundle(b), NEW K \in SUBSET DOMAIN b
  PROVE  IsBundle([k \in K |-> b[k]])
BY DEF IsBundle

LEMMA NewBundle ==
  ASSUME NEW r, IsRoster(r)
  PROVE  IsBundle([k \in {1} |-> NewSheet(r)])
<1>1. 1 \in Months
  BY MonthFacts
<1>2. IsSheet(NewSheet(r))
  BY NewSheetIs
<1>3. QED
  BY <1>1, <1>2 DEF IsBundle

-----------------------------------------------------------------------------
(* Lines of days.                                                          *)
LEMMA FewerLines ==
  ASSUME NEW lines \in DayLines, NEW some \in SUBSET lines
  PROVE  some \in DayLines
<1>1. IsFiniteSet(some)
  BY FS_Subset DEF DayLines
<1>2. QED
  BY <1>1 DEF DayLines

LEMMA OneMoreLine ==
  ASSUME NEW lines \in DayLines, NEW x \in Line, \A y \in lines : y.line # x.line
  PROVE  lines \cup {x} \in DayLines
<1>1. IsFiniteSet(lines \cup {x})
  BY FS_AddElement DEF DayLines
<1>2. QED
  BY <1>1 DEF DayLines

LEMMA NoLines == {} \in DayLines
BY FS_EmptySet DEF DayLines

LEMMA DayWith ==
  ASSUME NEW map, map \in [Days -> Day], NEW d \in Days, NEW lines \in DayLines
  PROVE  /\ [map EXCEPT ![d].lines = lines] \in [Days -> Day]
         /\ [map[d] EXCEPT !.lines = lines] \in Day
         /\ [map EXCEPT ![d].locked = ~@] \in [Days -> Day]
         /\ Lined([LinesOf(map) EXCEPT ![d] = lines])
<1>1. [LinesOf(map) EXCEPT ![d] = lines] \in [Days -> DayLines]
  BY LinesTyped DEF Lined
<1>2. QED
  BY <1>1 DEF Day, Lined

LEMMA ChangedLines ==
  ASSUME PostingTypeOK, NEW lines \in DayLines
  PROVE  Changed(lines) \subseteq DayLines
<1> DEFINE free == (LineIds \ UsedIds) \cup {x.line : x \in lines}
           new == [line : free, emp : DOMAIN roster, amt : PayoutAmounts, advance : Kinds]
<1>1. lines \subseteq Line
  BY DEF DayLines
<1>2. free \subseteq LineIds /\ DOMAIN roster \subseteq Emps /\ Kinds \subseteq BOOLEAN
  BY <1>1 DEF Line, PostingTypeOK, IsRoster, Kinds
<1>3. new \subseteq Line
  <2> HIDE DEF free
  <2>1. QED
    BY <1>2 DEF Line
<1>4. ASSUME NEW n \in new PROVE {x \in lines : x.line # n.line} \cup {n} \in DayLines
  <2> DEFINE rest == {x \in lines : x.line # n.line}
  <2>1. rest \in DayLines
    BY FewerLines
  <2>2. n \in Line /\ \A y \in rest : y.line # n.line
    BY <1>3
  <2> HIDE DEF rest
  <2>3. rest \cup {n} \in DayLines
    BY <2>1, <2>2, OneMoreLine
  <2>4. QED
    BY <2>3 DEF rest
<1>5. \A x \in lines : lines \ {x} \in DayLines
  BY FewerLines
<1>6. Changed(lines) = {lines \ {x} : x \in lines} \cup {{x \in lines : x.line # n.line} \cup {n} : n \in new}
  BY DEF Changed
<1> HIDE DEF new
<1>7. QED
  BY <1>4, <1>5, <1>6

LEMMA EditedTyped ==
  ASSUME PostingTypeOK, NEW d \in Days
  PROVE  EditedLines(d) \subseteq DayLines
<1> DEFINE N == mode.together
           base == {cache[d].lines}
           step == [p \in (1 .. N) \X (SUBSET DayLines) |-> UNION {Changed(lines) : lines \in p[2]}]
           after(v) == UNION {Changed(lines) : lines \in v}
           IsEdits(g) == g = [n \in 0 .. N |-> IF n = 0 THEN base ELSE after(g[n - 1])]
           edits == CHOOSE g : IsEdits(g)
<1>1. N \in Nat /\ base \in SUBSET DayLines
  BY PostingAssumption DEF PostingTypeOK, Mode, Day
<1>2. \A n \in 1 .. N, v \in SUBSET DayLines :
        /\ step[<<n, v>>] = UNION {Changed(lines) : lines \in v}
        /\ step[<<n, v>>] \in SUBSET DayLines
  <2>1. SUFFICES ASSUME NEW n \in 1 .. N, NEW v \in SUBSET DayLines
                 PROVE  /\ step[<<n, v>>] = UNION {Changed(lines) : lines \in v}
                        /\ UNION {Changed(lines) : lines \in v} \in SUBSET DayLines
    OBVIOUS
  <2>2. \A lines \in v : Changed(lines) \subseteq DayLines
    BY ChangedLines
  <2>3. <<n, v>> \in (1 .. N) \X (SUBSET DayLines)
    OBVIOUS
  <2>4. step[<<n, v>>] = UNION {Changed(lines) : lines \in v}
    BY <2>3
  <2>5. QED
    BY <2>2, <2>4
<1>3. \E g : IsChain(g, N, SUBSET DayLines, base, step)
  <2> HIDE DEF step, base, N
  <2>1. QED
    BY <1>1, <1>2, ChainExists
<1>4. PICK g : IsChain(g, N, SUBSET DayLines, base, step)
  BY <1>3
<1>5. IsEdits(g)
  <2> HIDE DEF step, base, N
  <2>1. g \in [0 .. N -> SUBSET DayLines] /\ \A n \in 0 .. N : g[n] = IF n = 0 THEN base ELSE step[<<n, g[n - 1]>>]
    BY <1>4 DEF IsChain
  <2>2. ASSUME NEW n \in 0 .. N, n # 0 PROVE g[n] = after(g[n - 1])
    <3>1. n \in 1 .. N /\ n - 1 \in 0 .. N
      BY <1>1, <2>2
    <3>2. g[n - 1] \in SUBSET DayLines /\ g[n] = step[<<n, g[n - 1]>>]
      BY <2>1, <2>2, <3>1
    <3>3. QED
      BY <1>2, <3>1, <3>2
  <2>3. QED
    BY <2>1, <2>2
<1>6. IsEdits(edits)
  <2> HIDE DEF IsEdits
  <2>1. QED
    BY <1>5
<1>7. EditedLines(d) = edits[N]
  BY DEF EditedLines
<1> HIDE DEF edits
<1>8. \A n \in 0 .. N : edits[n] = IF n = 0 THEN base ELSE after(edits[n - 1])
  <2> HIDE DEF base, N, after
  <2>1. QED
    BY <1>6
<1> HIDE DEF N, base, after
<1>9. N \in {n \in Nat : n <= N => edits[n] \subseteq DayLines}
  <2> DEFINE G == {n \in Nat : n <= N => edits[n] \subseteq DayLines}
  <2>1. 0 \in G
    BY <1>1, <1>8
  <2>2. ASSUME NEW n \in Nat, n \in G PROVE n + 1 \in G
    <3>1. SUFFICES ASSUME n + 1 <= N PROVE edits[n + 1] \subseteq DayLines
      OBVIOUS
    <3>2. edits[n] \subseteq DayLines /\ n + 1 \in 0 .. N /\ n + 1 # 0 /\ n + 1 - 1 = n
      BY <1>1, <2>2, <3>1
    <3>3. edits[n + 1] = after(edits[n])
      BY <1>8, <3>2
    <3>4. \A lines \in edits[n] : Changed(lines) \subseteq DayLines
      BY <3>2, ChangedLines
    <3>5. QED
      BY <3>3, <3>4 DEF after
  <2>3. Nat \subseteq G
    <3> HIDE DEF G
    <3>1. QED
      BY <2>1, <2>2, SetInduction
  <2>4. QED
    BY <1>1, <2>3
<1>10. QED
  BY <1>1, <1>7, <1>9

LEMMA OpsWith ==
  ASSUME PostingTypeOK, NEW o \in Ops, NEW v, IsOp(v), NEW new, new = [op EXCEPT ![o] = v]
  PROVE  DOMAIN new = Ops /\ \A q \in Ops : IsOp(new[q])
<1>1. DOMAIN op = Ops /\ \A q \in Ops : IsOp(op[q])
  BY DEF PostingTypeOK
<1>2. DOMAIN new = Ops /\ \A q \in Ops : new[q] = IF q = o THEN v ELSE op[q]
  BY <1>1
<1>3. QED
  BY <1>1, <1>2

LEMMA FlushIs ==
  ASSUME NEW b, IsBundle(b)
  PROVE  IsOp([step |-> "bundle", lines |-> {}, sent |-> b])
<1> DEFINE p == [step |-> "bundle", lines |-> {}, sent |-> b]
<1>1. p = [step |-> "bundle", lines |-> {}, sent |-> p.sent] /\ p.sent = b
  OBVIOUS
<1> HIDE DEF p
<1>2. QED
  BY <1>1 DEF IsOp, p

LEMMA DayRequest ==
  ASSUME NEW d \in Days, NEW lines \in DayLines
  PROVE  IsOp([step |-> "day", day |-> d, lines |-> lines])
BY DEF IsOp

LEMMA InitTypes ==
  ASSUME PostingInit
  PROVE  PostingTypeOK
<1>1. mode \in Modes /\ userActs = 0 /\ dirty = FALSE /\ op = [o \in Ops |-> Idle] /\ cache = days
      /\ days = [d \in Days |-> [lines |-> {}, locked |-> FALSE]]
      /\ roster = [e \in Emps |-> [active |-> TRUE, basic |-> FirstBasic]]
      /\ bundle = savedBundle
  BY DEF PostingInit
<1>2. days \in [Days -> Day]
  BY <1>1, NoLines DEF Day
<1>3. IsRoster(roster) /\ DOMAIN roster = Emps
  BY <1>1, PostingAssumption DEF IsRoster, Person
<1> DEFINE pays == IF Imported = 0 THEN {}
                   ELSE {[line |-> Manual, amt |-> Imported, day |-> 1, advance |-> FALSE]}
           row(e) == [NewRow(roster, e) EXCEPT !.pays = pays]
           rws == [e \in Emps |-> row(e)]
           sheet == [locked |-> FALSE, rows |-> rws]
<1>4. savedBundle = [m \in {1} |-> sheet]
  BY DEF PostingInit
<1>5. pays \in SUBSET Pay /\ IsFiniteSet(pays)
  <2>1. 1 \in Days /\ Imported \in Nat
    BY RegisterAssumption, PostingAssumption DEF Days
  <2>2. CASE Imported = 0
    BY <2>2, FS_EmptySet
  <2>3. CASE Imported # 0
    <3> DEFINE p == [line |-> Manual, amt |-> Imported, day |-> 1, advance |-> FALSE]
    <3>1. p \in Pay
      BY <2>1 DEF Pay
    <3> HIDE DEF p
    <3>2. IsFiniteSet({p})
      BY FS_Singleton
    <3>3. pays = {p}
      BY <2>3 DEF p
    <3>4. QED
      BY <3>1, <3>2, <3>3
  <2>4. QED
    BY <2>2, <2>3
<1> HIDE DEF pays
<1>6. \A e \in Emps : row(e) \in RegisterRow
  BY <1>3, <1>5, NewRowIs DEF RegisterRow
<1> HIDE DEF row
<1>7. IsSheet(sheet)
  BY <1>6 DEF IsSheet
<1> HIDE DEF sheet
<1>8. IsBundle(savedBundle)
  BY <1>4, <1>7, MonthFacts DEF IsBundle
<1>9. DOMAIN op = Ops /\ \A o \in Ops : IsOp(op[o])
  BY <1>1 DEF IsOp
<1>10. QED
  BY <1>1, <1>2, <1>3, <1>8, <1>9 DEF PostingTypeOK

LEMMA UserTypes ==
  ASSUME PostingTypeOK, ByUser
  PROVE  userActs' \in Nat /\ mode' \in Modes
BY DEF PostingTypeOK, ByUser

LEMMA ReconciledTyped ==
  ASSUME PostingTypeOK, NEW map, map \in [Days -> Day]
  PROVE  IsBundle(Reconciled(map))
BY LinesTyped, RebuiltTyped DEF PostingTypeOK, Reconciled

LEMMA RecordTypes ==
  ASSUME PostingTypeOK, NEW o \in Ops, NEW e \in Emps, NEW d \in Days, NEW amt \in PayoutAmounts,
         NEW advance \in Kinds, recordStaffPayout(o, e, d, amt, advance)
  PROVE  PostingTypeOK'
<1>1. PICK x \in NewLines(e, amt, advance) : SendDay(o, d, x)
  BY DEF recordStaffPayout
<1>2. x \in Line /\ x.line \notin UsedIds
  <2>1. PICK l \in LineIds \ UsedIds : x = [line |-> l, emp |-> e, amt |-> amt, advance |-> advance]
    BY <1>1 DEF NewLines
  <2>2. advance \in BOOLEAN
    BY DEF Kinds
  <2>3. QED
    BY <2>1, <2>2 DEF Line
<1>3. cache[d].lines \in DayLines
  BY DEF PostingTypeOK, Day
<1>4. \A y \in cache[d].lines : y.line # x.line
  BY <1>2 DEF UsedIds
<1>5. cache[d].lines \cup {x} \in DayLines
  BY <1>2, <1>3, <1>4, OneMoreLine
<1> DEFINE v == Sending(d, cache[d].lines \cup {x})
<1>6. IsOp(v)
  BY <1>5, DayRequest DEF Sending
<1>7. op' = [op EXCEPT ![o] = v]
  BY <1>1 DEF SendDay
<1> HIDE DEF v
<1>8. DOMAIN op' = Ops /\ \A q \in Ops : IsOp(op'[q])
  BY <1>6, <1>7, OpsWith
<1>9. userActs' \in Nat /\ mode' \in Modes
  BY UserTypes DEF recordStaffPayout
<1>10. QED
  BY <1>8, <1>9 DEF PostingTypeOK, recordStaffPayout

LEMMA DeletePayoutTypes ==
  ASSUME PostingTypeOK, NEW o \in Ops, NEW m, NEW e, NEW p, deleteStaffPayout(o, m, e, p)
  PROVE  PostingTypeOK'
<1> DEFINE rest == {x \in cache[p.day].lines : x.line # p.line}
<1>1. HasRow(bundle, m, e) /\ p \in bundle[m].rows[e].pays /\ IsBundle(bundle) /\ cache \in [Days -> Day]
  BY DEF deleteStaffPayout, PostingTypeOK
<1>2. p.day \in Days
  BY <1>1, RowOf DEF RegisterRow, Pay
<1>3. IsBundle(bundle') /\ DOMAIN op' = Ops /\ \A q \in Ops : IsOp(op'[q])
  <2>1. CASE p.line = Manual
    <3> DEFINE b == [bundle EXCEPT ![m].rows[e].pays = @ \ {p}]
    <3>1. bundle' = b /\ StartFlush(o, b)
      BY <2>1 DEF deleteStaffPayout
    <3>2. IsBundle(b)
      BY <1>1, PayoutTaken
    <3> HIDE DEF b
    <3>3. QED
      BY <3>1, <3>2, FlushIs, OpsWith DEF StartFlush
  <2>2. CASE p.line # Manual /\ rest # cache[p.day].lines
    <3> DEFINE v == [step |-> "day", day |-> p.day, lines |-> rest]
    <3>1. op' = [op EXCEPT ![o] = v] /\ bundle' = bundle
      BY <2>2 DEF deleteStaffPayout
    <3>2. IsOp(v)
      <4>1. rest \in DayLines
        BY <1>1, <1>2, FewerLines DEF Day
      <4> HIDE DEF rest
      <4>2. QED
        BY <1>2, <4>1, DayRequest
    <3> HIDE DEF v
    <3>3. QED
      BY <1>1, <3>1, <3>2, OpsWith
  <2>3. CASE p.line # Manual /\ rest = cache[p.day].lines
    <3>1. bundle' = Reconciled(cache) /\ StartFlush(o, Reconciled(cache))
      BY <2>3 DEF deleteStaffPayout
    <3>2. IsBundle(Reconciled(cache))
      BY <1>1, ReconciledTyped
    <3>3. QED
      BY <3>1, <3>2, FlushIs, OpsWith DEF StartFlush
  <2>4. QED
    BY <2>1, <2>2, <2>3
<1>4. dirty' \in BOOLEAN
  BY DEF deleteStaffPayout, PostingTypeOK
<1>5. userActs' \in Nat /\ mode' \in Modes
  BY UserTypes DEF deleteStaffPayout
<1>6. QED
  BY <1>3, <1>4, <1>5 DEF PostingTypeOK, deleteStaffPayout

LEMMA DayInFlight ==
  ASSUME PostingTypeOK, NEW o \in Ops, op[o].step = "day"
  PROVE  op[o].day \in Days /\ op[o].lines \in DayLines
<1>1. IsOp(op[o])
  BY DEF PostingTypeOK
<1>2. QED
  BY <1>1 DEF IsOp, Idle

LEMMA BundleInFlight ==
  ASSUME PostingTypeOK, NEW o \in Ops, op[o].step = "bundle"
  PROVE  IsBundle(op[o].sent)
<1>1. IsOp(op[o])
  BY DEF PostingTypeOK
<1>2. QED
  BY <1>1 DEF IsOp, Idle

LEMMA IdleOp == IsOp(Idle)
BY DEF IsOp

LEMMA AnswerTypes ==
  ASSUME PostingTypeOK, NEW o \in Ops,
         DaySaved(o) \/ DayRefused(o) \/ AnswerLost(o) \/ BundleSaved(o) \/ BundleRefused(o)
  PROVE  PostingTypeOK'
<1>1. CASE DaySaved(o)
  <2> DEFINE d == op[o].day
             map == [cache EXCEPT ![d] = [days[d] EXCEPT !.lines = op[o].lines]]
  <2>1. d \in Days /\ op[o].lines \in DayLines /\ days \in [Days -> Day] /\ cache \in [Days -> Day]
    BY <1>1, DayInFlight DEF DaySaved, PostingTypeOK
  <2>2. [days[d] EXCEPT !.lines = op[o].lines] \in Day /\ [days EXCEPT ![d].lines = op[o].lines] \in [Days -> Day]
    <3> HIDE DEF d
    <3>1. QED
      BY <2>1, DayWith
  <2>3. map \in [Days -> Day]
    BY <2>1, <2>2
  <2>4. /\ days' = [days EXCEPT ![d].lines = op[o].lines] /\ cache' = map /\ bundle' = Reconciled(map)
        /\ dirty' = TRUE /\ StartFlush(o, Reconciled(map))
        /\ UNCHANGED <<savedBundle, roster, userActs, mode>>
    BY <1>1 DEF DaySaved
  <2> HIDE DEF map
  <2>5. IsBundle(Reconciled(map))
    BY <2>3, ReconciledTyped
  <2>6. DOMAIN op' = Ops /\ \A q \in Ops : IsOp(op'[q])
    BY <2>4, <2>5, FlushIs, OpsWith DEF StartFlush
  <2>7. QED
    BY <2>2, <2>3, <2>4, <2>5, <2>6 DEF PostingTypeOK
<1>2. CASE DayRefused(o)
  <2>1. DOMAIN op' = Ops /\ \A q \in Ops : IsOp(op'[q])
    BY <1>2, IdleOp, OpsWith DEF DayRefused
  <2>2. QED
    BY <1>2, <2>1 DEF DayRefused, PostingTypeOK
<1>3. CASE AnswerLost(o)
  <2>1. DOMAIN op' = Ops /\ \A q \in Ops : IsOp(op'[q])
    BY <1>3, IdleOp, OpsWith DEF AnswerLost
  <2>2. days' \in [Days -> Day]
    BY <1>3, DayInFlight, DayWith DEF AnswerLost, PostingTypeOK
  <2>3. QED
    BY <1>3, <2>1, <2>2 DEF AnswerLost, PostingTypeOK
<1>4. CASE BundleSaved(o)
  <2>1. DOMAIN op' = Ops /\ \A q \in Ops : IsOp(op'[q])
    BY <1>4, IdleOp, OpsWith DEF BundleSaved
  <2>2. IsBundle(savedBundle')
    BY <1>4, BundleInFlight DEF BundleSaved
  <2>3. QED
    BY <1>4, <2>1, <2>2 DEF BundleSaved, PostingTypeOK
<1>5. CASE BundleRefused(o)
  <2>1. DOMAIN op' = Ops /\ \A q \in Ops : IsOp(op'[q])
    BY <1>5, IdleOp, OpsWith DEF BundleRefused
  <2>2. QED
    BY <1>5, <2>1 DEF BundleRefused, PostingTypeOK
<1>6. QED
  BY <1>1, <1>2, <1>3, <1>4, <1>5

LEMMA FormSaveTypes ==
  ASSUME PostingTypeOK, NEW d \in Days, NEW lines \in EditedLines(d), FormSave(d, lines)
  PROVE  PostingTypeOK'
<1> DEFINE synced == IF dirty THEN bundle ELSE SyncedBundle(bundle)
           map == [LinesOf(cache) EXCEPT ![d] = lines]
           b == reconcileSalaryMonthFromDailyMap(synced, map, roster)
<1>1. lines \in DayLines /\ days \in [Days -> Day] /\ cache \in [Days -> Day] /\ IsRoster(roster)
      /\ IsBundle(bundle) /\ IsBundle(savedBundle)
  BY EditedTyped DEF PostingTypeOK
<1>2. IsBundle(synced)
  BY <1>1, SyncTyped DEF SyncedBundle
<1>3. Lined(map) /\ [days EXCEPT ![d].lines = lines] \in [Days -> Day]
  BY <1>1, DayWith
<1> HIDE DEF synced, map
<1>4. IsBundle(b)
  BY <1>1, <1>2, <1>3, RebuiltTyped
<1>5. \/ /\ days' = [days EXCEPT ![d].lines = lines] /\ cache' = days'
         /\ savedBundle' = b /\ bundle' = SyncedBundle(b)
      \/ /\ bundle' = SyncedBundle(savedBundle) /\ UNCHANGED <<days, cache, savedBundle>>
  BY DEF FormSave, synced, map
<1>6. dirty' = FALSE /\ UNCHANGED <<roster, op>> /\ ByUser
  BY DEF FormSave
<1> HIDE DEF b
<1>7. IsBundle(SyncedBundle(b)) /\ IsBundle(SyncedBundle(savedBundle))
  BY <1>1, <1>4, SyncTyped DEF SyncedBundle
<1>8. days' \in [Days -> Day] /\ cache' \in [Days -> Day] /\ IsBundle(bundle') /\ IsBundle(savedBundle')
  <2>1. CASE /\ days' = [days EXCEPT ![d].lines = lines] /\ cache' = days'
             /\ savedBundle' = b /\ bundle' = SyncedBundle(b)
    BY <1>3, <1>4, <1>7, <2>1
  <2>2. CASE bundle' = SyncedBundle(savedBundle) /\ UNCHANGED <<days, cache, savedBundle>>
    BY <1>1, <1>7, <2>2
  <2>3. QED
    BY <1>5, <2>1, <2>2
<1>9. userActs' \in Nat /\ mode' \in Modes
  BY <1>6, UserTypes
<1>10. QED
  BY <1>6, <1>8, <1>9 DEF PostingTypeOK

LEMMA BooksTypes ==
  ASSUME PostingTypeOK, NEW d \in Days, DeleteDay(d) \/ LockDay(d) \/ RefreshEntries
  PROVE  PostingTypeOK'
<1>1. days \in [Days -> Day] /\ cache \in [Days -> Day] /\ IsRoster(roster)
      /\ IsBundle(bundle) /\ IsBundle(savedBundle)
  BY DEF PostingTypeOK
<1>2. userActs' \in Nat /\ mode' \in Modes
  BY UserTypes DEF DeleteDay, LockDay, RefreshEntries
<1>3. CASE DeleteDay(d)
  <2>1. IsBundle(WithoutDay(savedBundle, d)) /\ IsBundle(SyncedBundle(WithoutDay(savedBundle, d)))
    BY <1>1, DayTaken, SyncTyped DEF SyncedBundle
  <2>2. days' \in [Days -> Day]
    BY <1>1, <1>3, NoLines DEF DeleteDay, Day
  <2>3. QED
    BY <1>2, <1>3, <2>1, <2>2 DEF DeleteDay, PostingTypeOK
<1>4. CASE LockDay(d)
  <2>1. days' \in [Days -> Day]
    <3>1. days' = [days EXCEPT ![d].locked = ~@] /\ {} \in DayLines
      BY <1>4, NoLines DEF LockDay
    <3>2. QED
      BY <1>1, <3>1, DayWith
  <2>2. cache' = [cache EXCEPT ![d] = days'[d]] \/ cache' = cache
    BY <1>4 DEF LockDay
  <2>3. cache' \in [Days -> Day]
    BY <1>1, <2>1, <2>2
  <2>4. QED
    BY <1>2, <1>4, <2>1, <2>3 DEF LockDay, PostingTypeOK
<1>5. CASE RefreshEntries
  BY <1>1, <1>2, <1>5 DEF RefreshEntries, PostingTypeOK
<1>6. QED
  BY <1>3, <1>4, <1>5

LEMMA EditTypes ==
  ASSUME PostingTypeOK, NEW b, IsBundle(b), Edit(b)
  PROVE  PostingTypeOK'
<1>1. userActs' \in Nat /\ mode' \in Modes
  BY UserTypes DEF Edit
<1>2. QED
  BY <1>1 DEF Edit, PostingTypeOK

LEMMA RegisterTypes ==
  ASSUME PostingTypeOK, NEW m \in Months, NEW e, NEW x,
         (x \in Extras /\ updateRow(m, e, x)) \/ setMonthLockState(m) \/ generateMonth(m) \/ executeDeleteMonth(m)
  PROVE  PostingTypeOK'
<1> DEFINE sheet == ensureMonthDoc(bundle, m, roster)
<1>1. IsBundle(bundle) /\ IsRoster(roster) /\ cache \in [Days -> Day] /\ Extras \subseteq Int
  BY PostingAssumption DEF PostingTypeOK
<1>2. IsSheet(sheet)
  BY <1>1, MonthTyped
<1>3. CASE x \in Extras /\ updateRow(m, e, x)
  <2> DEFINE new == [sheet EXCEPT !.rows[e].extra = x]
  <2>1. x \in Int /\ e \in DOMAIN sheet.rows /\ Edit(WithSheet(bundle, m, new))
    BY <1>1, <1>3 DEF updateRow
  <2> HIDE DEF sheet
  <2>2. IsSheet(new)
    BY <1>1, <1>2, <2>1, RowFigure
  <2> HIDE DEF new
  <2>3. IsBundle(WithSheet(bundle, m, new))
    BY <1>1, <2>2, SheetPut
  <2>4. QED
    BY <2>1, <2>3, EditTypes
<1>4. CASE setMonthLockState(m)
  <2> DEFINE new == [sheet EXCEPT !.locked = ~@]
  <2>1. Edit(WithSheet(bundle, m, new))
    BY <1>4 DEF setMonthLockState
  <2> HIDE DEF sheet
  <2>2. IsSheet(new)
    BY <1>2, SheetLocked
  <2> HIDE DEF new
  <2>3. IsBundle(WithSheet(bundle, m, new))
    BY <1>1, <2>2, SheetPut
  <2>4. QED
    BY <2>1, <2>3, EditTypes
<1>5. CASE generateMonth(m)
  <2>1. Edit(WithSheet(bundle, m, sheet))
    BY <1>5 DEF generateMonth
  <2> HIDE DEF sheet
  <2>2. IsBundle(WithSheet(bundle, m, sheet))
    BY <1>1, <1>2, SheetPut
  <2>3. QED
    BY <2>1, <2>2, EditTypes
<1>6. CASE executeDeleteMonth(m)
  <2> DEFINE rest == [k \in DOMAIN bundle \ {m} |-> bundle[k]]
             b == IF DOMAIN rest = {} THEN [k \in {1} |-> NewSheet(roster)] ELSE rest
  <2>1. Edit(b) \/ Edit(reconcileSalaryMonthFromDailyMap(b, LinesOf(cache), roster))
    BY <1>6 DEF executeDeleteMonth
  <2>2. IsBundle(rest)
    BY <1>1, MonthsLess
  <2> HIDE DEF rest
  <2>3. IsBundle(b)
    BY <1>1, <2>2, NewBundle
  <2> HIDE DEF b
  <2>4. IsBundle(reconcileSalaryMonthFromDailyMap(b, LinesOf(cache), roster))
    BY <1>1, <2>3, LinesTyped, RebuiltTyped
  <2>5. QED
    BY <2>1, <2>3, <2>4, EditTypes
<1>7. QED
  BY <1>3, <1>4, <1>5, <1>6

LEMMA PayrollTypes ==
  ASSUME PostingTypeOK, openPayroll \/ DebouncedSave \/ Restart
  PROVE  PostingTypeOK'
<1>1. /\ IsBundle(bundle) /\ IsBundle(savedBundle) /\ IsRoster(roster)
      /\ cache \in [Days -> Day] /\ days \in [Days -> Day]
  BY DEF PostingTypeOK
<1>2. IsBundle(SyncedBundle(savedBundle))
  BY <1>1, SyncTyped DEF SyncedBundle
<1>3. CASE openPayroll
  <2> DEFINE b == IF dirty THEN bundle ELSE SyncedBundle(savedBundle)
             c == reconcileSalaryMonthFromDailyMap(b, LinesOf(cache), roster)
  <2>1. bundle' = c /\ dirty' = TRUE /\ UNCHANGED <<days, savedBundle, cache, roster, op>> /\ ByUser
    BY <1>3 DEF openPayroll
  <2>2. IsBundle(b)
    BY <1>1, <1>2
  <2> HIDE DEF b
  <2>3. IsBundle(c)
    BY <1>1, <2>2, LinesTyped, RebuiltTyped
  <2> HIDE DEF c
  <2>4. userActs' \in Nat /\ mode' \in Modes
    BY <2>1, UserTypes
  <2>5. QED
    BY <2>1, <2>3, <2>4 DEF PostingTypeOK
<1>4. CASE DebouncedSave
  BY <1>4 DEF DebouncedSave, PostingTypeOK
<1>5. CASE Restart
  <2>1. bundle' = SyncedBundle(savedBundle) /\ dirty' = FALSE /\ cache' = days
        /\ op' = [o \in Ops |-> Idle] /\ UNCHANGED <<days, savedBundle, roster>> /\ ByUser
    BY <1>5 DEF Restart
  <2>2. DOMAIN op' = Ops /\ \A o \in Ops : IsOp(op'[o])
    BY <2>1, IdleOp
  <2>3. userActs' \in Nat /\ mode' \in Modes
    BY <2>1, UserTypes
  <2>4. QED
    BY <1>1, <1>2, <2>1, <2>2, <2>3 DEF PostingTypeOK
<1>6. QED
  BY <1>3, <1>4, <1>5

LEMMA RosterTypes ==
  ASSUME PostingTypeOK, NEW r, IsRoster(r), SetRoster(r)
  PROVE  PostingTypeOK'
<1>1. IsBundle(bundle) /\ IsBundle(syncSalaryBundleToEmployees(bundle, r))
  BY SyncTyped DEF PostingTypeOK
<1>2. roster' = r /\ bundle' = (IF dirty THEN bundle ELSE syncSalaryBundleToEmployees(bundle, r))
      /\ UNCHANGED <<days, savedBundle, cache, dirty, op>> /\ ByUser
  BY DEF SetRoster
<1>3. userActs' \in Nat /\ mode' \in Modes
  BY <1>2, UserTypes
<1>4. QED
  BY <1>1, <1>2, <1>3 DEF PostingTypeOK

LEMMA DirectoryTypes ==
  ASSUME PostingTypeOK, Directory
  PROVE  PostingTypeOK'
<1>1. PICK e \in Emps : (\E b \in Basics : updateEmployee(e, b))
                        \/ setEmployeeActive(e) \/ removeEmployee(e) \/ addEmployee(e)
  BY DEF Directory
<1>2. DOMAIN roster \subseteq Emps /\ roster \in [DOMAIN roster -> Person] /\ IsRoster(roster)
  BY DEF PostingTypeOK, IsRoster
<1>3. CASE \E b \in Basics : updateEmployee(e, b)
  <2>1. PICK b \in Basics : updateEmployee(e, b)
    BY <1>3
  <2> DEFINE r == [roster EXCEPT ![e].basic = b]
  <2>2. e \in DOMAIN roster /\ SetRoster(r)
    BY <2>1 DEF updateEmployee
  <2>3. IsRoster(r)
    BY <1>2, <2>2, PostingAssumption DEF IsRoster, Person
  <2> HIDE DEF r
  <2>4. QED
    BY <2>2, <2>3, RosterTypes
<1>4. CASE setEmployeeActive(e)
  <2> DEFINE r == [roster EXCEPT ![e].active = ~@]
  <2>1. e \in DOMAIN roster /\ SetRoster(r)
    BY <1>4 DEF setEmployeeActive
  <2>2. IsRoster(r)
    BY <1>2, <2>1 DEF IsRoster, Person
  <2> HIDE DEF r
  <2>3. QED
    BY <2>1, <2>2, RosterTypes
<1>5. CASE removeEmployee(e)
  <2> DEFINE r == [k \in DOMAIN roster \ {e} |-> roster[k]]
  <2>1. SetRoster(r)
    BY <1>5 DEF removeEmployee
  <2>2. IsRoster(r)
    BY <1>2 DEF IsRoster
  <2> HIDE DEF r
  <2>3. QED
    BY <2>1, <2>2, RosterTypes
<1>6. CASE addEmployee(e)
  <2> DEFINE p == [active |-> TRUE, basic |-> FirstBasic]
             r == [k \in DOMAIN roster \cup {e} |-> IF k = e THEN p ELSE roster[k]]
  <2>1. SetRoster(r)
    BY <1>6 DEF addEmployee
  <2>2. p \in Person
    BY PostingAssumption DEF Person
  <2> HIDE DEF p
  <2>3. IsRoster(r)
    BY <1>2, <2>2 DEF IsRoster
  <2> HIDE DEF r
  <2>4. QED
    BY <2>1, <2>3, RosterTypes
<1>7. QED
  BY <1>1, <1>3, <1>4, <1>5, <1>6

LEMMA NextTypes ==
  ASSUME PostingTypeOK, [PostingNext]_postingVars
  PROVE  PostingTypeOK'
<1>1. CASE UNCHANGED postingVars
  BY <1>1 DEF postingVars, PostingTypeOK
<1>2. CASE Payouts
  <2>1. PICK o \in Ops :
          \/ \E e \in Emps, d \in Days, amt \in PayoutAmounts, advance \in Kinds :
               recordStaffPayout(o, e, d, amt, advance)
          \/ \E m \in DOMAIN bundle, e \in Emps :
               HasRow(bundle, m, e) /\ \E p \in bundle[m].rows[e].pays : deleteStaffPayout(o, m, e, p)
          \/ DaySaved(o) \/ DayRefused(o) \/ AnswerLost(o) \/ BundleSaved(o) \/ BundleRefused(o)
    BY <1>2 DEF Payouts
  <2>2. CASE \E e \in Emps, d \in Days, amt \in PayoutAmounts, advance \in Kinds :
               recordStaffPayout(o, e, d, amt, advance)
    BY <2>2, RecordTypes
  <2>3. CASE \E m \in DOMAIN bundle, e \in Emps :
               HasRow(bundle, m, e) /\ \E p \in bundle[m].rows[e].pays : deleteStaffPayout(o, m, e, p)
    BY <2>3, DeletePayoutTypes
  <2>4. CASE DaySaved(o) \/ DayRefused(o) \/ AnswerLost(o) \/ BundleSaved(o) \/ BundleRefused(o)
    BY <2>4, AnswerTypes
  <2>5. QED
    BY <2>1, <2>2, <2>3, <2>4
<1>3. CASE Books
  <2>1. CASE RefreshEntries
    <3>1. 1 \in Days
      BY RegisterAssumption DEF Days
    <3>2. QED
      BY <2>1, <3>1, BooksTypes
  <2>2. CASE ~RefreshEntries
    <3>1. PICK d \in Days : (\E lines \in EditedLines(d) : FormSave(d, lines)) \/ DeleteDay(d) \/ LockDay(d)
      BY <1>3, <2>2 DEF Books
    <3>2. QED
      BY <3>1, FormSaveTypes, BooksTypes
  <2>3. QED
    BY <2>1, <2>2
<1>4. CASE Registers
  <2>1. CASE openPayroll \/ DebouncedSave
    BY <2>1, PayrollTypes
  <2>2. CASE ~(openPayroll \/ DebouncedSave)
    <3>1. PICK m \in Months : \/ \E e \in Emps, x \in Extras : updateRow(m, e, x)
                              \/ setMonthLockState(m) \/ generateMonth(m) \/ executeDeleteMonth(m)
      BY <1>4, <2>2 DEF Registers
    <3>2. CASE \E e \in Emps, x \in Extras : updateRow(m, e, x)
      BY <3>2, RegisterTypes
    <3>3. CASE setMonthLockState(m) \/ generateMonth(m) \/ executeDeleteMonth(m)
      BY <3>3, RegisterTypes
    <3>4. QED
      BY <3>1, <3>2, <3>3
  <2>3. QED
    BY <2>1, <2>2
<1>5. CASE Directory
  BY <1>5, DirectoryTypes
<1>6. CASE Restart
  BY <1>6, PayrollTypes
<1>7. QED
  BY <1>1, <1>2, <1>3, <1>4, <1>5, <1>6 DEF PostingNext

(* Days, registers, payouts in flight and the roster keep their types,     *)
(* whatever users and the network do, and every rebuild of the registers   *)
(* (reconcileSalaryMonthFromDailyMap) gives registers again.               *)
THEOREM PostingTypes == PostingSpec => []PostingTypeOK
<1>1. PostingInit => PostingTypeOK
  BY InitTypes
<1>2. PostingTypeOK /\ [PostingNext]_postingVars => PostingTypeOK'
  BY NextTypes
<1>3. QED
  BY <1>1, <1>2, PTL DEF PostingSpec

(* Whatever was edited, locked or deleted before, a rebuild gives every    *)
(* staff line of an active employee one payout, and rebuilding once more   *)
(* changes nothing.                                                        *)
THEOREM RebuildMirrorsLines == PostingSpec => []RegisterMirrors
<1>1. PostingTypeOK => RegisterMirrors
  BY TypesGiveMirrors
<1>2. QED
  BY <1>1, PostingTypes, PTL

(* A rebuild posts a regular payout to the oldest month that still owes,   *)
(* never to a month after its own.                                         *)
THEOREM RebuildSettlesOldest == PostingSpec => []OldestFirst
<1>1. PostingTypeOK => OldestFirst
  BY TypesGiveOldestFirst
<1>2. QED
  BY <1>1, PostingTypes, PTL

(* Rolling overpayment into later months (computeEmployeeMonthBalances)    *)
(* loses and invents no money.                                             *)
THEOREM CreditIsKept == PostingSpec => []DueBalances
<1>1. PostingTypeOK => DueBalances
  BY TypesGiveBalance
<1>2. QED
  BY <1>1, PostingTypes, PTL

-----------------------------------------------------------------------------
(* One payout at a time.                                                   *)
OneLine(was, new) == Cardinality((was \ new) \cup (new \ was)) <= 1

LEMMA OneLineIs ==
  ASSUME NEW was, NEW new, NEW x, (was \ new) \cup (new \ was) \subseteq {x}
  PROVE  OneLine(was, new)
<1> DEFINE D == (was \ new) \cup (new \ was)
<1>1. IsFiniteSet({x}) /\ Cardinality({x}) = 1
  BY FS_Singleton
<1>2. D \subseteq {x}
  OBVIOUS
<1> HIDE DEF D
<1>3. Cardinality(D) <= Cardinality({x}) /\ IsFiniteSet(D)
  BY <1>1, <1>2, FS_Subset
<1>4. Cardinality(D) \in Nat
  BY <1>3, FS_CardinalityType
<1>5. Cardinality(D) <= 1
  BY <1>1, <1>3, <1>4
<1>6. QED
  BY <1>5 DEF OneLine, D

OneRequest ==
  /\ \A o, q \in Ops : op[o] # Idle /\ op[q] # Idle => o = q
  /\ \A o \in Ops : op[o].step = "day" => OneLine(days[op[o].day].lines, op[o].lines)

(* While users wait for answers, and nobody else acts, the terminal's days *)
(* are the API's and the one payout in flight changes one line of them.    *)
OneAtATime == PostingTypeOK /\ (Calm => cache = days /\ OneRequest)

LEMMA NobodyWaits ==
  ASSUME \A o \in Ops : op'[o] = Idle
  PROVE  OneRequest'
BY DEF OneRequest, Idle

LEMMA RequestPut ==
  ASSUME DOMAIN op = Ops, \A q \in Ops : op[q] = Idle, NEW o \in Ops, NEW v, op' = [op EXCEPT ![o] = v],
         v.step = "day" => OneLine(days'[v.day].lines, v.lines)
  PROVE  OneRequest'
<1>1. \A q \in Ops : op'[q] = IF q = o THEN v ELSE Idle
  OBVIOUS
<1>2. \A q \in Ops : op'[q].step = "day" => q = o /\ op'[q] = v
  BY <1>1 DEF Idle
<1>3. QED
  BY <1>1, <1>2 DEF OneRequest

(* A user who acts has no payout in flight.                                *)
LEMMA UserWaits ==
  ASSUME OneAtATime, ByUser
  PROVE  /\ Calm' <=> Calm
         /\ Calm => cache = days /\ \A o \in Ops : op[o] = Idle
BY DEF OneAtATime, ByUser, Calm, InFlight

LEMMA WaitStart ==
  ASSUME PostingInit
  PROVE  OneAtATime
<1>1. PostingTypeOK
  BY InitTypes
<1>2. cache = days /\ \A o \in Ops : op[o] = Idle
  BY DEF PostingInit
<1>3. OneRequest
  BY <1>2 DEF OneRequest, Idle
<1>4. QED
  BY <1>1, <1>2, <1>3 DEF OneAtATime

LEMMA RecordWaits ==
  ASSUME OneAtATime, NEW o \in Ops, NEW e, NEW d, NEW amt, NEW advance, recordStaffPayout(o, e, d, amt, advance),
         Calm'
  PROVE  cache' = days' /\ OneRequest'
<1>1. DOMAIN op = Ops /\ cache = days /\ \A q \in Ops : op[q] = Idle
  BY UserWaits DEF recordStaffPayout, OneAtATime, PostingTypeOK
<1>2. PICK x \in NewLines(e, amt, advance) : SendDay(o, d, x)
  BY DEF recordStaffPayout
<1> DEFINE v == Sending(d, cache[d].lines \cup {x})
<1>3. op' = [op EXCEPT ![o] = v] /\ cache' = cache /\ days' = days
  BY <1>2 DEF SendDay, recordStaffPayout
<1>4. v.day = d /\ v.lines = cache[d].lines \cup {x}
  BY DEF Sending
<1> HIDE DEF v
<1>5. OneLine(days'[v.day].lines, v.lines)
  <2>1. (days[d].lines \ v.lines) \cup (v.lines \ days[d].lines) \subseteq {x}
    BY <1>1, <1>4
  <2>2. OneLine(days[d].lines, v.lines)
    BY <2>1, OneLineIs
  <2>3. QED
    BY <1>3, <1>4, <2>2
<1>6. QED
  BY <1>1, <1>3, <1>5, RequestPut

LEMMA DeleteWaits ==
  ASSUME OneAtATime, NEW o \in Ops, NEW m, NEW e, NEW p, deleteStaffPayout(o, m, e, p), Calm'
  PROVE  cache' = days' /\ OneRequest'
<1> DEFINE rest == {x \in cache[p.day].lines : x.line # p.line}
<1>1. DOMAIN op = Ops /\ cache = days /\ (\A q \in Ops : op[q] = Idle) /\ PostingTypeOK
  BY UserWaits DEF deleteStaffPayout, OneAtATime, PostingTypeOK
<1>2. cache' = cache /\ days' = days
  BY DEF deleteStaffPayout
<1>3. CASE p.line # Manual /\ rest # cache[p.day].lines
  <2> DEFINE v == [step |-> "day", day |-> p.day, lines |-> rest]
  <2>1. op' = [op EXCEPT ![o] = v]
    BY <1>3 DEF deleteStaffPayout
  <2>2. PICK x \in cache[p.day].lines : x.line = p.line
    BY <1>3
  <2>3. p.day \in Days
    <3>1. HasRow(bundle, m, e) /\ p \in bundle[m].rows[e].pays
      BY DEF deleteStaffPayout
    <3>2. QED
      BY <1>1, <3>1, RowOf DEF PostingTypeOK, RegisterRow, Pay
  <2>4. \A y \in cache[p.day].lines : y.line = p.line => y = x
    BY <1>1, <2>2, <2>3 DEF PostingTypeOK, Day, DayLines
  <2> HIDE DEF rest
  <2>5. (cache[p.day].lines \ rest) \cup (rest \ cache[p.day].lines) \subseteq {x}
    BY <2>4 DEF rest
  <2>6. v.day = p.day /\ v.lines = rest
    OBVIOUS
  <2> HIDE DEF v
  <2>7. OneLine(cache[p.day].lines, rest)
    <3> DEFINE was == cache[p.day].lines
    <3>1. (was \ rest) \cup (rest \ was) \subseteq {x}
      BY <2>5
    <3> HIDE DEF was
    <3>2. OneLine(was, rest)
      BY ONLY <3>1, OneLineIs
    <3>3. QED
      BY <3>2 DEF was
  <2>8. OneLine(days'[v.day].lines, v.lines)
    BY <1>1, <1>2, <2>6, <2>7
  <2>9. QED
    BY <1>1, <1>2, <2>1, <2>8, RequestPut
<1>4. CASE p.line = Manual \/ rest = cache[p.day].lines
  <2>1. PICK b : StartFlush(o, b)
    BY <1>4 DEF deleteStaffPayout
  <2> DEFINE v == [step |-> "bundle", lines |-> {}, sent |-> b]
  <2>2. op' = [op EXCEPT ![o] = v] /\ v.step # "day"
    BY <2>1 DEF StartFlush
  <2> HIDE DEF v
  <2>3. QED
    BY <1>1, <1>2, <2>2, RequestPut
<1>5. QED
  BY <1>3, <1>4

LEMMA AnswerWaits ==
  ASSUME OneAtATime, NEW o \in Ops, Calm',
         DaySaved(o) \/ DayRefused(o) \/ AnswerLost(o) \/ BundleSaved(o) \/ BundleRefused(o)
  PROVE  cache' = days' /\ OneRequest'
<1>1. mode' = mode
  BY DEF DaySaved, DayRefused, AnswerLost, BundleSaved, BundleRefused
<1>2. /\ Calm /\ PostingTypeOK /\ DOMAIN op = Ops /\ cache = days
      /\ \A q, s \in Ops : op[q] # Idle /\ op[s] # Idle => q = s
  BY <1>1 DEF OneAtATime, Calm, PostingTypeOK, OneRequest
<1>3. op[o] # Idle
  BY DEF DaySaved, DayRefused, AnswerLost, BundleSaved, BundleRefused, Idle
<1>4. \A q \in Ops : q # o => op[q] = Idle
  BY <1>2, <1>3
<1>5. CASE DaySaved(o)
  <2> DEFINE d == op[o].day
             day == [days[d] EXCEPT !.lines = op[o].lines]
             b == Reconciled([cache EXCEPT ![d] = day])
             v == [step |-> "bundle", lines |-> {}, sent |-> b]
  <2>1. /\ days' = [days EXCEPT ![d].lines = op[o].lines] /\ cache' = [cache EXCEPT ![d] = day]
        /\ op' = [op EXCEPT ![o] = v] /\ v.step # "day"
    BY <1>5 DEF DaySaved, StartFlush
  <2>2. cache' = days'
    BY <1>2, <2>1
  <2> HIDE DEF v
  <2>3. \A q \in Ops : op'[q] = IF q = o THEN v ELSE Idle
    BY <1>2, <1>4, <2>1
  <2>4. OneRequest'
    BY <2>1, <2>3 DEF OneRequest, Idle
  <2>5. QED
    BY <2>2, <2>4
<1>6. CASE DayRefused(o) \/ BundleSaved(o) \/ BundleRefused(o)
  <2>1. op' = [op EXCEPT ![o] = Idle] /\ UNCHANGED <<days, cache>>
    BY <1>6 DEF DayRefused, BundleSaved, BundleRefused
  <2>2. \A q \in Ops : op'[q] = Idle
    BY <1>2, <1>4, <2>1
  <2>3. QED
    BY <1>2, <2>1, <2>2, NobodyWaits
<1>7. CASE AnswerLost(o)
  BY <1>2, <1>7 DEF AnswerLost, Calm
<1>8. QED
  BY <1>5, <1>6, <1>7

(* Whatever else a user does leaves payouts alone.                         *)
LEMMA ActWaits ==
  ASSUME OneAtATime, Calm', Books \/ Registers \/ Directory \/ Restart
  PROVE  cache' = days' /\ OneRequest'
<1>1. CASE DebouncedSave
  <2>1. UNCHANGED <<days, cache, op, mode>>
    BY <1>1 DEF DebouncedSave
  <2>2. QED
    BY <2>1 DEF OneAtATime, Calm, OneRequest
<1>2. CASE ~DebouncedSave
  <2>1. /\ ByUser
        /\ op' = op \/ op' = [o \in Ops |-> Idle]
        /\ \/ cache' = days' \/ UNCHANGED <<days, cache>>
           \/ \E d \in Days : LockDay(d)
    <3>1. CASE Books
      BY <3>1 DEF Books, FormSave, DeleteDay, LockDay, RefreshEntries
    <3>2. CASE Registers
      BY <1>2, <3>2 DEF Registers, updateRow, setMonthLockState, generateMonth, executeDeleteMonth, Edit, openPayroll
    <3>3. CASE Directory
      BY <3>3 DEF Directory, updateEmployee, setEmployeeActive, removeEmployee, addEmployee, SetRoster
    <3>4. CASE Restart
      BY <3>4 DEF Restart
    <3>5. QED
      BY <3>1, <3>2, <3>3, <3>4
  <2>2. Calm /\ cache = days /\ \A o \in Ops : op[o] = Idle
    BY <2>1, UserWaits
  <2>3. cache' = days'
    <3>1. ASSUME NEW d \in Days, LockDay(d) PROVE cache' = days'
      <4>1. mode' = mode /\ ~mode.elsewhere
        BY <2>1, <2>2 DEF ByUser, Calm
      <4>2. days' = [days EXCEPT ![d].locked = ~@] /\ cache' = [cache EXCEPT ![d] = days'[d]]
        BY <3>1, <4>1 DEF LockDay
      <4>3. days \in [Days -> Day]
        BY DEF OneAtATime, PostingTypeOK
      <4>4. QED
        BY <2>2, <4>2, <4>3
    <3>2. QED
      BY <2>1, <2>2, <3>1
  <2>4. \A o \in Ops : op'[o] = Idle
    BY <2>1, <2>2
  <2>5. QED
    BY <2>3, <2>4, NobodyWaits
<1>3. QED
  BY <1>1, <1>2

LEMMA WaitNext ==
  ASSUME OneAtATime, [PostingNext]_postingVars
  PROVE  OneAtATime'
<1>1. PostingTypeOK'
  BY NextTypes DEF OneAtATime
<1>2. ASSUME Calm' PROVE cache' = days' /\ OneRequest'
  <2>1. CASE UNCHANGED postingVars
    BY <1>2, <2>1 DEF postingVars, OneAtATime, Calm, OneRequest
  <2>2. CASE Payouts
    <3>1. PICK o \in Ops :
          \/ \E e \in Emps, d \in Days, amt \in PayoutAmounts, advance \in Kinds :
               recordStaffPayout(o, e, d, amt, advance)
          \/ \E m \in DOMAIN bundle, e \in Emps :
               HasRow(bundle, m, e) /\ \E p \in bundle[m].rows[e].pays : deleteStaffPayout(o, m, e, p)
          \/ DaySaved(o) \/ DayRefused(o) \/ AnswerLost(o) \/ BundleSaved(o) \/ BundleRefused(o)
      BY <2>2 DEF Payouts
    <3>2. CASE \E e \in Emps, d \in Days, amt \in PayoutAmounts, advance \in Kinds :
               recordStaffPayout(o, e, d, amt, advance)
      BY <1>2, <3>2, RecordWaits
    <3>3. CASE \E m \in DOMAIN bundle, e \in Emps :
               HasRow(bundle, m, e) /\ \E p \in bundle[m].rows[e].pays : deleteStaffPayout(o, m, e, p)
      BY <1>2, <3>3, DeleteWaits
    <3>4. CASE DaySaved(o) \/ DayRefused(o) \/ AnswerLost(o) \/ BundleSaved(o) \/ BundleRefused(o)
      BY <1>2, <3>4, AnswerWaits
    <3>5. QED
      BY <3>1, <3>2, <3>3, <3>4
  <2>3. CASE Books \/ Registers \/ Directory \/ Restart
    BY <1>2, <2>3, ActWaits
  <2>4. QED
    BY <2>1, <2>2, <2>3 DEF PostingNext
<1>3. QED
  BY <1>1, <1>2 DEF OneAtATime

LEMMA SameLines ==
  ASSUME NEW S
  PROVE  OneLine(S, S)
<1>1. (S \ S) \cup (S \ S) \subseteq {0}
  OBVIOUS
<1>2. QED
  BY <1>1, OneLineIs

(* Without a user only the answer to a payout changes the days.            *)
LEMMA StepIsOneLine ==
  ASSUME OneAtATime, [PostingNext]_postingVars, Calm, userActs' = userActs, NEW d \in Days
  PROVE  OneLine(days[d].lines, days'[d].lines)
<1>1. userActs \in Nat /\ days \in [Days -> Day]
  BY DEF OneAtATime, PostingTypeOK
<1>2. CASE days' = days
  BY <1>2, SameLines
<1>3. CASE \E o \in Ops : DaySaved(o)
  <2>1. PICK o \in Ops : DaySaved(o)
    BY <1>3
  <2>2. op[o].step = "day" /\ days' = [days EXCEPT ![op[o].day].lines = op[o].lines]
    BY <2>1 DEF DaySaved
  <2>3. OneLine(days[op[o].day].lines, op[o].lines)
    BY <2>2 DEF OneAtATime, OneRequest
  <2>4. CASE d = op[o].day
    <3>1. days'[d].lines = op[o].lines
      BY <1>1, <2>2, <2>4 DEF Day
    <3>2. QED
      BY <2>3, <2>4, <3>1
  <2>5. CASE d # op[o].day
    <3>1. days'[d] = days[d]
      BY <1>1, <2>2, <2>5
    <3>2. QED
      BY <3>1, SameLines
  <2>6. QED
    BY <2>4, <2>5
<1>4. ASSUME days' # days PROVE \E o \in Ops : DaySaved(o)
  <2>1. ~ByUser
    BY <1>1 DEF ByUser
  <2>2. PostingNext
    BY <1>4 DEF postingVars
  <2>3. ~Books
    BY <1>4, <2>1 DEF Books, FormSave, DeleteDay, LockDay, RefreshEntries
  <2>4. ~Registers
    BY <1>4, <2>1 DEF Registers, updateRow, setMonthLockState, generateMonth, executeDeleteMonth, Edit,
                      openPayroll, DebouncedSave
  <2>5. ~Directory /\ ~Restart
    BY <2>1 DEF Directory, updateEmployee, setEmployeeActive, removeEmployee, addEmployee, SetRoster, Restart
  <2>6. Payouts
    BY <2>2, <2>3, <2>4, <2>5 DEF PostingNext
  <2>7. PICK o \in Ops :
          \/ \E e \in Emps, d1 \in Days, amt \in PayoutAmounts, advance \in Kinds :
               recordStaffPayout(o, e, d1, amt, advance)
          \/ \E m \in DOMAIN bundle, e \in Emps :
               HasRow(bundle, m, e) /\ \E p \in bundle[m].rows[e].pays : deleteStaffPayout(o, m, e, p)
          \/ DaySaved(o) \/ DayRefused(o) \/ AnswerLost(o) \/ BundleSaved(o) \/ BundleRefused(o)
    BY <2>6 DEF Payouts
  <2>8. \A e, d1, amt, advance : ~recordStaffPayout(o, e, d1, amt, advance)
    BY <2>1 DEF recordStaffPayout
  <2>9. \A m, e, p : ~deleteStaffPayout(o, m, e, p)
    BY <2>1 DEF deleteStaffPayout
  <2>10. ~DayRefused(o) /\ ~AnswerLost(o) /\ ~BundleSaved(o) /\ ~BundleRefused(o)
    BY <1>4 DEF DayRefused, AnswerLost, BundleSaved, BundleRefused, Calm
  <2>11. QED
    BY <2>7, <2>8, <2>9, <2>10
<1>5. QED
  BY <1>2, <1>3, <1>4

(* While users wait for answers, one payout at most is in flight, and its  *)
(* request differs from the day it is for by one line.                     *)
THEOREM PayoutsWait == PostingSpec => []OneAtATime
<1>1. PostingInit => OneAtATime
  BY WaitStart
<1>2. OneAtATime /\ [PostingNext]_postingVars => OneAtATime'
  BY WaitNext
<1>3. QED
  BY <1>1, <1>2, PTL DEF PostingSpec

(* The answer to a payout recorded or removed in the profile changes one   *)
(* line of one day (postSalaryPayoutToDailyEntry sends the whole day).     *)
THEOREM PayoutChangesOneLine == PostingSpec => PayoutIsOneLine
<1>1. OneAtATime /\ [PostingNext]_postingVars =>
        [Calm /\ userActs' = userActs =>
           \A d \in Days : Cardinality((days[d].lines \ days'[d].lines) \cup (days'[d].lines \ days[d].lines)) <= 1
        ]_postingVars
  BY StepIsOneLine DEF OneLine
<1>2. QED
  BY <1>1, PayoutsWait, PTL DEF PostingSpec, PayoutIsOneLine

-----------------------------------------------------------------------------
(* Sums of payouts.                                                        *)
LEMMA PaidUnion ==
  ASSUME NEW A \in SUBSET Pay, IsFiniteSet(A), NEW B \in SUBSET Pay, IsFiniteSet(B)
  PROVE  /\ PaidOf(A) \in Nat /\ PaidOf(B) \in Nat /\ PaidOf(A \cup B) \in Nat
         /\ PaidOf(A \cup B) <= PaidOf(A) + PaidOf(B)
         /\ A \cap B = {} => PaidOf(A \cup B) = PaidOf(A) + PaidOf(B)
<1> DEFINE Fine(T) == /\ PaidOf(A \cup T) <= PaidOf(A) + PaidOf(T)
                      /\ A \cap T = {} => PaidOf(A \cup T) = PaidOf(A) + PaidOf(T)
           G == {T \in SUBSET B : Fine(T)}
<1>1. \A T \in SUBSET B : /\ T \in SUBSET Pay /\ IsFiniteSet(T) /\ PaidOf(T) \in Nat
                          /\ A \cup T \in SUBSET Pay /\ IsFiniteSet(A \cup T) /\ PaidOf(A \cup T) \in Nat
  <2>1. SUFFICES ASSUME NEW T \in SUBSET B
                 PROVE  /\ T \in SUBSET Pay /\ IsFiniteSet(T) /\ PaidOf(T) \in Nat
                        /\ A \cup T \in SUBSET Pay /\ IsFiniteSet(A \cup T) /\ PaidOf(A \cup T) \in Nat
    OBVIOUS
  <2>2. T \in SUBSET Pay /\ IsFiniteSet(T)
    BY FS_Subset
  <2> DEFINE U == A \cup T
  <2>3. U \in SUBSET Pay /\ IsFiniteSet(U)
    BY <2>2, FS_Union
  <2> HIDE DEF U
  <2>4. PaidOf(T) \in Nat /\ PaidOf(U) \in Nat
    BY <2>2, <2>3, PaidOfNat
  <2>5. QED
    BY <2>2, <2>3, <2>4 DEF U
<1>2. PaidOf(A) \in Nat
  BY PaidOfNat
<1>3. ASSUME NEW T \in SUBSET B, \A x \in T : T \ {x} \in G
      PROVE  T \in G
  <2>1. CASE T = {}
    <3>1. PaidOf({}) = 0
      BY SumEmpty DEF PaidOf
    <3>2. A \cup T = A
      BY <2>1
    <3>3. QED
      BY <1>2, <2>1, <3>1, <3>2
  <2>2. CASE T # {}
    <3>1. PICK p \in T : TRUE
      BY <2>2
    <3> DEFINE U == T \ {p}
               V == A \cup U
    <3>2. U \in SUBSET B /\ U \in G /\ p \in Pay /\ p \notin U /\ U \cup {p} = T /\ V \cup {p} = A \cup T
      BY <1>3, <3>1
    <3>3. /\ U \in SUBSET Pay /\ IsFiniteSet(U) /\ V \in SUBSET Pay /\ IsFiniteSet(V)
          /\ PaidOf(U) \in Nat /\ PaidOf(V) \in Nat
      BY <1>1, <3>2
    <3>4. PaidOf(V) <= PaidOf(A) + PaidOf(U) /\ (A \cap U = {} => PaidOf(V) = PaidOf(A) + PaidOf(U))
      BY <3>2
    <3>5. A \cap T = {} => A \cap U = {} /\ p \notin V
      BY <3>1
    <3> HIDE DEF U, V
    <3>6. p.amt \in Nat /\ PaidOf(U \cup {p}) = PaidOf(U) + p.amt
      BY <3>2, <3>3, PaidMore
    <3>7. PaidOf(V \cup {p}) = IF p \in V THEN PaidOf(V) ELSE PaidOf(V) + p.amt
      BY <3>2, <3>3, PaidMore
    <3>8. PaidOf(T) = PaidOf(U) + p.amt
      BY <3>2, <3>6
    <3>9. PaidOf(A \cup T) = IF p \in V THEN PaidOf(V) ELSE PaidOf(V) + p.amt
      BY <3>2, <3>7
    <3>10. Fine(T)
      BY <1>2, <3>3, <3>4, <3>5, <3>6, <3>8, <3>9
    <3>11. QED
      BY <3>10
  <2>3. QED
    BY <2>1, <2>2
<1>4. SUBSET B \subseteq G
  <2> HIDE DEF G
  <2>1. QED
    BY <1>3, SubsetInduction
<1>5. Fine(B)
  BY <1>4
<1>6. QED
  BY <1>1, <1>2, <1>5

LEMMA PaidSubset ==
  ASSUME NEW B \in SUBSET Pay, IsFiniteSet(B), NEW A \in SUBSET B
  PROVE  PaidOf(A) \in Nat /\ PaidOf(B) \in Nat /\ PaidOf(A) <= PaidOf(B)
<1> DEFINE C == B \ A
<1>1. A \in SUBSET Pay /\ IsFiniteSet(A) /\ C \in SUBSET Pay /\ IsFiniteSet(C) /\ A \cap C = {} /\ A \cup C = B
  BY FS_Subset
<1> HIDE DEF C
<1>2. PaidOf(A) \in Nat /\ PaidOf(C) \in Nat /\ PaidOf(A \cup C) = PaidOf(A) + PaidOf(C)
  BY <1>1, PaidUnion
<1>3. PaidOf(B) = PaidOf(A) + PaidOf(C)
  BY <1>1, <1>2
<1>4. QED
  BY <1>2, <1>3

(* Sums over months.                                                       *)
LEMMA SumMono ==
  ASSUME NEW N \in Nat, NEW f, NEW g, \A k \in 1 .. N : f[k] \in Nat /\ g[k] \in Nat /\ f[k] <= g[k]
  PROVE  /\ SumFunctionOnSet(f, 1 .. N) \in Nat /\ SumFunctionOnSet(g, 1 .. N) \in Nat
         /\ SumFunctionOnSet(f, 1 .. N) <= SumFunctionOnSet(g, 1 .. N)
<1> DEFINE sf(n) == SumFunctionOnSet(f, 1 .. n)
           sg(n) == SumFunctionOnSet(g, 1 .. n)
           G == {n \in Nat : n <= N => sf(n) \in Nat /\ sg(n) \in Nat /\ sf(n) <= sg(n)}
<1>1. 0 \in G
  <2>1. 1 .. 0 = {}
    OBVIOUS
  <2>2. sf(0) = 0 /\ sg(0) = 0
    BY <2>1, SumEmpty
  <2> HIDE DEF sf, sg
  <2>3. QED
    BY <2>2
<1>2. ASSUME NEW n \in Nat, n \in G PROVE n + 1 \in G
  <2>1. SUFFICES ASSUME n + 1 <= N PROVE sf(n + 1) \in Nat /\ sg(n + 1) \in Nat /\ sf(n + 1) <= sg(n + 1)
    OBVIOUS
  <2>2. sf(n) \in Nat /\ sg(n) \in Nat /\ sf(n) <= sg(n)
    BY <1>2, <2>1
  <2>3. \A k \in 1 .. n + 1 : k \in 1 .. N
    BY <2>1
  <2>4. sf(n + 1) = f[n + 1] + sf(n)
    BY <2>3, SumUpTo
  <2>5. sg(n + 1) = g[n + 1] + sg(n)
    BY <2>3, SumUpTo
  <2>6. f[n + 1] \in Nat /\ g[n + 1] \in Nat /\ f[n + 1] <= g[n + 1]
    BY <2>1
  <2> HIDE DEF sf, sg
  <2>7. QED
    BY <2>2, <2>4, <2>5, <2>6
<1>3. N \in G
  <2> HIDE DEF G
  <2>1. QED
    BY <1>1, <1>2, SetInduction
<1>4. QED
  BY <1>3

LEMMA SumPrefix ==
  ASSUME NEW N \in Nat, NEW f, \A k \in 1 .. N : f[k] \in Nat, NEW m \in Nat, m <= N
  PROVE  /\ SumFunctionOnSet(f, 1 .. m) \in Nat /\ SumFunctionOnSet(f, 1 .. N) \in Nat
         /\ SumFunctionOnSet(f, 1 .. m) <= SumFunctionOnSet(f, 1 .. N)
<1> DEFINE sum(n) == SumFunctionOnSet(f, 1 .. n)
           G == {n \in Nat : n <= N => sum(n) \in Nat /\ (m <= n => sum(m) \in Nat /\ sum(m) <= sum(n))}
<1>1. 0 \in G
  <2>1. 1 .. 0 = {}
    OBVIOUS
  <2>2. sum(0) = 0
    BY <2>1, SumEmpty
  <2>3. m <= 0 => sum(m) = sum(0)
    <3>1. m <= 0 => m = 0
      OBVIOUS
    <3>2. QED
      BY <3>1
  <2> HIDE DEF sum
  <2>4. QED
    BY <2>2, <2>3
<1>2. ASSUME NEW n \in Nat, n \in G PROVE n + 1 \in G
  <2>1. SUFFICES ASSUME n + 1 <= N PROVE sum(n + 1) \in Nat /\ (m <= n + 1 => sum(m) \in Nat /\ sum(m) <= sum(n + 1))
    OBVIOUS
  <2>2. sum(n) \in Nat /\ (m <= n => sum(m) \in Nat /\ sum(m) <= sum(n))
    BY <1>2, <2>1
  <2>3. \A k \in 1 .. n + 1 : k \in 1 .. N
    BY <2>1
  <2>4. sum(n + 1) = f[n + 1] + sum(n)
    BY <2>3, SumUpTo
  <2>5. f[n + 1] \in Nat
    BY <2>1
  <2>6. m = n + 1 => sum(m) = sum(n + 1)
    OBVIOUS
  <2> HIDE DEF sum
  <2>7. CASE m = n + 1
    BY <2>2, <2>4, <2>5, <2>6, <2>7
  <2>8. CASE m # n + 1
    <3>1. m <= n + 1 => m <= n
      BY <2>8
    <3>2. sum(n + 1) \in Nat /\ sum(n) <= sum(n + 1)
      BY <2>2, <2>4, <2>5
    <3>3. CASE m <= n
      <4>1. sum(m) \in Nat /\ sum(m) <= sum(n)
        BY <2>2, <3>3
      <4>2. QED
        BY <2>2, <3>2, <4>1
    <3>4. QED
      BY <3>1, <3>2, <3>3
  <2>9. QED
    BY <2>7, <2>8
<1>3. Nat \subseteq G
  <2> HIDE DEF G
  <2>1. QED
    BY <1>1, <1>2, SetInduction
<1>4. m \in G /\ N \in G
  BY <1>3
<1>5. QED
  BY <1>4

(* Payouts in parts, one for each number.                                  *)
InParts(c, N, A) == \A p \in A : \E k \in 1 .. N : p \in c[k]
Apart(c, N, A) == /\ \A k \in 1 .. N : c[k] \subseteq A
                  /\ \A j, k \in 1 .. N : \A p \in c[k] : p \in c[j] => j = k

LEMMA PaidInParts ==
  ASSUME NEW N \in Nat, NEW c, \A k \in 1 .. N : c[k] \in SUBSET Pay /\ IsFiniteSet(c[k]),
         NEW f, \A k \in 1 .. N : f[k] = PaidOf(c[k]), NEW A \in SUBSET Pay, IsFiniteSet(A)
  PROVE  /\ PaidOf(A) \in Nat /\ SumFunctionOnSet(f, 1 .. N) \in Nat
         /\ InParts(c, N, A) => PaidOf(A) <= SumFunctionOnSet(f, 1 .. N)
         /\ Apart(c, N, A) => SumFunctionOnSet(f, 1 .. N) <= PaidOf(A)
<1> DEFINE part(n) == {p \in A : \E k \in 1 .. n : p \in c[k]}
           sum(n) == SumFunctionOnSet(f, 1 .. n)
           G == {n \in Nat : n <= N => /\ sum(n) \in Nat /\ PaidOf(part(n)) <= sum(n)
                                       /\ Apart(c, N, A) => PaidOf(part(n)) = sum(n)}
<1>1. \A k \in 1 .. N : f[k] \in Nat
  BY PaidOfNat
<1>2. \A n : part(n) \in SUBSET A /\ part(n) \in SUBSET Pay /\ IsFiniteSet(part(n))
  <2>1. \A n : part(n) \in SUBSET A
    OBVIOUS
  <2> HIDE DEF part
  <2>2. QED
    BY <2>1, FS_Subset
<1>3. 0 \in G
  <2>1. part(0) = {} /\ 1 .. 0 = {}
    OBVIOUS
  <2>2. PaidOf(part(0)) = 0 /\ sum(0) = 0
    BY <2>1, SumEmpty DEF PaidOf
  <2> HIDE DEF part, sum
  <2>3. QED
    BY <2>2
<1>4. ASSUME NEW n \in Nat, n \in G PROVE n + 1 \in G
  <2>1. SUFFICES ASSUME n + 1 <= N
                 PROVE  /\ sum(n + 1) \in Nat /\ PaidOf(part(n + 1)) <= sum(n + 1)
                        /\ Apart(c, N, A) => PaidOf(part(n + 1)) = sum(n + 1)
    OBVIOUS
  <2> DEFINE D == A \cap c[n + 1]
  <2>2. /\ sum(n) \in Nat /\ PaidOf(part(n)) <= sum(n)
        /\ Apart(c, N, A) => PaidOf(part(n)) = sum(n)
    BY <1>4, <2>1
  <2>3. \A k \in 1 .. n + 1 : k \in 1 .. N
    BY <2>1
  <2>4. sum(n + 1) = f[n + 1] + sum(n) /\ f[n + 1] \in Nat
    <3>1. \A k \in 1 .. n + 1 : f[k] \in Nat
      BY <1>1, <2>3
    <3>2. QED
      BY <3>1, SumUpTo
  <2>5. part(n + 1) = part(n) \cup D
    <3>1. \A k : k \in 1 .. n + 1 <=> k \in 1 .. n \/ k = n + 1
      OBVIOUS
    <3>2. QED
      BY <3>1
  <2>6. c[n + 1] \in SUBSET Pay /\ IsFiniteSet(c[n + 1]) /\ f[n + 1] = PaidOf(c[n + 1])
    BY <2>1
  <2>7. D \in SUBSET c[n + 1] /\ D \in SUBSET Pay /\ IsFiniteSet(D)
    BY <2>6, FS_Subset
  <2>8. Apart(c, N, A) => D = c[n + 1] /\ part(n) \cap D = {}
    <3>1. ASSUME Apart(c, N, A), NEW p \in part(n) PROVE p \notin D
      <4>1. PICK k \in 1 .. n : p \in c[k]
        OBVIOUS
      <4>2. k \in 1 .. N /\ n + 1 \in 1 .. N /\ k # n + 1
        BY <2>1
      <4>3. QED
        BY <3>1, <4>1, <4>2 DEF Apart
    <3>2. Apart(c, N, A) => D = c[n + 1]
      BY <2>1 DEF Apart
    <3> HIDE DEF part, D
    <3>3. QED
      BY <3>1, <3>2
  <2> HIDE DEF part, D, sum
  <2>9. PaidOf(D) \in Nat /\ PaidOf(D) <= PaidOf(c[n + 1])
    BY <2>6, <2>7, PaidSubset
  <2>10. /\ PaidOf(part(n)) \in Nat /\ PaidOf(part(n) \cup D) \in Nat
         /\ PaidOf(part(n) \cup D) <= PaidOf(part(n)) + PaidOf(D)
         /\ part(n) \cap D = {} => PaidOf(part(n) \cup D) = PaidOf(part(n)) + PaidOf(D)
    BY <1>2, <2>7, PaidUnion
  <2>11. PaidOf(part(n + 1)) = PaidOf(part(n) \cup D)
    BY <2>5
  <2>12. Apart(c, N, A) => PaidOf(D) = f[n + 1] /\ PaidOf(part(n) \cup D) = PaidOf(part(n)) + PaidOf(D)
    BY <2>6, <2>8, <2>10
  <2>13. PaidOf(D) <= f[n + 1]
    BY <2>6, <2>9
  <2>14. QED
    BY <2>2, <2>4, <2>9, <2>10, <2>11, <2>12, <2>13
<1>5. N \in G
  <2> HIDE DEF G
  <2>1. QED
    BY <1>3, <1>4, SetInduction
<1>6. InParts(c, N, A) => part(N) = A
  BY DEF InParts
<1>7. PaidOf(A) \in Nat /\ PaidOf(part(N)) <= PaidOf(A)
  <2> HIDE DEF part
  <2>1. QED
    BY <1>2, PaidSubset
<1>8. sum(N) \in Nat /\ PaidOf(part(N)) <= sum(N) /\ (Apart(c, N, A) => PaidOf(part(N)) = sum(N))
  BY <1>5
<1> HIDE DEF part
<1>9. QED
  BY <1>6, <1>7, <1>8

(* The payouts of e that count in a month.                                 *)
Counting(b, m, e, x) == {p \in Pays(b, m, e) : p.line # x \/ x = Manual}
PaidBy(b, e, x) == [m \in Months |-> Paid(b, m, e, x)]

LEMMA CountingIs ==
  ASSUME NEW b, IsBundle(b), NEW m, NEW e, NEW x
  PROVE  /\ Counting(b, m, e, x) \in SUBSET Pay /\ IsFiniteSet(Counting(b, m, e, x))
         /\ Paid(b, m, e, x) = PaidOf(Counting(b, m, e, x))
<1>1. Pays(b, m, e) \in SUBSET Pay /\ IsFiniteSet(Pays(b, m, e))
  BY PaysAre
<1>2. Counting(b, m, e, x) \in SUBSET Pays(b, m, e)
  BY DEF Counting
<1>3. Counting(b, m, e, x) \in SUBSET Pay /\ IsFiniteSet(Counting(b, m, e, x))
  BY <1>1, <1>2, FS_Subset
<1>4. CASE HasRow(b, m, e)
  <2>1. Counting(b, m, e, x) = Counted(b[m].rows[e], x)
    BY <1>4 DEF Counting, Counted, Pays
  <2>2. QED
    BY <1>3, <1>4, <2>1 DEF Paid
<1>5. CASE ~HasRow(b, m, e)
  <2>1. Counting(b, m, e, x) = {} /\ Paid(b, m, e, x) = 0
    BY <1>5 DEF Counting, Pays, Paid
  <2>2. PaidOf({}) = 0
    BY SumEmpty DEF PaidOf
  <2>3. QED
    BY <1>3, <2>1, <2>2
<1>6. QED
  BY <1>4, <1>5

LEMMA MonthsPaid ==
  ASSUME NEW b, IsBundle(b), NEW e, NEW x, NEW A \in SUBSET Pay, IsFiniteSet(A)
  PROVE  /\ PaidOf(A) \in Nat /\ SumOver(PaidBy(b, e, x), Months) \in Nat
         /\ (\A p \in A : \E m \in Months : p \in Counting(b, m, e, x))
              => PaidOf(A) <= SumOver(PaidBy(b, e, x), Months)
         /\ /\ \A m \in Months : Counting(b, m, e, x) \subseteq A
            /\ \A j, m \in Months : \A p \in Counting(b, m, e, x) : p \in Counting(b, j, e, x) => j = m
            => SumOver(PaidBy(b, e, x), Months) <= PaidOf(A)
<1> DEFINE c == [m \in Months |-> Counting(b, m, e, x)]
           f == PaidBy(b, e, x)
<1>1. LastMonth \in Nat /\ Months = 1 .. LastMonth
  BY MonthFacts
<1>2. \A m \in Months : c[m] = Counting(b, m, e, x) /\ f[m] = Paid(b, m, e, x)
  BY DEF PaidBy
<1> HIDE DEF c, f
<1>3. \A k \in 1 .. LastMonth : c[k] \in SUBSET Pay /\ IsFiniteSet(c[k]) /\ f[k] = PaidOf(c[k])
  BY <1>1, <1>2, CountingIs
<1>4. /\ PaidOf(A) \in Nat /\ SumFunctionOnSet(f, 1 .. LastMonth) \in Nat
      /\ InParts(c, LastMonth, A) => PaidOf(A) <= SumFunctionOnSet(f, 1 .. LastMonth)
      /\ Apart(c, LastMonth, A) => SumFunctionOnSet(f, 1 .. LastMonth) <= PaidOf(A)
  BY <1>1, <1>3, PaidInParts
<1>5. SumOver(f, Months) = SumFunctionOnSet(f, 1 .. LastMonth)
  BY <1>1 DEF SumOver
<1>6. (\A p \in A : \E m \in Months : p \in Counting(b, m, e, x)) => InParts(c, LastMonth, A)
  BY <1>1, <1>2 DEF InParts
<1>7. /\ \A m \in Months : Counting(b, m, e, x) \subseteq A
      /\ \A j, m \in Months : \A p \in Counting(b, m, e, x) : p \in Counting(b, j, e, x) => j = m
      => Apart(c, LastMonth, A)
  BY <1>1, <1>2 DEF Apart
<1>8. QED
  BY <1>4, <1>5, <1>6, <1>7 DEF f

(* With no less pay and no more paid, no more is carried.                  *)
LEMMA CarryDown ==
  ASSUME NEW b, IsBundle(b), NEW c, IsBundle(c), NEW e, NEW x, NEW y,
         \A k \in Months : Payable(c, k, e) >= Payable(b, k, e) /\ Paid(c, k, e, y) <= Paid(b, k, e, x)
  PROVE  \A k \in 0 .. LastMonth : CarriedOut(c, e, y)[k] <= CarriedOut(b, e, x)[k]
<1> DEFINE before == CarriedOut(b, e, x)
           after == CarriedOut(c, e, y)
           G == {k \in Nat : k <= LastMonth => after[k] <= before[k]}
<1>1. LastMonth \in Nat /\ Months = 1 .. LastMonth
  BY MonthFacts
<1>2. 0 \in G
  <2>1. after[0] = 0 /\ before[0] = 0
    BY CarrySteps
  <2> HIDE DEF before, after
  <2>2. QED
    BY <2>1
<1>3. ASSUME NEW k \in Nat, k \in G PROVE k + 1 \in G
  <2>1. SUFFICES ASSUME k + 1 <= LastMonth PROVE after[k + 1] <= before[k + 1]
    OBVIOUS
  <2>2. k + 1 \in Months /\ k + 1 - 1 = k /\ after[k] <= before[k]
    BY <1>1, <1>3, <2>1
  <2>3. /\ before[k + 1] = AtLeastZero(Paid(b, k + 1, e, x) + before[k + 1 - 1] - Payable(b, k + 1, e))
        /\ before[k + 1 - 1] \in Nat
    BY <2>2, OwedIs
  <2>4. /\ after[k + 1] = AtLeastZero(Paid(c, k + 1, e, y) + after[k + 1 - 1] - Payable(c, k + 1, e))
        /\ after[k + 1 - 1] \in Nat
    BY <2>2, OwedIs
  <2>5. /\ Payable(c, k + 1, e) >= Payable(b, k + 1, e) /\ Paid(c, k + 1, e, y) <= Paid(b, k + 1, e, x)
        /\ Payable(b, k + 1, e) \in Nat /\ Paid(c, k + 1, e, y) \in Nat
        /\ Payable(c, k + 1, e) \in Nat /\ Paid(b, k + 1, e, x) \in Nat
    BY <2>2, PayNat
  <2> HIDE DEF before, after
  <2>6. QED
    BY <2>2, <2>3, <2>4, <2>5 DEF AtLeastZero
<1>4. Nat \subseteq G
  <2> HIDE DEF G
  <2>1. QED
    BY <1>2, <1>3, SetInduction
<1>5. \A k \in 0 .. LastMonth : after[k] <= before[k]
  <2> HIDE DEF before, after
  <2>1. QED
    BY <1>1, <1>4
<1>6. QED
  BY <1>5

(* If nothing is paid for a month while an earlier one is owed, credit     *)
(* left at the end means that nothing is owed.                             *)
LEMMA CreditLast ==
  ASSUME NEW b, IsBundle(b), NEW e, NEW x,
         \A m, k \in Months : k < m /\ Paid(b, m, e, x) # 0 => StillOwed(b, e, x)[k] = 0,
         NEW j \in Months, StillOwed(b, e, x)[j] # 0
  PROVE  CarriedOut(b, e, x)[LastMonth] = 0
<1> DEFINE carry == CarriedOut(b, e, x)
           owed == StillOwed(b, e, x)
           G == {n \in Nat : j <= n /\ n <= LastMonth => carry[n] = 0}
<1>1. LastMonth \in Nat /\ Months = 1 .. LastMonth /\ j \in Nat /\ 1 <= j /\ j <= LastMonth
  BY MonthFacts
<1>2. \A m \in Months : /\ carry[m] = AtLeastZero(Paid(b, m, e, x) + carry[m - 1] - Payable(b, m, e))
                        /\ owed[m] = AtLeastZero(Payable(b, m, e) - carry[m - 1] - Paid(b, m, e, x))
                        /\ carry[m - 1] \in Nat
  BY OwedIs
<1>3. \A m \in Months : Payable(b, m, e) \in Nat /\ Paid(b, m, e, x) \in Nat
  BY PayNat
<1> HIDE DEF carry, owed
<1>4. 0 \in G
  BY <1>1
<1>5. ASSUME NEW n \in Nat, n \in G PROVE n + 1 \in G
  <2>1. SUFFICES ASSUME j <= n + 1, n + 1 <= LastMonth PROVE carry[n + 1] = 0
    OBVIOUS
  <2>2. n + 1 \in Months /\ n + 1 - 1 = n
    BY <1>1, <2>1
  <2>3. /\ carry[n + 1] = AtLeastZero(Paid(b, n + 1, e, x) + carry[n] - Payable(b, n + 1, e))
        /\ owed[n + 1] = AtLeastZero(Payable(b, n + 1, e) - carry[n] - Paid(b, n + 1, e, x))
        /\ carry[n] \in Nat /\ Payable(b, n + 1, e) \in Nat /\ Paid(b, n + 1, e, x) \in Nat
    BY <1>2, <1>3, <2>2
  <2>4. CASE j = n + 1
    <3>1. owed[n + 1] # 0
      BY <2>4 DEF owed
    <3>2. QED
      BY <2>3, <3>1 DEF AtLeastZero
  <2>5. CASE j # n + 1
    <3>1. j <= n /\ n <= LastMonth /\ j < n + 1
      BY <1>1, <2>1, <2>5
    <3>2. carry[n] = 0
      BY <1>5, <3>1
    <3>3. Paid(b, n + 1, e, x) = 0
      BY <2>2, <3>1
    <3>4. QED
      BY <2>3, <3>2, <3>3 DEF AtLeastZero
  <2>6. QED
    BY <2>4, <2>5
<1>6. LastMonth \in G
  <2> HIDE DEF G
  <2>1. QED
    BY <1>1, <1>4, <1>5, SetInduction
<1>7. QED
  BY <1>1, <1>6 DEF carry

-----------------------------------------------------------------------------
(* What all months pay an employee.                                        *)
PayableTo(b, e) == [m \in Months |-> Payable(b, m, e)]
Worth(b, e) == SumOver(PayableTo(b, e), Months)

LEMMA WorthIs ==
  ASSUME NEW b, IsBundle(b), NEW e, NEW x
  PROVE  /\ Worth(b, e) \in Nat /\ SumOver(PaidBy(b, e, x), Months) \in Nat
         /\ SumOver(StillOwed(b, e, x), Months) \in Nat /\ CarriedOut(b, e, x)[LastMonth] \in Nat
         /\ SumOver(StillOwed(b, e, x), Months) + SumOver(PaidBy(b, e, x), Months)
              = Worth(b, e) + CarriedOut(b, e, x)[LastMonth]
         /\ \A m \in Months : SumOver(StillOwed(b, e, x), 1 .. m) \in Nat
                              /\ SumOver(StillOwed(b, e, x), 1 .. m) <= SumOver(StillOwed(b, e, x), Months)
<1> DEFINE owed == StillOwed(b, e, x)
           paid == PaidBy(b, e, x)
           pay == PayableTo(b, e)
           carry == CarriedOut(b, e, x)
<1>1. LastMonth \in Nat \ {0} /\ Months = 1 .. LastMonth /\ LastMonth \in Months
  BY MonthFacts
<1>2. SumOver(owed, 1 .. LastMonth) + SumOver(paid, 1 .. LastMonth) = SumOver(pay, 1 .. LastMonth) + carry[LastMonth]
  BY <1>1, Balanced DEF PaidBy, PayableTo
<1>3. \A m \in 1 .. LastMonth : pay[m] \in Nat /\ paid[m] \in Nat
  BY <1>1, PayNat DEF PaidBy, PayableTo
<1>4. \A m \in 1 .. LastMonth : owed[m] \in Nat /\ carry[m] \in Nat
  BY <1>1, OwedIs
<1>5. Worth(b, e) = SumOver(pay, 1 .. LastMonth)
  BY <1>1 DEF Worth
<1> HIDE DEF owed, paid, pay, carry
<1>6. LastMonth \in Nat /\ LastMonth <= LastMonth
  BY <1>1
<1>7. SumFunctionOnSet(pay, 1 .. LastMonth) \in Nat
  BY <1>3, <1>6, SumPrefix
<1>8. SumFunctionOnSet(paid, 1 .. LastMonth) \in Nat
  BY <1>3, <1>6, SumPrefix
<1>9. ASSUME NEW m \in Months
      PROVE  /\ SumFunctionOnSet(owed, 1 .. m) \in Nat /\ SumFunctionOnSet(owed, 1 .. LastMonth) \in Nat
             /\ SumFunctionOnSet(owed, 1 .. m) <= SumFunctionOnSet(owed, 1 .. LastMonth)
  <2>1. m \in Nat /\ m <= LastMonth
    BY <1>1
  <2>2. QED
    BY <1>4, <1>6, <2>1, SumPrefix
<1>10. SumFunctionOnSet(owed, 1 .. LastMonth) \in Nat
  BY <1>1, <1>9
<1>11. carry[LastMonth] \in Nat
  BY <1>1, <1>4
<1>12. \A S, f : SumOver(f, S) = SumFunctionOnSet(f, S)
  BY DEF SumOver
<1>13. QED
  BY <1>1, <1>2, <1>5, <1>7, <1>8, <1>9, <1>10, <1>11, <1>12 DEF owed, paid, carry

LEMMA WorthMore ==
  ASSUME NEW b, IsBundle(b), NEW c, IsBundle(c), NEW e,
         \A m \in Months : Payable(b, m, e) <= Payable(c, m, e)
  PROVE  Worth(b, e) \in Nat /\ Worth(c, e) \in Nat /\ Worth(b, e) <= Worth(c, e)
<1> DEFINE f == PayableTo(b, e)
           g == PayableTo(c, e)
<1>1. LastMonth \in Nat /\ Months = 1 .. LastMonth
  BY MonthFacts
<1>2. \A m \in 1 .. LastMonth : f[m] \in Nat /\ g[m] \in Nat /\ f[m] <= g[m]
  BY <1>1, PayNat DEF PayableTo
<1> HIDE DEF f, g
<1>3. /\ SumFunctionOnSet(f, 1 .. LastMonth) \in Nat /\ SumFunctionOnSet(g, 1 .. LastMonth) \in Nat
      /\ SumFunctionOnSet(f, 1 .. LastMonth) <= SumFunctionOnSet(g, 1 .. LastMonth)
  BY <1>1, <1>2, SumMono
<1>4. QED
  BY <1>1, <1>3 DEF Worth, SumOver, f, g

(* Nobody has credit left, or only what came with the first month.         *)
Quiet(b, e) == CarriedOut(b, e, Manual)[LastMonth] = 0 \/ \A m \in Months : Pays(b, m, e) # {} => m = 1

LEMMA CountingLess ==
  ASSUME NEW b, IsBundle(b), NEW c, IsBundle(c), NEW m, NEW e, NEW x, Pays(c, m, e) \subseteq Pays(b, m, e)
  PROVE  Paid(c, m, e, x) <= Paid(b, m, e, Manual) /\ Paid(c, m, e, x) \in Nat /\ Paid(b, m, e, Manual) \in Nat
<1>1. /\ Counting(b, m, e, Manual) \in SUBSET Pay /\ IsFiniteSet(Counting(b, m, e, Manual))
      /\ Paid(b, m, e, Manual) = PaidOf(Counting(b, m, e, Manual))
  BY CountingIs
<1>2. Paid(c, m, e, x) = PaidOf(Counting(c, m, e, x))
  BY CountingIs
<1>3. Counting(c, m, e, x) \in SUBSET Counting(b, m, e, Manual)
  BY DEF Counting
<1>4. /\ PaidOf(Counting(c, m, e, x)) \in Nat /\ PaidOf(Counting(b, m, e, Manual)) \in Nat
      /\ PaidOf(Counting(c, m, e, x)) <= PaidOf(Counting(b, m, e, Manual))
  BY <1>1, <1>3, PaidSubset
<1>5. QED
  BY <1>1, <1>2, <1>4

LEMMA QuietLess ==
  ASSUME NEW b, IsBundle(b), NEW c, IsBundle(c), NEW e, Quiet(b, e),
         \A m \in Months : Payable(c, m, e) >= Payable(b, m, e) /\ Pays(c, m, e) \subseteq Pays(b, m, e)
  PROVE  Quiet(c, e)
<1>1. CASE CarriedOut(b, e, Manual)[LastMonth] = 0
  <2>1. \A k \in Months : Payable(c, k, e) >= Payable(b, k, e) /\ Paid(c, k, e, Manual) <= Paid(b, k, e, Manual)
    BY CountingLess
  <2>2. \A k \in 0 .. LastMonth : CarriedOut(c, e, Manual)[k] <= CarriedOut(b, e, Manual)[k]
    BY <2>1, CarryDown
  <2>3. LastMonth \in 0 .. LastMonth /\ LastMonth \in Months
    BY MonthFacts
  <2>4. CarriedOut(c, e, Manual)[LastMonth] \in Nat
    BY <2>3, OwedIs
  <2>5. CarriedOut(c, e, Manual)[LastMonth] <= CarriedOut(b, e, Manual)[LastMonth]
    BY <2>2, <2>3
  <2>6. CarriedOut(c, e, Manual)[LastMonth] = 0
    BY <1>1, <2>4, <2>5
  <2>7. QED
    BY <2>6 DEF Quiet
<1>2. CASE \A m \in Months : Pays(b, m, e) # {} => m = 1
  BY <1>2 DEF Quiet
<1>3. QED
  BY <1>1, <1>2 DEF Quiet

(* An amount that is due fits in what is left of the pay.                  *)
LEMMA Affordable ==
  ASSUME NEW b, IsBundle(b), NEW e, Quiet(b, e), NEW x, NEW m \in Months, NEW amt \in Nat \ {0},
         amt <= SumOver(StillOwed(b, e, x), 1 .. m)
  PROVE  /\ amt + SumOver(PaidBy(b, e, x), Months) <= Worth(b, e)
         /\ SumOver(PaidBy(b, e, x), Months) \in Nat /\ Worth(b, e) \in Nat
<1> DEFINE owed == StillOwed(b, e, x)
           left == CarriedOut(b, e, x)[LastMonth]
           so == SumOver(owed, Months)
           sp == SumOver(PaidBy(b, e, x), Months)
           sm == SumOver(owed, 1 .. m)
           w == Worth(b, e)
<1>1. /\ w \in Nat /\ sp \in Nat /\ so \in Nat /\ left \in Nat /\ so + sp = w + left
      /\ sm \in Nat /\ sm <= so
  BY WorthIs
<1>2. amt <= sm
  OBVIOUS
<1>3. LastMonth \in Nat \ {0} /\ Months = 1 .. LastMonth /\ LastMonth \in 0 .. LastMonth
  BY MonthFacts
<1>4. \A k \in Months : owed[k] \in Nat
  BY OwedIs
<1>5. left = 0
  <2>1. CASE CarriedOut(b, e, Manual)[LastMonth] = 0
    <3>1. \A k \in Months : Payable(b, k, e) >= Payable(b, k, e) /\ Paid(b, k, e, x) <= Paid(b, k, e, Manual)
      BY CountingLess, PayNat
    <3>2. \A k \in 0 .. LastMonth : CarriedOut(b, e, x)[k] <= CarriedOut(b, e, Manual)[k]
      BY <3>1, CarryDown
    <3>3. left <= 0
      BY <1>3, <2>1, <3>2
    <3> HIDE DEF left
    <3>4. QED
      BY <1>1, <3>3
  <2>2. CASE \A k \in Months : Pays(b, k, e) # {} => k = 1
    <3>1. \E j \in Months : owed[j] # 0
      <4>1. SUFFICES ASSUME \A j \in Months : owed[j] = 0 PROVE FALSE
        OBVIOUS
      <4> HIDE DEF owed
      <4>2. IsFiniteSet(Months)
        BY <1>3, FS_Interval
      <4>3. Counts(owed, Months)
        BY <1>4, <4>2 DEF Counts
      <4>4. SumFunctionOnSet(owed, Months) = 0
        BY <4>1, <4>3, SumOfZeros
      <4>5. so = 0
        BY <4>4 DEF SumOver
      <4> HIDE DEF so, sm, sp, w, left
      <4>6. QED
        BY <1>1, <1>2, <4>5
    <3>2. PICK j \in Months : StillOwed(b, e, x)[j] # 0
      BY <3>1
    <3>3. ASSUME NEW n \in Months, NEW k \in Months, k < n, Paid(b, n, e, x) # 0
          PROVE  StillOwed(b, e, x)[k] = 0
      <4>1. Counting(b, n, e, x) # {}
        <5>1. Paid(b, n, e, x) = PaidOf(Counting(b, n, e, x))
          BY CountingIs
        <5>2. PaidOf({}) = 0
          BY SumEmpty DEF PaidOf
        <5>3. QED
          BY <3>3, <5>1, <5>2
      <4>2. n = 1
        BY <2>2, <4>1 DEF Counting
      <4>3. QED
        BY <1>3, <3>3, <4>2
    <3>4. QED
      BY <3>2, <3>3, CreditLast
  <2>3. QED
    BY <2>1, <2>2 DEF Quiet
<1>6. amt + sp <= w
  <2> HIDE DEF owed, left, so, sp, sm, w
  <2>1. QED
    BY <1>1, <1>2, <1>5
<1>7. QED
  BY <1>1, <1>6

-----------------------------------------------------------------------------
(* The payouts of e among the staff lines, and their total.                *)
PayoutsOf(S, e) == {Payout(i) : i \in {j \in S : j.emp = e}}
TotalOf(S, e) == PaidOf(PayoutsOf(S, e))

LEMMA PayoutsAre ==
  ASSUME NEW S \in SUBSET StaffLine, IsFiniteSet(S), NEW e
  PROVE  /\ PayoutsOf(S, e) \in SUBSET Pay /\ IsFiniteSet(PayoutsOf(S, e)) /\ TotalOf(S, e) \in Nat
         /\ \A p : p \in PayoutsOf(S, e) <=> \E i \in S : i.emp = e /\ p = Payout(i)
<1> DEFINE mine == {j \in S : j.emp = e}
           P == PayoutsOf(S, e)
<1>1. mine \in SUBSET S /\ mine \in SUBSET StaffLine /\ IsFiniteSet(mine)
  BY FS_Subset
<1>2. P = {Payout(i) : i \in mine}
  BY DEF PayoutsOf
<1>3. \A p : p \in P <=> \E i \in S : i.emp = e /\ p = Payout(i)
  BY <1>2
<1> HIDE DEF mine
<1>4. IsFiniteSet(P)
  <2> DEFINE f == [i \in mine |-> Payout(i)]
  <2>1. P = {f[i] : i \in mine} /\ DOMAIN f = mine
    BY <1>2
  <2>2. f \in Surjection(mine, P)
    <3>1. f \in [mine -> P]
      BY <1>2
    <3>2. \A p \in P : \E i \in mine : f[i] = p
      BY <1>2
    <3> HIDE DEF f, P
    <3>3. QED
      BY <3>1, <3>2 DEF Surjection
  <2> HIDE DEF f, P
  <2>3. QED
    BY <1>1, <2>2, FS_Surjection
<1>5. P \in SUBSET Pay
  BY <1>1, <1>2, PayoutIs
<1> HIDE DEF P
<1>6. PaidOf(P) \in Nat
  BY <1>4, <1>5, PaidOfNat
<1>7. QED
  BY <1>3, <1>4, <1>5, <1>6 DEF P, TotalOf

LEMMA TotalLess ==
  ASSUME NEW S \in SUBSET StaffLine, IsFiniteSet(S), NEW T \in SUBSET S, NEW e
  PROVE  TotalOf(T, e) \in Nat /\ TotalOf(S, e) \in Nat /\ TotalOf(T, e) <= TotalOf(S, e)
<1>1. PayoutsOf(S, e) \in SUBSET Pay /\ IsFiniteSet(PayoutsOf(S, e))
  BY PayoutsAre
<1>2. PayoutsOf(T, e) \in SUBSET PayoutsOf(S, e)
  BY DEF PayoutsOf
<1>3. QED
  BY <1>1, <1>2, PaidSubset DEF TotalOf

-----------------------------------------------------------------------------
(* Everybody as hired, in every sheet and in the directory.                *)
AsHired == [e \in Emps |-> [active |-> TRUE, basic |-> FirstBasic]]
Uniform(b) ==
  \A m \in DOMAIN b : /\ DOMAIN b[m].rows = Emps
                      /\ \A e \in Emps : b[m].rows[e].basic = FirstBasic /\ b[m].rows[e].extra = 0

(* The staff lines S fit into the pay of the registers b, which have each  *)
(* of their payouts; credit is left only where nothing is owed.            *)
Fits(b, S) ==
  /\ \A i \in S : ~i.advance
  /\ \A i, j \in S : i.line = j.line => i = j
  /\ \A e \in Emps : TotalOf(S, e) <= Worth(b, e)
Recorded(b, S) == \A i \in S : \E m \in Months : Payout(i) \in Pays(b, m, i.emp)
Sound(b, S) == Uniform(b) /\ Fits(b, S) /\ Recorded(b, S) /\ \A e \in Emps : Quiet(b, e)

LEMMA HiredIs ==
  /\ IsRoster(AsHired) /\ Active(AsHired) = Emps /\ DOMAIN AsHired = Emps
  /\ \A e \in Emps : AsHired[e].basic = FirstBasic
<1>1. FirstBasic \in Nat
  BY PostingAssumption
<1>2. \A e \in Emps : AsHired[e] \in Person /\ AsHired[e].active /\ AsHired[e].basic = FirstBasic
  BY <1>1 DEF AsHired, Person
<1>3. DOMAIN AsHired = Emps /\ AsHired \in [Emps -> Person]
  BY <1>1 DEF AsHired, Person
<1>4. Active(AsHired) = Emps
  BY <1>2, <1>3 DEF Active
<1>5. QED
  BY <1>2, <1>3, <1>4 DEF IsRoster

LEMMA UniformInLine ==
  ASSUME NEW b, IsBundle(b), Uniform(b)
  PROVE  /\ InLine(b, AsHired)
         /\ \A m \in DOMAIN b : ensureMonthDoc(b, m, AsHired) = b[m]
         /\ syncSalaryBundleToEmployees(b, AsHired) = b
<1>1. InLine(b, AsHired)
  BY HiredIs DEF InLine, Uniform
<1>2. \A m \in DOMAIN b : ensureMonthDoc(b, m, AsHired) = b[m]
  BY <1>1, HiredIs, InLineEnsured
<1> DEFINE c == syncSalaryBundleToEmployees(b, AsHired)
<1>3. IsBundle(c)
  BY HiredIs, SyncTyped
<1>4. DOMAIN c = DOMAIN b /\ \A m \in DOMAIN b : c[m] = b[m]
  BY <1>2 DEF syncSalaryBundleToEmployees
<1> HIDE DEF c
<1>5. c = b
  BY <1>3, <1>4, BundleExt
<1>6. QED
  BY <1>1, <1>2, <1>5 DEF c

LEMMA UniformPay ==
  ASSUME NEW b, IsBundle(b), Uniform(b), NEW m, NEW e \in Emps
  PROVE  /\ HasRow(b, m, e) <=> m \in DOMAIN b
         /\ Payable(b, m, e) = IF m \in DOMAIN b THEN FirstBasic ELSE 0
         /\ FirstBasic \in Nat
<1>1. FirstBasic \in Nat
  BY PostingAssumption
<1>2. HasRow(b, m, e) <=> m \in DOMAIN b
  BY DEF HasRow, Uniform
<1>3. CASE m \in DOMAIN b
  <2>1. b[m].rows[e].basic = FirstBasic /\ b[m].rows[e].extra = 0
    BY <1>3 DEF Uniform
  <2>2. Payable(b, m, e) = AtLeastZero(FirstBasic + 0)
    BY <1>2, <1>3, <2>1 DEF Payable, totalPayableForRow
  <2>3. QED
    BY <1>1, <1>2, <1>3, <2>2 DEF AtLeastZero
<1>4. CASE m \notin DOMAIN b
  BY <1>1, <1>2, <1>4 DEF Payable
<1>5. QED
  BY <1>3, <1>4

(* More pay and fewer payouts than before, those of the lines that are left*)
(* among them.                                                             *)
LEMMA FitsLess ==
  ASSUME NEW b, IsBundle(b), NEW S \in SUBSET StaffLine, IsFiniteSet(S), Fits(b, S), NEW c, IsBundle(c),
         \A m \in Months, e \in Emps : Payable(c, m, e) >= Payable(b, m, e), NEW T \in SUBSET S
  PROVE  Fits(c, T)
<1>1. ASSUME NEW e \in Emps PROVE TotalOf(T, e) <= Worth(c, e)
  <2>1. TotalOf(T, e) \in Nat /\ TotalOf(S, e) \in Nat /\ TotalOf(T, e) <= TotalOf(S, e)
    BY TotalLess
  <2>2. TotalOf(S, e) <= Worth(b, e)
    BY DEF Fits
  <2>3. \A m \in Months : Payable(b, m, e) <= Payable(c, m, e)
    BY PayNat
  <2>4. Worth(b, e) \in Nat /\ Worth(c, e) \in Nat /\ Worth(b, e) <= Worth(c, e)
    BY <2>3, WorthMore
  <2>5. QED
    BY <2>1, <2>2, <2>4
<1>2. QED
  BY <1>1 DEF Fits

LEMMA SoundAfter ==
  ASSUME NEW b, IsBundle(b), NEW S \in SUBSET StaffLine, IsFiniteSet(S), Sound(b, S), NEW c, IsBundle(c), Uniform(c),
         \A m \in Months, e \in Emps : Payable(c, m, e) >= Payable(b, m, e) /\ Pays(c, m, e) \subseteq Pays(b, m, e),
         NEW T \in SUBSET S, Recorded(c, T)
  PROVE  Sound(c, T)
<1>1. Fits(b, S) /\ \A e \in Emps : Quiet(b, e)
  BY DEF Sound
<1>2. Fits(c, T)
  BY <1>1, FitsLess
<1>3. \A e \in Emps : Quiet(c, e)
  BY <1>1, QuietLess
<1>4. QED
  BY <1>2, <1>3 DEF Sound

(* One line more, or one changed, that is due.                             *)
LEMMA FitsAfter ==
  ASSUME NEW b, IsBundle(b), NEW S \in SUBSET StaffLine, IsFiniteSet(S), Sound(b, S),
         NEW n \in StaffLine, ~n.advance, n.amt # 0, NEW T \in SUBSET (S \cup {n}),
         \A i \in T \ {n} : i.line # n.line,
         NEW x \in {n.line, Manual}, n.amt <= SumOver(StillOwed(b, n.emp, x), 1 .. MonthOf(n.day))
  PROVE  Fits(b, T)
<1> DEFINE R == T \ {n}
           e == n.emp
           A == PayoutsOf(R, e)
           p == Payout(n)
           P == PayoutsOf(T, e)
<1>1. R \in SUBSET S /\ R \in SUBSET StaffLine /\ IsFiniteSet(R) /\ T \in SUBSET StaffLine /\ IsFiniteSet(T) /\ e \in Emps
  <2>1. R \in SUBSET S /\ IsFiniteSet(R)
    BY FS_Subset
  <2>2. IsFiniteSet(R \cup {n})
    BY <2>1, FS_AddElement
  <2>3. T \in SUBSET (R \cup {n})
    OBVIOUS
  <2>4. IsFiniteSet(T)
    <3> HIDE DEF R
    <3>1. QED
      BY <2>2, <2>3, FS_Subset
  <2>5. QED
    BY <2>1, <2>4 DEF StaffLine
<1>2. ASSUME NEW i \in T PROVE ~i.advance
  BY DEF Sound, Fits
<1>3. ASSUME NEW i \in T, NEW j \in T, i.line = j.line PROVE i = j
  <2>1. CASE i = n \/ j = n
    BY <1>3, <2>1
  <2>2. CASE i \in S /\ j \in S
    BY <1>3, <2>2 DEF Sound, Fits
  <2>3. QED
    BY <2>1, <2>2
<1>4. ASSUME NEW k \in Emps, k # e PROVE TotalOf(T, k) <= Worth(b, k)
  <2>1. TotalOf(S, k) <= Worth(b, k)
    BY DEF Sound, Fits
  <2>2. PayoutsOf(T, k) = PayoutsOf(R, k)
    <3>1. {j \in T : j.emp = k} = {j \in R : j.emp = k}
      BY <1>4
    <3>2. QED
      BY <3>1 DEF PayoutsOf
  <2>3. TotalOf(T, k) = TotalOf(R, k)
    BY <2>2 DEF TotalOf
  <2> HIDE DEF R
  <2>4. TotalOf(R, k) \in Nat /\ TotalOf(S, k) \in Nat /\ TotalOf(R, k) <= TotalOf(S, k)
    BY <1>1, TotalLess
  <2>5. Worth(b, k) \in Nat
    BY WorthIs
  <2>6. QED
    BY <2>1, <2>3, <2>4, <2>5
<1>5. TotalOf(T, e) <= Worth(b, e)
  <2>1. A \in SUBSET Pay /\ IsFiniteSet(A) /\ \A q : q \in A <=> \E i \in R : i.emp = e /\ q = Payout(i)
    <3> HIDE DEF R, e
    <3>1. QED
      BY <1>1, PayoutsAre
  <2>2. P \in SUBSET Pay /\ IsFiniteSet(P) /\ \A q : q \in P <=> \E i \in T : i.emp = e /\ q = Payout(i)
    <3> HIDE DEF e
    <3>1. QED
      BY <1>1, PayoutsAre
  <2>3. p \in Pay /\ p.amt = n.amt
    BY PayoutIs
  <2>4. P \in SUBSET (A \cup {p})
    BY <2>1, <2>2
  <2>5. ASSUME NEW q \in A PROVE \E m \in Months : q \in Counting(b, m, e, x)
    <3>1. PICK i \in R : i.emp = e /\ q = Payout(i)
      BY <2>1
    <3>2. i \in S /\ i \in StaffLine /\ i.line # n.line
      BY <1>1
    <3>3. PICK m \in Months : q \in Pays(b, m, e)
      BY <3>1, <3>2 DEF Sound, Recorded
    <3>4. q.line = i.line /\ i.line # Manual
      <4>1. q.line = i.line
        BY <3>1, <3>2, PayoutIs
      <4>2. i.line \in LineIds
        BY <3>2 DEF StaffLine
      <4>3. QED
        BY <4>1, <4>2, RegisterAssumption DEF Manual
    <3>5. QED
      BY <3>2, <3>3, <3>4 DEF Counting
  <2> HIDE DEF A, P, p, R
  <2> DEFINE sp == SumOver(PaidBy(b, e, x), Months)
  <2>6. PaidOf(A) \in Nat /\ sp \in Nat /\ PaidOf(A) <= sp
    BY <2>1, <2>5, MonthsPaid
  <2>7. /\ PaidOf(A \cup {p}) \in Nat /\ PaidOf(A) \in Nat /\ n.amt \in Nat
        /\ PaidOf(A \cup {p}) = IF p \in A THEN PaidOf(A) ELSE PaidOf(A) + p.amt
    BY <2>1, <2>3, PaidMore
  <2>8. PaidOf(A \cup {p}) <= PaidOf(A) + n.amt
    <3>1. CASE p \in A
      BY <2>7, <3>1
    <3>2. CASE p \notin A
      BY <2>3, <2>7, <3>2
    <3>3. QED
      BY <3>1, <3>2
  <2>9. PaidOf(P) \in Nat /\ PaidOf(P) <= PaidOf(A \cup {p})
    <3> DEFINE U == A \cup {p}
    <3>1. U \in SUBSET Pay /\ IsFiniteSet(U)
      BY <2>1, <2>3, FS_AddElement
    <3>2. P \in SUBSET U
      BY <2>4
    <3> HIDE DEF U
    <3>3. PaidOf(P) \in Nat /\ PaidOf(P) <= PaidOf(U)
      BY <3>1, <3>2, PaidSubset
    <3>4. QED
      BY <3>3 DEF U
  <2>10. n.amt + sp <= Worth(b, e) /\ Worth(b, e) \in Nat
    <3>1. Quiet(b, e) /\ n.amt \in Nat \ {0} /\ MonthOf(n.day) \in Months
      BY <1>1, MonthFacts DEF Sound, StaffLine
    <3>2. n.amt <= SumOver(StillOwed(b, e, x), 1 .. MonthOf(n.day))
      OBVIOUS
    <3> HIDE DEF e
    <3>3. QED
      BY <3>1, <3>2, Affordable
  <2>11. PaidOf(P) <= Worth(b, e)
    <3> HIDE DEF sp, e
    <3>1. QED
      BY <2>6, <2>7, <2>8, <2>9, <2>10
  <2>12. QED
    BY <2>11 DEF TotalOf, P
<1>6. \A k \in Emps : TotalOf(T, k) <= Worth(b, k)
  BY <1>4, <1>5
<1>7. QED
  BY <1>2, <1>3, <1>6 DEF Fits

(* A rebuild of such registers from lines that fit.                        *)
LEMMA RebuildUniform ==
  ASSUME NEW g, NEW b, NEW S, Rebuilding(g, b, S, AsHired), Orderly(S, AsHired), Uniform(b)
  PROVE  Uniform(g[S]) /\ DOMAIN b \subseteq DOMAIN g[S]
<1> DEFINE c == Cleared(b, S, AsHired)
           R == g[S]
<1>1. IsBundle(b) /\ S \in SUBSET StaffLine /\ IsRoster(AsHired) /\ S \in SUBSET S
  BY DEF Rebuilding
<1>2. /\ IsBundle(c) /\ DOMAIN c = DOMAIN b \cup MonthsOf(S)
      /\ \A m \in DOMAIN c : c[m] = clearAllRowPayments(ensureMonthDoc(b, m, AsHired))
  BY <1>1, ClearedIs
<1>3. Grown(c, R, AsHired)
  BY <1>1, RebuildInLine
<1>4. IsBundle(R)
  BY <1>1, RebuildTidy
<1> HIDE DEF c, R
<1>5. ASSUME NEW m \in DOMAIN c
      PROVE  DOMAIN c[m].rows = Emps /\ \A e \in Emps : c[m].rows[e].basic = FirstBasic /\ c[m].rows[e].extra = 0
  <2> DEFINE doc == ensureMonthDoc(b, m, AsHired)
  <2>1. m \in Months
    BY <1>2 DEF IsBundle
  <2>2. IsSheet(doc)
    BY <1>1, <2>1, Ensured
  <2>3. DOMAIN doc.rows = Emps /\ \A e \in Emps : doc.rows[e].basic = FirstBasic /\ doc.rows[e].extra = 0
    <3>1. CASE m \in DOMAIN b
      <4>1. doc = b[m]
        BY <1>1, <3>1, UniformInLine
      <4>2. QED
        BY <3>1, <4>1 DEF Uniform
    <3>2. CASE m \notin DOMAIN b
      <4>1. DOMAIN doc.rows = Active(AsHired) /\ \A e \in Active(AsHired) : doc.rows[e] = NewRow(AsHired, e)
        BY <1>1, <2>1, <3>2, Ensured
      <4>2. \A e \in Emps : NewRow(AsHired, e).basic = FirstBasic /\ NewRow(AsHired, e).extra = 0
        BY HiredIs, NewRowIs
      <4> HIDE DEF doc
      <4>3. QED
        BY <4>1, <4>2, HiredIs
    <3>3. QED
      BY <3>1, <3>2
  <2> HIDE DEF doc
  <2>4. /\ DOMAIN clearAllRowPayments(doc).rows = DOMAIN doc.rows
        /\ \A e \in DOMAIN doc.rows : /\ clearAllRowPayments(doc).rows[e].basic = doc.rows[e].basic
                                      /\ clearAllRowPayments(doc).rows[e].extra = doc.rows[e].extra
    BY <2>2, NoPays
  <2>5. c[m] = clearAllRowPayments(doc)
    BY <1>2 DEF doc
  <2>6. QED
    BY <2>3, <2>4, <2>5
<1>6. DOMAIN R = DOMAIN c
  BY <1>3 DEF Grown
<1>7. ASSUME NEW m \in DOMAIN R
      PROVE  DOMAIN R[m].rows = Emps /\ \A e \in Emps : R[m].rows[e].basic = FirstBasic /\ R[m].rows[e].extra = 0
  <2>1. DOMAIN R[m].rows \subseteq Emps
    BY <1>4 DEF IsBundle, IsSheet
  <2>2. \A e \in DOMAIN c[m].rows : /\ e \in DOMAIN R[m].rows /\ R[m].rows[e].basic = c[m].rows[e].basic
                                    /\ R[m].rows[e].extra = c[m].rows[e].extra
    BY <1>3, <1>6 DEF Grown
  <2>3. QED
    BY <1>5, <1>6, <2>1, <2>2
<1>8. Uniform(R) /\ DOMAIN b \subseteq DOMAIN R
  BY <1>2, <1>6, <1>7 DEF Uniform
<1>9. QED
  BY <1>8 DEF R

(* Credit is left only where all is paid: a regular payout goes to a later *)
(* month only when the earlier ones are paid.                              *)
LEMMA RebuildQuiet ==
  ASSUME NEW R, IsBundle(R), NEW S \in SUBSET StaffLine, IsFiniteSet(S), Fits(R, S), NEW e \in Emps,
         PlacedOnce(R, S, e), Oldest(R, e)
  PROVE  Quiet(R, e)
<1> DEFINE A == PayoutsOf(S, e)
           owed == StillOwed(R, e, Manual)
           left == CarriedOut(R, e, Manual)[LastMonth]
<1>1. A \in SUBSET Pay /\ IsFiniteSet(A) /\ \A p : p \in A <=> \E i \in S : i.emp = e /\ p = Payout(i)
  BY PayoutsAre
<1>2. \A m : Counting(R, m, e, Manual) = Pays(R, m, e)
  BY DEF Counting
<1>3. ASSUME NEW m \in Months, NEW k \in Months, k < m, Paid(R, m, e, Manual) # 0
      PROVE  StillOwed(R, e, Manual)[k] = 0
  <2>1. Paid(R, m, e, Manual) = PaidOf(Counting(R, m, e, Manual)) /\ PaidOf({}) = 0
    BY CountingIs, SumEmpty DEF PaidOf
  <2>2. Pays(R, m, e) # {}
    BY <1>2, <1>3, <2>1
  <2>3. PICK p \in Pays(R, m, e) : TRUE
    BY <2>2
  <2>4. PICK i \in S : i.emp = e /\ p = Payout(i)
    BY DEF PlacedOnce
  <2>5. ~p.advance
    BY <2>4, PayoutIs DEF Fits
  <2>6. QED
    BY <1>3, <2>5 DEF Oldest
<1>4. CASE \E j \in Months : StillOwed(R, e, Manual)[j] # 0
  <2>1. PICK j \in Months : StillOwed(R, e, Manual)[j] # 0
    BY <1>4
  <2>2. CarriedOut(R, e, Manual)[LastMonth] = 0
    BY <1>3, <2>1, CreditLast
  <2>3. QED
    BY <2>2 DEF Quiet
<1>5. CASE \A j \in Months : StillOwed(R, e, Manual)[j] = 0
  <2> DEFINE sp == SumOver(PaidBy(R, e, Manual), Months)
             so == SumOver(owed, Months)
             w == Worth(R, e)
  <2>1. so = 0
    <3>1. LastMonth \in Nat /\ Months = 1 .. LastMonth
      BY MonthFacts
    <3>2. \A j \in Months : owed[j] = 0
      BY <1>5
    <3> HIDE DEF owed
    <3>3. IsFiniteSet(Months)
      BY <3>1, FS_Interval
    <3>4. Counts(owed, Months)
      BY <3>2, <3>3 DEF Counts
    <3>5. SumFunctionOnSet(owed, Months) = 0
      BY <3>2, <3>4, SumOfZeros
    <3>6. QED
      BY <3>5 DEF SumOver
  <2>2. w \in Nat /\ sp \in Nat /\ left \in Nat /\ so + sp = w + left
    BY WorthIs
  <2>3. \A m \in Months : Counting(R, m, e, Manual) \subseteq A
    BY <1>1, <1>2 DEF PlacedOnce
  <2>4. \A j, m \in Months : \A p \in Counting(R, m, e, Manual) : p \in Counting(R, j, e, Manual) => j = m
    BY <1>2 DEF PlacedOnce
  <2>5. PaidOf(A) <= w
    BY DEF Fits, TotalOf
  <2> HIDE DEF A
  <2>6. PaidOf(A) \in Nat /\ sp <= PaidOf(A)
    BY <1>1, <2>3, <2>4, MonthsPaid
  <2>7. left = 0
    <3> HIDE DEF sp, so, w, left
    <3>1. QED
      BY <2>1, <2>2, <2>5, <2>6
  <2>8. QED
    BY <2>7 DEF Quiet
<1>6. QED
  BY <1>4, <1>5

LEMMA RebuildSound ==
  ASSUME NEW b, IsBundle(b), NEW lines, Lined(lines), Uniform(b), Fits(b, StaffLines(lines))
  PROVE  /\ IsBundle(reconcileSalaryMonthFromDailyMap(b, lines, AsHired))
         /\ Sound(reconcileSalaryMonthFromDailyMap(b, lines, AsHired), StaffLines(lines))
<1> DEFINE S == StaffLines(lines)
           R == reconcileSalaryMonthFromDailyMap(b, lines, AsHired)
<1>1. S \in SUBSET StaffLine /\ IsFiniteSet(S) /\ \A i, j \in S : i.day = j.day /\ i.line = j.line => i = j
  BY StaffLinesAre
<1>2. PICK g : IsRebuild(g, b, S, AsHired) /\ R = g[S]
  BY HiredIs, Rebuilds
<1> HIDE DEF S, R
<1>3. Orderly(S, AsHired)
  <2>1. \A i \in S : i.emp \in Active(AsHired)
    BY <1>1, HiredIs DEF StaffLine
  <2>2. QED
    BY <1>1, <2>1 DEF Orderly
<1>4. Rebuilding(g, b, S, AsHired) /\ S \in SUBSET S
  BY <1>1, <1>2, HiredIs DEF Rebuilding
<1>5. IsBundle(R)
  BY <1>2, <1>4, RebuildTidy
<1>6. Uniform(R) /\ DOMAIN b \subseteq DOMAIN R
  BY <1>2, <1>3, <1>4, RebuildUniform
<1>7. \A m \in Months, e \in Emps : Payable(R, m, e) >= Payable(b, m, e)
  <2>1. SUFFICES ASSUME NEW m \in Months, NEW e \in Emps PROVE Payable(R, m, e) >= Payable(b, m, e)
    OBVIOUS
  <2>2. Payable(b, m, e) = (IF m \in DOMAIN b THEN FirstBasic ELSE 0) /\ FirstBasic \in Nat
    BY UniformPay
  <2>3. Payable(R, m, e) = (IF m \in DOMAIN R THEN FirstBasic ELSE 0)
    BY <1>5, <1>6, UniformPay
  <2>4. QED
    BY <1>6, <2>2, <2>3
<1>8. Fits(R, S)
  <2>1. Fits(b, S) /\ S \in SUBSET S
    BY DEF S
  <2>2. QED
    BY <1>1, <1>5, <1>7, <2>1, FitsLess
<1>9. ASSUME NEW e \in Emps PROVE PlacedOnce(R, S, e) /\ Quiet(R, e)
  <2>1. e \in Active(AsHired)
    BY HiredIs
  <2>2. PlacedOnce(g[S], S, e)
    BY <1>4, <2>1, Placing
  <2>3. Oldest(g[S], e)
    BY <1>4, <2>1, Settling
  <2>4. PlacedOnce(R, S, e) /\ Oldest(R, e)
    BY <1>2, <2>2, <2>3
  <2>5. QED
    BY <1>1, <1>5, <1>8, <2>4, RebuildQuiet
<1>10. Recorded(R, S)
  <2>1. SUFFICES ASSUME NEW i \in S PROVE \E m \in Months : Payout(i) \in Pays(R, m, i.emp)
    BY DEF Recorded
  <2>2. i.emp \in Emps
    BY <1>1 DEF StaffLine
  <2>3. PlacedOnce(R, S, i.emp)
    BY <1>9, <2>2
  <2>4. PICK m : Payout(i) \in Pays(R, m, i.emp)
    BY <2>3 DEF PlacedOnce
  <2>5. m \in Months
    BY <1>5, <2>4, RowOf DEF Pays
  <2>6. QED
    BY <2>4, <2>5
<1>11. QED
  BY <1>5, <1>6, <1>8, <1>9, <1>10 DEF Sound, S, R

-----------------------------------------------------------------------------
(* The staff lines when one day has other lines.                           *)
StandsFor(i, x, d) ==
  i \in StaffLine /\ i.line = x.line /\ i.emp = x.emp /\ i.amt = x.amt /\ i.advance = x.advance /\ i.day = d

LEMMA LineOf ==
  ASSUME NEW x \in Line, NEW d \in Days
  PROVE  /\ \E i : StandsFor(i, x, d)
         /\ \A i : StandsFor(i, x, d) <=>
              i = [line |-> x.line, emp |-> x.emp, amt |-> x.amt, advance |-> x.advance, day |-> d]
<1> DEFINE j == [line |-> x.line, emp |-> x.emp, amt |-> x.amt, advance |-> x.advance, day |-> d]
<1>1. x.amt \in Nat
  BY PostingAssumption DEF Line
<1>2. StandsFor(j, x, d)
  BY <1>1 DEF StandsFor, Line, StaffLine
<1>3. ASSUME NEW i, StandsFor(i, x, d) PROVE i = j
  BY <1>3 DEF StandsFor, StaffLine
<1>4. QED
  BY <1>2, <1>3

LEMMA LinesStand ==
  ASSUME NEW L, Lined(L)
  PROVE  \A i : i \in StaffLines(L) <=> \E d \in Days : \E x \in L[d] : StandsFor(i, x, d)
<1>1. \A d \in Days : L[d] \subseteq Line
  BY DEF Lined, DayLines
<1>2. \A i : \A d \in Days : \A x \in L[d] : StandsFor(i, x, d) <=>
        i = [line |-> x.line, emp |-> x.emp, amt |-> x.amt, advance |-> x.advance, day |-> d]
  BY <1>1, LineOf
<1>3. \A i : i \in StaffLines(L) <=>
        \E d \in Days : \E x \in L[d] :
          i = [line |-> x.line, emp |-> x.emp, amt |-> x.amt, advance |-> x.advance, day |-> d]
  BY DEF StaffLines
<1>4. QED
  BY <1>2, <1>3

LEMMA PutLined ==
  ASSUME NEW L, Lined(L), NEW d \in Days, NEW lines \in DayLines
  PROVE  Lined([L EXCEPT ![d] = lines])
BY DEF Lined

LEMMA TakenFits ==
  ASSUME NEW b, IsBundle(b), NEW L, Lined(L), Sound(b, StaffLines(L)),
         NEW d \in Days, NEW lines \in DayLines, lines \subseteq L[d]
  PROVE  /\ StaffLines([L EXCEPT ![d] = lines]) \in SUBSET StaffLines(L)
         /\ Fits(b, StaffLines([L EXCEPT ![d] = lines]))
<1> DEFINE M == [L EXCEPT ![d] = lines]
<1>1. Lined(M)
  BY PutLined
<1>2. \A k \in Days : M[k] \subseteq L[k]
  BY DEF Lined
<1> HIDE DEF M
<1>3. StaffLines(M) \in SUBSET StaffLines(L)
  BY <1>1, <1>2, LinesStand
<1>4. StaffLines(L) \in SUBSET StaffLine /\ IsFiniteSet(StaffLines(L))
  BY StaffLinesAre
<1>5. Fits(b, StaffLines(L)) /\ \A m \in Months, e \in Emps : Payable(b, m, e) >= Payable(b, m, e)
  BY PayNat DEF Sound
<1>6. Fits(b, StaffLines(M))
  BY <1>3, <1>4, <1>5, FitsLess
<1>7. QED
  BY <1>3, <1>6 DEF M

LEMMA PutFits ==
  ASSUME NEW b, IsBundle(b), NEW L, Lined(L), Sound(b, StaffLines(L)),
         NEW d \in Days, NEW lines \in DayLines, NEW n \in Line, lines \subseteq L[d] \cup {n},
         ~n.advance, \A y \in lines : y # n => y.line # n.line,
         \A k \in Days : k # d => \A y \in L[k] : y.line # n.line,
         NEW x \in {n.line, Manual}, n.amt <= SumOver(StillOwed(b, n.emp, x), 1 .. MonthOf(d))
  PROVE  Fits(b, StaffLines([L EXCEPT ![d] = lines]))
<1> DEFINE M == [L EXCEPT ![d] = lines]
           S == StaffLines(L)
           T == StaffLines(M)
<1>1. Lined(M)
  BY PutLined
<1>2. M[d] = lines /\ \A k \in Days : k # d => M[k] = L[k]
  BY DEF Lined
<1> HIDE DEF M
<1>3. PICK i : StandsFor(i, n, d)
  BY LineOf
<1>4. \A j : StandsFor(j, n, d) => j = i
  BY <1>3, LineOf
<1>5. S \in SUBSET StaffLine /\ IsFiniteSet(S)
  BY StaffLinesAre
<1>6. \A j : j \in S <=> \E k \in Days : \E y \in L[k] : StandsFor(j, y, k)
  BY LinesStand
<1>7. \A j : j \in T <=> \E k \in Days : \E y \in M[k] : StandsFor(j, y, k)
  BY <1>1, LinesStand
<1> HIDE DEF S, T
<1>8. T \in SUBSET (S \cup {i})
  BY <1>2, <1>4, <1>6, <1>7
<1>9. ASSUME NEW j \in T \ {i} PROVE j.line # i.line
  <2>1. PICK k \in Days : \E y \in M[k] : StandsFor(j, y, k)
    BY <1>7
  <2>2. PICK y \in M[k] : StandsFor(j, y, k)
    BY <2>1
  <2>3. j.line = y.line /\ i.line = n.line
    BY <1>3, <2>2 DEF StandsFor
  <2>4. CASE k = d
    BY <1>2, <1>4, <2>2, <2>3, <2>4
  <2>5. CASE k # d
    BY <1>2, <2>2, <2>3, <2>5
  <2>6. QED
    BY <2>4, <2>5
<1>10. i \in StaffLine /\ i.line = n.line /\ i.emp = n.emp /\ i.amt = n.amt /\ i.day = d /\ ~i.advance
  BY <1>3 DEF StandsFor
<1>11. i.amt # 0
  BY <1>10, PostingAssumption DEF Line
<1>12. x \in {i.line, Manual} /\ i.amt <= SumOver(StillOwed(b, i.emp, x), 1 .. MonthOf(i.day))
  BY <1>10
<1>13. Sound(b, S)
  BY DEF S
<1>14. Fits(b, T)
  BY <1>5, <1>8, <1>9, <1>10, <1>11, <1>12, <1>13, FitsAfter
<1>15. QED
  BY <1>14 DEF T, M

(* The lines of two days have no id in common.                             *)
LEMMA IdsApart ==
  ASSUME NEW b, NEW L, Lined(L), Sound(b, StaffLines(L)), NEW c \in Days, NEW d \in Days,
         NEW x \in L[c], NEW y \in L[d], x.line = y.line
  PROVE  c = d
<1>1. x \in Line /\ y \in Line
  BY DEF Lined, DayLines
<1>2. PICK i : StandsFor(i, x, c)
  BY <1>1, LineOf
<1>3. PICK j : StandsFor(j, y, d)
  BY <1>1, LineOf
<1>4. i \in StaffLines(L) /\ j \in StaffLines(L)
  BY <1>2, <1>3, LinesStand
<1>5. i = j
  BY <1>2, <1>3, <1>4 DEF Sound, Fits, StandsFor
<1>6. QED
  BY <1>2, <1>3, <1>5 DEF StandsFor

(* One line of a day changed.                                              *)
LEMMA EditedOnce ==
  ASSUME NEW d, mode.together = 1
  PROVE  EditedLines(d) \subseteq Changed(cache[d].lines)
<1> DEFINE base == {cache[d].lines}
           after(v) == UNION {Changed(lines) : lines \in v}
           IsEdits(g) == g = [n \in 0 .. 1 |-> IF n = 0 THEN base ELSE after(g[n - 1])]
           edits == CHOOSE g : IsEdits(g)
           h == [n \in 0 .. 1 |-> IF n = 0 THEN base ELSE after(base)]
<1>1. EditedLines(d) = edits[1]
  BY DEF EditedLines
<1>2. IsEdits(h)
  <2> HIDE DEF base, after
  <2>1. \A n \in 0 .. 1 : n # 0 => n - 1 = 0 /\ h[n - 1] = base
    OBVIOUS
  <2>2. QED
    BY <2>1
<1>3. IsEdits(edits)
  <2> HIDE DEF IsEdits, h
  <2>1. QED
    BY <1>2
<1> HIDE DEF edits
<1>4. edits[1] = after(edits[0]) /\ edits[0] = base
  <2> HIDE DEF base, after
  <2>1. \A n \in 0 .. 1 : edits[n] = IF n = 0 THEN base ELSE after(edits[n - 1])
    BY <1>3
  <2>2. edits[0] = base /\ edits[1] = after(edits[1 - 1])
    BY <2>1
  <2>3. QED
    BY <2>2
<1>5. after(base) = Changed(cache[d].lines)
  OBVIOUS
<1>6. QED
  BY <1>1, <1>4, <1>5

-----------------------------------------------------------------------------
(* Nobody is overpaid.                                                     *)
Frugal == Calm /\ mode.steady /\ mode.fails = "never" /\ ~mode.ahead /\ mode.together = 1

(* As long as salaries stay and requests are not refused, the registers at *)
(* the terminal, saved and in flight are one; they pay for every staff     *)
(* line there is or is asked for.                                          *)
Keeping ==
  /\ roster = AsHired
  /\ ~dirty => savedBundle = bundle
  /\ Sound(bundle, StaffLines(LinesOf(cache)))
  /\ \A o \in Ops : op[o].step = "bundle" => op[o].sent = bundle
  /\ \A o \in Ops : op[o].step = "day" =>
       Fits(bundle, StaffLines([LinesOf(cache) EXCEPT ![op[o].day] = op[o].lines]))
Thrift == Frugal => Keeping

LEMMA FrugalStays ==
  ASSUME mode' = mode, Frugal'
  PROVE  Frugal
BY DEF Frugal, Calm

LEMMA BooksKept ==
  ASSUME PostingTypeOK, Keeping
  PROVE  /\ IsBundle(bundle) /\ Uniform(bundle) /\ Lined(LinesOf(cache)) /\ SyncedBundle(bundle) = bundle
         /\ Fits(bundle, StaffLines(LinesOf(cache)))
         /\ StaffLines(LinesOf(cache)) \in SUBSET StaffLine /\ IsFiniteSet(StaffLines(LinesOf(cache)))
<1>1. IsBundle(bundle) /\ Uniform(bundle) /\ Lined(LinesOf(cache)) /\ Fits(bundle, StaffLines(LinesOf(cache)))
  BY LinesTyped DEF PostingTypeOK, Keeping, Sound
<1>2. SyncedBundle(bundle) = bundle
  BY <1>1, UniformInLine DEF SyncedBundle, Keeping
<1>3. StaffLines(LinesOf(cache)) \in SUBSET StaffLine /\ IsFiniteSet(StaffLines(LinesOf(cache)))
  BY <1>1, StaffLinesAre
<1>4. QED
  BY <1>1, <1>2, <1>3

(* A user starts with nothing in flight.                                   *)
LEMMA UserKeeps ==
  ASSUME OneAtATime, Thrift, ByUser, Frugal'
  PROVE  /\ Frugal /\ Keeping /\ PostingTypeOK /\ cache = days /\ mode' = mode
         /\ \A o \in Ops : op[o] = Idle
<1>1. mode' = mode
  BY DEF ByUser
<1>2. Frugal
  BY <1>1, FrugalStays
<1>3. cache = days /\ \A o \in Ops : op[o] = Idle
  BY <1>2, UserWaits DEF Frugal
<1>4. QED
  BY <1>1, <1>2, <1>3 DEF Thrift, OneAtATime

LEMMA RequestKept ==
  ASSUME DOMAIN op = Ops, \A q \in Ops : op[q] = Idle, NEW o \in Ops, NEW v, op' = [op EXCEPT ![o] = v]
  PROVE  \A q \in Ops : q # o => op'[q].step # "bundle" /\ op'[q].step # "day"
BY DEF Idle

(* The next registers, with what is in flight then.                        *)
LEMMA KeepingNext ==
  ASSUME roster' = AsHired, ~dirty' => savedBundle' = bundle', NEW L, L = LinesOf(cache)',
         Sound(bundle', StaffLines(L)),
         \A o \in Ops : op'[o].step = "bundle" => op'[o].sent = bundle',
         \A o \in Ops : op'[o].step = "day" =>
           Fits(bundle', StaffLines([L EXCEPT ![op'[o].day] = op'[o].lines]))
  PROVE  Keeping'
BY DEF Keeping

LEMMA ThriftStart ==
  ASSUME PostingInit, PostingTypeOK
  PROVE  Thrift
<1> DEFINE L == LinesOf(cache)
           S == StaffLines(L)
<1>1. Lined(L) /\ IsBundle(bundle)
  BY LinesTyped DEF PostingTypeOK
<1>2. \A d \in Days : L[d] = {}
  BY DEF PostingInit, LinesOf
<1> HIDE DEF L
<1>3. S = {}
  BY <1>1, <1>2, LinesStand
<1>4. \A e : TotalOf({}, e) = 0
  <2>1. \A e : PayoutsOf({}, e) = {}
    BY DEF PayoutsOf
  <2>2. PaidOf({}) = 0
    BY SumEmpty DEF PaidOf
  <2>3. QED
    BY <2>1, <2>2 DEF TotalOf
<1>5. roster = AsHired
  BY DEF PostingInit, AsHired
<1>6. /\ DOMAIN bundle = {1} /\ DOMAIN bundle[1].rows = Emps
      /\ \A e \in Emps : bundle[1].rows[e].basic = FirstBasic /\ bundle[1].rows[e].extra = 0
  <2> DEFINE row(e) == [NewRow(roster, e) EXCEPT !.pays =
                          IF Imported = 0 THEN {}
                          ELSE {[line |-> Manual, amt |-> Imported, day |-> 1, advance |-> FALSE]}]
  <2>1. bundle = [m \in {1} |-> [locked |-> FALSE, rows |-> [e \in Emps |-> row(e)]]]
    BY DEF PostingInit
  <2>2. \A e \in Emps : row(e).basic = FirstBasic /\ row(e).extra = 0
    <3>1. SUFFICES ASSUME NEW e \in Emps PROVE row(e).basic = FirstBasic /\ row(e).extra = 0
      OBVIOUS
    <3>2. NewRow(roster, e) = [basic |-> roster[e].basic, extra |-> 0, pays |-> {}] /\ roster[e].basic = FirstBasic
      BY <1>5, HiredIs DEF NewRow
    <3>3. QED
      BY <3>2
  <2> HIDE DEF row
  <2>3. QED
    BY <2>1, <2>2
<1>7. Uniform(bundle)
  BY <1>6 DEF Uniform
<1>8. \A e \in Emps : Quiet(bundle, e)
  BY <1>6 DEF Quiet, Pays, HasRow
<1>9. Fits(bundle, {})
  <2>1. \A e \in Emps : TotalOf({}, e) <= Worth(bundle, e)
    BY <1>1, <1>4, WorthIs
  <2>2. QED
    BY <2>1 DEF Fits
<1>10. Sound(bundle, S)
  BY <1>3, <1>7, <1>8, <1>9 DEF Sound, Recorded
<1>11. (\A o \in Ops : op[o] = Idle) /\ savedBundle = bundle
  BY DEF PostingInit
<1>12. \A o \in Ops : op[o].step # "bundle" /\ op[o].step # "day"
  BY <1>11 DEF Idle
<1>13. Keeping
  BY <1>5, <1>10, <1>11, <1>12 DEF Keeping, L
<1>14. QED
  BY <1>13 DEF Thrift

LEMMA RecordKeeps ==
  ASSUME OneAtATime, Thrift, NEW o \in Ops, NEW e \in Emps, NEW d \in Days, NEW amt \in PayoutAmounts,
         NEW advance \in Kinds, recordStaffPayout(o, e, d, amt, advance), Frugal'
  PROVE  Keeping'
<1> DEFINE L == LinesOf(cache)
<1>1. ByUser /\ UNCHANGED <<days, savedBundle, cache, bundle, dirty, roster>>
  BY DEF recordStaffPayout
<1>2. /\ Frugal /\ Keeping /\ PostingTypeOK /\ mode' = mode /\ DOMAIN op = Ops
      /\ \A q \in Ops : op[q] = Idle
  BY <1>1, UserKeeps DEF PostingTypeOK
<1>3. IsBundle(bundle) /\ Lined(L)
  BY <1>2, BooksKept
<1>4. PICK x \in NewLines(e, amt, advance) : SendDay(o, d, x)
  BY DEF recordStaffPayout
<1>5. PICK l \in LineIds \ UsedIds : x = [line |-> l, emp |-> e, amt |-> amt, advance |-> advance]
  BY <1>4 DEF NewLines
<1>6. advance = FALSE
  BY <1>2 DEF Kinds, Frugal
<1>7. x \in Line /\ x.line = l /\ x.emp = e /\ x.amt = amt /\ ~x.advance
  BY <1>5, <1>6 DEF Line
<1>8. \A k \in Days : \A y \in L[k] : y.line # l
  BY <1>5 DEF UsedIds, LinesOf
<1> DEFINE lines == L[d] \cup {x}
           v == Sending(d, lines)
<1>9. L[d] = cache[d].lines
  BY DEF LinesOf
<1>10. op' = [op EXCEPT ![o] = v]
  BY <1>4, <1>9 DEF SendDay
<1>11. v.step = "day" /\ v.day = d /\ v.lines = lines
  BY DEF Sending
<1> HIDE DEF L, v
<1>12. lines \in DayLines
  <2>1. L[d] \in DayLines
    BY <1>3 DEF Lined
  <2>2. QED
    BY <1>7, <1>8, <2>1, OneMoreLine
<1>13. Fits(bundle, StaffLines([L EXCEPT ![d] = lines]))
  <2>1. x.amt <= SumOver(StillOwed(bundle, x.emp, Manual), 1 .. MonthOf(d))
    BY <1>6, <1>7 DEF recordStaffPayout, validateStaffPayoutAmount, totalStillOwedForEmployeeThroughMonth
  <2>2. Sound(bundle, StaffLines(L))
    BY <1>2 DEF Keeping, L
  <2>3. /\ \A y \in lines : y # x => y.line # x.line
        /\ \A k \in Days : k # d => \A y \in L[k] : y.line # x.line
        /\ lines \subseteq L[d] \cup {x} /\ Manual \in {x.line, Manual}
    BY <1>7, <1>8
  <2> HIDE DEF lines
  <2>4. QED
    BY <1>3, <1>7, <1>12, <2>1, <2>2, <2>3, PutFits
<1> HIDE DEF lines
<1>14. \A q \in Ops : q # o => op'[q].step # "bundle" /\ op'[q].step # "day"
  BY <1>2, <1>10, RequestKept
<1>15. op'[o] = v
  BY <1>2, <1>10
<1>16. L = LinesOf(cache)'
  BY <1>1 DEF L, LinesOf
<1>17. Sound(bundle', StaffLines(L)) /\ roster' = AsHired /\ (~dirty' => savedBundle' = bundle')
  BY <1>1, <1>2 DEF Keeping, L
<1>18. \A q \in Ops : op'[q].step = "bundle" => op'[q].sent = bundle'
  BY <1>11, <1>14, <1>15
<1>19. ASSUME NEW q \in Ops, op'[q].step = "day"
       PROVE  Fits(bundle', StaffLines([L EXCEPT ![op'[q].day] = op'[q].lines]))
  <2>1. q = o
    BY <1>14, <1>19
  <2>2. op'[q].day = d /\ op'[q].lines = lines
    BY <1>11, <1>15, <2>1
  <2>3. QED
    BY <1>1, <1>13, <2>2
<1>20. QED
  BY <1>16, <1>17, <1>18, <1>19, KeepingNext

(* The registers rebuilt from lines that fit, and nothing asked of days.   *)
LEMMA RebuildKeeps ==
  ASSUME PostingTypeOK, Keeping, NEW L, Lined(L), L = LinesOf(cache)', Fits(bundle, StaffLines(L)),
         bundle' = reconcileSalaryMonthFromDailyMap(bundle, L, roster), roster' = roster,
         ~dirty' => savedBundle' = bundle',
         \A o \in Ops : op'[o].step # "day" /\ (op'[o].step = "bundle" => op'[o].sent = bundle')
  PROVE  Keeping'
<1>1. IsBundle(bundle) /\ Uniform(bundle) /\ roster = AsHired
  BY BooksKept DEF Keeping
<1>2. bundle' = reconcileSalaryMonthFromDailyMap(bundle, L, AsHired)
  BY <1>1
<1>3. Sound(reconcileSalaryMonthFromDailyMap(bundle, L, AsHired), StaffLines(L))
  BY <1>1, RebuildSound
<1>4. Sound(bundle', StaffLines(L))
  BY <1>2, <1>3
<1>5. QED
  BY <1>1, <1>4, KeepingNext

(* The same staff lines, or fewer, in registers that pay no less.          *)
LEMMA EditKeeps ==
  ASSUME PostingTypeOK, Keeping, NEW c, IsBundle(c), Uniform(c), bundle' = c, NEW L, Lined(L), L = LinesOf(cache)',
         \A m \in Months, e \in Emps : Payable(c, m, e) >= Payable(bundle, m, e)
                                       /\ Pays(c, m, e) \subseteq Pays(bundle, m, e),
         StaffLines(L) \in SUBSET StaffLines(LinesOf(cache)), Recorded(c, StaffLines(L)),
         roster' = roster, ~dirty' => savedBundle' = bundle',
         \A o \in Ops : op'[o].step # "day" /\ (op'[o].step = "bundle" => op'[o].sent = bundle')
  PROVE  Keeping'
<1> DEFINE S == StaffLines(LinesOf(cache))
           T == StaffLines(L)
<1>1. IsBundle(bundle) /\ S \in SUBSET StaffLine /\ IsFiniteSet(S) /\ Sound(bundle, S) /\ roster = AsHired
  BY BooksKept DEF Keeping
<1>2. T \in SUBSET S /\ Recorded(c, T)
  OBVIOUS
<1> HIDE DEF S, T
<1>3. Sound(c, T)
  BY <1>1, <1>2, SoundAfter
<1>4. Sound(bundle', StaffLines(L))
  BY <1>3 DEF T
<1>5. QED
  BY <1>1, <1>4, KeepingNext

LEMMA DeletePayoutKeeps ==
  ASSUME OneAtATime, Thrift, NEW o \in Ops, NEW m, NEW e, NEW p, deleteStaffPayout(o, m, e, p), Frugal'
  PROVE  Keeping'
<1> DEFINE L == LinesOf(cache)
           rest == {x \in cache[p.day].lines : x.line # p.line}
<1>1. /\ ByUser /\ UNCHANGED <<days, savedBundle, cache, roster>>
      /\ HasRow(bundle, m, e) /\ p \in bundle[m].rows[e].pays
  BY DEF deleteStaffPayout
<1>2. /\ Frugal /\ Keeping /\ PostingTypeOK /\ mode' = mode /\ DOMAIN op = Ops
      /\ \A q \in Ops : op[q] = Idle
  BY <1>1, UserKeeps DEF PostingTypeOK
<1>3. /\ IsBundle(bundle) /\ Lined(L) /\ Uniform(bundle) /\ Fits(bundle, StaffLines(L))
      /\ StaffLines(L) \in SUBSET StaffLine
  BY <1>2, BooksKept
<1>4. L = LinesOf(cache)'
  BY <1>1 DEF LinesOf
<1>5. Sound(bundle, StaffLines(L)) /\ roster = AsHired
  BY <1>2 DEF Keeping
<1>6. p.day \in Days
  BY <1>1, <1>3, RowOf DEF RegisterRow, Pay
<1>7. CASE p.line = Manual
  <2> DEFINE b == [bundle EXCEPT ![m].rows[e].pays = @ \ {p}]
             v == [step |-> "bundle", lines |-> {}, sent |-> b]
  <2>1. bundle' = b /\ dirty' = TRUE /\ op' = [op EXCEPT ![o] = v] /\ v.step = "bundle" /\ v.sent = b
    BY <1>7 DEF deleteStaffPayout, StartFlush
  <2>2. IsBundle(b)
    BY <1>1, <1>3, PayoutTaken
  <2>3. m \in DOMAIN bundle /\ e \in DOMAIN bundle[m].rows /\ e \in Emps
    BY <1>1, <1>3, RowOf DEF HasRow
  <2>4. bundle[m] = [locked |-> bundle[m].locked, rows |-> bundle[m].rows] /\ bundle[m].rows[e] \in RegisterRow
    BY <1>1, <1>3, RowOf DEF IsBundle, IsSheet, HasRow
  <2>5. /\ DOMAIN b = DOMAIN bundle /\ \A k \in DOMAIN bundle : k # m => b[k] = bundle[k]
        /\ DOMAIN b[m].rows = DOMAIN bundle[m].rows
        /\ \A q \in DOMAIN bundle[m].rows : q # e => b[m].rows[q] = bundle[m].rows[q]
        /\ b[m].rows[e].basic = bundle[m].rows[e].basic /\ b[m].rows[e].extra = bundle[m].rows[e].extra
        /\ b[m].rows[e].pays = bundle[m].rows[e].pays \ {p}
    BY <2>3, <2>4 DEF RegisterRow
  <2> HIDE DEF b
  <2>6. Uniform(b)
    <3>1. ASSUME NEW k \in DOMAIN b
          PROVE  DOMAIN b[k].rows = Emps /\ \A q \in Emps : b[k].rows[q].basic = FirstBasic /\ b[k].rows[q].extra = 0
      <4>1. CASE k # m
        BY <1>3, <2>5, <4>1 DEF Uniform
      <4>2. CASE k = m
        BY <1>3, <2>3, <2>5, <4>2 DEF Uniform
      <4>3. QED
        BY <4>1, <4>2
    <3>2. QED
      BY <3>1 DEF Uniform
  <2>7. \A k \in Months, q \in Emps : Payable(b, k, q) >= Payable(bundle, k, q)
    <3>1. SUFFICES ASSUME NEW k \in Months, NEW q \in Emps PROVE Payable(b, k, q) >= Payable(bundle, k, q)
      OBVIOUS
    <3>2. Payable(bundle, k, q) = (IF k \in DOMAIN bundle THEN FirstBasic ELSE 0) /\ FirstBasic \in Nat
      BY <1>3, UniformPay
    <3>3. Payable(b, k, q) = (IF k \in DOMAIN b THEN FirstBasic ELSE 0)
      BY <2>2, <2>6, UniformPay
    <3>4. QED
      BY <2>5, <3>2, <3>3
  <2>8. \A k, q : Pays(b, k, q) = IF k = m /\ q = e THEN Pays(bundle, k, q) \ {p} ELSE Pays(bundle, k, q)
    <3>1. SUFFICES ASSUME NEW k, NEW q
                   PROVE  Pays(b, k, q) = IF k = m /\ q = e THEN Pays(bundle, k, q) \ {p} ELSE Pays(bundle, k, q)
      OBVIOUS
    <3>2. HasRow(b, k, q) <=> HasRow(bundle, k, q)
      <4>1. CASE k = m
        BY <2>3, <2>5, <4>1 DEF HasRow
      <4>2. CASE k # m
        BY <2>5, <4>2 DEF HasRow
      <4>3. QED
        BY <4>1, <4>2
    <3>3. CASE k = m /\ q = e
      BY <1>1, <2>5, <3>2, <3>3 DEF Pays
    <3>4. CASE k = m /\ q # e
      <4>1. HasRow(bundle, k, q) => b[k].rows[q] = bundle[k].rows[q]
        BY <2>5, <3>4 DEF HasRow
      <4>2. QED
        BY <3>2, <3>4, <4>1 DEF Pays
    <3>5. CASE k # m
      <4>1. HasRow(bundle, k, q) => b[k] = bundle[k]
        BY <2>5, <3>5 DEF HasRow
      <4>2. QED
        BY <3>2, <3>5, <4>1 DEF Pays
    <3>6. QED
      BY <3>3, <3>4, <3>5
  <2>9. \A k \in Months, q \in Emps : Payable(b, k, q) >= Payable(bundle, k, q) /\ Pays(b, k, q) \subseteq Pays(bundle, k, q)
    BY <2>7, <2>8
  <2>10. Recorded(b, StaffLines(L))
    <3>1. SUFFICES ASSUME NEW i \in StaffLines(L) PROVE \E k \in Months : Payout(i) \in Pays(b, k, i.emp)
      BY DEF Recorded
    <3>2. PICK k \in Months : Payout(i) \in Pays(bundle, k, i.emp)
      BY <1>5 DEF Sound, Recorded
    <3>3. Payout(i) # p
      <4>1. i \in StaffLine
        BY <1>3
      <4>2. Payout(i).line = i.line /\ i.line # Manual
        BY <4>1, PayoutIs, RegisterAssumption DEF StaffLine, Manual
      <4>3. QED
        BY <1>7, <4>2
    <3>4. QED
      BY <2>8, <3>2, <3>3
  <2> HIDE DEF v, L
  <2>11. \A q \in Ops : op'[q].step # "day" /\ (op'[q].step = "bundle" => op'[q].sent = bundle')
    BY <1>2, <2>1, RequestKept
  <2>12. StaffLines(L) \in SUBSET StaffLines(LinesOf(cache))
    BY DEF L
  <2>13. ~dirty' => savedBundle' = bundle'
    BY <2>1
  <2>14. QED
    BY <1>1, <1>2, <1>3, <1>4, <2>1, <2>2, <2>6, <2>9, <2>10, <2>11, <2>12, <2>13, EditKeeps
<1>8. CASE p.line # Manual /\ rest # cache[p.day].lines
  <2> DEFINE v == [step |-> "day", day |-> p.day, lines |-> rest]
  <2>1. op' = [op EXCEPT ![o] = v] /\ UNCHANGED <<bundle, dirty>>
    BY <1>8 DEF deleteStaffPayout
  <2>2. v.step = "day" /\ v.day = p.day /\ v.lines = rest
    OBVIOUS
  <2>3. rest \subseteq L[p.day] /\ L[p.day] \in DayLines
    BY <1>3, <1>6 DEF LinesOf, Lined
  <2> HIDE DEF rest, v, L
  <2>4. rest \in DayLines
    BY <2>3, FewerLines
  <2>5. Fits(bundle, StaffLines([L EXCEPT ![p.day] = rest]))
    BY <1>3, <1>5, <1>6, <2>3, <2>4, TakenFits
  <2>6. \A q \in Ops : q # o => op'[q].step # "bundle" /\ op'[q].step # "day"
    BY <1>2, <2>1, RequestKept
  <2>7. op'[o] = v
    BY <1>2, <2>1
  <2>8. Sound(bundle', StaffLines(L)) /\ roster' = AsHired /\ (~dirty' => savedBundle' = bundle')
    BY <1>1, <1>2, <1>5, <2>1 DEF Keeping
  <2>9. \A q \in Ops : op'[q].step = "bundle" => op'[q].sent = bundle'
    BY <2>2, <2>6, <2>7
  <2>10. ASSUME NEW q \in Ops, op'[q].step = "day"
         PROVE  Fits(bundle', StaffLines([L EXCEPT ![op'[q].day] = op'[q].lines]))
    <3>1. q = o
      BY <2>6, <2>10
    <3>2. op'[q].day = p.day /\ op'[q].lines = rest
      BY <2>2, <2>7, <3>1
    <3>3. QED
      BY <2>1, <2>5, <3>2
  <2>11. QED
    BY <1>4, <2>8, <2>9, <2>10, KeepingNext
<1>9. CASE p.line # Manual /\ rest = cache[p.day].lines
  <2> DEFINE b == Reconciled(cache)
             v == [step |-> "bundle", lines |-> {}, sent |-> b]
  <2>1. bundle' = b /\ dirty' = TRUE /\ op' = [op EXCEPT ![o] = v]
    BY <1>9 DEF deleteStaffPayout, StartFlush
  <2>2. v.step = "bundle" /\ v.sent = b
    OBVIOUS
  <2>3. b = reconcileSalaryMonthFromDailyMap(bundle, L, roster)
    BY DEF Reconciled
  <2> HIDE DEF b, v, L
  <2>4. \A q \in Ops : op'[q].step # "day" /\ (op'[q].step = "bundle" => op'[q].sent = bundle')
    <3>1. \A q \in Ops : q # o => op'[q].step # "bundle" /\ op'[q].step # "day"
      BY <1>2, <2>1, RequestKept
    <3>2. op'[o] = v
      BY <1>2, <2>1
    <3>3. QED
      BY <2>1, <2>2, <3>1, <3>2
  <2>5. bundle' = reconcileSalaryMonthFromDailyMap(bundle, L, roster) /\ (~dirty' => savedBundle' = bundle')
    BY <2>1, <2>3
  <2>6. roster' = roster
    BY <1>1
  <2>7. QED
    BY <1>2, <1>3, <1>4, <2>4, <2>5, <2>6, RebuildKeeps
<1>10. QED
  BY <1>7, <1>8, <1>9

LEMMA AnswerKeeps ==
  ASSUME OneAtATime, Thrift, NEW o \in Ops, Frugal',
         DaySaved(o) \/ DayRefused(o) \/ AnswerLost(o) \/ BundleSaved(o) \/ BundleRefused(o)
  PROVE  Keeping'
<1>1. mode' = mode
  BY DEF DaySaved, DayRefused, AnswerLost, BundleSaved, BundleRefused
<1>2. Frugal /\ Keeping /\ PostingTypeOK
  BY <1>1, FrugalStays DEF OneAtATime, Thrift
<1>3. /\ DOMAIN op = Ops /\ cache = days
      /\ \A q, s \in Ops : op[q] # Idle /\ op[s] # Idle => q = s
  BY <1>2 DEF OneAtATime, PostingTypeOK, OneRequest, Frugal
<1>4. op[o] # Idle
  BY DEF DaySaved, DayRefused, AnswerLost, BundleSaved, BundleRefused, Idle
<1>5. \A q \in Ops : q # o => op[q].step # "day" /\ op[q].step # "bundle"
  BY <1>3, <1>4 DEF Idle
<1>6. CASE DaySaved(o)
  <2> DEFINE d == op[o].day
             lines == op[o].lines
             map == [cache EXCEPT ![d] = [days[d] EXCEPT !.lines = lines]]
             b == Reconciled(map)
             v == [step |-> "bundle", lines |-> {}, sent |-> b]
             L == [LinesOf(cache) EXCEPT ![d] = lines]
  <2>1. /\ op[o].step = "day" /\ cache' = map /\ bundle' = b /\ dirty' = TRUE /\ op' = [op EXCEPT ![o] = v]
        /\ roster' = roster
    BY <1>6 DEF DaySaved, StartFlush
  <2>2. d \in Days /\ lines \in DayLines
    BY <1>2, <2>1, DayInFlight
  <2>3. Fits(bundle, StaffLines(L))
    BY <1>2, <2>1 DEF Keeping
  <2>4. Lined(L)
    BY <1>2, <2>2, BooksKept, PutLined
  <2>5. v.step = "bundle" /\ v.sent = b
    OBVIOUS
  <2>6. LinesOf(map) = L
    <3>1. cache \in [Days -> Day] /\ days \in [Days -> Day]
      BY <1>2 DEF PostingTypeOK
    <3>2. \A k \in Days : map[k].lines = IF k = d THEN lines ELSE cache[k].lines
      BY <2>2, <3>1 DEF Day
    <3> HIDE DEF map
    <3>3. LinesOf(map) = [k \in Days |-> IF k = d THEN lines ELSE cache[k].lines]
      BY <3>2 DEF LinesOf
    <3>4. L = [k \in Days |-> IF k = d THEN lines ELSE cache[k].lines]
      BY DEF LinesOf
    <3>5. QED
      BY <3>3, <3>4
  <2>7. b = reconcileSalaryMonthFromDailyMap(bundle, LinesOf(map), roster)
    BY DEF Reconciled
  <2>8. LinesOf(cache)' = LinesOf(map)
    <3>1. LinesOf(cache)' = LinesOf(cache')
      BY DEF LinesOf
    <3>2. QED
      BY <2>1, <3>1
  <2> HIDE DEF b, v, L, map
  <2>9. \A q \in Ops : op'[q].step # "day" /\ (op'[q].step = "bundle" => op'[q].sent = bundle')
    BY <1>3, <1>5, <2>1, <2>5
  <2>10. bundle' = reconcileSalaryMonthFromDailyMap(bundle, L, roster) /\ (~dirty' => savedBundle' = bundle')
         /\ roster' = roster /\ L = LinesOf(cache)'
    BY <2>1, <2>6, <2>7, <2>8
  <2>11. QED
    BY <1>2, <2>3, <2>4, <2>9, <2>10, RebuildKeeps
<1>7. CASE DayRefused(o) \/ BundleSaved(o)
  <2>1. op' = [op EXCEPT ![o] = Idle] /\ UNCHANGED <<cache, bundle, roster>>
    BY <1>7 DEF DayRefused, BundleSaved
  <2>2. \A q \in Ops : op'[q].step # "day" /\ op'[q].step # "bundle"
    BY <1>3, <1>5, <2>1 DEF Idle
  <2>3. ~dirty' => savedBundle' = bundle'
    <3>1. CASE DayRefused(o)
      BY <1>2, <3>1 DEF DayRefused, Keeping
    <3>2. CASE BundleSaved(o)
      BY <1>2, <3>2 DEF BundleSaved, Keeping
    <3>3. QED
      BY <1>7, <3>1, <3>2
  <2>4. LinesOf(cache) = LinesOf(cache)'
    BY <2>1 DEF LinesOf
  <2>5. Sound(bundle', StaffLines(LinesOf(cache))) /\ roster' = AsHired
    BY <1>2, <2>1 DEF Keeping
  <2>6. QED
    BY <2>2, <2>3, <2>4, <2>5, KeepingNext
<1>8. ~AnswerLost(o) /\ ~BundleRefused(o)
  BY <1>2 DEF AnswerLost, BundleRefused, Frugal
<1>9. QED
  BY <1>6, <1>7, <1>8

LEMMA NothingAsked ==
  ASSUME \A o \in Ops : op[o] = Idle, op' = op \/ op' = [o \in Ops |-> Idle]
  PROVE  \A o \in Ops : op'[o].step # "day" /\ op'[o].step # "bundle"
<1>1. \A o \in Ops : op'[o] = Idle
  OBVIOUS
<1>2. QED
  BY <1>1 DEF Idle

(* The form's lines fit: one is dropped, or the one that is new is due.    *)
LEMMA FormLinesFit ==
  ASSUME PostingTypeOK, Keeping, ~mode.ahead, mode.together = 1, NEW d \in Days, NEW lines \in EditedLines(d),
         \A x \in lines : validateStaffPayoutAmount(bundle, MonthOf(d), x.emp, x.amt, x.advance, x.line)
  PROVE  lines \in DayLines /\ Fits(bundle, StaffLines([LinesOf(cache) EXCEPT ![d] = lines]))
<1> DEFINE L == LinesOf(cache)
           free == (LineIds \ UsedIds) \cup {x.line : x \in cache[d].lines}
           new == [line : free, emp : DOMAIN roster, amt : PayoutAmounts, advance : Kinds]
<1>1. IsBundle(bundle) /\ Lined(L) /\ Sound(bundle, StaffLines(L)) /\ roster = AsHired
  BY BooksKept DEF Keeping
<1>2. L[d] = cache[d].lines
  BY DEF LinesOf
<1>3. lines \in DayLines /\ lines \in Changed(L[d])
  BY <1>2, EditedTyped, EditedOnce
<1>4. \A k \in Days : L[k] = cache[k].lines /\ L[k] \in DayLines
  BY <1>1 DEF LinesOf, Lined
<1>5. (\E x \in L[d] : lines = L[d] \ {x}) \/ \E n \in new : lines = {x \in L[d] : x.line # n.line} \cup {n}
  BY <1>2, <1>3 DEF Changed
<1> HIDE DEF L
<1>6. CASE \E x \in L[d] : lines = L[d] \ {x}
  <2>1. lines \subseteq L[d]
    BY <1>6
  <2>2. Fits(bundle, StaffLines([L EXCEPT ![d] = lines]))
    BY <1>1, <1>3, <2>1, TakenFits
  <2>3. QED
    BY <1>3, <2>2 DEF L
<1>7. ASSUME NEW n \in new, lines = {x \in L[d] : x.line # n.line} \cup {n}
      PROVE  Fits(bundle, StaffLines([L EXCEPT ![d] = lines]))
  <2>1. n \in Line /\ ~n.advance /\ n.line \in free
    <3>1. free \subseteq LineIds
      BY <1>2, <1>4 DEF DayLines, Line
    <3>2. Kinds = {FALSE}
      BY DEF Kinds
    <3> HIDE DEF free
    <3>3. QED
      BY <1>1, <3>1, <3>2, HiredIs DEF Line
  <2>2. n \in lines /\ lines \subseteq L[d] \cup {n} /\ \A y \in lines : y # n => y.line # n.line
    BY <1>7
  <2>3. ASSUME NEW k \in Days, k # d, NEW y \in L[k] PROVE y.line # n.line
    <3>1. CASE n.line \in LineIds \ UsedIds
      BY <1>4, <2>3, <3>1 DEF UsedIds
    <3>2. CASE \E x \in L[d] : x.line = n.line
      <4>1. PICK x \in L[d] : x.line = n.line
        BY <3>2
      <4>2. x.line # y.line
        BY <1>1, <2>3, IdsApart
      <4>3. QED
        BY <4>1, <4>2
    <3>3. QED
      BY <1>2, <2>1, <3>1, <3>2
  <2>4. n.amt <= SumOver(StillOwed(bundle, n.emp, n.line), 1 .. MonthOf(d))
    BY <2>1, <2>2 DEF validateStaffPayoutAmount, totalStillOwedForEmployeeThroughMonth
  <2>5. n.line \in {n.line, Manual}
    OBVIOUS
  <2> HIDE DEF new, free
  <2>6. QED
    BY <1>1, <1>3, <2>1, <2>2, <2>3, <2>4, <2>5, PutFits
<1>8. QED
  BY <1>3, <1>5, <1>6, <1>7 DEF L

LEMMA FormSaveKeeps ==
  ASSUME OneAtATime, Thrift, NEW d \in Days, NEW lines \in EditedLines(d), FormSave(d, lines), Frugal'
  PROVE  Keeping'
<1> DEFINE L == [LinesOf(cache) EXCEPT ![d] = lines]
           b == reconcileSalaryMonthFromDailyMap(bundle, L, roster)
<1>1. ByUser /\ ~dirty' /\ UNCHANGED <<roster, op>>
  BY DEF FormSave
<1>2. /\ Frugal /\ Keeping /\ PostingTypeOK /\ cache = days /\ mode' = mode
      /\ \A o \in Ops : op[o] = Idle
  BY <1>1, UserKeeps
<1>3. IsBundle(bundle) /\ Uniform(bundle) /\ Lined(LinesOf(cache)) /\ SyncedBundle(bundle) = bundle /\ roster = AsHired
  BY <1>2, BooksKept DEF Keeping
<1>4. (IF dirty THEN bundle ELSE SyncedBundle(bundle)) = bundle
  BY <1>3
<1>5. /\ \A x \in lines : validateStaffPayoutAmount(bundle, MonthOf(d), x.emp, x.amt, x.advance, x.line)
      /\ days' = [days EXCEPT ![d].lines = lines] /\ cache' = days'
      /\ savedBundle' = b /\ bundle' = SyncedBundle(b)
  <2>1. ~(mode.fails # "never" \/ days[d].locked)
    BY <1>2 DEF FormSave, Frugal
  <2>2. QED
    BY <1>4, <2>1 DEF FormSave
<1>6. lines \in DayLines /\ Fits(bundle, StaffLines(L))
  BY <1>2, <1>5, FormLinesFit DEF Frugal
<1>7. Lined(L)
  BY <1>3, <1>6, PutLined
<1>8. L = LinesOf(cache)'
  <2>1. days \in [Days -> Day]
    BY <1>2 DEF PostingTypeOK
  <2>2. \A k \in Days : days'[k].lines = IF k = d THEN lines ELSE days[k].lines
    BY <1>5, <2>1 DEF Day
  <2>3. LinesOf(cache)' = [k \in Days |-> IF k = d THEN lines ELSE days[k].lines]
    BY <1>5, <2>2 DEF LinesOf
  <2>4. L = [k \in Days |-> IF k = d THEN lines ELSE days[k].lines]
    BY <1>2 DEF LinesOf
  <2>5. QED
    BY <2>3, <2>4
<1> HIDE DEF L
<1>9. bundle' = b
  <2>1. b = reconcileSalaryMonthFromDailyMap(bundle, L, AsHired)
    BY <1>3
  <2>2. /\ IsBundle(reconcileSalaryMonthFromDailyMap(bundle, L, AsHired))
        /\ Sound(reconcileSalaryMonthFromDailyMap(bundle, L, AsHired), StaffLines(L))
    BY <1>3, <1>6, <1>7, RebuildSound
  <2>3. IsBundle(b) /\ Uniform(b)
    BY <2>1, <2>2 DEF Sound
  <2> HIDE DEF b
  <2>4. SyncedBundle(b) = b
    BY <1>3, <2>3, UniformInLine DEF SyncedBundle
  <2>5. QED
    BY <1>5, <2>4
<1>10. \A o \in Ops : op'[o].step # "day" /\ (op'[o].step = "bundle" => op'[o].sent = bundle')
  BY <1>1, <1>2, NothingAsked
<1>11. bundle' = reconcileSalaryMonthFromDailyMap(bundle, L, roster) /\ roster' = roster
       /\ (~dirty' => savedBundle' = bundle')
  BY <1>1, <1>5, <1>9
<1>12. QED
  BY <1>2, <1>6, <1>7, <1>8, <1>10, <1>11, RebuildKeeps

LEMMA DeleteDayKeeps ==
  ASSUME OneAtATime, Thrift, NEW d \in Days, DeleteDay(d), Frugal'
  PROVE  Keeping'
<1> DEFINE L == [LinesOf(cache) EXCEPT ![d] = {}]
           c == WithoutDay(bundle, d)
<1>1. ByUser /\ UNCHANGED <<dirty, roster, op>> /\ ~dirty
  BY DEF DeleteDay
<1>2. /\ Frugal /\ Keeping /\ PostingTypeOK /\ cache = days /\ mode' = mode
      /\ \A o \in Ops : op[o] = Idle
  BY <1>1, UserKeeps
<1>3. /\ IsBundle(bundle) /\ Uniform(bundle) /\ Lined(LinesOf(cache)) /\ roster = AsHired
      /\ Sound(bundle, StaffLines(LinesOf(cache))) /\ savedBundle = bundle
  BY <1>1, <1>2, BooksKept DEF Keeping
<1>4. /\ savedBundle' = c /\ bundle' = SyncedBundle(c)
      /\ days' = [days EXCEPT ![d] = [lines |-> {}, locked |-> FALSE]] /\ cache' = days'
  BY <1>3 DEF DeleteDay
<1>5. IsBundle(c)
  BY <1>3, DayTaken
<1>6. /\ DOMAIN c = DOMAIN bundle
      /\ \A m \in DOMAIN bundle :
           /\ DOMAIN c[m].rows = DOMAIN bundle[m].rows
           /\ \A e \in DOMAIN bundle[m].rows :
                /\ c[m].rows[e].basic = bundle[m].rows[e].basic /\ c[m].rows[e].extra = bundle[m].rows[e].extra
                /\ c[m].rows[e].pays \subseteq bundle[m].rows[e].pays
                /\ \A p \in bundle[m].rows[e].pays : p.day # d => p \in c[m].rows[e].pays
  <2>1. DOMAIN c = DOMAIN bundle
    BY DEF WithoutDay
  <2>2. ASSUME NEW m \in DOMAIN bundle
        PROVE  /\ DOMAIN c[m].rows = DOMAIN bundle[m].rows
               /\ \A e \in DOMAIN bundle[m].rows :
                    /\ c[m].rows[e].basic = bundle[m].rows[e].basic /\ c[m].rows[e].extra = bundle[m].rows[e].extra
                    /\ c[m].rows[e].pays \subseteq bundle[m].rows[e].pays
                    /\ \A p \in bundle[m].rows[e].pays : p.day # d => p \in c[m].rows[e].pays
    <3> DEFINE kept(e) == {p \in bundle[m].rows[e].pays : p.day # d \/ p.line = Manual}
               rws == [e \in DOMAIN bundle[m].rows |-> [bundle[m].rows[e] EXCEPT !.pays = kept(e)]]
    <3>1. c[m] = IF bundle[m].locked THEN bundle[m] ELSE [bundle[m] EXCEPT !.rows = rws]
      BY DEF WithoutDay
    <3>2. bundle[m] = [locked |-> bundle[m].locked, rows |-> bundle[m].rows]
      BY <1>3 DEF IsBundle, IsSheet
    <3>3. \A e \in DOMAIN bundle[m].rows :
            /\ [bundle[m].rows[e] EXCEPT !.pays = kept(e)].basic = bundle[m].rows[e].basic
            /\ [bundle[m].rows[e] EXCEPT !.pays = kept(e)].extra = bundle[m].rows[e].extra
            /\ [bundle[m].rows[e] EXCEPT !.pays = kept(e)].pays = kept(e)
      <4>1. SUFFICES ASSUME NEW e \in DOMAIN bundle[m].rows
                     PROVE  /\ [bundle[m].rows[e] EXCEPT !.pays = kept(e)].basic = bundle[m].rows[e].basic
                            /\ [bundle[m].rows[e] EXCEPT !.pays = kept(e)].extra = bundle[m].rows[e].extra
                            /\ [bundle[m].rows[e] EXCEPT !.pays = kept(e)].pays = kept(e)
        OBVIOUS
      <4>2. bundle[m].rows[e] \in RegisterRow
        BY <1>3, RowIn
      <4> HIDE DEF kept
      <4>3. QED
        BY <4>2 DEF RegisterRow
    <3>4. CASE bundle[m].locked
      BY <3>1, <3>4
    <3>5. CASE ~bundle[m].locked
      <4>1. c[m].rows = rws
        <5> HIDE DEF rws
        <5>1. QED
          BY <3>1, <3>2, <3>5
      <4>2. DOMAIN rws = DOMAIN bundle[m].rows
            /\ \A e \in DOMAIN bundle[m].rows : /\ rws[e].basic = bundle[m].rows[e].basic
                                                /\ rws[e].extra = bundle[m].rows[e].extra
                                                /\ rws[e].pays = kept(e)
        BY <3>3
      <4> HIDE DEF rws
      <4>3. QED
        BY <4>1, <4>2
    <3>6. QED
      BY <3>4, <3>5
  <2>3. QED
    BY <2>1, <2>2
<1> HIDE DEF c
<1>7. Uniform(c)
  BY <1>3, <1>6 DEF Uniform
<1>8. bundle' = c
  BY <1>3, <1>4, <1>5, <1>7, UniformInLine DEF SyncedBundle
<1>9. \A m, e : /\ HasRow(c, m, e) <=> HasRow(bundle, m, e)
                /\ Pays(c, m, e) \subseteq Pays(bundle, m, e)
                /\ \A p \in Pays(bundle, m, e) : p.day # d => p \in Pays(c, m, e)
  BY <1>6 DEF HasRow, Pays
<1>10. \A m \in Months, e \in Emps : Payable(c, m, e) >= Payable(bundle, m, e) /\ Pays(c, m, e) \subseteq Pays(bundle, m, e)
  <2>1. SUFFICES ASSUME NEW m \in Months, NEW e \in Emps PROVE Payable(c, m, e) >= Payable(bundle, m, e)
    BY <1>9
  <2>2. Payable(bundle, m, e) = (IF m \in DOMAIN bundle THEN FirstBasic ELSE 0) /\ FirstBasic \in Nat
    BY <1>3, UniformPay
  <2>3. Payable(c, m, e) = (IF m \in DOMAIN c THEN FirstBasic ELSE 0)
    BY <1>5, <1>7, UniformPay
  <2>4. QED
    BY <1>6, <2>2, <2>3
<1>11. L = LinesOf(cache)'
  <2>1. days \in [Days -> Day]
    BY <1>2 DEF PostingTypeOK
  <2>2. \A k \in Days : days'[k].lines = IF k = d THEN {} ELSE days[k].lines
    BY <1>4, <2>1
  <2>3. LinesOf(cache)' = [k \in Days |-> IF k = d THEN {} ELSE days[k].lines]
    BY <1>4, <2>2 DEF LinesOf
  <2>4. L = [k \in Days |-> IF k = d THEN {} ELSE days[k].lines]
    BY <1>2 DEF LinesOf
  <2>5. QED
    BY <2>3, <2>4
<1>12. Lined(L) /\ StaffLines(L) \in SUBSET StaffLines(LinesOf(cache))
  <2>1. {} \in DayLines
    BY NoLines
  <2>2. QED
    BY <1>3, <2>1, PutLined, TakenFits
<1>13. \A i \in StaffLines(L) : i \in StaffLine /\ i.day # d
  <2>1. ASSUME NEW i \in StaffLines(L) PROVE i \in StaffLine /\ i.day # d
    <3>1. PICK k \in Days : \E x \in L[k] : StandsFor(i, x, k)
      BY <1>12, LinesStand
    <3>2. PICK x \in L[k] : StandsFor(i, x, k)
      BY <3>1
    <3>3. L[d] = {}
      BY <1>3 DEF Lined
    <3> HIDE DEF L
    <3>4. QED
      BY <3>2, <3>3 DEF StandsFor
  <2>2. QED
    BY <2>1
<1> HIDE DEF L
<1>14. Recorded(c, StaffLines(L))
  <2>1. SUFFICES ASSUME NEW i \in StaffLines(L) PROVE \E k \in Months : Payout(i) \in Pays(c, k, i.emp)
    BY DEF Recorded
  <2>2. PICK k \in Months : Payout(i) \in Pays(bundle, k, i.emp)
    BY <1>3, <1>12 DEF Sound, Recorded
  <2>3. Payout(i).day # d
    BY <1>13, PayoutIs
  <2>4. QED
    BY <1>9, <2>2, <2>3
<1>15. \A o \in Ops : op'[o].step # "day" /\ (op'[o].step = "bundle" => op'[o].sent = bundle')
  BY <1>1, <1>2, NothingAsked
<1>16. roster' = roster /\ (~dirty' => savedBundle' = bundle')
  BY <1>1, <1>4, <1>8
<1>17. QED
  BY <1>2, <1>5, <1>7, <1>8, <1>10, <1>11, <1>12, <1>14, <1>15, <1>16, EditKeeps

(* Nothing changes but what the registers say of locks, or months.         *)
LEMMA SheetKeeps ==
  ASSUME PostingTypeOK, Keeping, NEW m \in Months, NEW sheet, IsSheet(sheet),
         DOMAIN sheet.rows = Emps,
         \A e \in Emps : sheet.rows[e].basic = FirstBasic /\ sheet.rows[e].extra = 0,
         \A e \in Emps : sheet.rows[e].pays = Pays(bundle, m, e),
         bundle' = WithSheet(bundle, m, sheet), UNCHANGED <<cache, roster>>, dirty' = TRUE,
         \A o \in Ops : op'[o].step # "day" /\ (op'[o].step = "bundle" => op'[o].sent = bundle')
  PROVE  Keeping'
<1> DEFINE c == WithSheet(bundle, m, sheet)
           L == LinesOf(cache)
<1>1. /\ IsBundle(bundle) /\ Uniform(bundle) /\ Lined(L) /\ Sound(bundle, StaffLines(L))
  BY BooksKept DEF Keeping
<1>2. IsBundle(c) /\ DOMAIN c = DOMAIN bundle \cup {m} /\ c[m] = sheet /\ \A k \in DOMAIN bundle : k # m => c[k] = bundle[k]
  BY <1>1, WithSheetIs
<1>3. bundle' = c /\ L = LinesOf(cache)'
  BY DEF LinesOf
<1> HIDE DEF c
<1>4. Uniform(c)
  <2>1. ASSUME NEW k \in DOMAIN c
        PROVE  DOMAIN c[k].rows = Emps /\ \A e \in Emps : c[k].rows[e].basic = FirstBasic /\ c[k].rows[e].extra = 0
    BY <1>1, <1>2 DEF Uniform
  <2>2. QED
    BY <2>1 DEF Uniform
<1>5. \A k \in Months, e \in Emps : Payable(c, k, e) >= Payable(bundle, k, e)
  <2>1. SUFFICES ASSUME NEW k \in Months, NEW e \in Emps PROVE Payable(c, k, e) >= Payable(bundle, k, e)
    OBVIOUS
  <2>2. Payable(bundle, k, e) = (IF k \in DOMAIN bundle THEN FirstBasic ELSE 0) /\ FirstBasic \in Nat
    BY <1>1, UniformPay
  <2>3. Payable(c, k, e) = (IF k \in DOMAIN c THEN FirstBasic ELSE 0)
    BY <1>2, <1>4, UniformPay
  <2>4. QED
    BY <1>2, <2>2, <2>3
<1>6. \A k \in Months, e \in Emps : Pays(c, k, e) = Pays(bundle, k, e)
  <2>1. SUFFICES ASSUME NEW k \in Months, NEW e \in Emps PROVE Pays(c, k, e) = Pays(bundle, k, e)
    OBVIOUS
  <2>2. CASE k = m
    BY <1>2, <2>2 DEF Pays, HasRow
  <2>3. CASE k # m
    BY <1>2, <2>3 DEF Pays, HasRow
  <2>4. QED
    BY <2>2, <2>3
<1>7. \A k \in Months, e \in Emps : Payable(c, k, e) >= Payable(bundle, k, e) /\ Pays(c, k, e) \subseteq Pays(bundle, k, e)
  BY <1>5, <1>6
<1>8. Recorded(c, StaffLines(L))
  <2>1. SUFFICES ASSUME NEW i \in StaffLines(L) PROVE \E k \in Months : Payout(i) \in Pays(c, k, i.emp)
    BY DEF Recorded
  <2>2. i.emp \in Emps
    BY <1>1, StaffLinesAre DEF StaffLine
  <2>3. PICK k \in Months : Payout(i) \in Pays(bundle, k, i.emp)
    BY <1>1 DEF Sound, Recorded
  <2>4. QED
    BY <1>6, <2>2, <2>3
<1>9. StaffLines(L) \in SUBSET StaffLines(LinesOf(cache))
  OBVIOUS
<1> HIDE DEF L
<1>10. QED
  BY <1>1, <1>2, <1>3, <1>4, <1>7, <1>8, <1>9, EditKeeps

LEMMA RegistersKeep ==
  ASSUME OneAtATime, Thrift, NEW m \in Months, NEW e, NEW x, Frugal',
         updateRow(m, e, x) \/ setMonthLockState(m) \/ generateMonth(m) \/ executeDeleteMonth(m)
  PROVE  Keeping'
<1>1. ByUser
  BY DEF updateRow, setMonthLockState, generateMonth, executeDeleteMonth, Edit
<1>2. /\ Frugal /\ Keeping /\ PostingTypeOK /\ mode' = mode
      /\ \A o \in Ops : op[o] = Idle
  BY <1>1, UserKeeps
<1>3. ~updateRow(m, e, x) /\ ~executeDeleteMonth(m)
  BY <1>2 DEF updateRow, executeDeleteMonth, Frugal
<1>4. /\ UNCHANGED <<cache, roster, op>> /\ dirty' = TRUE
  BY <1>3 DEF setMonthLockState, generateMonth, Edit
<1>5. \A o \in Ops : op'[o].step # "day" /\ (op'[o].step = "bundle" => op'[o].sent = bundle')
  BY <1>2, <1>4, NothingAsked
<1>6. IsBundle(bundle) /\ Uniform(bundle) /\ roster = AsHired
  BY <1>2, BooksKept DEF Keeping
<1> DEFINE doc == ensureMonthDoc(bundle, m, roster)
<1>7. IsSheet(doc)
  BY <1>6, HiredIs, MonthTyped
<1>8. CASE m \in DOMAIN bundle
  <2>1. doc = bundle[m]
    BY <1>6, <1>8, UniformInLine
  <2>2. /\ DOMAIN doc.rows = Emps
        /\ \A k \in Emps : doc.rows[k].basic = FirstBasic /\ doc.rows[k].extra = 0
                           /\ doc.rows[k].pays = Pays(bundle, m, k)
    BY <1>6, <1>8, <2>1 DEF Uniform, Pays, HasRow
  <2> HIDE DEF doc
  <2>3. CASE generateMonth(m)
    <3>1. bundle' = WithSheet(bundle, m, doc)
      BY <2>3 DEF generateMonth, Edit, doc
    <3>2. QED
      BY <1>2, <1>4, <1>5, <1>7, <2>2, <3>1, SheetKeeps
  <2>4. CASE setMonthLockState(m)
    <3> DEFINE sheet == [doc EXCEPT !.locked = ~@]
    <3>1. bundle' = WithSheet(bundle, m, sheet)
      BY <2>4 DEF setMonthLockState, Edit, doc
    <3>2. IsSheet(sheet)
      BY <1>7, SheetLocked
    <3>3. sheet.rows = doc.rows
      BY <1>7 DEF IsSheet
    <3> HIDE DEF sheet
    <3>4. /\ DOMAIN sheet.rows = Emps
          /\ \A k \in Emps : sheet.rows[k].basic = FirstBasic /\ sheet.rows[k].extra = 0
          /\ \A k \in Emps : sheet.rows[k].pays = Pays(bundle, m, k)
      BY <2>2, <3>3
    <3>5. QED
      BY <1>2, <1>4, <1>5, <3>1, <3>2, <3>4, SheetKeeps
  <2>5. QED
    BY <1>3, <2>3, <2>4
<1>9. CASE m \notin DOMAIN bundle
  <2>1. bundle' = WithSheet(bundle, m, doc)
    BY <1>3, <1>9 DEF setMonthLockState, generateMonth, Edit
  <2>2. DOMAIN doc.rows = Emps /\ \A k \in Emps : doc.rows[k] = NewRow(AsHired, k)
    BY <1>6, <1>9, HiredIs, Ensured
  <2> HIDE DEF doc
  <2>3. \A k \in Emps : /\ NewRow(AsHired, k).basic = FirstBasic /\ NewRow(AsHired, k).extra = 0
                        /\ NewRow(AsHired, k).pays = {}
    BY HiredIs, NewRowIs
  <2>4. \A k \in Emps : Pays(bundle, m, k) = {}
    BY <1>9 DEF Pays, HasRow
  <2>5. /\ \A k \in Emps : doc.rows[k].basic = FirstBasic /\ doc.rows[k].extra = 0
        /\ \A k \in Emps : doc.rows[k].pays = Pays(bundle, m, k)
    BY <2>2, <2>3, <2>4
  <2>6. QED
    BY <1>2, <1>4, <1>5, <1>7, <2>1, <2>2, <2>5, SheetKeeps
<1>10. QED
  BY <1>8, <1>9

LEMMA PayrollKeeps ==
  ASSUME OneAtATime, Thrift, openPayroll, Frugal'
  PROVE  Keeping'
<1> DEFINE L == LinesOf(cache)
<1>1. ByUser /\ UNCHANGED <<cache, roster, op>> /\ dirty' = TRUE
  BY DEF openPayroll
<1>2. /\ Frugal /\ Keeping /\ PostingTypeOK /\ mode' = mode
      /\ \A o \in Ops : op[o] = Idle
  BY <1>1, UserKeeps
<1>3. SyncedBundle(bundle) = bundle /\ Lined(L) /\ Fits(bundle, StaffLines(L))
  BY <1>2, BooksKept
<1>4. bundle' = reconcileSalaryMonthFromDailyMap(bundle, L, roster)
  <2>1. (IF dirty THEN bundle ELSE SyncedBundle(savedBundle)) = bundle
    BY <1>2, <1>3 DEF Keeping
  <2>2. QED
    BY <2>1 DEF openPayroll
<1>5. L = LinesOf(cache)'
  BY <1>1 DEF LinesOf
<1> HIDE DEF L
<1>6. \A o \in Ops : op'[o].step # "day" /\ (op'[o].step = "bundle" => op'[o].sent = bundle')
  BY <1>1, <1>2, NothingAsked
<1>7. roster' = roster /\ (~dirty' => savedBundle' = bundle')
  BY <1>1
<1>8. QED
  BY <1>2, <1>3, <1>4, <1>5, <1>6, <1>7, RebuildKeeps

LEMMA SameBooksKeep ==
  ASSUME Keeping, bundle' = bundle, LinesOf(cache)' = LinesOf(cache), roster' = roster,
         ~dirty' => savedBundle' = bundle',
         \A o \in Ops : op'[o].step # "day" /\ op'[o].step # "bundle"
  PROVE  Keeping'
<1> DEFINE L == LinesOf(cache)
<1>1. L = LinesOf(cache)' /\ Sound(bundle', StaffLines(L)) /\ roster' = AsHired
  BY DEF Keeping
<1> HIDE DEF L
<1>2. QED
  BY <1>1, KeepingNext

LEMMA OthersKeep ==
  ASSUME OneAtATime, Thrift, Frugal',
         DebouncedSave \/ Restart \/ RefreshEntries \/ \E d \in Days : LockDay(d)
  PROVE  Keeping'
<1>1. CASE DebouncedSave
  <2>1. mode' = mode /\ UNCHANGED <<cache, bundle, roster, op>> /\ savedBundle' = bundle /\ InFlight = {}
    BY <1>1 DEF DebouncedSave
  <2>2. Frugal
    BY <2>1, FrugalStays
  <2>3. Keeping /\ \A o \in Ops : op[o] = Idle
    BY <2>1, <2>2 DEF Thrift, InFlight
  <2>4. \A o \in Ops : op'[o].step # "day" /\ op'[o].step # "bundle"
    BY <2>1, <2>3, NothingAsked
  <2>5. LinesOf(cache)' = LinesOf(cache)
    BY <2>1 DEF LinesOf
  <2>6. QED
    BY <2>1, <2>3, <2>4, <2>5, SameBooksKeep
<1>2. CASE Restart \/ RefreshEntries \/ \E d \in Days : LockDay(d)
  <2>1. ByUser /\ (op' = op \/ op' = [o \in Ops |-> Idle]) /\ roster' = roster
    BY <1>2 DEF Restart, RefreshEntries, LockDay
  <2>2. /\ Frugal /\ Keeping /\ PostingTypeOK /\ cache = days /\ mode' = mode
        /\ \A o \in Ops : op[o] = Idle
    BY <2>1, UserKeeps
  <2>3. \A o \in Ops : op'[o].step # "day" /\ op'[o].step # "bundle"
    BY <2>1, <2>2, NothingAsked
  <2>4. ~RefreshEntries
    BY <2>2 DEF RefreshEntries
  <2>5. CASE Restart
    <3>1. ~dirty /\ savedBundle = bundle
      <4>1. mode.patient
        BY <2>2 DEF Frugal, Calm
      <4>2. QED
        BY <2>2, <2>5, <4>1 DEF Restart, Keeping
    <3>2. SyncedBundle(bundle) = bundle
      BY <2>2, BooksKept
    <3>3. bundle' = bundle /\ savedBundle' = bundle' /\ cache' = cache
      BY <2>2, <2>5, <3>1, <3>2 DEF Restart
    <3>4. LinesOf(cache)' = LinesOf(cache)
      BY <3>3 DEF LinesOf
    <3>5. QED
      BY <2>1, <2>2, <2>3, <3>3, <3>4, SameBooksKeep
  <2>6. ASSUME NEW d \in Days, LockDay(d) PROVE Keeping'
    <3>1. UNCHANGED <<bundle, savedBundle, dirty>>
      BY <2>6 DEF LockDay
    <3>2. LinesOf(cache)' = LinesOf(cache)
      <4>1. cache \in [Days -> Day]
        BY <2>2 DEF PostingTypeOK
      <4>2. days' = [cache EXCEPT ![d].locked = ~@] /\ cache' = [cache EXCEPT ![d] = days'[d]]
        BY <2>2, <2>6 DEF LockDay, Frugal, Calm
      <4>3. \A k \in Days : cache'[k].lines = cache[k].lines
        BY <4>1, <4>2 DEF Day
      <4>4. QED
        BY <4>3 DEF LinesOf
    <3>3. ~dirty' => savedBundle' = bundle'
      BY <2>2, <3>1 DEF Keeping
    <3>4. QED
      BY <2>1, <2>2, <2>3, <3>1, <3>2, <3>3, SameBooksKeep
  <2>7. QED
    BY <1>2, <2>4, <2>5, <2>6
<1>3. QED
  BY <1>1, <1>2

LEMMA ThriftNext ==
  ASSUME OneAtATime, Thrift, [PostingNext]_postingVars
  PROVE  Thrift'
<1>1. SUFFICES ASSUME Frugal' PROVE Keeping'
  BY DEF Thrift
<1>2. CASE UNCHANGED postingVars
  <2>1. Frugal /\ Keeping
    BY <1>1, <1>2, FrugalStays DEF postingVars, Thrift
  <2>2. LinesOf(cache)' = LinesOf(cache)
    BY <1>2 DEF postingVars, LinesOf
  <2>3. QED
    BY <1>2, <2>1, <2>2 DEF postingVars, Keeping
<1>3. CASE Payouts
  <2>1. PICK o \in Ops :
          \/ \E e \in Emps, d \in Days, amt \in PayoutAmounts, advance \in Kinds :
               recordStaffPayout(o, e, d, amt, advance)
          \/ \E m \in DOMAIN bundle, e \in Emps :
               HasRow(bundle, m, e) /\ \E p \in bundle[m].rows[e].pays : deleteStaffPayout(o, m, e, p)
          \/ DaySaved(o) \/ DayRefused(o) \/ AnswerLost(o) \/ BundleSaved(o) \/ BundleRefused(o)
    BY <1>3 DEF Payouts
  <2>2. CASE \E e \in Emps, d \in Days, amt \in PayoutAmounts, advance \in Kinds :
               recordStaffPayout(o, e, d, amt, advance)
    BY <1>1, <2>2, RecordKeeps
  <2>3. CASE \E m \in DOMAIN bundle, e \in Emps :
               HasRow(bundle, m, e) /\ \E p \in bundle[m].rows[e].pays : deleteStaffPayout(o, m, e, p)
    BY <1>1, <2>3, DeletePayoutKeeps
  <2>4. CASE DaySaved(o) \/ DayRefused(o) \/ AnswerLost(o) \/ BundleSaved(o) \/ BundleRefused(o)
    BY <1>1, <2>4, AnswerKeeps
  <2>5. QED
    BY <2>1, <2>2, <2>3, <2>4
<1>4. CASE Books
  BY <1>1, <1>4, FormSaveKeeps, DeleteDayKeeps, OthersKeep DEF Books
<1>5. CASE Registers
  <2>1. CASE \E m \in Months : \E e \in Emps, x \in Extras : updateRow(m, e, x)
    BY <1>1, <2>1, RegistersKeep
  <2>2. CASE \E m \in Months : setMonthLockState(m) \/ generateMonth(m) \/ executeDeleteMonth(m)
    <3>1. PICK m \in Months : setMonthLockState(m) \/ generateMonth(m) \/ executeDeleteMonth(m)
      BY <2>2
    <3>2. updateRow(m, 0, 0) \/ setMonthLockState(m) \/ generateMonth(m) \/ executeDeleteMonth(m)
      BY <3>1
    <3>3. QED
      BY <1>1, <3>2, RegistersKeep
  <2>3. CASE openPayroll \/ DebouncedSave
    BY <1>1, <2>3, PayrollKeeps, OthersKeep
  <2>4. QED
    BY <1>5, <2>1, <2>2, <2>3 DEF Registers
<1>6. CASE Directory
  <2>1. ~mode.steady /\ mode' = mode
    BY <1>6 DEF Directory, updateEmployee, setEmployeeActive, removeEmployee, addEmployee, SetRoster, ByUser
  <2>2. Frugal
    BY <1>1, <2>1, FrugalStays
  <2>3. QED
    BY <2>1, <2>2 DEF Frugal
<1>7. CASE Restart
  BY <1>1, <1>7, OthersKeep
<1>8. QED
  BY <1>2, <1>3, <1>4, <1>5, <1>6, <1>7 DEF PostingNext

LEMMA ThriftPays ==
  ASSUME OneAtATime, Thrift
  PROVE  NeverOverpaid
<1>1. SUFFICES ASSUME Frugal, NEW e \in Emps PROVE StaffPaid(e) <= Earned(e)
  BY DEF NeverOverpaid, Frugal
<1>2. Keeping /\ PostingTypeOK /\ cache = days
  BY <1>1 DEF Thrift, OneAtATime, Frugal
<1>3. /\ IsBundle(bundle) /\ Uniform(bundle) /\ Lined(LinesOf(cache)) /\ roster = AsHired
      /\ Fits(bundle, StaffLines(LinesOf(cache)))
  BY <1>2, BooksKept DEF Keeping
<1>4. Sound(reconcileSalaryMonthFromDailyMap(bundle, LinesOf(cache), AsHired), StaffLines(LinesOf(cache)))
  BY <1>3, RebuildSound
<1>5. Rebuilt = reconcileSalaryMonthFromDailyMap(bundle, LinesOf(cache), AsHired)
  BY <1>3 DEF Rebuilt, Reconciled
<1>6. Fits(Rebuilt, StaffLines(LinesOf(days)))
  <2>1. Sound(Rebuilt, StaffLines(LinesOf(cache)))
    BY <1>4, <1>5
  <2>2. QED
    BY <1>2, <2>1 DEF Sound
<1>7. TotalOf(StaffLines(LinesOf(days)), e) <= Worth(Rebuilt, e)
  BY <1>6 DEF Fits
<1>8. QED
  BY <1>7 DEF StaffPaid, TotalOf, PayoutsOf, Earned, Worth, PayableTo

(* Without advances nobody is paid more in daily entries than the months   *)
(* in the registers earn, while salaries stay, requests are not refused and*)
(* the form changes one line at a time: what validateStaffPayoutAmount lets*)
(* pass is still covered when the rebuild has placed it.                   *)
THEOREM NobodyOverpaid == PostingSpec => []NeverOverpaid
<1>1. PostingInit => OneAtATime /\ Thrift
  BY WaitStart, ThriftStart, InitTypes
<1>2. OneAtATime /\ Thrift /\ [PostingNext]_postingVars => OneAtATime' /\ Thrift'
  BY WaitNext, ThriftNext
<1>3. OneAtATime /\ Thrift => NeverOverpaid
  BY ThriftPays
<1>4. QED
  BY <1>1, <1>2, <1>3, PTL DEF PostingSpec

-----------------------------------------------------------------------------
(* The service charge.                                                     *)

LEMMA SumScaled ==
  ASSUME NEW S, IsFiniteSet(S), NEW f, NEW g, NEW h, NEW c \in Nat,
         \A x \in S : f[x] \in Nat /\ g[x] \in Nat /\ h[x] \in Nat /\ f[x] = c * g[x] + h[x]
  PROVE  /\ SumFunctionOnSet(f, S) \in Nat /\ SumFunctionOnSet(g, S) \in Nat /\ SumFunctionOnSet(h, S) \in Nat
         /\ SumFunctionOnSet(f, S) = c * SumFunctionOnSet(g, S) + SumFunctionOnSet(h, S)
<1> DEFINE F(T) == SumFunctionOnSet(f, T)
           A(T) == SumFunctionOnSet(g, T)
           B(T) == SumFunctionOnSet(h, T)
           G == {T \in SUBSET S : F(T) \in Nat /\ A(T) \in Nat /\ B(T) \in Nat /\ F(T) = c * A(T) + B(T)}
<1>1. ASSUME NEW T \in SUBSET S, \A x \in T : T \ {x} \in G PROVE T \in G
  <2>1. CASE T = {}
    <3>1. F(T) = 0 /\ A(T) = 0 /\ B(T) = 0
      BY <2>1, SumEmpty
    <3> HIDE DEF F, A, B
    <3>2. QED
      BY <3>1
  <2>2. CASE T # {}
    <3>1. PICK x \in T : TRUE
      BY <2>2
    <3> DEFINE U == T \ {x}
    <3>2. F(U) \in Nat /\ A(U) \in Nat /\ B(U) \in Nat /\ F(U) = c * A(U) + B(U)
      BY <1>1, <3>1
    <3>3. IsFiniteSet(T)
      BY FS_Subset
    <3>4. Counts(f, T) /\ Counts(g, T) /\ Counts(h, T)
      BY <3>3 DEF Counts
    <3>5. F(T) = f[x] + F(U)
      BY <3>1, <3>4, SumRemove
    <3>6. A(T) = g[x] + A(U)
      BY <3>1, <3>4, SumRemove
    <3>7. B(T) = h[x] + B(U)
      BY <3>1, <3>4, SumRemove
    <3>8. f[x] \in Nat /\ g[x] \in Nat /\ h[x] \in Nat /\ f[x] = c * g[x] + h[x]
      BY <3>1
    <3> DEFINE fu == F(U)
               au == A(U)
               bu == B(U)
    <3>9. fu \in Nat /\ au \in Nat /\ bu \in Nat /\ fu = c * au + bu
      BY <3>2
    <3>10. F(T) = f[x] + fu /\ A(T) = g[x] + au /\ B(T) = h[x] + bu
      BY <3>5, <3>6, <3>7
    <3> HIDE DEF F, A, B, U, fu, au, bu
    <3>11. c * (g[x] + au) = c * g[x] + c * au
      BY <3>8, <3>9
    <3>12. c * g[x] \in Nat /\ c * au \in Nat
      BY <3>8, <3>9
    <3>13. F(T) \in Nat /\ A(T) \in Nat /\ B(T) \in Nat
      BY <3>8, <3>9, <3>10
    <3>14. F(T) = c * A(T) + B(T)
      BY <3>8, <3>9, <3>10, <3>11, <3>12
    <3>15. QED
      BY <3>13, <3>14
  <2>3. QED
    BY <2>1, <2>2
<1>2. S \in G
  <2> HIDE DEF G
  <2>1. SUBSET S \subseteq G
    BY <1>1, SubsetInduction
  <2>2. QED
    BY <2>1
<1>3. QED
  BY <1>2

(* Nothing beyond what counts, at most c of each that does.                *)
LEMMA SumWithin ==
  ASSUME NEW S, IsFiniteSet(S), NEW K \in SUBSET S, NEW f, NEW c \in Nat,
         \A x \in S : f[x] \in Nat /\ f[x] <= c /\ (x \notin K => f[x] = 0)
  PROVE  /\ SumFunctionOnSet(f, S) \in Nat /\ Cardinality(K) \in Nat
         /\ SumFunctionOnSet(f, S) <= c * Cardinality(K)
         /\ SumFunctionOnSet(f, K) = SumFunctionOnSet(f, S)
         /\ (\A x \in K : f[x] = 1) => SumFunctionOnSet(f, S) = Cardinality(K)
<1> DEFINE F(T) == SumFunctionOnSet(f, T)
           N(T) == Cardinality(K \cap T)
           Fine(T) == /\ F(T) \in Nat /\ N(T) \in Nat /\ F(T) <= c * N(T) /\ F(K \cap T) = F(T)
                      /\ (\A x \in K : f[x] = 1) => F(T) = N(T)
           G == {T \in SUBSET S : Fine(T)}
<1>1. ASSUME NEW T \in SUBSET S, \A x \in T : T \ {x} \in G PROVE T \in G
  <2>1. CASE T = {}
    <3>1. K \cap T = {} /\ Cardinality({}) = 0
      BY <2>1, FS_EmptySet
    <3>2. F(T) = 0 /\ N(T) = 0 /\ F(K \cap T) = 0
      BY <2>1, <3>1, SumEmpty
    <3> HIDE DEF F, N
    <3>3. QED
      BY <3>2
  <2>2. CASE T # {}
    <3>1. PICK x \in T : TRUE
      BY <2>2
    <3> DEFINE U == T \ {x}
    <3>2. Fine(U)
      BY <1>1, <3>1
    <3>3. IsFiniteSet(T) /\ IsFiniteSet(K \cap T) /\ IsFiniteSet(K \cap U)
      BY FS_Subset
    <3>4. Counts(f, T) /\ Counts(f, K \cap T)
      BY <3>3 DEF Counts
    <3>5. F(T) = f[x] + F(U)
      BY <3>1, <3>4, SumRemove
    <3>6. f[x] \in Nat /\ f[x] <= c
      BY <3>1
    <3>7. CASE x \in K
      <4>1. (K \cap T) \ {x} = K \cap U /\ x \in K \cap T /\ x \notin K \cap U /\ (K \cap U) \cup {x} = K \cap T
        BY <3>1, <3>7
      <4>2. F(K \cap T) = f[x] + F((K \cap T) \ {x})
        BY <3>4, <4>1, SumRemove
      <4>3. Cardinality((K \cap U) \cup {x}) = Cardinality(K \cap U) + 1
        BY <3>3, <4>1, FS_AddElement
      <4>4. F(K \cap T) = f[x] + F(K \cap U) /\ N(T) = N(U) + 1
        BY <4>1, <4>2, <4>3
      <4> DEFINE n == N(U)
                 fu == F(U)
      <4>5. /\ fu \in Nat /\ n \in Nat /\ fu <= c * n /\ F(K \cap U) = fu
            /\ (\A y \in K : f[y] = 1) => fu = n
        BY <3>2
      <4>6. F(T) = f[x] + fu /\ F(K \cap T) = f[x] + fu /\ N(T) = n + 1
        BY <3>5, <4>4, <4>5
      <4> HIDE DEF F, N, n, fu
      <4>7. c * (n + 1) = c * n + c /\ c * n \in Nat
        BY <4>5
      <4>8. F(T) \in Nat /\ N(T) \in Nat /\ F(T) <= c * N(T) /\ F(K \cap T) = F(T)
        BY <3>6, <4>5, <4>6, <4>7
      <4>9. (\A y \in K : f[y] = 1) => F(T) = N(T)
        BY <3>7, <4>5, <4>6
      <4>10. QED
        BY <4>8, <4>9
    <3>8. CASE x \notin K
      <4>1. K \cap T = K \cap U /\ f[x] = 0
        BY <3>1, <3>8
      <4>2. F(K \cap T) = F(K \cap U) /\ N(T) = N(U)
        BY <4>1
      <4> HIDE DEF F, N, U
      <4>3. F(T) = F(U)
        BY <3>2, <3>5, <4>1
      <4>4. QED
        BY <3>2, <4>2, <4>3
    <3>9. QED
      BY <3>7, <3>8
  <2>3. QED
    BY <2>1, <2>2
<1>2. S \in G
  <2> HIDE DEF G
  <2>1. SUBSET S \subseteq G
    BY <1>1, SubsetInduction
  <2>2. QED
    BY <2>1
<1>3. K \cap S = K
  OBVIOUS
<1>4. QED
  BY <1>2, <1>3

-----------------------------------------------------------------------------
(* Rows in the order of their fractions, the earlier of equal ones first.  *)
Precedes(fr, q, r) == fr[q] > fr[r] \/ (fr[q] = fr[r] /\ q < r)
AheadIn(T, fr, r) == {q \in T : Precedes(fr, q, r)}
RankedBelow(T, fr, k) == {r \in T : Cardinality(AheadIn(T, fr, r)) < k}

LEMMA PrecedesOrders ==
  ASSUME NEW E \in SUBSET Nat, NEW fr, \A r \in E : fr[r] \in Nat
  PROVE  /\ \A q, r \in E : Precedes(fr, q, r) => ~Precedes(fr, r, q)
         /\ \A q, r, s \in E : Precedes(fr, q, r) /\ Precedes(fr, r, s) => Precedes(fr, q, s)
         /\ \A q, r \in E : q # r => Precedes(fr, q, r) \/ Precedes(fr, r, q)
BY DEF Precedes

LEMMA OneIsLast ==
  ASSUME NEW E \in SUBSET Nat, IsFiniteSet(E), NEW fr, \A r \in E : fr[r] \in Nat, NEW S \in SUBSET E, S # {}
  PROVE  \E z \in S : \A q \in S \ {z} : Precedes(fr, q, z)
<1> DEFINE IsLast(T) == T # {} => \E z \in T : \A q \in T \ {z} : Precedes(fr, q, z)
           G == {T \in SUBSET E : IsLast(T)}
<1>1. ASSUME NEW T \in SUBSET E, \A x \in T : T \ {x} \in G, T # {} PROVE IsLast(T)
  <2>1. PICK x \in T : TRUE
    BY <1>1
  <2>2. IsLast(T \ {x})
    BY <1>1, <2>1
  <2>3. CASE T \ {x} = {}
    BY <2>1, <2>3
  <2>4. CASE T \ {x} # {}
    <3>1. PICK z \in T \ {x} : \A q \in (T \ {x}) \ {z} : Precedes(fr, q, z)
      BY <2>2, <2>4
    <3>2. x \in E /\ z \in E /\ x # z
      BY <2>1, <3>1
    <3>3. CASE Precedes(fr, x, z)
      <4>1. \A q \in T \ {z} : Precedes(fr, q, z)
        BY <3>1, <3>3
      <4>2. QED
        BY <3>1, <4>1
    <3>4. CASE Precedes(fr, z, x)
      <4>1. \A q \in T \ {x} : Precedes(fr, q, x)
        BY <3>1, <3>2, <3>4, PrecedesOrders
      <4>2. QED
        BY <2>1, <4>1
    <3>5. QED
      BY <3>2, <3>3, <3>4, PrecedesOrders
  <2>5. QED
    BY <2>3, <2>4
<1>2. \A T \in SUBSET E : (\A x \in T : T \ {x} \in G) => T \in G
  BY <1>1
<1>3. S \in G
  <2> HIDE DEF G
  <2>1. SUBSET E \subseteq G
    BY <1>2, SubsetInduction
  <2>2. QED
    BY <2>1
<1>4. QED
  BY <1>3

(* As many rows have fewer than k ahead of them as k says.                 *)
LEMMA RankCount ==
  ASSUME NEW E \in SUBSET Nat, IsFiniteSet(E), NEW fr, \A r \in E : fr[r] \in Nat, NEW k \in Nat, k <= Cardinality(E)
  PROVE  Cardinality(RankedBelow(E, fr, k)) = k
<1> DEFINE Fine(T) == \A j \in Nat : j <= Cardinality(T) => Cardinality(RankedBelow(T, fr, j)) = j
           G == {T \in SUBSET E : Fine(T)}
<1>1. ASSUME NEW T \in SUBSET E, \A x \in T : T \ {x} \in G PROVE T \in G
  <2>1. SUFFICES ASSUME NEW j \in Nat, j <= Cardinality(T) PROVE Cardinality(RankedBelow(T, fr, j)) = j
    OBVIOUS
  <2>2. IsFiniteSet(T)
    BY FS_Subset
  <2>3. CASE T = {}
    <3>1. Cardinality({}) = 0
      BY FS_EmptySet
    <3>2. RankedBelow(T, fr, j) = {} /\ j = 0
      BY <2>1, <2>3, <3>1 DEF RankedBelow
    <3>3. QED
      BY <3>1, <3>2
  <2>4. CASE T # {}
    <3>1. PICK z \in T : \A q \in T \ {z} : Precedes(fr, q, z)
      BY <2>4, OneIsLast
    <3> DEFINE U == T \ {z}
               n == Cardinality(U)
    <3>2. IsFiniteSet(U) /\ n \in Nat /\ Cardinality(T) = n + 1
      <4>1. IsFiniteSet(U)
        BY <2>2, FS_Subset
      <4>2. z \notin U /\ U \cup {z} = T
        BY <3>1
      <4> HIDE DEF U
      <4>3. Cardinality(U \cup {z}) = Cardinality(U) + 1 /\ Cardinality(U) \in Nat
        BY <4>1, <4>2, FS_AddElement, FS_CardinalityType
      <4>4. QED
        BY <4>1, <4>2, <4>3
    <3>3. Fine(U)
      BY <1>1, <3>1
    <3>4. \A r \in U : AheadIn(T, fr, r) = AheadIn(U, fr, r)
      <4>1. \A r \in U : ~Precedes(fr, z, r)
        BY <3>1, PrecedesOrders
      <4>2. QED
        BY <4>1 DEF AheadIn
    <3>5. AheadIn(T, fr, z) = U
      <4>1. ~Precedes(fr, z, z)
        BY <3>1, PrecedesOrders
      <4>2. QED
        BY <3>1, <4>1 DEF AheadIn
    <3>6. T = U \cup {z} /\ z \notin U
      BY <3>1
    <3>7. \A i : RankedBelow(T, fr, i) = RankedBelow(U, fr, i) \cup (IF n < i THEN {z} ELSE {})
      <4> HIDE DEF U
      <4>1. SUFFICES ASSUME NEW i
                     PROVE  RankedBelow(T, fr, i) = RankedBelow(U, fr, i) \cup (IF n < i THEN {z} ELSE {})
        OBVIOUS
      <4>2. \A r : r \in RankedBelow(T, fr, i) <=> r \in T /\ Cardinality(AheadIn(T, fr, r)) < i
        BY DEF RankedBelow
      <4>3. \A r : r \in RankedBelow(U, fr, i) <=> r \in U /\ Cardinality(AheadIn(U, fr, r)) < i
        BY DEF RankedBelow
      <4>4. Cardinality(AheadIn(T, fr, z)) = n
        BY <3>5
      <4>5. \A r \in U : Cardinality(AheadIn(T, fr, r)) = Cardinality(AheadIn(U, fr, r))
        BY <3>4
      <4>6. \A r \in U : r \in RankedBelow(T, fr, i) <=> r \in RankedBelow(U, fr, i)
        BY <3>6, <4>2, <4>3, <4>5
      <4>7. z \in RankedBelow(T, fr, i) <=> n < i
        BY <3>6, <4>2, <4>4
      <4>8. \A r : r \in RankedBelow(T, fr, i) => r \in U \/ r = z
        BY <3>6, <4>2
      <4>9. \A r : r \in RankedBelow(U, fr, i) => r \in U
        BY <4>3
      <4> HIDE DEF n
      <4>10. CASE n < i
        BY <4>6, <4>7, <4>8, <4>9, <4>10
      <4>11. CASE ~(n < i)
        BY <4>6, <4>7, <4>8, <4>9, <4>11
      <4>12. QED
        BY <4>10, <4>11
    <3>8. CASE j <= n
      <4>1. ~(n < j)
        BY <3>2, <3>8
      <4>2. RankedBelow(T, fr, j) = RankedBelow(U, fr, j)
        BY <3>7, <4>1
      <4>3. QED
        BY <3>3, <3>8, <4>2
    <3>9. CASE j = n + 1
      <4>1. Cardinality(RankedBelow(U, fr, n)) = n
        BY <3>2, <3>3
      <4>2. RankedBelow(U, fr, n) \in SUBSET U
        BY DEF RankedBelow
      <4>3. RankedBelow(U, fr, n) = U
        BY <3>2, <4>1, <4>2, FS_Subset
      <4>4. \A r \in U : Cardinality(AheadIn(U, fr, r)) \in Nat
        <5>1. \A r \in U : AheadIn(U, fr, r) \in SUBSET U
          BY DEF AheadIn
        <5>2. QED
          BY <3>2, <5>1, FS_Subset, FS_CardinalityType
      <4>5. \A r \in U : Cardinality(AheadIn(U, fr, r)) < n
        <5> HIDE DEF U
        <5>1. \A r : r \in RankedBelow(U, fr, n) <=> r \in U /\ Cardinality(AheadIn(U, fr, r)) < n
          BY DEF RankedBelow
        <5>2. QED
          BY <4>3, <5>1
      <4>6. \A r \in U : Cardinality(AheadIn(U, fr, r)) < j
        <5> HIDE DEF U, n
        <5>1. QED
          BY <3>2, <3>9, <4>4, <4>5
      <4>7. RankedBelow(U, fr, j) = U
        <5> HIDE DEF U
        <5>1. QED
          BY <4>6 DEF RankedBelow
      <4>8. n < j
        BY <3>2, <3>9
      <4>9. RankedBelow(T, fr, j) = T
        BY <3>6, <3>7, <4>7, <4>8
      <4>10. QED
        BY <3>2, <3>9, <4>9
    <3>10. QED
      <4> HIDE DEF n
      <4>1. j <= n \/ j = n + 1
        BY <2>1, <3>2
      <4>2. QED
        BY <3>8, <3>9, <4>1
  <2>5. QED
    BY <2>3, <2>4
<1>2. E \in G
  <2> HIDE DEF G
  <2>1. SUBSET E \subseteq G
    BY <1>1, SubsetInduction
  <2>2. QED
    BY <2>1
<1>3. QED
  BY <1>2

LEMMA InHundreds ==
  ASSUME NEW n \in Nat
  PROVE  n \div 100 \in Nat /\ n % 100 \in 0 .. 99 /\ n % 100 = n - 100 * (n \div 100)
<1>1. n \div 100 \in Nat
  BY DivIs
<1>2. n % 100 \in 0 .. 99
  OBVIOUS
<1>3. n % 100 = n - 100 * (n \div 100)
  OBVIOUS
<1>4. QED
  BY <1>1, <1>2, <1>3

(* The shares add up to the rounded total, each less than a unit off.      *)
SharedOut(pcts, pool, share) ==
  /\ DOMAIN share \subseteq DOMAIN pcts
  /\ SumOver(share, DOMAIN share) = serviceChargePoolTargetTotal(pcts, pool)
  /\ \A r \in DOMAIN share : 100 * share[r] - pool * pcts[r] \in -99 .. 99

LEMMA PoolGivenOut ==
  ASSUME NEW pcts, DOMAIN pcts \in SUBSET Nat, IsFiniteSet(DOMAIN pcts), \A r \in DOMAIN pcts : pcts[r] \in Nat,
         NEW pool \in Nat
  PROVE  SharedOut(pcts, pool, distributeServiceChargePool(pcts, pool))
<1> DEFINE R == DOMAIN pcts
           E == {r \in R : pcts[r] > 0}
           whole == [r \in R |-> pool * pcts[r]]
           floor(r) == (pool * pcts[r]) \div 100
           frac(r) == (pool * pcts[r]) % 100
           fl == [r \in R |-> floor(r)]
           fr == [r \in R |-> frac(r)]
           target == serviceChargePoolTargetTotal(pcts, pool)
           over == target - SumOver(fl, E)
           Ahead(r) == {q \in E : frac(q) > frac(r) \/ (frac(q) = frac(r) /\ q < r)}
           share == [r \in E |-> floor(r) + (IF Cardinality(Ahead(r)) < over THEN 1 ELSE 0)]
           K == {r \in E : fr[r] > 0}
           ind == [r \in E |-> IF r \in RankedBelow(E, fr, over) THEN 1 ELSE 0]
           P == Cardinality(K)
           A == SumFunctionOnSet(whole, R)
           F == SumFunctionOnSet(fl, R)
           Q == SumFunctionOnSet(fr, R)
<1>1. share = distributeServiceChargePool(pcts, pool)
  BY DEF distributeServiceChargePool
<1>2. E \in SUBSET R /\ E \in SUBSET Nat /\ IsFiniteSet(E) /\ K \in SUBSET E /\ IsFiniteSet(K) /\ K \in SUBSET R
      /\ Cardinality(E) \in Nat /\ P \in Nat /\ P <= Cardinality(E)
  <2>1. E \in SUBSET R /\ K \in SUBSET E
    OBVIOUS
  <2> HIDE DEF E, K
  <2>2. IsFiniteSet(E) /\ Cardinality(E) \in Nat
    BY <2>1, FS_Subset, FS_CardinalityType
  <2>3. IsFiniteSet(K) /\ P \in Nat /\ P <= Cardinality(E)
    BY <2>1, <2>2, FS_Subset, FS_CardinalityType
  <2>4. QED
    BY <2>1, <2>2, <2>3
<1>3. \A r \in R : /\ pool * pcts[r] \in Nat /\ fl[r] \in Nat /\ fr[r] \in 0 .. 99
                   /\ whole[r] = 100 * fl[r] + fr[r] /\ whole[r] \in Nat
                   /\ fl[r] = floor(r) /\ fr[r] = frac(r) /\ whole[r] = pool * pcts[r]
  <2>1. SUFFICES ASSUME NEW r \in R
                 PROVE  /\ pool * pcts[r] \in Nat /\ fl[r] \in Nat /\ fr[r] \in 0 .. 99
                        /\ whole[r] = 100 * fl[r] + fr[r] /\ whole[r] \in Nat
                        /\ fl[r] = floor(r) /\ fr[r] = frac(r) /\ whole[r] = pool * pcts[r]
    OBVIOUS
  <2>2. pcts[r] \in Nat
    OBVIOUS
  <2>3. pool * pcts[r] \in Nat
    BY <2>2
  <2> DEFINE w == pool * pcts[r]
  <2>4. fl[r] = w \div 100 /\ fr[r] = w % 100 /\ whole[r] = w
    OBVIOUS
  <2>5. w \in Nat
    BY <2>3
  <2> HIDE DEF w
  <2>6. w \div 100 \in Nat /\ w % 100 \in 0 .. 99 /\ w % 100 = w - 100 * (w \div 100)
    BY <2>5, InHundreds
  <2> HIDE DEF fl, fr, whole
  <2>7. fl[r] \in Nat /\ fr[r] \in 0 .. 99 /\ fr[r] = w - 100 * fl[r]
    BY <2>4, <2>6
  <2>8. whole[r] = 100 * fl[r] + fr[r]
    BY <2>4, <2>5, <2>7
  <2>9. fl[r] = floor(r) /\ fr[r] = frac(r)
    BY <2>4 DEF w
  <2>10. QED
    BY <2>4, <2>5, <2>7, <2>8, <2>9 DEF w
<1>4. \A r \in R : r \notin E => fl[r] = 0 /\ fr[r] = 0
  <2>1. SUFFICES ASSUME NEW r \in R, r \notin E PROVE fl[r] = 0 /\ fr[r] = 0
    OBVIOUS
  <2>2. pcts[r] = 0
    BY <2>1
  <2>3. pool * pcts[r] = 0
    BY <2>2
  <2>4. fl[r] = 0 \div 100 /\ fr[r] = 0 % 100
    BY <2>3
  <2>5. QED
    BY <2>4
<1>5. \A r \in E : r \notin K => fr[r] = 0
  BY <1>2, <1>3
<1>6. \A r \in E : Ahead(r) = AheadIn(E, fr, r)
  BY <1>2, <1>3 DEF AheadIn, Precedes
<1>7. IsFiniteSet(R) /\ R \in SUBSET Nat
  OBVIOUS
<1>8. target = (A + 50) \div 100
  BY DEF serviceChargePoolTargetTotal, SumOver
<1>9. DOMAIN share = E /\ \A r \in E : share[r] = floor(r) + (IF Cardinality(Ahead(r)) < over THEN 1 ELSE 0)
  OBVIOUS
<1>10. DOMAIN ind = E /\ \A r \in E : ind[r] = IF r \in RankedBelow(E, fr, over) THEN 1 ELSE 0
  OBVIOUS
<1> HIDE DEF share, ind, whole, fl, fr, K, E, target
<1>11. F \in Nat /\ A \in Nat /\ Q \in Nat /\ A = 100 * F + Q
  <2>1. \A r \in R : whole[r] \in Nat /\ fl[r] \in Nat /\ fr[r] \in Nat /\ whole[r] = 100 * fl[r] + fr[r]
    BY <1>3
  <2> HIDE DEF R
  <2>2. /\ SumFunctionOnSet(whole, R) \in Nat /\ SumFunctionOnSet(fl, R) \in Nat /\ SumFunctionOnSet(fr, R) \in Nat
        /\ SumFunctionOnSet(whole, R) = 100 * SumFunctionOnSet(fl, R) + SumFunctionOnSet(fr, R)
    <3> DEFINE c == 100
    <3>1. c \in Nat /\ IsFiniteSet(R)
      BY <1>7
    <3>2. \A r \in R : whole[r] \in Nat /\ fl[r] \in Nat /\ fr[r] \in Nat /\ whole[r] = c * fl[r] + fr[r]
      BY <2>1
    <3> HIDE DEF c
    <3>3. /\ SumFunctionOnSet(whole, R) \in Nat /\ SumFunctionOnSet(fl, R) \in Nat /\ SumFunctionOnSet(fr, R) \in Nat
          /\ SumFunctionOnSet(whole, R) = c * SumFunctionOnSet(fl, R) + SumFunctionOnSet(fr, R)
      BY <3>1, <3>2, SumScaled
    <3>4. QED
      BY <3>3 DEF c
  <2>3. QED
    BY <2>2
<1>12. SumFunctionOnSet(fl, E) = F
  <2>1. \A r \in R : fl[r] <= F
    <3>1. Counts(fl, R)
      BY <1>3, <1>7 DEF Counts
    <3>2. QED
      BY <1>3, <1>11, <3>1, SumAtLeast
  <2>2. \A r \in R : fl[r] \in Nat /\ fl[r] <= F /\ (r \notin E => fl[r] = 0)
    BY <1>3, <1>4, <2>1
  <2> DEFINE c == F
  <2>3. \A r \in R : fl[r] \in Nat /\ fl[r] <= c /\ (r \notin E => fl[r] = 0)
    BY <2>2
  <2>4. c \in Nat
    BY <1>11
  <2> HIDE DEF c, R
  <2>5. SumFunctionOnSet(fl, E) = SumFunctionOnSet(fl, R)
    BY <1>2, <1>7, <2>3, <2>4, SumWithin
  <2>6. QED
    BY <2>5
<1>13. Q <= 99 * P
  <2>1. \A r \in R : fr[r] \in Nat /\ fr[r] <= 99 /\ (r \notin K => fr[r] = 0)
    BY <1>3, <1>4, <1>5
  <2> HIDE DEF R
  <2>2. QED
    BY <1>2, <1>7, <2>1, SumWithin
<1>14. over = target - F
  BY <1>12 DEF SumOver
<1> HIDE DEF over, A, F, Q, P
<1>15. target \in Nat /\ over \in Nat /\ over <= P
  <2>1. target \in Nat /\ 100 * target <= A + 50 /\ A + 50 < 100 * target + 100
    BY <1>8, <1>11
  <2>2. 100 * over <= Q + 50 /\ Q + 50 < 100 * over + 100 /\ over \in Int
    BY <1>11, <1>14, <2>1
  <2>3. QED
    BY <1>2, <1>11, <1>13, <2>1, <2>2
<1>16. \A r \in E : Cardinality(Ahead(r)) = Cardinality(AheadIn(E, fr, r))
  BY <1>6
<1>17. \A r \in E : ind[r] \in {0, 1} /\ fl[r] \in Nat /\ share[r] = fl[r] + ind[r] /\ share[r] \in Nat
  <2>1. SUFFICES ASSUME NEW r \in E
                 PROVE  ind[r] \in {0, 1} /\ fl[r] \in Nat /\ share[r] = fl[r] + ind[r] /\ share[r] \in Nat
    OBVIOUS
  <2>2. r \in RankedBelow(E, fr, over) <=> Cardinality(Ahead(r)) < over
    BY <1>16 DEF RankedBelow
  <2>3. fl[r] = floor(r) /\ fl[r] \in Nat
    BY <1>2, <1>3
  <2>4. share[r] = fl[r] + (IF Cardinality(Ahead(r)) < over THEN 1 ELSE 0)
    BY <1>9, <2>3
  <2>5. ind[r] = IF Cardinality(Ahead(r)) < over THEN 1 ELSE 0
    BY <1>10, <2>2
  <2> HIDE DEF Ahead
  <2>6. QED
    BY <2>3, <2>4, <2>5
<1>18. SumFunctionOnSet(ind, E) = over
  <2> DEFINE B == RankedBelow(E, fr, over)
  <2>1. B \in SUBSET E
    BY DEF RankedBelow
  <2>2. \A r \in E : ind[r] \in Nat /\ ind[r] <= 1 /\ (r \notin B => ind[r] = 0)
    BY <1>10
  <2>3. \A r \in B : ind[r] = 1
    BY <1>10, <2>1
  <2>4. Cardinality(B) = over
    <3>1. \A r \in E : fr[r] \in Nat
      BY <1>2, <1>3
    <3>2. over \in Nat /\ over <= Cardinality(E)
      BY <1>2, <1>15
    <3>3. QED
      BY <1>2, <3>1, <3>2, RankCount
  <2> HIDE DEF B
  <2>5. SumFunctionOnSet(ind, E) = Cardinality(B)
    BY <1>2, <2>1, <2>2, <2>3, SumWithin
  <2>6. QED
    BY <2>4, <2>5
<1>19. SumFunctionOnSet(share, E) = target
  <2>1. \A r \in E : share[r] \in Nat /\ fl[r] \in Nat /\ ind[r] \in Nat /\ share[r] = 1 * fl[r] + ind[r]
    BY <1>17
  <2>2. /\ SumFunctionOnSet(fl, E) \in Nat
        /\ SumFunctionOnSet(share, E) = 1 * SumFunctionOnSet(fl, E) + SumFunctionOnSet(ind, E)
    BY <1>2, <2>1, SumScaled
  <2>3. SumFunctionOnSet(share, E) = F + over
    BY <1>11, <1>12, <1>15, <1>18, <2>2
  <2>4. QED
    BY <1>11, <1>14, <1>15, <2>3
<1>20. ASSUME NEW r \in E PROVE 100 * share[r] - pool * pcts[r] \in -99 .. 99
  <2>1. /\ whole[r] = 100 * fl[r] + fr[r] /\ fr[r] \in 0 .. 99 /\ whole[r] = pool * pcts[r]
        /\ ind[r] \in {0, 1} /\ fl[r] \in Nat /\ share[r] = fl[r] + ind[r]
    BY <1>2, <1>3, <1>17
  <2>2. CASE ind[r] = 0
    BY <2>1, <2>2
  <2>3. CASE ind[r] = 1
    <3>1. r \in RankedBelow(E, fr, over)
      BY <1>10, <2>3
    <3> DEFINE H == AheadIn(E, fr, r)
    <3>2. Cardinality(H) < over
      BY <3>1 DEF RankedBelow
    <3>3. H \in SUBSET E
      BY DEF AheadIn
    <3>4. fr[r] # 0
      <4>1. SUFFICES ASSUME fr[r] = 0 PROVE FALSE
        OBVIOUS
      <4>2. K \in SUBSET H
        BY <1>2, <1>3, <4>1 DEF K, AheadIn, Precedes
      <4> HIDE DEF H
      <4>3. IsFiniteSet(H) /\ Cardinality(H) \in Nat
        BY <1>2, <3>3, FS_Subset, FS_CardinalityType
      <4>4. Cardinality(K) <= Cardinality(H)
        BY <4>2, <4>3, FS_Subset
      <4>5. P <= Cardinality(H)
        BY <4>4 DEF P
      <4>6. QED
        BY <1>2, <1>15, <3>2, <4>3, <4>5
    <3>5. QED
      BY <2>1, <2>3, <3>4
  <2>4. QED
    BY <2>1, <2>2, <2>3
<1>21. SharedOut(pcts, pool, share)
  BY <1>2, <1>9, <1>19, <1>20 DEF SharedOut, SumOver, target
<1>22. QED
  BY <1>1, <1>21 DEF share, over, E, fl, target

LEMMA PoolRounds ==
  ASSUME NEW n \in Nat, NEW pcts \in [1 .. n -> Nat], NEW pool \in Nat
  PROVE  LET share == distributeServiceChargePool(pcts, pool)
             all == SumOver([r \in 1 .. n |-> pool * pcts[r]], 1 .. n)
             given == SumOver(share, DOMAIN share)
         IN /\ 2 * (100 * given - all) \in -99 .. 100
            /\ \A r \in DOMAIN share : 100 * share[r] - pool * pcts[r] \in -99 .. 99
<1> DEFINE share == distributeServiceChargePool(pcts, pool)
           here == [r \in 1 .. n |-> pool * pcts[r]]
           there == [r \in DOMAIN pcts |-> pool * pcts[r]]
           A == SumFunctionOnSet(here, 1 .. n)
           t == SumOver(share, DOMAIN share)
<1>1. DOMAIN pcts = 1 .. n /\ IsFiniteSet(1 .. n) /\ 1 .. n \in SUBSET Nat /\ \A r \in 1 .. n : pcts[r] \in Nat
  <2>1. 1 \in Int /\ n \in Int
    OBVIOUS
  <2>2. IsFiniteSet(1 .. n)
    BY <2>1, FS_Interval
  <2>3. 1 .. n \in SUBSET Nat
    OBVIOUS
  <2>4. QED
    BY <2>2, <2>3
<1>2. SharedOut(pcts, pool, share)
  BY <1>1, PoolGivenOut
<1>3. \A r \in 1 .. n : here[r] \in Nat /\ there[r] = here[r]
  BY <1>1
<1>4. serviceChargePoolTargetTotal(pcts, pool) = (SumFunctionOnSet(there, 1 .. n) + 50) \div 100
  BY <1>1 DEF serviceChargePoolTargetTotal, SumOver
<1> HIDE DEF share, here, there
<1>5. A \in Nat /\ SumFunctionOnSet(there, 1 .. n) = A
  <2>1. Counts(here, 1 .. n)
    BY <1>1, <1>3 DEF Counts
  <2>2. A \in Nat
    BY <2>1, SumNat
  <2>3. SumFunctionOnSet(here, 1 .. n) = SumFunctionOnSet(there, 1 .. n)
    BY <1>3, <2>1, SumSame
  <2>4. QED
    BY <2>2, <2>3
<1>6. t = (A + 50) \div 100
  BY <1>2, <1>4, <1>5 DEF SharedOut
<1> HIDE DEF A, t
<1>7. t \in Nat /\ 100 * t <= A + 50 /\ A + 50 < 100 * t + 100
  BY <1>5, <1>6
<1>8. 2 * (100 * t - A) \in -99 .. 100
  BY <1>5, <1>7
<1>9. \A r \in DOMAIN share : 100 * share[r] - pool * pcts[r] \in -99 .. 99
  BY <1>2 DEF SharedOut
<1>10. A = SumOver(here, 1 .. n)
  BY DEF SumOver, A
<1>11. QED
  BY <1>8, <1>9, <1>10 DEF t, share, here

(* The service charge pool is given out to the unit, whatever the rows'    *)
(* percentages (distributeServiceChargePool): PoolRounds says it of any    *)
(* number of rows, any percentages and any pool, the property of three.    *)
THEOREM PoolIsGivenOut == PostingSpec => []PoolFullyShared
<1>1. PoolFullyShared
  <2>1. ASSUME NEW pool \in 0 .. 8, NEW pcts \in [1 .. 3 -> {0, 20, 30, 33, 45}]
        PROVE  LET share == distributeServiceChargePool(pcts, pool)
                   all == SumOver([r \in 1 .. 3 |-> pool * pcts[r]], 1 .. 3)
                   given == SumOver(share, DOMAIN share)
               IN /\ 2 * (100 * given - all) \in -99 .. 100
                  /\ \A r \in DOMAIN share : 100 * share[r] - pool * pcts[r] \in -99 .. 99
    <3>1. pool \in Nat /\ pcts \in [1 .. 3 -> Nat] /\ 3 \in Nat
      OBVIOUS
    <3>2. QED
      BY <3>1, PoolRounds
  <2>2. QED
    BY <2>1 DEF PoolFullyShared
<1>2. QED
  BY <1>1, PTL
=============================================================================
