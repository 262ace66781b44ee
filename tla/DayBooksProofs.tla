--------------------------- MODULE DayBooksProofs ---------------------------
(***************************************************************************)
(* Proofs about DayBooks, for every set of suppliers and amounts, every    *)
(* finite set of days, and however often the user acts.                    *)
(***************************************************************************)
EXTENDS DayBooks, NaturalsInduction, FiniteSetTheorems, SequenceTheorems, TLAPS

-----------------------------------------------------------------------------
(* A set of numbers that has 0, and with each number the next one, has     *)
(* them all: induction over the numbers, said of a set.                    *)
LEMMA SetInduction ==
  ASSUME NEW S, 0 \in S, \A n \in Nat : n \in S => n + 1 \in S
  PROVE  Nat \subseteq S
<1> DEFINE R == OpToRel(<, Nat)
           C == Nat \ S
<1> SUFFICES ASSUME C # {} PROVE FALSE
  OBVIOUS
<1>1. IsWellFoundedOn(R, Nat)
  BY NatLessThanWellFounded
<1>2. \E n \in C : \A k \in C : <<k, n>> \notin R
  <2>1. C \subseteq Nat
    OBVIOUS
  <2> HIDE DEF C, R
  <2>2. QED
    BY <1>1, <2>1, WFMin
<1>3. PICK n \in C : \A k \in C : ~(k < n)
  BY <1>2 DEF OpToRel
<1>4. n \in Nat /\ n \notin S /\ n # 0
  OBVIOUS
<1>5. n - 1 \in Nat /\ n - 1 < n
  BY <1>4
<1>6. n - 1 \in S
  BY <1>3, <1>5
<1>7. n - 1 + 1 \in S
  BY <1>5, <1>6
<1>8. QED
  BY <1>4, <1>7

(* Sequences of one and of two.                                            *)
LEMMA OneAndOne ==
  ASSUME NEW a, NEW b
  PROVE  <<a>> \o <<b>> = <<a, b>>
<1> DEFINE S == {a, b}
           s == <<a>> \o <<b>>
           t == <<a, b>>
<1>1. <<a>> \in Seq(S) /\ <<b>> \in Seq(S) /\ t \in Seq(S)
  OBVIOUS
<1>2. s \in Seq(S) /\ Len(s) = 2 /\ Len(t) = 2
  BY <1>1
<1>3. s[1] = a /\ s[2] = b /\ t[1] = a /\ t[2] = b
  BY <1>1
<1> HIDE DEF S, s, t
<1>4. \A i \in 1..Len(s) : s[i] = t[i]
  BY <1>2, <1>3
<1>5. s = t
  BY <1>1, <1>2, <1>4, SeqEqual
<1>6. QED
  BY <1>5 DEF s, t

(* What is left of them without the first.                                 *)
LEMMA TailOfOne == ASSUME NEW a PROVE Tail(<<a>>) = << >>
OBVIOUS

(* What is left of two without the first.                                  *)
LEMMA TailOfTwo == ASSUME NEW a, NEW b PROVE Tail(<<a, b>>) = <<b>> /\ <<b>> # << >>
OBVIOUS

(* The same of the subsets of a finite set, built up one by one.           *)
LEMMA SubsetInduction ==
  ASSUME NEW S, IsFiniteSet(S), NEW G,
         \A T \in SUBSET S : (\A x \in T : T \ {x} \in G) => T \in G
  PROVE  SUBSET S \subseteq G
<1> DEFINE R == StrictSubsetOrdering(S)
           C == (SUBSET S) \ G
<1> SUFFICES ASSUME C # {} PROVE FALSE
  OBVIOUS
<1>1. IsWellFoundedOn(R, SUBSET S)
  <2>1. FiniteSubsetsOf(S) = SUBSET S
    BY FS_FiniteSubsetsOfFinite
  <2>2. IsWellFoundedOn(R, FiniteSubsetsOf(S))
    BY FS_StrictSubsetOrderingWellFounded
  <2>3. QED
    BY <2>1, <2>2
<1>2. PICK T \in C : \A U \in C : <<U, T>> \notin R
  <2>1. C \subseteq SUBSET S
    OBVIOUS
  <2> HIDE DEF C, R
  <2>2. QED
    BY <1>1, <2>1, WFMin
<1>3. ASSUME NEW x \in T
      PROVE  T \ {x} \in G
  <2>1. <<T \ {x}, T>> \in R
    BY DEF StrictSubsetOrdering
  <2>2. QED
    BY <1>2, <2>1
<1>4. T \in SUBSET S /\ T \notin G
  BY <1>2
<1>5. \A x \in T : T \ {x} \in G
  BY <1>3
<1>6. QED
  BY <1>4, <1>5

(* The image of a finite set is finite.                                    *)
LEMMA FiniteImage ==
  ASSUME NEW S, IsFiniteSet(S), NEW f
  PROVE  IsFiniteSet({f[x] : x \in S})
<1> DEFINE T == {f[x] : x \in S}
           g == [x \in S |-> f[x]]
<1>1. g \in Surjection(S, T)
  BY DEF Surjection
<1>2. QED
  BY <1>1, FS_Surjection

(* A finite set of numbers has a largest one.                              *)
LEMMA MaxIsMax ==
  ASSUME NEW S \in SUBSET Nat, IsFiniteSet(S), S # {}
  PROVE  Max(S) \in S /\ \A x \in S : Max(S) >= x
<1> DEFINE G == {T \in SUBSET S : T # {} => \E n \in T : \A x \in T : n >= x}
<1>1. ASSUME NEW T \in SUBSET S, \A x \in T : T \ {x} \in G
      PROVE  T \in G
  <2>1. SUFFICES ASSUME T # {} PROVE \E n \in T : \A x \in T : n >= x
    OBVIOUS
  <2>2. PICK y \in T : TRUE
    BY <2>1
  <2>3. CASE T \ {y} = {}
    BY <2>2, <2>3
  <2>4. CASE T \ {y} # {}
    <3>1. PICK n \in T \ {y} : \A x \in T \ {y} : n >= x
      BY <1>1, <2>4
    <3>2. n \in Nat /\ y \in Nat
      OBVIOUS
    <3>3. CASE n >= y
      BY <3>1, <3>3
    <3>4. CASE y >= n
      <4>1. ASSUME NEW x \in T PROVE y >= x
        BY <3>1, <3>2, <3>4
      <4>2. QED
        BY <4>1
    <3>5. QED
      BY <3>2, <3>3, <3>4
  <2>5. QED
    BY <2>3, <2>4
<1>2. S \in G
  <2> HIDE DEF G
  <2>1. QED
    BY <1>1, SubsetInduction
<1>3. \E n \in S : \A x \in S : n >= x
  BY <1>2
<1>4. QED
  BY <1>3 DEF Max

(* So a new id is a number, not 0, and new.                                *)
LEMMA NextIdIsNew ==
  ASSUME NEW S \in SUBSET Nat, IsFiniteSet(S)
  PROVE  NextId(S) \in Nat \ {0} /\ NextId(S) \notin S
<1>1. CASE S = {}
  BY <1>1 DEF NextId
<1>2. CASE S # {}
  <2>1. Max(S) \in S /\ \A x \in S : Max(S) >= x
    BY <1>2, MaxIsMax
  <2>2. Max(S) \in Nat
    BY <2>1
  <2> HIDE DEF Max
  <2>3. Max(S) + 1 \notin S
    BY <2>1, <2>2
  <2>4. QED
    BY <1>2, <2>2, <2>3 DEF NextId
<1>3. QED
  BY <1>1, <1>2

-----------------------------------------------------------------------------
(* What a state of the books is made of. *)

IsLine(x) == x.id \in Nat /\ DOMAIN x = {"id", "kind", "sup", "amt", "bill", "order"}
Lines(ls) == IsFiniteSet(ls) /\ \A x \in ls : IsLine(x)
Bills(ls) == {x.bill : x \in ls} \ {NoLink}
Own(ls) == \A x, y \in ls : x.id = y.id => x = y

IsBill(c) ==
  /\ c = [f \in {"kind", "sup", "date", "amt", "ref", "locked"} |-> c[f]]
  /\ c.locked \in BOOLEAN
IsBook(m) ==
  /\ DOMAIN m = {"bills", "orders"}
  /\ IsFiniteSet(DOMAIN m.bills) /\ DOMAIN m.bills \subseteq Nat \ {NoLink}
  /\ \A b \in DOMAIN m.bills : IsBill(m.bills[b])
Free(m, b) == b \in DOMAIN m.bills /\ ~m.bills[b].locked

AreDays(map) ==
  /\ DOMAIN map = Dates
  /\ \A d \in Dates : DOMAIN map[d] = {"lines", "locked"} /\ Lines(map[d].lines)

(* What an operation under way holds, whoever is at it.                    *)
IsRow(r) == r[1] \in Dates /\ Lines(r[2])
PostIs(o) == o.step \in {"staff", "commit"} => o.date \in Dates /\ Lines(o.lines)
SentIs(o) == o.step = "commit" => IsBook(o.book)
LoadIs(o) == o.step = "load" => o.date \in Dates /\ o.bill # NoLink
PutIs(o) ==
  o.step = "put" =>
    /\ DOMAIN o = {"step", "bill", "rows"} /\ o.bill # NoLink
    /\ \/ o.rows = <<o.rows[1]>> /\ IsRow(o.rows[1])
       \/ o.rows = <<o.rows[1], o.rows[2]>> /\ IsRow(o.rows[1]) /\ IsRow(o.rows[2])
UnlinkIs(o) ==
  o.step \in {"unlink", "strip"} =>
    /\ o.sup = {} => \E b \in Nat : o.bills = {b}
    /\ IsFiniteSet(o.left) /\ o.left \subseteq Nat \ {NoLink}
StripIs(o) == o.step = "strip" => AreDays(o.read) /\ o.left # {}
OpIs(o) == PostIs(o) /\ SentIs(o) /\ LoadIs(o) /\ PutIs(o) /\ UnlinkIs(o) /\ StripIs(o)
OthersAre == (\E S : others \in Seq(S)) /\ \A k \in DOMAIN others : OpIs(others[k])

(* Where the user waits, a row to be saved loses no bill of its day, but   *)
(* for the one that moves; that one it has, or another day.                *)
RowHas(map, b, r) == r[1] \in Dates /\ Lines(r[2]) /\ Bills(map[r[1]].lines) \ {b} \subseteq Bills(r[2])
OneRow(map, b, r) ==
  /\ RowHas(map, b, r)
  /\ b \in Bills(map[r[1]].lines) \ Bills(r[2]) => \E e \in Dates \ {r[1]} : b \in Bills(map[e].lines)
TwoRows(map, b, r, q) ==
  RowHas(map, b, r) /\ RowHas(map, b, q) /\ b \in Bills(r[2]) /\ r[1] # q[1]

PostHas ==
  op.step \in {"staff", "commit"} /\ Own(cache[op.date].lines) =>
    \A b \in Bills(cache[op.date].lines) : Free(mem, b) => b \in Bills(op.lines)
SentHas == op.step = "commit" => op.book = mem
PutHas ==
  op.step = "put" =>
    \/ op.rows = <<op.rows[1]>> /\ OneRow(days, op.bill, op.rows[1])
    \/ op.rows = <<op.rows[1], op.rows[2]>> /\ TwoRows(days, op.bill, op.rows[1], op.rows[2])
OpHas == PostHas /\ SentHas /\ PutHas

(* A day's links lead to bills of the API's cashbook, and the terminal has *)
(* them.                                                                   *)
Links ==
  \A d \in Dates : /\ Bills(days[d].lines) \subseteq DOMAIN book.bills
                   /\ Bills(days[d].lines) \subseteq Bills(cache[d].lines)

TypeInv == IsBook(book) /\ IsBook(mem) /\ AreDays(days) /\ AreDays(cache) /\ OpIs(op) /\ OthersAre
IInv == TypeInv /\ Links /\ (mode.patient => others = << >> /\ OpHas)

-----------------------------------------------------------------------------
(* Lines: what the form posts, one after the other. *)

Unposted(m) == [book |-> m, lines |-> {}]
Last(some) == CHOOSE y \in some : \A z \in some : z.id <= y.id

(* A line that was edited or linked is a line. *)
LEMMA LineIsLine ==
  ASSUME NEW i \in Nat, NEW kind, NEW s, NEW a, NEW b, NEW o
  PROVE  /\ IsLine(Line(i, kind, s, a, b, o))
         /\ Line(i, kind, s, a, b, o).id = i
         /\ Line(i, kind, s, a, b, o).bill = b
  BY DEF IsLine, Line

(* Of some lines, one is the last.                                         *)
LEMMA LastIsOne ==
  ASSUME NEW some, Lines(some), some # {}
  PROVE  Last(some) \in some
<1> DEFINE f == [x \in some |-> x.id]
           ids == {f[x] : x \in some}
<1>1. IsFiniteSet(ids)
  BY FiniteImage DEF Lines
<1>2. ids \in SUBSET Nat /\ ids # {}
  BY DEF Lines, IsLine
<1>3. Max(ids) \in ids /\ \A i \in ids : Max(ids) >= i
  <2> HIDE DEF ids
  <2>1. QED
    BY <1>1, <1>2, MaxIsMax
<1>4. PICK y \in some : y.id = Max(ids)
  BY <1>3
<1>5. ASSUME NEW z \in some PROVE z.id <= y.id
  <2>1. z.id \in ids /\ y.id \in Nat /\ z.id \in Nat
    BY DEF Lines, IsLine
  <2> HIDE DEF ids
  <2>2. QED
    BY <2>1, <1>3, <1>4
<1>6. QED
  BY <1>5 DEF Last

AreSteps(f, m, prior, ls, d) ==
  /\ f[{}] = Unposted(m)
  /\ \A some \in (SUBSET ls) \ {{}} :
       f[some] = PostedLine(f[some \ {Last(some)}], Last(some), prior, d)

(* The lines are posted one by one: there is such a function, and so the   *)
(* one of the module is one.                                               *)
LEMMA PostedSteps ==
  ASSUME NEW m, NEW prior, NEW ls, NEW d, Lines(ls)
  PROVE  \E f : AreSteps(f, m, prior, ls, d) /\ Posted(m, prior, ls, d) = f[ls]
<1> DEFINE Body(h, some) == IF some = {} THEN Unposted(m)
                            ELSE PostedLine(h[some \ {Last(some)}], Last(some), prior, d)
           Small(n) == {some \in SUBSET ls : Cardinality(some) <= n}
           G == {n \in Nat : \E f : f = [some \in Small(n) |-> Body(f, some)]}
<1>1. ASSUME NEW some \in SUBSET ls
      PROVE  /\ IsFiniteSet(some) /\ Cardinality(some) \in Nat
             /\ Cardinality(some) = 0 <=> some = {}
             /\ some # {} => /\ Last(some) \in some
                             /\ some \ {Last(some)} \in SUBSET ls
                             /\ Cardinality(some \ {Last(some)}) = Cardinality(some) - 1
  <2>1. IsFiniteSet(some)
    BY FS_Subset DEF Lines
  <2>2. Cardinality(some) \in Nat /\ (Cardinality(some) = 0 <=> some = {})
    BY <2>1, FS_CardinalityType, FS_EmptySet
  <2>3. some # {} => Last(some) \in some
    BY <2>1, LastIsOne DEF Lines
  <2>4. some # {} => Cardinality(some \ {Last(some)}) = Cardinality(some) - 1
    BY <2>1, <2>3, FS_RemoveElement
  <2>5. QED
    BY <2>1, <2>2, <2>3, <2>4
<1>2. 0 \in G
  <2> DEFINE f == [some \in Small(0) |-> Unposted(m)]
  <2>1. ASSUME NEW some \in Small(0) PROVE some = {}
    <3>1. Cardinality(some) \in Nat /\ Cardinality(some) <= 0
      BY <1>1
    <3>2. Cardinality(some) = 0
      BY <3>1
    <3>3. QED
      BY <1>1, <3>2
  <2>2. f = [some \in Small(0) |-> Body(f, some)]
    BY <2>1
  <2> HIDE DEF f, Body, Small
  <2>3. QED
    BY <2>2
<1>3. ASSUME NEW n \in Nat, n \in G PROVE n + 1 \in G
  <2>1. PICK f : f = [some \in Small(n) |-> Body(f, some)]
    BY <1>3
  <2> DEFINE g == [some \in Small(n + 1) |-> Body(f, some)]
  <2>2. ASSUME NEW some \in Small(n + 1) PROVE Body(f, some) = Body(g, some)
    <3>1. CASE some = {}
      BY <3>1
    <3>2. CASE some # {}
      <4> DEFINE T == some \ {Last(some)}
      <4>1. T \in SUBSET ls /\ Cardinality(T) <= n /\ Cardinality(T) <= n + 1
        BY <1>1, <3>2
      <4>2. T \in Small(n) /\ T \in Small(n + 1)
        BY <4>1
      <4>3. f[T] = Body(f, T) /\ g[T] = Body(f, T)
        <5> HIDE DEF T, Body, Small
        <5>1. QED
          BY <2>1, <4>2
      <4>4. f[T] = g[T]
        BY <4>3
      <4> HIDE DEF g
      <4>5. QED
        BY <4>4, <3>2
    <3>3. QED
      BY <3>1, <3>2
  <2>3. g = [some \in Small(n + 1) |-> Body(g, some)]
    <3> HIDE DEF Body, Small
    <3>1. QED
      BY <2>2
  <2> HIDE DEF g, Body, Small
  <2>4. QED
    BY <2>3
<1>4. Nat \subseteq G
  <2> HIDE DEF G
  <2>1. QED
    BY <1>2, <1>3, SetInduction
<1>5. Cardinality(ls) \in G /\ Small(Cardinality(ls)) = SUBSET ls
  <2>1. Cardinality(ls) \in Nat /\ IsFiniteSet(ls)
    BY <1>1
  <2>2. ASSUME NEW some \in SUBSET ls PROVE Cardinality(some) <= Cardinality(ls)
    BY <2>1, FS_Subset
  <2>3. QED
    BY <1>4, <2>1, <2>2
<1>6. \E f : f = [some \in SUBSET ls |-> Body(f, some)]
  <2> HIDE DEF Body, Small
  <2>1. QED
    BY <1>5
<1> DEFINE after == CHOOSE f : f = [some \in SUBSET ls |-> Body(f, some)]
<1>7. after = [some \in SUBSET ls |-> Body(after, some)]
  <2> HIDE DEF Body
  <2>1. QED
    BY <1>6
<1>8. Posted(m, prior, ls, d) = after[ls]
  BY DEF Posted, Last, Unposted
<1>9. \A some \in SUBSET ls : after[some] = Body(after, some)
  <2> HIDE DEF after, Body
  <2>1. QED
    BY <1>7
<1>10. AreSteps(after, m, prior, ls, d)
  <2> HIDE DEF after
  <2>1. QED
    BY <1>9 DEF AreSteps
<1>11. QED
  <2> HIDE DEF after
  <2>1. QED
    BY <1>8, <1>10

-----------------------------------------------------------------------------
(* Cashbooks: what posting and removing does to the bills. *)

(* A locked bill of one book is in the other, as it was.                   *)
Stays(m, n) == \A b \in DOMAIN m.bills : m.bills[b].locked => b \in DOMAIN n.bills /\ n.bills[b] = m.bills[b]

(* A new bill is in the book, not locked, and the others are as they were. *)
LEMMA DraftIsNew ==
  ASSUME NEW m, IsBook(m), NEW kind, NEW s, NEW d, NEW a
  PROVE  LET new == commitLedgerEntryDraft(m, kind, s, d, a)
         IN  /\ IsBook(new.book) /\ Stays(m, new.book)
             /\ \A b : Free(new.book, b) => b = new.bill \/ Free(m, b)
             /\ \A b : Locked(m, b) => Locked(new.book, b)
<1> DEFINE new == commitLedgerEntryDraft(m, kind, s, d, a)
           b == NextId(DOMAIN m.bills)
           bill == new.book.bills[b]
<1>1. b \in Nat \ {0} /\ b \notin DOMAIN m.bills
  BY NextIdIsNew DEF IsBook
<1>2. /\ new.bill = b
      /\ DOMAIN new.book = {"bills", "orders"}
      /\ DOMAIN new.book.bills = DOMAIN m.bills \cup {b}
      /\ \A c \in DOMAIN m.bills : new.book.bills[c] = m.bills[c]
  BY <1>1 DEF commitLedgerEntryDraft
<1>3. IsBill(bill) /\ bill.locked = FALSE
  BY DEF commitLedgerEntryDraft, IsBill
<1>4. IsFiniteSet(DOMAIN m.bills \cup {b})
  BY FS_AddElement DEF IsBook
<1> HIDE DEF new, b
<1>5. IsBook(new.book)
  <2>1. ASSUME NEW c \in DOMAIN new.book.bills PROVE IsBill(new.book.bills[c])
    BY <1>2, <1>3 DEF IsBook
  <2>2. DOMAIN new.book.bills \subseteq Nat \ {NoLink}
    BY <1>1, <1>2 DEF IsBook, NoLink
  <2>3. QED
    BY <1>2, <1>4, <2>1, <2>2 DEF IsBook
<1>6. QED
  BY <1>1, <1>2, <1>3, <1>5 DEF Stays, Free, Locked, new

(* Without some bills the book has the others.                             *)
LEMMA WithoutSome ==
  ASSUME NEW m, IsBook(m), NEW bs, NEW rest, DOMAIN rest = {"bills", "orders"}, rest.bills = WithoutBills(m, bs)
  PROVE  /\ IsBook(rest)
         /\ DOMAIN rest.bills = DOMAIN m.bills \ bs
         /\ \A b \in DOMAIN rest.bills : rest.bills[b] = m.bills[b]
<1>1. /\ DOMAIN rest.bills = DOMAIN m.bills \ bs
      /\ \A b \in DOMAIN m.bills \ bs : rest.bills[b] = m.bills[b]
  BY DEF WithoutBills
<1>2. IsFiniteSet(DOMAIN m.bills \ bs)
  BY FS_Difference DEF IsBook
<1>3. IsBook(rest)
  BY <1>1, <1>2 DEF IsBook
<1>4. QED
  BY <1>1, <1>3

(* Removing links removes the bills, but for locked ones.                  *)
LEMMA RemovedLinks ==
  ASSUME NEW m, IsBook(m), NEW xs
  PROVE  LET rest == removeDailyLedgerExpenseLink(m, xs)
         IN  /\ IsBook(rest) /\ Stays(m, rest)
             /\ \A b : Free(rest, b) => Free(m, b) /\ \A x \in xs : x.bill # b
             /\ \A b : Locked(m, b) => Locked(rest, b)
<1> DEFINE rest == removeDailyLedgerExpenseLink(m, xs)
           bs == {x.bill : x \in {y \in xs : ~Locked(m, y.bill)}}
<1>1. rest = [bills |-> WithoutBills(m, bs), orders |-> rest.orders]
  BY DEF removeDailyLedgerExpenseLink
<1>2. /\ IsBook(rest)
      /\ DOMAIN rest.bills = DOMAIN m.bills \ bs
      /\ \A b \in DOMAIN rest.bills : rest.bills[b] = m.bills[b]
  <2> HIDE DEF bs, rest
  <2>1. DOMAIN rest = {"bills", "orders"} /\ rest.bills = WithoutBills(m, bs)
    BY <1>1
  <2>2. QED
    BY <2>1, WithoutSome
<1> HIDE DEF rest
<1>3. \A b : Locked(m, b) => b \notin bs
  OBVIOUS
<1>4. ASSUME NEW b, Free(rest, b) PROVE Free(m, b) /\ \A x \in xs : x.bill # b
  <2>1. Free(m, b) /\ b \notin bs
    BY <1>2, <1>4 DEF Free
  <2>2. ~Locked(m, b)
    BY <2>1 DEF Free, Locked
  <2>3. QED
    BY <2>1, <2>2
<1>5. Stays(m, rest) /\ \A b : Locked(m, b) => Locked(rest, b)
  <2> HIDE DEF bs
  <2>1. QED
    BY <1>2, <1>3 DEF Stays, Locked
<1>6. QED
  BY <1>2, <1>4, <1>5 DEF rest

(* Some line is of the bill.                                               *)
Has(ls, b) == \E x \in ls : x.bill = b

(* What posting has of some lines so far: a book with the locked bills it  *)
(* had, and, where the form's day has an id once, a line for every bill    *)
(* their lines had, unless the bill is gone or locked.                     *)
IsPosted(acc, m, prior, some) ==
  /\ DOMAIN acc = {"book", "lines"}
  /\ IsBook(acc.book) /\ Lines(acc.lines) /\ Stays(m, acc.book)
  /\ Own(prior) =>
       \A p \in prior : Linked(p) /\ Free(acc.book, p.bill) /\ (\E x \in some : x.id = p.id)
                         => Has(acc.lines, p.bill)

(* What stays from one book to the next, and on, stays.                    *)
LEMMA StaysOn ==
  ASSUME NEW k, NEW m, NEW n, Stays(k, m), Stays(m, n)
  PROVE  Stays(k, n)
  BY DEF Stays

(* One more line posted: what was posted stays so, the line's own bill is  *)
(* kept, or is gone with the new one in its place.                         *)
LEMMA PostedLineKeeps ==
  ASSUME NEW acc, NEW m, NEW prior, NEW some, NEW x, NEW d,
         Lines(prior), IsLine(x), IsPosted(acc, m, prior, some \ {x})
  PROVE  IsPosted(PostedLine(acc, x, prior, d), m, prior, some)
<1> DEFINE before == {p \in prior : p.id = x.id}
           old == CHOOSE p \in before : TRUE
           had == before # {} /\ Linked(old)
           new == commitLedgerEntryDraft(acc.book, x.kind, x.sup, d, x.amt)
           next == PostedLine(acc, x, prior, d)
           keeps == had /\ (Same(x, old) \/ Locked(acc.book, old.bill))
<1>1. before # {} => old \in prior /\ old.id = x.id
  OBVIOUS
<1>2. Own(prior) => \A p \in prior : p.id = x.id => p = old
  BY DEF Own
<1>3. CASE keeps
  <2> DEFINE kept == [x EXCEPT !.bill = old.bill, !.order = old.order]
  <2>1. next = [acc EXCEPT !.lines = @ \cup {kept}]
    BY <1>3 DEF PostedLine
  <2>2. IsLine(kept) /\ kept.bill = old.bill
    BY DEF IsLine
  <2> HIDE DEF kept, next
  <2>3. DOMAIN next = {"book", "lines"} /\ next.book = acc.book /\ next.lines = acc.lines \cup {kept}
    BY <2>1 DEF IsPosted
  <2>4. Lines(next.lines)
    BY <2>2, <2>3, FS_AddElement DEF Lines, IsPosted
  <2>5. ASSUME Own(prior), NEW p \in prior, Linked(p), Free(next.book, p.bill), \E y \in some : y.id = p.id
        PROVE  Has(next.lines, p.bill)
    <3>1. CASE p.id = x.id
      <4>1. p = old
        BY <1>2, <2>5, <3>1
      <4>2. QED
        BY <4>1, <2>2, <2>3 DEF Has
    <3>2. CASE p.id # x.id
      <4>1. \E y \in some \ {x} : y.id = p.id
        BY <2>5, <3>2
      <4>2. Has(acc.lines, p.bill)
        BY <2>3, <2>5, <4>1 DEF IsPosted
      <4>3. QED
        BY <4>2, <2>3 DEF Has
    <3>3. QED
      BY <3>1, <3>2
  <2>6. QED
    BY <2>3, <2>4, <2>5 DEF IsPosted, next
<1>4. CASE ~keeps
  <2> DEFINE line == [x EXCEPT !.bill = new.bill, !.order = new.order]
             book2 == IF had THEN removeDailyLedgerExpenseLink(new.book, {old}) ELSE new.book
  <2>1. next = [book |-> book2, lines |-> acc.lines \cup {line}]
    BY <1>4 DEF PostedLine
  <2>2. IsLine(line) /\ line.bill = new.bill
    <3> HIDE DEF new
    <3>1. QED
      BY DEF IsLine
  <2>3. /\ IsBook(new.book) /\ Stays(acc.book, new.book)
        /\ \A b : Free(new.book, b) => b = new.bill \/ Free(acc.book, b)
    BY DraftIsNew DEF IsPosted
  <2>4. /\ IsBook(book2) /\ Stays(new.book, book2)
        /\ \A b : Free(book2, b) => Free(new.book, b) /\ (had => old.bill # b)
    <3>1. CASE had
      BY <3>1, <2>3, RemovedLinks
    <3>2. CASE ~had
      BY <3>2, <2>3 DEF Stays
    <3>3. QED
      BY <3>1, <3>2
  <2> HIDE DEF line, book2, next, new
  <2>5. DOMAIN next = {"book", "lines"} /\ next.book = book2 /\ next.lines = acc.lines \cup {line}
    BY <2>1
  <2>6. Lines(next.lines)
    BY <2>2, <2>5, FS_AddElement DEF Lines, IsPosted
  <2>7. Stays(m, book2)
    BY <2>3, <2>4, StaysOn DEF IsPosted
  <2>8. ASSUME Own(prior), NEW p \in prior, Linked(p), Free(next.book, p.bill), \E y \in some : y.id = p.id
        PROVE  Has(next.lines, p.bill)
    <3>1. CASE p.bill = new.bill
      BY <3>1, <2>2, <2>5 DEF Has
    <3>2. CASE p.bill # new.bill
      <4>1. Free(acc.book, p.bill) /\ (had => old.bill # p.bill)
        BY <2>3, <2>4, <2>5, <2>8, <3>2
      <4>2. p.id # x.id
        <5>1. SUFFICES ASSUME p.id = x.id PROVE FALSE
          OBVIOUS
        <5>2. p = old /\ p \in before
          BY <1>2, <2>8, <5>1
        <5> HIDE DEF old, before
        <5>3. QED
          BY <5>2, <4>1, <2>8
      <4>3. \E y \in some \ {x} : y.id = p.id
        BY <2>8, <4>2
      <4>4. Has(acc.lines, p.bill)
        BY <2>8, <4>1, <4>3 DEF IsPosted
      <4>5. QED
        BY <4>4, <2>5 DEF Has
    <3>3. QED
      BY <3>1, <3>2
  <2>9. QED
    BY <2>4, <2>5, <2>6, <2>7, <2>8 DEF IsPosted, next
<1>5. QED
  BY <1>3, <1>4

(* What the form sends of its day.                                         *)
LEMMA PostedKeeps ==
  ASSUME NEW m, IsBook(m), NEW prior, Lines(prior), NEW ls, Lines(ls), NEW d
  PROVE  LET posted == syncDailyExpenseLedgerLinks(m, prior, ls, d)
         IN  /\ IsBook(posted.book) /\ Lines(posted.lines) /\ Stays(m, posted.book)
             /\ Own(prior) => \A b \in Bills(prior) : Free(posted.book, b) => b \in Bills(posted.lines)
<1>1. PICK f : AreSteps(f, m, prior, ls, d) /\ Posted(m, prior, ls, d) = f[ls]
  BY PostedSteps
<1> DEFINE G == {some \in SUBSET ls : IsPosted(f[some], m, prior, some)}
<1>2. ASSUME NEW some \in SUBSET ls, \A x \in some : some \ {x} \in G
      PROVE  some \in G
  <2>1. CASE some = {}
    <3>1. f[some] = [book |-> m, lines |-> {}]
      BY <1>1, <2>1 DEF AreSteps, Unposted
    <3>2. IsPosted(f[some], m, prior, some)
      BY <3>1, <2>1, FS_EmptySet DEF IsPosted, Stays, Lines
    <3>3. QED
      BY <3>2
  <2>2. CASE some # {}
    <3> DEFINE x == Last(some)
               before == some \ {x}
    <3>1. Lines(some)
      BY FS_Subset DEF Lines
    <3>2. x \in some /\ IsLine(x)
      BY <3>1, <2>2, LastIsOne DEF Lines
    <3>3. f[some] = PostedLine(f[before], x, prior, d)
      BY <1>1, <2>2 DEF AreSteps
    <3>4. IsPosted(f[before], m, prior, before)
      BY <1>2, <3>2
    <3> HIDE DEF x
    <3>5. IsPosted(PostedLine(f[before], x, prior, d), m, prior, some)
      BY <3>2, <3>4, PostedLineKeeps
    <3>6. QED
      BY <3>3, <3>5
  <2>3. QED
    BY <2>1, <2>2
<1>3. SUBSET ls \subseteq G
  <2>1. IsFiniteSet(ls)
    BY DEF Lines
  <2> HIDE DEF G
  <2>2. QED
    BY <2>1, <1>2, SubsetInduction
<1> DEFINE all == Posted(m, prior, ls, d)
           dropped == {p \in prior : Linked(p) /\ p.id \notin {x.id : x \in ls}}
           rest == removeDailyLedgerExpenseLink(all.book, dropped)
           posted == syncDailyExpenseLedgerLinks(m, prior, ls, d)
<1>4. IsPosted(all, m, prior, ls)
  BY <1>1, <1>3
<1>5. posted.book = rest /\ posted.lines = all.lines
  BY DEF syncDailyExpenseLedgerLinks
<1>6. /\ IsBook(rest) /\ Stays(all.book, rest)
      /\ \A b : Free(rest, b) => Free(all.book, b) /\ \A x \in dropped : x.bill # b
  <2> HIDE DEF dropped, all
  <2>1. IsBook(all.book)
    BY <1>4 DEF IsPosted
  <2>2. QED
    BY <2>1, RemovedLinks
<1>7. Stays(m, rest)
  BY <1>4, <1>6, StaysOn DEF IsPosted
<1>8. ASSUME Own(prior), NEW p \in prior, Linked(p), Free(rest, p.bill)
      PROVE  Has(all.lines, p.bill)
  <2>1. Free(all.book, p.bill) /\ p \notin dropped
    <3> HIDE DEF rest, dropped, all
    <3>1. QED
      BY <1>6, <1>8
  <2>2. \E x \in ls : x.id = p.id
    BY <2>1, <1>8
  <2> HIDE DEF all
  <2>3. QED
    BY <2>1, <2>2, <1>4, <1>8 DEF IsPosted
<1>9. ASSUME Own(prior), NEW b \in Bills(prior), Free(posted.book, b)
      PROVE  b \in Bills(posted.lines)
  <2>1. PICK p \in prior : p.bill = b /\ Linked(p)
    BY DEF Bills, Linked
  <2> HIDE DEF all, rest, posted
  <2>2. Has(posted.lines, b)
    BY <2>1, <1>5, <1>8, <1>9
  <2>3. QED
    BY <2>1, <2>2 DEF Has, Bills, Linked
<1>10. QED
  <2> HIDE DEF all, rest, posted
  <2>1. IsBook(posted.book) /\ Lines(posted.lines) /\ Stays(m, posted.book)
    BY <1>4, <1>5, <1>6, <1>7 DEF IsPosted
  <2>2. QED
    BY <2>1, <1>9 DEF posted

-----------------------------------------------------------------------------
(* Days. *)

(* The API keeps the links to the bills it has.                            *)
LEMMA RelinkedBills ==
  ASSUME NEW m, IsBook(m), NEW ls, Lines(ls)
  PROVE  /\ Lines(Relinked(ls, m))
         /\ Bills(Relinked(ls, m)) = Bills(ls) \cap DOMAIN m.bills
<1> DEFINE f == [x \in ls |-> [x EXCEPT !.bill = IF x.bill \in DOMAIN m.bills THEN x.bill ELSE NoLink,
                                       !.order = IF x.order \in OrderIds(m) THEN x.order ELSE NoLink]]
<1>1. Relinked(ls, m) = {f[x] : x \in ls}
  BY DEF Relinked
<1>2. ASSUME NEW x \in ls
      PROVE  /\ IsLine(f[x])
             /\ f[x].bill = IF x.bill \in DOMAIN m.bills THEN x.bill ELSE NoLink
  BY DEF Lines, IsLine
<1> HIDE DEF f
<1>3. Lines(Relinked(ls, m))
  BY <1>1, <1>2, FiniteImage DEF Lines
<1>4. Bills(Relinked(ls, m)) = Bills(ls) \cap DOMAIN m.bills
  BY <1>1, <1>2 DEF Bills, IsBook
<1>5. QED
  BY <1>3, <1>4

(* The days keep the links to the bills a saved cashbook has.              *)
LEMMA DaysWithBills ==
  ASSUME NEW m, IsBook(m), NEW map, AreDays(map)
  PROVE  /\ AreDays(DaysWith(map, m))
         /\ \A d \in Dates : Bills(DaysWith(map, m)[d].lines) = Bills(map[d].lines) \cap DOMAIN m.bills
<1>1. ASSUME NEW d \in Dates
      PROVE  /\ DaysWith(map, m)[d].lines = Relinked(map[d].lines, m)
             /\ DOMAIN DaysWith(map, m)[d] = {"lines", "locked"}
             /\ Lines(map[d].lines)
  BY DEF DaysWith, AreDays
<1>2. DOMAIN DaysWith(map, m) = Dates
  BY DEF DaysWith
<1>3. QED
  BY <1>1, <1>2, RelinkedBills DEF AreDays

(* A row still loses no bill where days have fewer links than before, the  *)
(* same fewer on each day.                                                 *)
LEMMA RowStillHas ==
  ASSUME NEW map, NEW less, NEW D,
         \A d \in Dates : Bills(less[d].lines) = Bills(map[d].lines) \cap D,
         NEW b
  PROVE  /\ \A r : RowHas(map, b, r) => RowHas(less, b, r)
         /\ \A r : OneRow(map, b, r) => OneRow(less, b, r)
         /\ \A r, q : TwoRows(map, b, r, q) => TwoRows(less, b, r, q)
<1>1. ASSUME NEW r, RowHas(map, b, r) PROVE RowHas(less, b, r)
  BY <1>1 DEF RowHas
<1>2. ASSUME NEW r, OneRow(map, b, r) PROVE OneRow(less, b, r)
  <2>1. r[1] \in Dates /\ RowHas(less, b, r)
    BY <1>1, <1>2 DEF OneRow, RowHas
  <2>2. QED
    BY <1>2, <2>1 DEF OneRow
<1>3. ASSUME NEW r, NEW q, TwoRows(map, b, r, q) PROVE TwoRows(less, b, r, q)
  BY <1>1, <1>3 DEF TwoRows
<1>4. QED
  BY <1>1, <1>2, <1>3

(* The lines an operation has ready are lines.                             *)
LEMMA LinesOfAreLines ==
  ASSUME NEW o, OpIs(o)
  PROVE  Lines(LinesOf(o))
<1>1. CASE o.step \in {"staff", "commit"}
  BY <1>1 DEF OpIs, PostIs, LinesOf
<1>2. CASE o.step = "put"
  <2> DEFINE r == o.rows[1]
             q == o.rows[2]
  <2>1. LinesOf(o) = UNION {o.rows[k][2] : k \in DOMAIN o.rows}
    BY <1>2 DEF LinesOf
  <2>2. CASE o.rows = <<r>> /\ IsRow(r)
    <3>1. DOMAIN o.rows = {1}
      BY <2>2
    <3>2. LinesOf(o) = r[2]
      BY <2>1, <3>1
    <3>3. QED
      BY <2>2, <3>2 DEF IsRow
  <2>3. CASE o.rows = <<r, q>> /\ IsRow(r) /\ IsRow(q)
    <3>1. DOMAIN o.rows = {1, 2}
      BY <2>3
    <3>2. LinesOf(o) = r[2] \cup q[2]
      BY <2>1, <3>1
    <3>3. IsFiniteSet(r[2] \cup q[2])
      BY <2>3, FS_Union DEF IsRow, Lines
    <3>4. QED
      BY <2>3, <3>2, <3>3 DEF IsRow, Lines
  <2>4. QED
    BY <1>2, <2>2, <2>3 DEF OpIs, PutIs
<1>3. CASE o.step \notin {"staff", "commit", "put"}
  BY <1>3, FS_EmptySet DEF LinesOf, Lines
<1>4. QED
  BY <1>1, <1>2, <1>3

(* The ids of lines are numbers, and finitely many.                        *)
LEMMA IdsOfLines ==
  ASSUME NEW ls, Lines(ls)
  PROVE  IsFiniteSet({x.id : x \in ls}) /\ {x.id : x \in ls} \subseteq Nat
<1> DEFINE g == [x \in ls |-> x.id]
<1>1. IsFiniteSet({g[x] : x \in ls})
  <2> HIDE DEF g
  <2>1. QED
    BY FiniteImage DEF Lines
<1>2. QED
  BY <1>1 DEF Lines, IsLine

(* Finitely many finite sets of numbers, taken together.                   *)
LEMMA TakenTogether ==
  ASSUME NEW D, IsFiniteSet(D), NEW f, \A d \in D : IsFiniteSet(f[d]) /\ f[d] \subseteq Nat
  PROVE  IsFiniteSet(UNION {f[d] : d \in D}) /\ UNION {f[d] : d \in D} \subseteq Nat
<1> DEFINE S == {f[d] : d \in D}
<1>1. IsFiniteSet(S)
  BY FiniteImage
<1>2. \A T \in S : IsFiniteSet(T) /\ T \subseteq Nat
  OBVIOUS
<1> HIDE DEF S
<1>3. IsFiniteSet(UNION S) /\ UNION S \subseteq Nat
  BY <1>1, <1>2, FS_UNION
<1>4. QED
  BY <1>3 DEF S

(* The id of the form's new line is new.                                   *)
LEMMA FreeLineIdIsNew ==
  ASSUME AreDays(days), AreDays(cache), OthersAre
  PROVE  FreeLineId \in Nat /\ FreeLineId \notin UsedLineIds
<1> DEFINE f == [d \in Dates |-> {x.id : x \in days[d].lines \cup cache[d].lines}]
           g == [k \in DOMAIN others |-> {x.id : x \in LinesOf(others[k])}]
           F == UNION {f[d] : d \in Dates}
           G == UNION {g[k] : k \in DOMAIN others}
<1>1. ASSUME NEW d \in Dates PROVE IsFiniteSet(f[d]) /\ f[d] \subseteq Nat
  <2> DEFINE ls == days[d].lines \cup cache[d].lines
  <2>1. Lines(ls)
    BY FS_Union DEF AreDays, Lines
  <2> HIDE DEF ls
  <2>2. IsFiniteSet({x.id : x \in ls}) /\ {x.id : x \in ls} \subseteq Nat
    BY <2>1, IdsOfLines
  <2>3. QED
    BY <2>2 DEF ls
<1>2. ASSUME NEW k \in DOMAIN others PROVE IsFiniteSet(g[k]) /\ g[k] \subseteq Nat
  BY LinesOfAreLines, IdsOfLines DEF OthersAre
<1>3. IsFiniteSet(DOMAIN others)
  <2>1. PICK S : others \in Seq(S)
    BY DEF OthersAre
  <2>2. DOMAIN others = 1 .. Len(others) /\ Len(others) \in Nat
    BY <2>1
  <2>3. QED
    BY <2>2, FS_Interval
<1>4. UsedLineIds = F \cup G
  <2> DEFINE X == UNION {{x.id : x \in days[d].lines \cup cache[d].lines} : d \in Dates}
             Y == UNION {{x.id : x \in LinesOf(others[k])} : k \in DOMAIN others}
  <2>1. X = F /\ Y = G
    OBVIOUS
  <2>2. UsedLineIds = X \cup Y
    BY Zenon DEF UsedLineIds
  <2> HIDE DEF F, G, X, Y
  <2>3. QED
    BY <2>1, <2>2
<1> HIDE DEF f, g
<1>5. IsFiniteSet(F) /\ F \subseteq Nat
  <2>1. IsFiniteSet(Dates)
    BY DayBooksAssumption
  <2>2. QED
    BY <1>1, <2>1, TakenTogether
<1>6. IsFiniteSet(G) /\ G \subseteq Nat
  BY <1>2, <1>3, TakenTogether
<1> HIDE DEF F, G
<1>7. IsFiniteSet(UsedLineIds) /\ UsedLineIds \subseteq Nat
  BY <1>4, <1>5, <1>6, FS_Union
<1>8. QED
  BY <1>7, NextIdIsNew DEF FreeLineId

(* What the form makes of a day's lines are lines.                         *)
LEMMA EditedAreLines ==
  ASSUME AreDays(days), AreDays(cache), OthersAre, NEW ls, Lines(ls), NEW edited \in Edited(ls)
  PROVE  Lines(edited)
<1>1. CASE edited \in OneMore(ls)
  <2>1. PICK k, s, a : edited = ls \cup {Line(FreeLineId, k, s, a, NoLink, NoLink)}
    BY <1>1 DEF OneMore
  <2>2. IsLine(Line(FreeLineId, k, s, a, NoLink, NoLink))
    BY FreeLineIdIsNew, LineIsLine
  <2>3. IsFiniteSet(edited)
    BY <2>1, FS_AddElement DEF Lines
  <2>4. QED
    BY <2>1, <2>2, <2>3 DEF Lines
<1>2. CASE edited \in OneChanged(ls)
  <2>1. PICK x \in ls, s \in Suppliers, a \in Amounts : edited = (ls \ {x}) \cup {Entered(x, s, a)}
    BY <1>2 DEF OneChanged
  <2>2. IsLine(Entered(x, s, a))
    BY DEF IsLine, Lines, Entered
  <2>3. IsFiniteSet(edited)
    BY <2>1, FS_AddElement, FS_RemoveElement DEF Lines
  <2>4. QED
    BY <2>1, <2>2, <2>3 DEF Lines
<1>3. CASE edited \in OneLess(ls)
  BY <1>3, FS_RemoveElement DEF Lines, OneLess
<1>4. QED
  BY <1>1, <1>2, <1>3 DEF Edited

(* Some of a day's lines are lines. *)
LEMMA PartOfLines ==
  ASSUME NEW ls, Lines(ls), NEW part \in SUBSET ls
  PROVE  Lines(part)
  BY FS_Subset DEF Lines
-----------------------------------------------------------------------------
(* The invariant. *)

(* At first there are no bills and no lines.                               *)
LEMMA InitHolds == Init => IInv
<1> SUFFICES ASSUME Init PROVE IInv
  OBVIOUS
<1>1. IsBook(book) /\ mem = book
  BY FS_EmptySet DEF Init, IsBook
<1>2. AreDays(days) /\ cache = days /\ \A d \in Dates : days[d].lines = {}
  BY FS_EmptySet DEF Init, AreDays, Lines
<1>3. OpHas
  BY DEF Init, Idle, OpHas, PostHas, SentHas, PutHas
<1>4. OpIs(op)
  BY DEF Init, Idle, OpIs, PostIs, SentIs, LoadIs, PutIs, UnlinkIs, StripIs
<1>5. OthersAre /\ others = << >>
  BY EmptySeq DEF Init, OthersAre
<1>6. QED
  BY <1>1, <1>2, <1>3, <1>4, <1>5 DEF IInv, TypeInv, Links, Bills

(* With nothing under way, nothing is owed.                                *)
LEMMA IdleHas ==
  ASSUME op' = Idle
  PROVE  OpIs(op') /\ OpHas'
<1>1. OpHas'
  BY DEF Idle, OpHas, PostHas, SentHas, PutHas
<1>2. OpIs(op')
  BY DEF Idle, OpIs, PostIs, SentIs, LoadIs, PutIs, UnlinkIs, StripIs
<1>3. QED
  BY <1>1, <1>2

(* Operations that were put aside stay what they are.                      *)
LEMMA OthersStay ==
  ASSUME OthersAre, others' = others
  PROVE  OthersAre'
BY DEF OthersAre

(* What a step has to keep, but for those put aside.                       *)
LEMMA HoldsWith ==
  ASSUME IInv, UNCHANGED <<others, mode>>, IsBook(book'), IsBook(mem'), AreDays(days'), AreDays(cache'),
         Links', OpIs(op'), mode.patient => OpHas'
  PROVE  IInv'
<1>1. OthersAre'
  BY OthersStay DEF IInv, TypeInv
<1>2. QED
  BY <1>1 DEF IInv, TypeInv

(* Once both stores are read again, nothing is under way.                  *)
LEMMA ReadAgainHolds ==
  ASSUME IInv, ReadAgain, UNCHANGED <<others, mode>>, IsBook(book'), AreDays(days'),
         \A d \in Dates : Bills(days'[d].lines) \subseteq DOMAIN book'.bills
  PROVE  IInv'
<1>1. op' = Idle /\ mem' = book' /\ cache' = days'
  BY DEF ReadAgain
<1>2. Links'
  BY <1>1 DEF Links
<1>3. QED
  BY <1>1, <1>2, IdleHas, HoldsWith

(* A step within the terminal that leaves the days and the API alone.      *)
LEMMA MemHolds ==
  ASSUME IInv, UNCHANGED <<book, days, cache, others, mode>>, IsBook(mem'), OpIs(op'), mode.patient => OpHas'
  PROVE  IInv'
<1>1. Links'
  BY DEF IInv, Links
<1>2. QED
  BY <1>1, HoldsWith DEF IInv, TypeInv

(* What is put aside is taken up as it was.                                *)
LEMMA PutAsideHolds ==
  ASSUME IInv, PutAside
  PROVE  IInv'
<1>1. /\ others' = Append(others, op) /\ op' = Idle /\ ~mode.patient
      /\ UNCHANGED <<book, days, mem, cache, mode>>
  BY DEF PutAside
<1>2. PICK S : others \in Seq(S)
  BY DEF IInv, TypeInv, OthersAre
<1>3. others' \in Seq(S \cup {op})
  <2>1. others \in Seq(S \cup {op})
    BY <1>2
  <2>2. QED
    BY <1>1, <2>1
<1>4. ASSUME NEW k \in DOMAIN others' PROVE OpIs(others'[k])
  <2>1. (k \in DOMAIN others /\ others'[k] = others[k]) \/ others'[k] = op
    BY <1>1, <1>2
  <2>2. QED
    BY <2>1 DEF IInv, TypeInv, OthersAre
<1>5. OthersAre'
  BY <1>3, <1>4 DEF OthersAre
<1>6. OpIs(op')
  BY <1>1, IdleHas
<1>7. QED
  BY <1>1, <1>5, <1>6 DEF IInv, TypeInv, Links

LEMMA TakeUpHolds ==
  ASSUME IInv, NEW k \in DOMAIN others, TakeUp(k)
  PROVE  IInv'
<1> DEFINE a == SubSeq(others, 1, k - 1)
           b == SubSeq(others, k + 1, Len(others))
<1>1. /\ others' = a \o b /\ op' = others[k]
      /\ UNCHANGED <<book, days, mem, cache, mode>>
  BY DEF TakeUp, SeqExt!RemoveAt
<1>2. PICK S : others \in Seq(S)
  BY DEF IInv, TypeInv, OthersAre
<1>3. k \in 1 .. Len(others) /\ DOMAIN others = 1 .. Len(others) /\ Len(others) \in Nat
  BY <1>2
<1>4. /\ a \in Seq(S) /\ Len(a) = k - 1 /\ \A i \in 1 .. Len(a) : a[i] = others[i]
      /\ b \in Seq(S) /\ Len(b) = Len(others) - k /\ \A i \in 1 .. Len(b) : b[i] = others[k + i]
  <2>1. /\ k \in Int /\ \A i \in 1 .. Len(others) : others[i] \in S
        /\ 1 .. k - 1 \subseteq 1 .. Len(others) /\ k + 1 .. Len(others) \subseteq 1 .. Len(others)
    BY <1>2, <1>3
  <2>2. a \in Seq(S) /\ Len(a) = k - 1
    BY <1>2, <1>3, <2>1, SubSeqProperties
  <2>3. \A i \in 1 .. k - 1 : a[i] = others[1 + i - 1] /\ 1 + i - 1 = i
    BY <1>2, <1>3, <2>1, SubSeqProperties
  <2>4. b \in Seq(S) /\ Len(b) = Len(others) - k
    <3>1. k + 1 \in Int /\ Len(others) \in Int /\ \A i \in k + 1 .. Len(others) : others[i] \in S
      BY <1>3, <2>1
    <3>2. /\ b \in Seq(S)
          /\ Len(b) = IF k + 1 <= Len(others) THEN Len(others) - (k + 1) + 1 ELSE 0
      BY <3>1, SubSeqProperties
    <3>3. QED
      BY <1>3, <3>2
  <2>5. \A i \in 1 .. Len(others) - k : b[i] = others[k + 1 + i - 1] /\ k + 1 + i - 1 = k + i
    BY <1>2, <1>3, <2>1, SubSeqProperties
  <2>6. QED
    BY <2>2, <2>3, <2>4, <2>5
<1> HIDE DEF a, b
<1>5. others' \in Seq(S)
  BY <1>1, <1>4
<1>6. ASSUME NEW i \in DOMAIN others' PROVE OpIs(others'[i])
  <2>1. i \in 1 .. Len(a) + Len(b)
    BY <1>1, <1>4
  <2>2. CASE i <= Len(a)
    <3>1. others'[i] = others[i] /\ i \in DOMAIN others
      BY <1>1, <1>3, <1>4, <2>1, <2>2
    <3>2. QED
      BY <3>1 DEF IInv, TypeInv, OthersAre
  <2>3. CASE i > Len(a)
    <3>1. i \in Nat /\ Len(a) \in Nat /\ Len(b) \in Nat
      BY <1>3, <1>4, <2>1
    <3>2. (a \o b)[i] = b[i - Len(a)]
      BY <1>4, <2>1, <2>3, <3>1, ConcatProperties
    <3>3. i - Len(a) \in 1 .. Len(b)
      BY <2>1, <2>3, <3>1
    <3>4. b[i - Len(a)] = others[k + (i - Len(a))]
      BY <1>4, <3>3
    <3>5. k + (i - Len(a)) = i + 1 /\ i + 1 \in 1 .. Len(others)
      BY <1>3, <1>4, <2>1, <2>3, <3>1
    <3>6. others'[i] = others[i + 1] /\ i + 1 \in DOMAIN others
      BY <1>1, <1>3, <3>2, <3>4, <3>5
    <3>7. QED
      BY <3>6 DEF IInv, TypeInv, OthersAre
  <2>4. QED
    BY <1>3, <1>4, <2>1, <2>2, <2>3
<1>7. OthersAre'
  BY <1>5, <1>6 DEF OthersAre
<1>8. OpIs(op') /\ ~mode.patient
  <2>1. OpIs(op')
    BY <1>1 DEF IInv, TypeInv, OthersAre
  <2>2. others # << >>
    BY <1>3
  <2>3. QED
    BY <2>1, <2>2 DEF IInv
<1>9. QED
  BY <1>1, <1>7, <1>8 DEF IInv, TypeInv, Links

(* The cashbook is saved, and days lose the links it lacks: the rows in    *)
(* flight still have the others.                                           *)
LEMMA PersistHolds ==
  ASSUME IInv, Persist
  PROVE  IInv'
<1>1. /\ book' = mem /\ days' = DaysWith(days, mem) /\ mem' = mem /\ cache' = cache /\ op' = op
      /\ UNCHANGED <<others, mode>>
  BY DEF Persist, Store, Step
<1>2. AreDays(days') /\ \A d \in Dates : Bills(days'[d].lines) = Bills(days[d].lines) \cap DOMAIN mem.bills
  BY <1>1, DaysWithBills DEF IInv, TypeInv
<1>3. Links'
  BY <1>1, <1>2 DEF IInv, Links
<1>4. mode.patient => PutHas'
  <2> DEFINE b == op.bill
             D == DOMAIN mem.bills
             r == op.rows[1]
             q == op.rows[2]
  <2>1. /\ \A x : OneRow(days, b, x) => OneRow(days', b, x)
        /\ \A x, y : TwoRows(days, b, x, y) => TwoRows(days', b, x, y)
    <3> HIDE DEF b, D
    <3>1. \A d \in Dates : Bills(days'[d].lines) = Bills(days[d].lines) \cap D
      BY <1>2 DEF D
    <3>2. QED
      BY <3>1, RowStillHas
  <2>2. OneRow(days, b, r) => OneRow(days', b, r)
    BY <2>1
  <2>3. TwoRows(days, b, r, q) => TwoRows(days', b, r, q)
    BY <2>1
  <2>4. QED
    BY <1>1, <2>2, <2>3 DEF IInv, OpHas, PutHas
<1>5. mode.patient => OpHas'
  BY <1>1, <1>4 DEF IInv, OpHas, PostHas, SentHas
<1>6. QED
  BY <1>1, <1>2, <1>3, <1>5, HoldsWith DEF IInv, TypeInv

(* The form's day is posted, and is to be sent.                            *)
LEMMA HandleSaveHolds ==
  ASSUME IInv, NEW d \in Dates, handleSave(d)
  PROVE  IInv'
<1>1. PICK ls \in Edited(cache[d].lines) :
        /\ mem' = syncDailyExpenseLedgerLinks(mem, cache[d].lines, ls, d).book
        /\ op' = [step |-> "staff", date |-> d,
                  lines |-> syncDailyExpenseLedgerLinks(mem, cache[d].lines, ls, d).lines]
        /\ UNCHANGED <<book, days, cache, others, mode>>
  BY DEF handleSave, Act
<1> DEFINE prior == cache[d].lines
           posted == syncDailyExpenseLedgerLinks(mem, prior, ls, d)
<1>2. Lines(prior) /\ Lines(ls)
  BY EditedAreLines DEF IInv, TypeInv, AreDays
<1>3. /\ IsBook(posted.book) /\ Lines(posted.lines)
      /\ Own(prior) => \A b \in Bills(prior) : Free(posted.book, b) => b \in Bills(posted.lines)
  <2> HIDE DEF prior
  <2>1. QED
    BY <1>2, PostedKeeps DEF IInv, TypeInv
<1> HIDE DEF posted
<1>4. op'.step = "staff" /\ op'.date = d /\ op'.lines = posted.lines /\ mem' = posted.book
  BY <1>1 DEF posted
<1>5. OpIs(op')
  BY <1>3, <1>4 DEF OpIs, PostIs, SentIs, LoadIs, PutIs, UnlinkIs, StripIs
<1>6. OpHas'
  BY <1>1, <1>3, <1>4 DEF OpHas, PostHas, SentHas, PutHas
<1>7. QED
  BY <1>1, <1>3, <1>4, <1>5, <1>6, MemHolds

(* It is sent with the cashbook as it is by then.                          *)
LEMMA SendDayHolds ==
  ASSUME IInv, SendDay
  PROVE  IInv'
<1>1. /\ op.step = "staff" /\ op' = [step |-> "commit", date |-> op.date, lines |-> op.lines, book |-> mem]
      /\ UNCHANGED <<book, days, mem, cache, others, mode>>
  BY DEF SendDay, Step
<1>2. op.date \in Dates /\ Lines(op.lines) /\ IsBook(mem)
  BY <1>1 DEF IInv, TypeInv, OpIs, PostIs
<1>3. op'.step = "commit" /\ op'.date = op.date /\ op'.lines = op.lines /\ op'.book = mem
  BY <1>1
<1>4. OpIs(op')
  BY <1>2, <1>3 DEF OpIs, PostIs, SentIs, LoadIs, PutIs, UnlinkIs, StripIs
<1>5. mode.patient => OpHas'
  BY <1>1, <1>3 DEF IInv, OpHas, PostHas, SentHas, PutHas
<1>6. QED
  BY <1>1, <1>2, <1>4, <1>5, MemHolds

(* Day and cashbook of the form are saved.                                 *)
LEMMA CommitHolds ==
  ASSUME IInv, commitDailyEntry
  PROVE  IInv'
<1> DEFINE now == DaysWith(days, op.book)
           sent == Relinked(op.lines, op.book)
<1>1. /\ book' = op.book /\ ReadAgain /\ op.step = "commit" /\ UNCHANGED <<others, mode>>
      /\ days' = [now EXCEPT ![op.date].lines = sent]
  BY DEF commitDailyEntry, Step
<1>2. op.date \in Dates /\ Lines(op.lines) /\ IsBook(op.book)
  BY <1>1 DEF IInv, TypeInv, OpIs, PostIs, SentIs
<1>3. AreDays(now) /\ \A d \in Dates : Bills(now[d].lines) \subseteq DOMAIN op.book.bills
  BY <1>2, DaysWithBills DEF IInv, TypeInv
<1>4. Lines(sent) /\ Bills(sent) \subseteq DOMAIN op.book.bills
  BY <1>2, RelinkedBills
<1> HIDE DEF now, sent
<1>5. AreDays(days') /\ days'[op.date].lines = sent /\ \A e \in Dates \ {op.date} : days'[e] = now[e]
  BY <1>1, <1>2, <1>3, <1>4 DEF AreDays
<1>6. \A d \in Dates : Bills(days'[d].lines) \subseteq DOMAIN op.book.bills
  BY <1>3, <1>4, <1>5
<1>7. QED
  BY <1>1, <1>2, <1>5, <1>6, ReadAgainHolds

(* A day is deleted, and its bills with it.                                *)
LEMMA DeleteDayHolds ==
  ASSUME IInv, NEW d \in Dates, executeDeleteHistoryEntry(d)
  PROVE  IInv'
<1> DEFINE now == DaysWith(days, mem)
           mine == {x \in now[d].lines : Linked(x) /\ ~Locked(mem, x.bill)}
           gone == {x \in mine : \A e \in Dates \ {d} : ~HasLine(now, e, x.bill)}
           rest == [bills |-> WithoutBills(mem, {x.bill : x \in gone}),
                    orders |-> WithoutOrders(mem, {x.order : x \in gone})]
           left == DaysWith(now, rest)
<1>1. /\ book' = rest /\ days' = [left EXCEPT ![d].lines = {}] /\ ReadAgain
      /\ UNCHANGED <<others, mode>>
  BY DEF executeDeleteHistoryEntry, Act
<1>2. IsBook(mem) /\ AreDays(now)
  BY DaysWithBills DEF IInv, TypeInv
<1>3. IsBook(rest)
  <2> DEFINE bs == {x.bill : x \in gone}
  <2>1. DOMAIN rest = {"bills", "orders"} /\ rest.bills = WithoutBills(mem, bs)
    OBVIOUS
  <2> HIDE DEF rest, bs
  <2>2. QED
    BY <1>2, <2>1, WithoutSome
<1> HIDE DEF rest, now
<1>4. AreDays(left) /\ \A e \in Dates : Bills(left[e].lines) \subseteq DOMAIN rest.bills
  BY <1>2, <1>3, DaysWithBills
<1> HIDE DEF left
<1>5. Lines({})
  BY FS_EmptySet DEF Lines
<1>6. AreDays(days') /\ days'[d].lines = {} /\ \A e \in Dates \ {d} : days'[e] = left[e]
  BY <1>1, <1>4, <1>5 DEF AreDays
<1>7. \A e \in Dates : Bills(days'[e].lines) \subseteq DOMAIN rest.bills
  BY <1>4, <1>6 DEF Bills
<1>8. QED
  BY <1>1, <1>3, <1>6, <1>7, ReadAgainHolds

(* The drawer's new bill is to be brought to its day.                      *)
LEMMA SaveNewHolds ==
  ASSUME IInv, NEW k, NEW s, NEW d \in Dates, NEW a, saveNew(k, s, d, a)
  PROVE  IInv'
<1> DEFINE new == commitLedgerEntryDraft(mem, k, s, d, a)
<1>1. /\ mem' = new.book /\ UNCHANGED <<book, days, cache, others, mode>>
      /\ op' = Idle \/ op' = [step |-> "load", bill |-> new.bill, order |-> new.order, sup |-> s, date |-> d, amt |-> a]
  BY DEF saveNew, ToDays, Act
<1>2. IsBook(new.book)
  BY DraftIsNew DEF IInv, TypeInv
<1>3. new.bill # NoLink
  BY NextIdIsNew DEF IInv, TypeInv, IsBook, commitLedgerEntryDraft, NoLink
<1> HIDE DEF new
<1>4. OpIs(op') /\ OpHas'
  <2>1. CASE op' = Idle
    BY <2>1, IdleHas
  <2>2. CASE op' = [step |-> "load", bill |-> new.bill, order |-> new.order, sup |-> s, date |-> d, amt |-> a]
    BY <1>3, <2>2 DEF OpHas, PostHas, SentHas, PutHas, OpIs, PostIs, SentIs, LoadIs, PutIs, UnlinkIs, StripIs
  <2>3. QED
    BY <1>1, <2>1, <2>2
<1>5. QED
  BY <1>1, <1>2, <1>4, MemHolds

(* An edited book has its bills.                                           *)
LEMMA UpdatedIsBook ==
  ASSUME NEW m, IsBook(m), NEW b \in DOMAIN m.bills, NEW s, NEW d, NEW a
  PROVE  LET n == updateLedgerEntryDraft(m, b, s, d, a)
         IN  IsBook(n) /\ DOMAIN n.bills = DOMAIN m.bills /\ \A c \in DOMAIN m.bills \ {b} : n.bills[c] = m.bills[c]
<1> DEFINE n == updateLedgerEntryDraft(m, b, s, d, a)
           f == m.bills
<1>1. DOMAIN n = {"bills", "orders"} /\ n.bills = [f EXCEPT ![b].sup = s, ![b].date = d, ![b].amt = a]
  BY DEF updateLedgerEntryDraft
<1>2. /\ DOMAIN n.bills = DOMAIN f
      /\ n.bills[b] = [f[b] EXCEPT !.sup = s, !.date = d, !.amt = a]
      /\ \A c \in DOMAIN f \ {b} : n.bills[c] = f[c]
  BY <1>1
<1>3. IsBill(n.bills[b])
  <2>1. IsBill(f[b])
    BY DEF IsBook
  <2>2. QED
    BY <1>2, <2>1 DEF IsBill
<1> HIDE DEF n
<1>4. IsBook(n)
  BY <1>1, <1>2, <1>3 DEF IsBook
<1>5. QED
  BY <1>2, <1>4 DEF n

(* So is the drawer's edited bill.                                         *)
LEMMA SaveEditedHolds ==
  ASSUME IInv, NEW b \in DOMAIN mem.bills, NEW s, NEW d \in Dates, NEW a, saveEdited(b, s, d, a)
  PROVE  IInv'
<1>1. /\ mem' = updateLedgerEntryDraft(mem, b, s, d, a) /\ UNCHANGED <<book, days, cache, others, mode>>
      /\ op' = Idle \/ \E o : op' = [step |-> "load", bill |-> b, order |-> o, sup |-> s, date |-> d, amt |-> a]
  BY DEF saveEdited, ToDays, Act
<1>2. IsBook(mem')
  BY <1>1, UpdatedIsBook DEF IInv, TypeInv
<1>3. b # NoLink
  BY DEF IInv, TypeInv, IsBook
<1>4. OpIs(op') /\ OpHas'
  <2>1. CASE op' = Idle
    BY <2>1, IdleHas
  <2>2. CASE \E o : op' = [step |-> "load", bill |-> b, order |-> o, sup |-> s, date |-> d, amt |-> a]
    BY <1>3, <2>2 DEF OpHas, PostHas, SentHas, PutHas, OpIs, PostIs, SentIs, LoadIs, PutIs, UnlinkIs, StripIs
  <2>3. QED
    BY <1>1, <2>1, <2>2
<1>5. QED
  BY <1>1, <1>2, <1>4, MemHolds

(* A bill is locked or unlocked.                                           *)
LEMMA SetLockedHolds ==
  ASSUME IInv, NEW b \in DOMAIN mem.bills, setLedgerEntryLocked(b)
  PROVE  IInv'
<1> DEFINE f == mem.bills
<1>1. /\ mem' = [mem EXCEPT !.bills[b].locked = ~@]
      /\ op' = Idle /\ UNCHANGED <<book, days, cache, others, mode>>
  BY DEF setLedgerEntryLocked, Act
<1>2. IsBook(mem)
  BY DEF IInv, TypeInv
<1>3. /\ DOMAIN mem' = {"bills", "orders"} /\ DOMAIN mem'.bills = DOMAIN f
      /\ mem'.bills[b] = [f[b] EXCEPT !.locked = ~@]
      /\ \A c \in DOMAIN f \ {b} : mem'.bills[c] = f[c]
  BY <1>1, <1>2 DEF IsBook
<1>4. IsBill(mem'.bills[b])
  <2>1. IsBill(f[b])
    BY <1>2 DEF IsBook
  <2>2. QED
    BY <1>3, <2>1 DEF IsBill
<1>5. IsBook(mem')
  BY <1>2, <1>3, <1>4 DEF IsBook
<1>6. QED
  BY <1>1, <1>5, IdleHas, MemHolds

(* Bills leave the terminal's cashbook.                                    *)
LEMMA RemoveUnlinkedHolds ==
  ASSUME IInv, removeUnlinked
  PROVE  IInv'
<1>1. op' = Idle /\ UNCHANGED <<book, days, cache, others, mode>>
  BY DEF removeUnlinked, Step
<1>2. IsBook(mem)
  BY DEF IInv, TypeInv
<1>3. mem' = mem \/ \E bs : DOMAIN mem' = {"bills", "orders"} /\ mem'.bills = WithoutBills(mem, bs)
  BY DEF removeUnlinked, removeLedgerEntryById
<1>4. IsBook(mem')
  BY <1>2, <1>3, WithoutSome
<1>5. QED
  BY <1>1, <1>4, IdleHas, MemHolds

(* On to the next day, or to the next bill: what is left are bills.        *)
LEMMA StrippingIs ==
  ASSUME op.step \in {"unlink", "strip"}, OpIs(op), op.left # {}, NEW read, AreDays(read)
  PROVE  LET o == Stripping(read)
         IN  /\ OpIs(o)
             /\ o.step \in {"unlink", "strip"} /\ o.bills = op.bills /\ o.sup = op.sup
<1> DEFINE o == Stripping(read)
           m == Max(op.left)
<1>1. /\ op.sup = {} => \E b \in Nat : op.bills = {b}
      /\ IsFiniteSet(op.left) /\ op.left \subseteq Nat \ {NoLink}
  BY DEF OpIs, UnlinkIs
<1>2. CASE \E d \in Dates : HasLine(read, d, m)
  <2>1. o = [step |-> "strip", bills |-> op.bills, sup |-> op.sup, left |-> op.left, read |-> read]
    BY <1>2 DEF Stripping
  <2> HIDE DEF o
  <2>2. o.step = "strip" /\ o.bills = op.bills /\ o.sup = op.sup /\ o.left = op.left /\ o.read = read
    BY <2>1
  <2>3. QED
    BY <1>1, <2>2 DEF OpIs, PostIs, SentIs, LoadIs, PutIs, UnlinkIs, StripIs, o
<1>3. CASE ~\E d \in Dates : HasLine(read, d, m)
  <2>1. o = [step |-> "unlink", bills |-> op.bills, sup |-> op.sup, left |-> op.left \ {m}]
    BY <1>3 DEF Stripping, Unlinking
  <2> HIDE DEF o, m
  <2>2. o.step = "unlink" /\ o.bills = op.bills /\ o.sup = op.sup /\ o.left = op.left \ {m}
    BY <2>1
  <2>3. IsFiniteSet(op.left \ {m})
    BY <1>1, FS_Difference
  <2>4. QED
    BY <1>1, <2>2, <2>3 DEF OpIs, PostIs, SentIs, LoadIs, PutIs, UnlinkIs, StripIs, o
<1>4. QED
  BY <1>2, <1>3

(* No row, and no day of the form, is under way in a removal.              *)
LEMMA RemovingHas ==
  ASSUME op'.step \in {"unlink", "strip"}
  PROVE  OpHas'
BY DEF OpHas, PostHas, SentHas, PutHas

(* The days are fetched for a bill that is to go.                          *)
LEMMA UnlinkHolds ==
  ASSUME IInv, unlinkDailyExpenseLinesForLedgerEntry
  PROVE  IInv'
<1>1. /\ op.step = "unlink" /\ op.left # {} /\ cache' = days /\ op' = Stripping(days)
      /\ UNCHANGED <<book, days, mem, others, mode>>
  BY DEF unlinkDailyExpenseLinesForLedgerEntry, Step
<1>2. OpIs(op') /\ op'.step \in {"unlink", "strip"}
  BY <1>1, StrippingIs DEF IInv, TypeInv
<1>3. Links'
  BY <1>1 DEF IInv, Links
<1>4. QED
  BY <1>1, <1>2, <1>3, RemovingHas, HoldsWith DEF IInv, TypeInv

(* Its lines leave a day.                                                  *)
LEMMA StripHolds ==
  ASSUME IInv, NEW d \in Dates, stripLinkedLines(d)
  PROVE  IInv'
<1> DEFINE kept == {x \in op.read[d].lines : x.bill # Max(op.left)}
           ls == Relinked(kept, book)
           read == [op.read EXCEPT ![d].lines = kept]
<1>1. op.step = "strip" /\ UNCHANGED <<book, mem, others, mode>>
  BY DEF stripLinkedLines, Step
<1>2. AreDays(op.read) /\ op.left # {}
  BY <1>1 DEF IInv, TypeInv, OpIs, StripIs
<1>3. CASE op' = Idle /\ UNCHANGED <<days, cache>>
  BY <1>1, <1>3, IdleHas, MemHolds DEF IInv, TypeInv
<1>4. CASE /\ days' = [days EXCEPT ![d].lines = ls] /\ cache' = [cache EXCEPT ![d] = days'[d]]
           /\ op' = Stripping(read)
  <2>1. Lines(kept)
    BY <1>2, PartOfLines DEF AreDays
  <2> HIDE DEF kept
  <2>2. AreDays(read)
    BY <1>2, <2>1 DEF AreDays
  <2>3. Lines(ls) /\ Bills(ls) \subseteq DOMAIN book.bills
    BY <2>1, RelinkedBills DEF IInv, TypeInv
  <2> HIDE DEF ls, read
  <2>4. AreDays(days') /\ days'[d].lines = ls /\ \A e \in Dates \ {d} : days'[e] = days[e]
    BY <1>4, <2>3 DEF IInv, TypeInv, AreDays
  <2>5. AreDays(cache') /\ cache'[d] = days'[d] /\ \A e \in Dates \ {d} : cache'[e] = cache[e]
    BY <1>4, <2>4 DEF IInv, TypeInv, AreDays
  <2>6. Links'
    BY <1>1, <2>3, <2>4, <2>5 DEF IInv, Links
  <2>7. OpIs(op') /\ op'.step \in {"unlink", "strip"}
    BY <1>1, <1>2, <1>4, <2>2, StrippingIs DEF IInv, TypeInv
  <2>8. QED
    BY <1>1, <2>4, <2>5, <2>6, <2>7, RemovingHas, HoldsWith DEF IInv, TypeInv
<1>5. QED
  BY <1>3, <1>4 DEF stripLinkedLines

(* A day is locked or unlocked.                                            *)
LEMMA LockDayHolds ==
  ASSUME IInv, NEW d \in Dates, LockDay(d)
  PROVE  IInv'
<1>1. /\ days' = [days EXCEPT ![d].locked = ~@] /\ cache' = [cache EXCEPT ![d] = days'[d]]
      /\ op' = Idle /\ UNCHANGED <<book, mem, others, mode>>
  BY DEF LockDay, Act
<1>2. /\ AreDays(days') /\ days'[d].lines = days[d].lines
      /\ \A e \in Dates \ {d} : days'[e] = days[e]
  BY <1>1 DEF IInv, TypeInv, AreDays
<1>3. AreDays(cache') /\ cache'[d] = days'[d] /\ \A e \in Dates \ {d} : cache'[e] = cache[e]
  BY <1>1, <1>2 DEF IInv, TypeInv, AreDays
<1>4. Links'
  BY <1>1, <1>2, <1>3 DEF IInv, Links
<1>5. QED
  BY <1>1, <1>2, <1>3, <1>4, IdleHas, HoldsWith DEF IInv, TypeInv

(* Bills are to be removed.                                                *)
LEMMA RemovalHolds ==
  ASSUME IInv, UNCHANGED <<book, days, mem, cache, others, mode>>,
         NEW bs, bs \subseteq DOMAIN mem.bills, NEW sup, op' = Unlinking(bs, sup, bs), sup = {} => \E b \in Nat : bs = {b}
  PROVE  IInv'
<1>1. op'.step = "unlink" /\ op'.bills = bs /\ op'.sup = sup /\ op'.left = bs
  BY DEF Unlinking
<1>2. IsFiniteSet(bs) /\ bs \subseteq Nat \ {NoLink}
  BY FS_Subset DEF IInv, TypeInv, IsBook
<1>3. OpIs(op')
  BY <1>1, <1>2 DEF OpIs, PostIs, SentIs, LoadIs, PutIs, UnlinkIs, StripIs
<1>4. QED
  BY <1>1, <1>3, RemovingHas, MemHolds DEF IInv, TypeInv

(* One bill is to be removed.                                              *)
LEMMA RemoveEntryHolds ==
  ASSUME IInv, NEW b \in DOMAIN mem.bills, removeEntry(b)
  PROVE  IInv'
<1>1. b \in Nat
  BY DEF IInv, TypeInv, IsBook
<1>2. UNCHANGED <<book, days, mem, cache, others, mode>> /\ op' = Unlinking({b}, {}, {b})
  BY DEF removeEntry, Act
<1>3. QED
  BY <1>1, <1>2, RemovalHolds

(* A whole cashbook is to be removed.                                      *)
LEMMA DeleteCashbookHolds ==
  ASSUME IInv, NEW s \in Suppliers, confirmDeleteCashbook(s)
  PROVE  IInv'
<1> DEFINE bs == BillsOf(mem, {s})
<1>1. UNCHANGED <<book, days, mem, cache, others, mode>> /\ op' = Unlinking(bs, {s}, bs)
  BY DEF confirmDeleteCashbook, Act
<1>2. bs \subseteq DOMAIN mem.bills
  BY DEF BillsOf
<1> HIDE DEF bs
<1>3. QED
  BY <1>1, <1>2, RemovalHolds

(* A bill brought to its date: the row has the day's other bills and it,   *)
(* and the day it leaves keeps its other bills.                            *)
LEMMA UpsertHolds ==
  ASSUME IInv, upsertDailyPurchaseFromLedgerInvoice
  PROVE  IInv'
<1> DEFINE b == op.bill
           on == {d \in Dates : HasLine(days, d, b)}
           found == IF on = {} THEN op.date ELSE Max(on)
           id == IF on = {} THEN FreeLineId ELSE (CHOOSE x \in days[found].lines : x.bill = b).id
           line == Line(id, "invoice", op.sup, op.amt, b, op.order)
           without(d) == {x \in days[d].lines : x.bill # b}
           lines == without(op.date) \cup {line}
           put == <<op.date, lines>>
           off == <<found, without(found)>>
           rows == Rows(put, IF found = op.date THEN << >> ELSE <<off>>)
<1>1. /\ op.step = "load" /\ cache' = days /\ UNCHANGED <<book, days, mem, others, mode>>
      /\ op' = Idle \/ op' = [step |-> "put", bill |-> b, rows |-> rows]
  BY DEF upsertDailyPurchaseFromLedgerInvoice, Step
<1>2. op.date \in Dates /\ b # NoLink /\ AreDays(days) /\ AreDays(cache) /\ OthersAre
  BY <1>1 DEF IInv, TypeInv, OpIs, LoadIs
<1>3. on # {} => found \in on
  <2>1. on \in SUBSET Nat /\ IsFiniteSet(on)
    BY DayBooksAssumption, FS_Subset
  <2> HIDE DEF on
  <2>2. QED
    BY <2>1, MaxIsMax
<1>4. found \in Dates
  <2>1. on \subseteq Dates
    OBVIOUS
  <2> HIDE DEF on
  <2>2. QED
    BY <1>2, <1>3, <2>1
<1>5. id \in Nat
  <2>1. CASE on = {}
    BY <2>1, <1>2, FreeLineIdIsNew
  <2>2. CASE on # {}
    <3>1. HasLine(days, found, b)
      BY <1>3, <2>2
    <3> HIDE DEF found, on, b
    <3>2. PICK x \in days[found].lines : x.bill = b
      BY <3>1 DEF HasLine
    <3> DEFINE y == CHOOSE z \in days[found].lines : z.bill = b
    <3>3. y \in days[found].lines
      BY <3>2
    <3> HIDE DEF y
    <3>4. y.id \in Nat
      BY <3>3, <1>2, <1>4 DEF AreDays, Lines, IsLine
    <3>5. QED
      BY <3>4, <2>2 DEF y
  <2>3. QED
    BY <2>1, <2>2
<1>6. IsLine(line) /\ line.bill = b
  <2> HIDE DEF id, b
  <2>1. QED
    BY <1>5, LineIsLine
<1>7. ASSUME NEW d \in Dates
      PROVE  Lines(without(d)) /\ Bills(days[d].lines) \ {b} \subseteq Bills(without(d))
  BY <1>2, PartOfLines DEF AreDays, Bills
<1> HIDE DEF line, without, found
<1>8. Lines(lines) /\ b \in Bills(lines) /\ Bills(days[op.date].lines) \ {b} \subseteq Bills(lines)
  <2>1. Lines(without(op.date)) /\ Bills(days[op.date].lines) \ {b} \subseteq Bills(without(op.date))
    BY <1>2, <1>7
  <2>2. Lines(lines)
    BY <2>1, <1>6, FS_AddElement DEF Lines
  <2>3. b \in Bills(lines) /\ Bills(without(op.date)) \subseteq Bills(lines)
    BY <1>2, <1>6 DEF Bills
  <2>4. QED
    BY <2>1, <2>2, <2>3
<1> HIDE DEF lines
<1>9. RowHas(days, b, put) /\ b \in Bills(put[2]) /\ put[1] = op.date
  BY <1>2, <1>8 DEF RowHas
<1>10. RowHas(days, b, off) /\ off[1] = found
  BY <1>4, <1>7 DEF RowHas
<1> HIDE DEF put, off
<1>11. \/ rows = <<put>> /\ OneRow(days, b, put)
       \/ rows = <<put, off>> /\ TwoRows(days, b, put, off)
  <2>1. CASE found = op.date
    <3>1. rows = <<put>>
      BY <2>1 DEF Rows
    <3>2. QED
      BY <3>1, <1>9 DEF OneRow
  <2>2. CASE found # op.date
    <3>1. rows = <<put>> \o <<off>>
      BY <2>2 DEF Rows
    <3>2. QED
      BY <3>1, <2>2, <1>9, <1>10, OneAndOne DEF TwoRows
  <2>3. QED
    BY <2>1, <2>2
<1> HIDE DEF rows, b
<1>12. OpIs(op') /\ OpHas'
  <2>1. CASE op' = Idle
    BY <2>1, IdleHas
  <2>2. CASE op' = [step |-> "put", bill |-> b, rows |-> rows]
    <3>1. op'.step = "put" /\ DOMAIN op' = {"step", "bill", "rows"} /\ op'.bill = b /\ op'.rows = rows
      BY <2>2
    <3>2. rows[1] = put /\ rows = <<put, off>> => rows[2] = off
      BY <1>11
    <3>3. PutHas'
      BY <1>1, <1>2, <1>11, <3>1, <3>2 DEF PutHas, b
    <3>4. IsRow(put) /\ IsRow(off)
      BY <1>9, <1>10 DEF RowHas, IsRow
    <3>5. PutIs(op')
      BY <1>2, <1>11, <3>1, <3>2, <3>4 DEF PutIs, b
    <3>6. QED
      BY <3>1, <3>3, <3>5 DEF OpHas, PostHas, SentHas, OpIs, PostIs, SentIs, LoadIs, UnlinkIs, StripIs
  <2>3. QED
    BY <1>1, <2>1, <2>2
<1>13. Links'
  BY <1>1 DEF IInv, Links
<1>14. QED
  BY <1>1, <1>12, <1>13, HoldsWith DEF IInv, TypeInv

(* The first row is saved, and the second is still owed.                   *)
LEMMA SaveDayHolds ==
  ASSUME IInv, saveDailyEntry
  PROVE  IInv'
<1> DEFINE r == op.rows[1]
           q == op.rows[2]
           d == r[1]
           ls == Relinked(r[2], book)
           Rest == op' = [op EXCEPT !.rows = <<q>>]
<1>1. /\ op.step = "put" /\ DOMAIN op = {"step", "bill", "rows"} /\ op.bill # NoLink
      /\ \/ op.rows = <<r>> /\ IsRow(r)
         \/ op.rows = <<r, q>> /\ IsRow(r) /\ IsRow(q)
  BY DEF saveDailyEntry, IInv, TypeInv, OpIs, PutIs
<1>2. d \in Dates /\ Lines(ls) /\ Bills(ls) = Bills(r[2]) \cap DOMAIN book.bills
  BY <1>1, RelinkedBills DEF IsRow, IInv, TypeInv
<1>3. Head(op.rows) = r
  BY <1>1
<1>4. /\ days' = [days EXCEPT ![d].lines = ls] /\ cache' = [cache EXCEPT ![d] = days'[d]]
      /\ op' = IF Tail(op.rows) = << >> THEN Idle ELSE [op EXCEPT !.rows = Tail(op.rows)]
      /\ UNCHANGED <<book, mem, others, mode>>
  BY <1>3 DEF saveDailyEntry, Step
<1> HIDE DEF ls, r, q
<1>5. AreDays(days') /\ days'[d].lines = ls /\ \A e \in Dates \ {d} : days'[e] = days[e]
  BY <1>2, <1>4 DEF IInv, TypeInv, AreDays
<1>6. AreDays(cache') /\ cache'[d] = days'[d] /\ \A e \in Dates \ {d} : cache'[e] = cache[e]
  BY <1>2, <1>4, <1>5 DEF IInv, TypeInv, AreDays
<1>7. Links'
  BY <1>2, <1>4, <1>5, <1>6 DEF IInv, Links
<1>8. \/ op.rows = <<r>> /\ op' = Idle
      \/ op.rows = <<r, q>> /\ IsRow(q) /\ Rest
  <2>1. CASE op.rows = <<r>>
    <3>1. Tail(op.rows) = << >>
      BY <2>1, TailOfOne
    <3>2. QED
      BY <1>4, <2>1, <3>1
  <2>2. CASE op.rows = <<r, q>> /\ IsRow(q)
    <3>1. Tail(op.rows) = <<q>> /\ <<q>> # << >>
      BY <2>2, TailOfTwo
    <3>2. QED
      BY <1>4, <2>2, <3>1
  <2>3. QED
    BY <1>1, <2>1, <2>2
<1>9. Rest => op'.step = "put" /\ DOMAIN op' = {"step", "bill", "rows"} /\ op'.bill = op.bill /\ op'.rows = <<q>>
  BY <1>1
<1>10. OpIs(op')
  <2>1. CASE op' = Idle
    BY <2>1, IdleHas
  <2>2. CASE IsRow(q) /\ Rest
    <3>1. op'.rows = <<op'.rows[1]>> /\ IsRow(op'.rows[1])
      BY <1>9, <2>2
    <3>2. PutIs(op')
      BY <1>1, <1>9, <2>2, <3>1 DEF PutIs
    <3>3. QED
      BY <1>9, <2>2, <3>2 DEF OpIs, PostIs, SentIs, LoadIs, UnlinkIs, StripIs
  <2>3. QED
    BY <1>8, <2>1, <2>2
<1>11. ASSUME mode.patient PROVE OpHas'
  <2>1. CASE op' = Idle
    BY <2>1, IdleHas
  <2>2. CASE op.rows = <<r, q>> /\ Rest
    <3>1. TwoRows(days, op.bill, r, q)
      <4>1. op.rows # <<op.rows[1]>>
        BY <2>2
      <4>2. QED
        BY <1>1, <1>11, <2>2, <4>1 DEF IInv, OpHas, PutHas, r, q
    <3>2. q[1] \in Dates \ {d} /\ RowHas(days, op.bill, q) /\ op.bill \in Bills(r[2])
      BY <3>1 DEF TwoRows, RowHas
    <3>3. days'[q[1]] = days[q[1]]
      BY <1>5, <3>2
    <3>4. RowHas(days', op.bill, q)
      BY <3>2, <3>3 DEF RowHas
    <3>5. op.bill \in Bills(days'[q[1]].lines) => op.bill \in Bills(days'[d].lines)
      BY <1>2, <1>5, <3>2, <3>3 DEF IInv, Links
    <3>6. OneRow(days', op.bill, q)
      BY <1>2, <3>2, <3>4, <3>5 DEF OneRow
    <3>7. op'.rows[1] = q
      BY <1>9, <2>2
    <3>8. PutHas'
      BY <1>9, <2>2, <3>6, <3>7 DEF PutHas
    <3>9. QED
      BY <1>9, <2>2, <3>8 DEF OpHas, PostHas, SentHas
  <2>3. QED
    BY <1>8, <2>1, <2>2
<1>12. QED
  BY <1>4, <1>5, <1>6, <1>7, <1>10, <1>11, HoldsWith DEF IInv, TypeInv

(* Opened again, the terminal has what the API has.                        *)
LEMMA RestartHolds ==
  ASSUME IInv, Restart
  PROVE  IInv'
<1>1. /\ op' = Idle /\ mem' = book' /\ cache' = days' /\ others' = << >>
      /\ UNCHANGED <<book, days, mode>>
  BY DEF Restart, ReadAgain
<1>2. OthersAre'
  BY <1>1, EmptySeq DEF OthersAre
<1>3. QED
  BY <1>1, <1>2, IdleHas DEF IInv, TypeInv, Links

(* The invariant holds always.                                             *)
LEMMA Inductive == Spec => []IInv
<1>1. Init => IInv
  BY InitHolds
<1>2. IInv /\ [Next]_vars => IInv'
  <2> SUFFICES ASSUME IInv, [Next]_vars PROVE IInv'
    OBVIOUS
  <2>1. ASSUME UNCHANGED vars PROVE IInv'
    BY <2>1 DEF vars, IInv, TypeInv, OthersAre, Links, OpHas, PostHas, SentHas, PutHas
  <2>2. ASSUME CommitFails PROVE IInv'
    <3>1. ReadAgain /\ UNCHANGED <<book, days, others, mode>>
      BY <2>2 DEF CommitFails, Step
    <3>2. QED
      BY <3>1, ReadAgainHolds DEF IInv, TypeInv, Links
  <2>3. ASSUME StaffFails \/ SaveFails \/ UnlinkFails PROVE IInv'
    <3>1. op' = Idle /\ UNCHANGED <<book, days, mem, cache, others, mode>>
      BY <2>3 DEF StaffFails, SaveFails, UnlinkFails, Step
    <3>2. QED
      BY <3>1, IdleHas, MemHolds DEF IInv, TypeInv
  <2>4. ASSUME \/ PutAside \/ Persist \/ SendDay \/ commitDailyEntry \/ upsertDailyPurchaseFromLedgerInvoice
               \/ saveDailyEntry \/ unlinkDailyExpenseLinesForLedgerEntry \/ removeUnlinked \/ Restart
        PROVE  IInv'
    BY <2>4, PutAsideHolds, PersistHolds, SendDayHolds, CommitHolds, UpsertHolds, SaveDayHolds, UnlinkHolds,
       RemoveUnlinkedHolds, RestartHolds
  <2>5. ASSUME NEW d \in Dates,
               handleSave(d) \/ executeDeleteHistoryEntry(d) \/ stripLinkedLines(d) \/ LockDay(d)
        PROVE  IInv'
    BY <2>5, HandleSaveHolds, DeleteDayHolds, StripHolds, LockDayHolds
  <2>6. ASSUME NEW k, NEW s, NEW d \in Dates, NEW a, saveNew(k, s, d, a) PROVE IInv'
    BY <2>6, SaveNewHolds
  <2>7. ASSUME NEW b \in DOMAIN mem.bills, NEW s, NEW d \in Dates, NEW a, saveEdited(b, s, d, a) PROVE IInv'
    BY <2>7, SaveEditedHolds
  <2>8. ASSUME NEW b \in DOMAIN mem.bills, removeEntry(b) \/ setLedgerEntryLocked(b) PROVE IInv'
    BY <2>8, RemoveEntryHolds, SetLockedHolds
  <2>9. ASSUME NEW s \in Suppliers, confirmDeleteCashbook(s) PROVE IInv'
    BY <2>9, DeleteCashbookHolds
  <2>10. ASSUME NEW k \in DOMAIN others, TakeUp(k) PROVE IInv'
    BY <2>10, TakeUpHolds
  <2>11. QED
    BY <2>1, <2>2, <2>3, <2>4, <2>5, <2>6, <2>7, <2>8, <2>9, <2>10 DEF Next
<1>3. QED
  BY <1>1, <1>2, PTL DEF Spec

-----------------------------------------------------------------------------
(* Locked bills. *)

(* What a locked bill of one book is in another, but for the lock itself.  *)
Keeps(m, n) ==
  \A b \in DOMAIN m.bills : Locked(m, b) =>
    b \in DOMAIN n.bills /\ [n.bills[b] EXCEPT !.locked = TRUE] = m.bills[b]

(* A bill that is as it was is so but for the lock.                        *)
LEMMA StaysKeeps ==
  ASSUME NEW m, IsBook(m), NEW n, Stays(m, n)
  PROVE  Keeps(m, n)
<1>1. ASSUME NEW b \in DOMAIN m.bills, m.bills[b].locked
      PROVE  b \in DOMAIN n.bills /\ [n.bills[b] EXCEPT !.locked = TRUE] = m.bills[b]
  <2> DEFINE c == m.bills[b]
  <2>1. n.bills[b] = c /\ b \in DOMAIN n.bills
    BY <1>1 DEF Stays
  <2>2. IsBill(c) /\ (c.locked <=> TRUE)
    BY <1>1 DEF IsBook
  <2>3. [c EXCEPT !.locked = TRUE] = c
    <3> HIDE DEF c
    <3>1. QED
      BY <2>2 DEF IsBill
  <2>4. QED
    BY <2>1, <2>3
<1>2. QED
  BY <1>1 DEF Keeps, Locked

(* Without bills that are not locked, a book has its locked ones.          *)
LEMMA WithoutFree ==
  ASSUME NEW m, IsBook(m), NEW bs, NEW rest, rest.bills = WithoutBills(m, bs), \A b \in bs : ~Locked(m, b)
  PROVE  Stays(m, rest)
<1>1. /\ DOMAIN rest.bills = DOMAIN m.bills \ bs
      /\ \A b \in DOMAIN m.bills \ bs : rest.bills[b] = m.bills[b]
  BY DEF WithoutBills
<1>2. QED
  BY <1>1 DEF Stays, Locked

(* The form posts its lines and leaves locked bills alone.                 *)
LEMMA HandleSaveStays ==
  ASSUME IInv, NEW d \in Dates, handleSave(d)
  PROVE  Stays(mem, mem')
<1>1. PICK ls \in Edited(cache[d].lines) : mem' = syncDailyExpenseLedgerLinks(mem, cache[d].lines, ls, d).book
  BY DEF handleSave
<1> DEFINE prior == cache[d].lines
           posted == syncDailyExpenseLedgerLinks(mem, prior, ls, d)
<1>2. Lines(prior) /\ Lines(ls)
  BY EditedAreLines DEF IInv, TypeInv, AreDays
<1>3. Stays(mem, posted.book)
  <2> HIDE DEF prior
  <2>1. QED
    BY <1>2, PostedKeeps DEF IInv, TypeInv
<1>4. QED
  BY <1>1, <1>3

(* A day that is deleted takes no locked bill with it.                     *)
LEMMA DeleteDayStays ==
  ASSUME IInv, NEW d \in Dates, executeDeleteHistoryEntry(d)
  PROVE  Stays(mem, mem')
<1> DEFINE now == DaysWith(days, mem)
           mine == {x \in now[d].lines : Linked(x) /\ ~Locked(mem, x.bill)}
           gone == {x \in mine : \A e \in Dates \ {d} : ~HasLine(now, e, x.bill)}
           bs == {x.bill : x \in gone}
           rest == [bills |-> WithoutBills(mem, bs), orders |-> WithoutOrders(mem, {x.order : x \in gone})]
<1>1. mem' = rest
  BY DEF executeDeleteHistoryEntry, ReadAgain
<1>2. rest.bills = WithoutBills(mem, bs) /\ \A b \in bs : ~Locked(mem, b)
  OBVIOUS
<1> HIDE DEF rest, bs
<1>3. QED
  BY <1>1, <1>2, WithoutFree DEF IInv, TypeInv

(* An edit is of a bill that is not locked.                                *)
LEMMA SaveEditedStays ==
  ASSUME IInv, NEW b \in DOMAIN mem.bills, NEW s, NEW d \in Dates, NEW a, saveEdited(b, s, d, a)
  PROVE  Stays(mem, mem')
<1>1. mem' = updateLedgerEntryDraft(mem, b, s, d, a) /\ ~mem.bills[b].locked
  BY DEF saveEdited, Locked
<1>2. DOMAIN mem'.bills = DOMAIN mem.bills /\ \A c \in DOMAIN mem.bills \ {b} : mem'.bills[c] = mem.bills[c]
  BY <1>1, UpdatedIsBook DEF IInv, TypeInv
<1>3. QED
  BY <1>1, <1>2 DEF Stays

(* A removal takes its bills, of one bill or of a whole cashbook, or, if   *)
(* there is none by now, or a locked one, nothing.                         *)
Leaving == IF op.sup = {} THEN op.bills \cap DOMAIN mem.bills ELSE BillsOf(mem, op.sup)

LEMMA UnlinkedAre ==
  ASSUME IInv, removeUnlinked
  PROVE  \/ /\ Leaving = {} \/ \E b \in Leaving : Locked(mem, b)
            /\ UNCHANGED <<mem, dirty>>
         \/ /\ \A b \in Leaving : ~Locked(mem, b)
            /\ dirty' /\ DOMAIN mem' = {"bills", "orders"} /\ mem'.bills = WithoutBills(mem, Leaving)
<1>1. CASE Leaving = {} \/ \E b \in Leaving : Locked(mem, b)
  BY <1>1 DEF removeUnlinked, Leaving
<1>2. CASE Leaving # {} /\ \A b \in Leaving : ~Locked(mem, b)
  <2>1. CASE op.sup = {}
    <3>1. PICK b \in Nat : op.bills = {b}
      BY <2>1 DEF removeUnlinked, IInv, TypeInv, OpIs, UnlinkIs
    <3>2. Leaving = {b}
      BY <1>2, <2>1, <3>1 DEF Leaving
    <3>3. Min(Leaving) = b
      BY <3>2 DEF Min
    <3>4. mem' = removeLedgerEntryById(mem, Min(Leaving)) /\ dirty'
      BY <1>2, <2>1 DEF removeUnlinked, Leaving
    <3>5. QED
      BY <1>2, <3>2, <3>3, <3>4 DEF removeLedgerEntryById
  <2>2. CASE op.sup # {}
    BY <1>2, <2>2 DEF removeUnlinked, Leaving
  <2>3. QED
    BY <2>1, <2>2
<1>3. QED
  BY <1>1, <1>2

(* A removal stops at a locked bill.                                       *)
LEMMA RemoveUnlinkedStays ==
  ASSUME IInv, removeUnlinked
  PROVE  Stays(mem, mem')
<1>1. CASE mem' = mem
  BY <1>1 DEF Stays
<1>2. CASE (\A b \in Leaving : ~Locked(mem, b)) /\ mem'.bills = WithoutBills(mem, Leaving)
  BY <1>2, WithoutFree DEF IInv, TypeInv
<1>3. QED
  BY <1>1, <1>2, UnlinkedAre

(* Locking or unlocking a bill changes nothing else.                       *)
LEMMA SetLockedKeeps ==
  ASSUME IInv, NEW b \in DOMAIN mem.bills, setLedgerEntryLocked(b)
  PROVE  Keeps(mem, mem')
<1> DEFINE f == mem.bills
<1>1. IsBook(mem) /\ mem' = [mem EXCEPT !.bills[b].locked = ~@]
  BY DEF setLedgerEntryLocked, IInv, TypeInv
<1>2. /\ DOMAIN mem'.bills = DOMAIN f
      /\ mem'.bills[b] = [f[b] EXCEPT !.locked = ~@]
      /\ \A c \in DOMAIN f \ {b} : mem'.bills[c] = f[c]
  BY <1>1 DEF IsBook
<1>3. ASSUME NEW c \in DOMAIN f, f[c].locked
      PROVE  [mem'.bills[c] EXCEPT !.locked = TRUE] = f[c]
  <2> DEFINE g == f[c]
             h == mem'.bills[c]
  <2>1. IsBill(g) /\ (g.locked <=> TRUE)
    BY <1>1, <1>3 DEF IsBook
  <2>2. h = g \/ h = [g EXCEPT !.locked = ~@]
    BY <1>2
  <2> HIDE DEF g, h
  <2>3. [h EXCEPT !.locked = TRUE] = g
    BY <2>1, <2>2 DEF IsBill
  <2>4. QED
    BY <2>3 DEF g, h
<1>4. QED
  BY <1>2, <1>3 DEF Keeps, Locked

(* Locked bills stay, whatever the form, the drawer and deleted days do,   *)
(* and however their operations overlap.                                   *)
THEOREM LockedStay == Spec => LockedBillsStay
<1> DEFINE Calm == ~mode.fails /\ ~mode.closes /\ (op.step = "commit" => mode.patient /\ ~days[op.date].locked)
           Step1 == Calm => Keeps(mem, mem')
<1>1. IInv /\ [Next]_vars => Step1
  <2> SUFFICES ASSUME IInv, [Next]_vars, Calm PROVE Keeps(mem, mem')
    OBVIOUS
  <2>1. Stays(mem, mem') => Keeps(mem, mem')
    BY StaysKeeps DEF IInv, TypeInv
  <2>2. ASSUME mem' = mem PROVE Stays(mem, mem')
    BY <2>2 DEF Stays
  <2>3. ASSUME \/ UNCHANGED vars \/ PutAside \/ Persist \/ StaffFails \/ SendDay
               \/ upsertDailyPurchaseFromLedgerInvoice \/ saveDailyEntry \/ SaveFails
               \/ unlinkDailyExpenseLinesForLedgerEntry \/ UnlinkFails
               \/ \E k \in DOMAIN others : TakeUp(k)
               \/ \E d \in Dates : stripLinkedLines(d) \/ LockDay(d)
               \/ \E b \in DOMAIN mem.bills : removeEntry(b)
               \/ \E s \in Suppliers : confirmDeleteCashbook(s)
        PROVE  mem' = mem
    BY <2>3 DEF vars, PutAside, TakeUp, Persist, StaffFails, SendDay, upsertDailyPurchaseFromLedgerInvoice,
                saveDailyEntry, SaveFails, unlinkDailyExpenseLinesForLedgerEntry, stripLinkedLines, UnlinkFails,
                LockDay, removeEntry, confirmDeleteCashbook
  <2>4. ~CommitFails /\ ~Restart
    BY DEF CommitFails, Restart
  <2>5. ASSUME NEW d \in Dates, handleSave(d) \/ executeDeleteHistoryEntry(d) PROVE Stays(mem, mem')
    BY <2>5, HandleSaveStays, DeleteDayStays
  <2>6. ASSUME NEW k, NEW s, NEW d \in Dates, NEW a, saveNew(k, s, d, a) PROVE Stays(mem, mem')
    <3>1. mem' = commitLedgerEntryDraft(mem, k, s, d, a).book
      BY <2>6 DEF saveNew
    <3>2. QED
      BY <3>1, DraftIsNew DEF IInv, TypeInv
  <2>7. ASSUME NEW b \in DOMAIN mem.bills, NEW s, NEW d \in Dates, NEW a, saveEdited(b, s, d, a)
        PROVE  Stays(mem, mem')
    BY <2>7, SaveEditedStays
  <2>8. ASSUME NEW b \in DOMAIN mem.bills, setLedgerEntryLocked(b) PROVE Keeps(mem, mem')
    BY <2>8, SetLockedKeeps
  <2>9. ASSUME removeUnlinked PROVE Stays(mem, mem')
    BY <2>9, RemoveUnlinkedStays
  <2>10. ASSUME commitDailyEntry PROVE mem' = mem
    BY <2>10 DEF commitDailyEntry, ReadAgain, IInv, OpHas, SentHas
  <2>11. QED
    BY <2>1, <2>2, <2>3, <2>4, <2>5, <2>6, <2>7, <2>8, <2>9, <2>10 DEF Next
<1>2. Step1 => (Calm =>
                  \A b \in DOMAIN mem.bills : Locked(mem, b) =>
                    b \in DOMAIN mem'.bills /\ [mem'.bills[b] EXCEPT !.locked = TRUE] = mem.bills[b])
  BY DEF Keeps
<1>3. QED
  BY <1>1, <1>2, Inductive, PTL DEF Spec, LockedBillsStay

-----------------------------------------------------------------------------
(* Lines of bills. *)

OnSome(map, b) == \E d \in Dates : b \in Bills(map[d].lines)

(* What a step may do to the lines of bills that stay.                     *)
NoneLost ==
  \A b \in DOMAIN book.bills \cap DOMAIN book'.bills :
    OnSome(days, b) /\ ~OnSome(days', b) => op.step = "strip" \/ Locked(book', b)

(* A bill with a line is on some day.                                      *)
LEMMA LinesAreOnSome ==
  ASSUME NEW map, NEW b, b # NoLink
  PROVE  UNION {{x \in map[d].lines : x.bill = b} : d \in Dates} # {} <=> OnSome(map, b)
<1>1. \A d \in Dates : b \in Bills(map[d].lines) <=> \E x \in map[d].lines : x.bill = b
  BY DEF Bills
<1>2. QED
  BY <1>1 DEF OnSome

(* A saved cashbook takes the lines of the bills it no longer has.         *)
LEMMA PersistLosesNone ==
  ASSUME IInv, Persist
  PROVE  NoneLost
<1>1. book' = mem /\ days' = DaysWith(days, mem)
  BY DEF Persist, Store
<1>2. \A d \in Dates : Bills(days'[d].lines) = Bills(days[d].lines) \cap DOMAIN mem.bills
  BY <1>1, DaysWithBills DEF IInv, TypeInv
<1>3. QED
  BY <1>1, <1>2 DEF NoneLost, OnSome

(* The day the form sends has a line for every bill it had that is not     *)
(* locked, or the bill goes with it.                                       *)
LEMMA CommitLosesNone ==
  ASSUME IInv, mode.patient, OwnIds, commitDailyEntry
  PROVE  NoneLost
<1> DEFINE now == DaysWith(days, mem)
           sent == Relinked(op.lines, mem)
<1>1. book' = mem /\ op.step = "commit" /\ days' = [now EXCEPT ![op.date].lines = sent]
  BY DEF commitDailyEntry, IInv, OpHas, SentHas
<1>2. op.date \in Dates /\ Lines(op.lines) /\ IsBook(mem)
  BY <1>1 DEF IInv, TypeInv, OpIs, PostIs
<1>3. AreDays(now) /\ \A d \in Dates : Bills(now[d].lines) = Bills(days[d].lines) \cap DOMAIN mem.bills
  BY <1>2, DaysWithBills DEF IInv, TypeInv
<1>4. Bills(sent) = Bills(op.lines) \cap DOMAIN mem.bills
  BY <1>2, RelinkedBills
<1> HIDE DEF now, sent
<1>5. days'[op.date].lines = sent /\ \A e \in Dates \ {op.date} : days'[e] = now[e]
  BY <1>1, <1>2, <1>3 DEF AreDays
<1>6. ASSUME NEW b \in Bills(days[op.date].lines), b \in DOMAIN mem.bills, ~mem.bills[b].locked
      PROVE  b \in Bills(sent)
  <2>1. b \in Bills(cache[op.date].lines) /\ Own(cache[op.date].lines)
    BY <1>2, <1>6 DEF IInv, Links, OwnIds, Own
  <2>2. b \in Bills(op.lines)
    BY <1>1, <1>6, <2>1 DEF IInv, OpHas, PostHas, Free
  <2>3. QED
    BY <1>4, <1>6, <2>2
<1>7. QED
  BY <1>1, <1>2, <1>3, <1>5, <1>6 DEF NoneLost, OnSome, Locked

(* A deleted day takes its bills with it, but for locked ones and for      *)
(* those another day has.                                                  *)
LEMMA DeleteDayLosesNone ==
  ASSUME IInv, NEW d \in Dates, executeDeleteHistoryEntry(d)
  PROVE  NoneLost
<1> DEFINE now == DaysWith(days, mem)
           mine == {x \in now[d].lines : Linked(x) /\ ~Locked(mem, x.bill)}
           gone == {x \in mine : \A e \in Dates \ {d} : ~HasLine(now, e, x.bill)}
           bs == {x.bill : x \in gone}
           rest == [bills |-> WithoutBills(mem, bs), orders |-> WithoutOrders(mem, {x.order : x \in gone})]
           left == DaysWith(now, rest)
<1>1. book' = rest /\ days' = [left EXCEPT ![d].lines = {}]
  BY DEF executeDeleteHistoryEntry
<1>2. /\ IsBook(mem) /\ AreDays(now)
      /\ \A e \in Dates : Bills(now[e].lines) = Bills(days[e].lines) \cap DOMAIN mem.bills
  BY DaysWithBills DEF IInv, TypeInv
<1>3. /\ IsBook(rest) /\ DOMAIN rest.bills = DOMAIN mem.bills \ bs
      /\ \A b \in DOMAIN rest.bills : rest.bills[b] = mem.bills[b]
  <2>1. DOMAIN rest = {"bills", "orders"} /\ rest.bills = WithoutBills(mem, bs)
    OBVIOUS
  <2> HIDE DEF rest, bs
  <2>2. IsBook(mem)
    BY <1>2
  <2>3. QED
    BY <2>1, <2>2, WithoutSome
<1>4. ASSUME NEW b \in DOMAIN mem.bills \ bs, b \in Bills(now[d].lines), ~Locked(mem, b)
      PROVE  \E e \in Dates \ {d} : b \in Bills(now[e].lines)
  <2>1. PICK x \in now[d].lines : x.bill = b /\ b # NoLink
    BY <1>4 DEF Bills
  <2>2. x \in mine /\ x \notin gone
    BY <1>4, <2>1 DEF Linked
  <2>3. PICK e \in Dates \ {d} : HasLine(now, e, b)
    BY <2>1, <2>2
  <2>4. b \in Bills(now[e].lines)
    BY <2>1, <2>3 DEF HasLine, Bills
  <2>5. QED
    BY <2>4
<1> HIDE DEF rest, now, bs
<1>5. AreDays(left) /\ \A e \in Dates : Bills(left[e].lines) = Bills(now[e].lines) \cap DOMAIN rest.bills
  BY <1>2, <1>3, DaysWithBills
<1> HIDE DEF left
<1>6. \A e \in Dates \ {d} : days'[e] = left[e]
  BY <1>1, <1>5 DEF AreDays
<1>7. ASSUME NEW b \in DOMAIN rest.bills, OnSome(days, b)
      PROVE  OnSome(days', b) \/ Locked(rest, b)
  <2>1. b \in DOMAIN mem.bills \ bs /\ (Locked(mem, b) => Locked(rest, b))
    BY <1>3 DEF Locked
  <2>2. PICK e \in Dates : b \in Bills(now[e].lines)
    BY <1>2, <1>7, <2>1 DEF OnSome
  <2>3. Locked(mem, b) \/ \E g \in Dates \ {d} : b \in Bills(now[g].lines)
    BY <1>4, <2>1, <2>2
  <2>4. ASSUME NEW g \in Dates \ {d}, b \in Bills(now[g].lines) PROVE OnSome(days', b)
    BY <1>5, <1>6, <1>7, <2>4 DEF OnSome
  <2>5. QED
    BY <2>1, <2>3, <2>4
<1>8. QED
  BY <1>1, <1>7 DEF NoneLost

(* A bill that moves is on its new day before it leaves the old one.       *)
LEMMA SaveDayLosesNone ==
  ASSUME IInv, mode.patient, saveDailyEntry
  PROVE  NoneLost
<1> DEFINE r == op.rows[1]
           d == r[1]
           ls == Relinked(r[2], book)
           Moved == \/ op.bill \in Bills(r[2])
                    \/ op.bill \in Bills(days[d].lines) => \E e \in Dates \ {d} : op.bill \in Bills(days[e].lines)
<1>1. Head(op.rows) = r /\ RowHas(days, op.bill, r) /\ Moved
  <2>1. op.step = "put"
    BY DEF saveDailyEntry
  <2>2. CASE op.rows = <<r>> /\ OneRow(days, op.bill, r)
    BY <2>2 DEF OneRow
  <2>3. CASE op.rows = <<r, op.rows[2]>> /\ TwoRows(days, op.bill, r, op.rows[2])
    BY <2>3 DEF TwoRows
  <2>4. QED
    BY <2>1, <2>2, <2>3 DEF IInv, OpHas, PutHas
<1>2. d \in Dates /\ Bills(ls) = Bills(r[2]) \cap DOMAIN book.bills
  BY <1>1, RelinkedBills DEF RowHas, IInv, TypeInv
<1>3. days' = [days EXCEPT ![d].lines = ls] /\ book' = book
  BY <1>1 DEF saveDailyEntry
<1> HIDE DEF ls, r
<1>4. days'[d].lines = ls /\ \A e \in Dates \ {d} : days'[e] = days[e]
  BY <1>2, <1>3 DEF IInv, TypeInv, AreDays
<1>5. ASSUME NEW b \in DOMAIN book.bills, OnSome(days, b)
      PROVE  OnSome(days', b)
  <2>1. PICK e \in Dates : b \in Bills(days[e].lines)
    BY <1>5 DEF OnSome
  <2>2. CASE e # d
    BY <1>4, <2>1, <2>2 DEF OnSome
  <2>3. CASE e = d
    <3>1. b \in Bills(r[2]) \/ \E g \in Dates \ {d} : b \in Bills(days[g].lines)
      BY <1>1, <2>1, <2>3 DEF RowHas
    <3>2. QED
      BY <1>2, <1>4, <1>5, <3>1 DEF OnSome
  <2>4. QED
    BY <2>2, <2>3
<1>6. QED
  BY <1>3, <1>5 DEF NoneLost

(* For a user who waits, no bill that stays loses its last line, but to a  *)
(* removal, or because it is locked: the days never forget a purchase the  *)
(* cashbook has, even where requests fail and the terminal is closed.      *)
THEOREM LinesStay == Spec => LineNeverLost
<1> DEFINE Kept == mode.patient /\ OwnIds => \A b \in DOMAIN book.bills \cap DOMAIN book'.bills :
                     LinesWith(days, b) # {} /\ UNION {{x \in days'[d].lines : x.bill = b} : d \in Dates} = {} =>
                       op.step = "strip" \/ Locked(book', b)
<1>1. IInv /\ [Next]_vars => (mode.patient /\ OwnIds => NoneLost)
  <2> SUFFICES ASSUME IInv, [Next]_vars, mode.patient, OwnIds PROVE NoneLost
    OBVIOUS
  <2>1. ASSUME \A d \in Dates : days'[d].lines = days[d].lines PROVE NoneLost
    BY <2>1 DEF NoneLost, OnSome
  <2>2. ASSUME op.step = "strip" PROVE NoneLost
    BY <2>2 DEF NoneLost
  <2>3. ASSUME \/ UNCHANGED vars \/ PutAside \/ StaffFails \/ SendDay \/ CommitFails \/ Restart
               \/ upsertDailyPurchaseFromLedgerInvoice \/ SaveFails \/ unlinkDailyExpenseLinesForLedgerEntry
               \/ UnlinkFails \/ removeUnlinked
               \/ \E k \in DOMAIN others : TakeUp(k)
               \/ \E d \in Dates : handleSave(d)
               \/ \E k, s, a : \E d \in Dates : saveNew(k, s, d, a)
               \/ \E b, s, a : \E d \in Dates : saveEdited(b, s, d, a)
               \/ \E b \in DOMAIN mem.bills : removeEntry(b) \/ setLedgerEntryLocked(b)
               \/ \E s \in Suppliers : confirmDeleteCashbook(s)
        PROVE  days' = days
    BY <2>3 DEF vars, PutAside, StaffFails, SendDay, CommitFails, Restart, upsertDailyPurchaseFromLedgerInvoice,
                SaveFails, unlinkDailyExpenseLinesForLedgerEntry, UnlinkFails, removeUnlinked, TakeUp, handleSave,
                saveNew, saveEdited, removeEntry, setLedgerEntryLocked, confirmDeleteCashbook
  <2>4. ASSUME NEW d \in Dates, stripLinkedLines(d) PROVE NoneLost
    BY <2>2, <2>4 DEF stripLinkedLines
  <2>5. ASSUME NEW d \in Dates, LockDay(d) PROVE NoneLost
    BY <2>1, <2>5 DEF LockDay, IInv, TypeInv, AreDays
  <2>6. ASSUME NEW d \in Dates, executeDeleteHistoryEntry(d) PROVE NoneLost
    BY <2>6, DeleteDayLosesNone
  <2>7. ASSUME Persist \/ commitDailyEntry \/ saveDailyEntry PROVE NoneLost
    BY <2>7, PersistLosesNone, CommitLosesNone, SaveDayLosesNone
  <2>8. QED
    BY <2>1, <2>3, <2>4, <2>5, <2>6, <2>7 DEF Next
<1>2. IInv /\ [Next]_vars => Kept
  <2> SUFFICES ASSUME IInv, [Next]_vars, mode.patient, OwnIds,
                      NEW b \in DOMAIN book.bills \cap DOMAIN book'.bills,
                      LinesWith(days, b) # {},
                      UNION {{x \in days'[d].lines : x.bill = b} : d \in Dates} = {}
               PROVE  op.step = "strip" \/ Locked(book', b)
    OBVIOUS
  <2>1. b # NoLink
    BY DEF IInv, TypeInv, IsBook
  <2>2. OnSome(days, b) /\ ~OnSome(days', b)
    BY <2>1, LinesAreOnSome DEF LinesWith
  <2>3. QED
    BY <1>1, <2>2 DEF NoneLost
<1>3. QED
  BY <1>2, Inductive, PTL DEF Spec, LineNeverLost

-----------------------------------------------------------------------------
(* Agreement.  The ids of a day's lines.                                   *)
LineIds(ls) == {x.id : x \in ls}

(* A line that is linked fits its bill, but for some bills.                *)
Fit(x, d, m, B) ==
  Linked(x) =>
    /\ x.bill \in DOMAIN m.bills /\ x.kind = m.bills[x.bill].kind
    /\ x.kind = "invoice" /\ x.bill \notin B =>
         m.bills[x.bill].sup = x.sup /\ m.bills[x.bill].amt = x.amt /\ m.bills[x.bill].date = d

(* A day's lines have ids and bills of their own, and fit them.            *)
OneBill(ls) == \A x, y \in ls : Linked(x) /\ x.bill = y.bill => x = y
Good(ls, d, m, B) == Own(ls) /\ OneBill(ls) /\ \A x \in ls : Fit(x, d, m, B)
AllLinked(ls) == \A x \in ls : Linked(x)

(* So do the days, which share neither.  P: all lines are linked, and      *)
(* every purchase has one.                                                 *)
Agree(f, m, B, P) ==
  /\ \A d \in Dates : Good(f[d], d, m, B)
  /\ \A d, e \in Dates : d # e => Bills(f[d]) \cap Bills(f[e]) = {} /\ LineIds(f[d]) \cap LineIds(f[e]) = {}
  /\ P => /\ \A d \in Dates : AllLinked(f[d])
          /\ \A b \in DOMAIN m.bills \ B : m.bills[b].kind = "invoice" => \E d \in Dates : b \in Bills(f[d])

SameSets(f, g) == \A d \in Dates : Bills(f[d]) = Bills(g[d]) /\ LineIds(f[d]) = LineIds(g[d])

(* The lines of the days once what is under way has been saved.            *)
Sent(o, map) ==
  [d \in Dates |->
     IF o.step \in {"staff", "commit"} THEN IF d = o.date THEN o.lines ELSE map[d].lines
     ELSE IF o.step = "put" THEN
       IF d = o.rows[1][1] THEN o.rows[1][2]
       ELSE IF Len(o.rows) = 2 THEN IF d = o.rows[2][1] THEN o.rows[2][2] ELSE map[d].lines
       ELSE map[d].lines
     ELSE map[d].lines]
ReadLines(o) == [d \in Dates |-> o.read[d].lines]

(* The bills whose lines are about to be brought to the days or off them.  *)
Exempt(o) ==
  IF o.step = "load" THEN {o.bill} ELSE IF o.step \in {"unlink", "strip"} THEN o.bills ELSE {}

Unlocked(m) == \A b \in DOMAIN m.bills : ~m.bills[b].locked

(* A bill being brought to its day is as the operation has it.             *)
Brings(o, m) ==
  /\ o.bill \in DOMAIN m.bills /\ m.bills[o.bill].kind = "invoice" /\ m.bills[o.bill].date = o.date
  /\ m.bills[o.bill].sup = o.sup /\ m.bills[o.bill].amt = o.amt

(* Of bills being removed, those that are done have no line.               *)
Clears(o, m, map) ==
  /\ o.bills \subseteq DOMAIN m.bills /\ o.left \subseteq o.bills
  /\ o.sup # {} => o.bills = BillsOf(m, o.sup)
  /\ \A d \in Dates : Bills(map[d].lines) \cap (o.bills \ o.left) = {}

(* While the user waits, and nothing fails, is locked or interrupted.      *)
Agreed ==
  /\ Unlocked(mem) /\ \A d \in Dates : ~days[d].locked
  /\ ~dirty /\ op.step # "commit" => book = mem
  /\ Agree(Sent(op, days), mem, Exempt(op), mode.prompt)
  /\ op.step \notin {"staff", "commit"} =>
       Agree(Sent(op, cache), mem, Exempt(op), mode.prompt) /\ SameSets(Sent(op, days), Sent(op, cache))
  /\ op.step = "load" => Brings(op, mem)
  /\ op.step \in {"unlink", "strip"} => Clears(op, mem, days)
  /\ op.step = "strip" =>
       /\ Agree(ReadLines(op), mem, op.bills, mode.prompt) /\ SameSets(Sent(op, days), ReadLines(op))
       /\ \A d \in Dates : ~op.read[d].locked
SoundInv == Sound => Agreed

-----------------------------------------------------------------------------
(* What becomes of the bills of a cashbook. *)

IsOf(c, kind, s, d, a) == c.kind = kind /\ c.sup = s /\ c.date = d /\ c.amt = a /\ ~c.locked

(* A new bill has an id of its own, and the others are as they were.       *)
LEMMA DraftIs ==
  ASSUME NEW m, IsBook(m), NEW kind, NEW s, NEW d, NEW a
  PROVE  LET new == commitLedgerEntryDraft(m, kind, s, d, a)
         IN  /\ IsBook(new.book) /\ new.bill \in Nat \ {NoLink} /\ new.bill \notin DOMAIN m.bills
             /\ DOMAIN new.book.bills = DOMAIN m.bills \cup {new.bill}
             /\ \A c \in DOMAIN m.bills : new.book.bills[c] = m.bills[c]
             /\ IsOf(new.book.bills[new.bill], kind, s, d, a)
<1> DEFINE new == commitLedgerEntryDraft(m, kind, s, d, a)
           b == NextId(DOMAIN m.bills)
<1>1. b \in Nat \ {NoLink} /\ b \notin DOMAIN m.bills
  BY NextIdIsNew DEF IsBook, NoLink
<1>2. /\ new.bill = b
      /\ DOMAIN new.book.bills = DOMAIN m.bills \cup {b}
      /\ \A c \in DOMAIN m.bills : new.book.bills[c] = m.bills[c]
  BY <1>1 DEF commitLedgerEntryDraft
<1>3. IsOf(new.book.bills[b], kind, s, d, a)
  BY DEF commitLedgerEntryDraft, IsOf
<1>4. IsBook(new.book)
  BY DraftIsNew
<1> HIDE DEF new, b
<1>5. QED
  BY <1>1, <1>2, <1>3, <1>4 DEF new

(* Where nothing is locked, removing links removes their bills, and those  *)
(* alone.                                                                  *)
LEMMA RemovedAre ==
  ASSUME NEW m, IsBook(m), Unlocked(m), NEW xs
  PROVE  LET rest == removeDailyLedgerExpenseLink(m, xs)
         IN  /\ IsBook(rest) /\ DOMAIN rest.bills = DOMAIN m.bills \ {x.bill : x \in xs}
             /\ \A b \in DOMAIN rest.bills : rest.bills[b] = m.bills[b]
<1> DEFINE rest == removeDailyLedgerExpenseLink(m, xs)
           bs == {x.bill : x \in xs}
           free == {x \in xs : ~Locked(m, x.bill)}
<1>1. free = xs
  BY DEF Unlocked, Locked
<1>2. DOMAIN rest = {"bills", "orders"} /\ rest.bills = WithoutBills(m, {x.bill : x \in free})
  BY DEF removeDailyLedgerExpenseLink
<1> HIDE DEF rest, free
<1>3. DOMAIN rest = {"bills", "orders"} /\ rest.bills = WithoutBills(m, bs)
  BY <1>1, <1>2
<1> HIDE DEF bs
<1>4. IsBook(rest) /\ DOMAIN rest.bills = DOMAIN m.bills \ bs /\ \A b \in DOMAIN rest.bills : rest.bills[b] = m.bills[b]
  BY <1>3, WithoutSome
<1>5. QED
  BY <1>4 DEF rest, bs

(* Of the bills of a book, those that posting some of a day's lines leaves *)
(* as they are: other days', and those of the lines still to be posted.    *)
LeftAlone(m, prior, some) ==
  (DOMAIN m.bills \ Bills(prior)) \cup {p.bill : p \in {q \in prior : Linked(q) /\ q.id \notin LineIds(some)}}

(* What posting has of some lines so far: besides those bills, the book    *)
(* has the ones of the posted lines, which fit them.                       *)
IsFit(acc, m, prior, some, d) ==
  LET left == LeftAlone(m, prior, some)
  IN  /\ DOMAIN acc = {"book", "lines"} /\ IsBook(acc.book) /\ Unlocked(acc.book)
      /\ Good(acc.lines, d, acc.book, {}) /\ AllLinked(acc.lines) /\ LineIds(acc.lines) = LineIds(some)
      /\ DOMAIN acc.book.bills = left \cup Bills(acc.lines) /\ left \cap Bills(acc.lines) = {}
      /\ \A b \in left : acc.book.bills[b] = m.bills[b]

(* A new line beside others that are left alone fits, as they do.          *)
LEMMA OneMoreFits ==
  ASSUME NEW m, NEW n, NEW d, NEW ls, Good(ls, d, m, {}),
         NEW y, Fit(y, d, n, {}), \A x \in ls : x.id # y.id /\ (Linked(x) => x.bill # y.bill),
         \A x \in ls : Linked(x) => x.bill \in DOMAIN n.bills /\ n.bills[x.bill] = m.bills[x.bill]
  PROVE  Good(ls \cup {y}, d, n, {})
<1> DEFINE all == ls \cup {y}
<1>1. \A x \in all : Fit(x, d, n, {})
  BY DEF Good, Fit
<1>2. Own(all) /\ OneBill(all)
  BY DEF Good, Own, OneBill, Linked
<1>3. QED
  BY <1>1, <1>2 DEF Good

(* One more line posted: it keeps its bill, or has a new one in its place. *)
LEMMA PostedLineFits ==
  ASSUME NEW m, IsBook(m), NEW prior, NEW d, Good(prior, d, m, {}),
         NEW some, Own(some), NEW x \in some, IsLine(x),
         NEW acc, IsFit(acc, m, prior, some \ {x}, d)
  PROVE  IsFit(PostedLine(acc, x, prior, d), m, prior, some, d)
<1> DEFINE before == {p \in prior : p.id = x.id}
           old == CHOOSE p \in before : TRUE
           had == before # {} /\ Linked(old)
           new == commitLedgerEntryDraft(acc.book, x.kind, x.sup, d, x.amt)
           next == PostedLine(acc, x, prior, d)
           K == LeftAlone(m, prior, some \ {x})
           L == LeftAlone(m, prior, some)
<1>1. x.id \notin LineIds(some \ {x}) /\ LineIds(some) = LineIds(some \ {x}) \cup {x.id}
  BY DEF LineIds, Own
<1>2. \A p \in prior : Linked(p) => p.bill \in DOMAIN m.bills /\ p.bill \in Bills(prior)
  BY DEF Good, Fit, Bills, Linked
<1>3. ASSUME had
      PROVE  old \in prior /\ old.id = x.id /\ K = L \cup {old.bill} /\ old.bill \notin L
  <2>1. old \in prior /\ old.id = x.id /\ Linked(old)
    BY <1>3
  <2> HIDE DEF old
  <2>2. \A p \in prior : p.id = x.id \/ (Linked(p) /\ p.bill = old.bill) => p = old
    BY <2>1 DEF Good, Own, OneBill
  <2>3. K = L \cup {old.bill}
    BY <1>1, <2>1, <2>2 DEF LeftAlone
  <2>4. old.bill \notin L
    BY <1>1, <1>2, <2>1, <2>2 DEF LeftAlone
  <2>5. QED
    BY <2>1, <2>3, <2>4
<1>4. ASSUME ~had
      PROVE  K = L
  <2>1. \A p \in prior : p.id = x.id => ~Linked(p)
    <3>1. SUFFICES ASSUME NEW p \in prior, p.id = x.id PROVE ~Linked(p)
      OBVIOUS
    <3>2. p \in before /\ old \in before
      BY <3>1
    <3>3. p = old
      BY <3>1, <3>2 DEF Good, Own
    <3>4. QED
      BY <1>4, <3>2, <3>3
  <2>2. QED
    BY <1>1, <2>1 DEF LeftAlone
<1>5. /\ DOMAIN acc = {"book", "lines"} /\ IsBook(acc.book) /\ Unlocked(acc.book)
      /\ Good(acc.lines, d, acc.book, {}) /\ AllLinked(acc.lines) /\ LineIds(acc.lines) = LineIds(some \ {x})
      /\ DOMAIN acc.book.bills = K \cup Bills(acc.lines) /\ K \cap Bills(acc.lines) = {}
      /\ \A b \in K : acc.book.bills[b] = m.bills[b]
  BY DEF IsFit
<1>6. \A y \in acc.lines : y.id # x.id /\ y.bill \in DOMAIN acc.book.bills /\ y.bill \in Bills(acc.lines)
  <2>1. \A y \in acc.lines : y.id \in LineIds(acc.lines) /\ y.bill \in DOMAIN acc.book.bills
    BY <1>5 DEF LineIds, Good, Fit, AllLinked
  <2>2. QED
    BY <1>1, <1>5, <2>1 DEF Bills, IsBook
<1>7. ASSUME NEW y, y.id = x.id, y.bill # NoLink
      PROVE  /\ LineIds(acc.lines \cup {y}) = LineIds(some)
             /\ Bills(acc.lines \cup {y}) = Bills(acc.lines) \cup {y.bill}
  BY <1>1, <1>5, <1>7 DEF LineIds, Bills
<1>8. CASE had /\ Same(x, old)
  <2> DEFINE kept == [x EXCEPT !.bill = old.bill, !.order = old.order]
  <2>1. next = [acc EXCEPT !.lines = @ \cup {kept}]
    BY <1>8 DEF PostedLine
  <2>2. /\ kept.id = x.id /\ kept.bill = old.bill
        /\ kept.kind = x.kind /\ kept.sup = x.sup /\ kept.amt = x.amt
    BY DEF IsLine
  <2>3. old \in prior /\ K = L \cup {old.bill} /\ old.bill \notin L
    BY <1>3, <1>8
  <2> HIDE DEF kept, next, old, K, L
  <2>4. DOMAIN next = {"book", "lines"} /\ next.book = acc.book /\ next.lines = acc.lines \cup {kept}
    BY <1>5, <2>1
  <2>5. Fit(old, d, m, {}) /\ old.bill # NoLink
    BY <1>8, <2>3 DEF Good, Linked
  <2>6. Fit(kept, d, acc.book, {})
    BY <1>5, <1>8, <2>2, <2>3, <2>5 DEF Fit, Same, Linked
  <2>7. \A y \in acc.lines : y.id # kept.id /\ y.bill # kept.bill
    BY <1>5, <1>6, <2>2, <2>3
  <2>8. Good(next.lines, d, acc.book, {}) /\ AllLinked(next.lines)
    <3>1. Good(acc.lines, d, acc.book, {}) /\ next.lines = acc.lines \cup {kept}
      BY <1>5, <2>4
    <3>2. \A y \in acc.lines : y.bill \in DOMAIN acc.book.bills /\ acc.book.bills[y.bill] = acc.book.bills[y.bill]
      BY <1>6
    <3>3. Good(next.lines, d, acc.book, {})
      BY <2>6, <2>7, <3>1, <3>2, OneMoreFits
    <3>4. AllLinked(next.lines)
      BY <1>5, <2>2, <2>5, <3>1 DEF AllLinked, Linked
    <3>5. QED
      BY <3>3, <3>4
  <2>9. LineIds(next.lines) = LineIds(some) /\ Bills(next.lines) = Bills(acc.lines) \cup {old.bill}
    BY <1>7, <2>2, <2>4, <2>5
  <2>10. DOMAIN acc.book.bills = L \cup Bills(next.lines) /\ L \cap Bills(next.lines) = {}
    BY <1>5, <2>3, <2>9
  <2>11. QED
    BY <1>5, <2>3, <2>4, <2>8, <2>9, <2>10 DEF IsFit, L, next
<1>9. CASE ~(had /\ Same(x, old))
  <2> DEFINE line == [x EXCEPT !.bill = new.bill, !.order = new.order]
             book2 == IF had THEN removeDailyLedgerExpenseLink(new.book, {old}) ELSE new.book
             n == new.bill
  <2>1. ~Locked(acc.book, old.bill)
    BY <1>5 DEF Unlocked, Locked
  <2>2. next = [book |-> book2, lines |-> acc.lines \cup {line}]
    BY <1>9, <2>1 DEF PostedLine
  <2>3. line.id = x.id /\ line.bill = n /\ line.kind = x.kind /\ line.sup = x.sup /\ line.amt = x.amt
    <3> HIDE DEF new
    <3>1. QED
      BY DEF IsLine
  <2>4. /\ IsBook(new.book) /\ n # NoLink /\ n \notin DOMAIN acc.book.bills
        /\ DOMAIN new.book.bills = DOMAIN acc.book.bills \cup {n}
        /\ \A c \in DOMAIN acc.book.bills : new.book.bills[c] = acc.book.bills[c]
        /\ IsOf(new.book.bills[n], x.kind, x.sup, d, x.amt)
    <3>1. IsBook(acc.book)
      BY <1>5
    <3>2. QED
      BY <3>1, DraftIs
  <2> HIDE DEF new, n
  <2>5. Unlocked(new.book)
    BY <1>5, <2>4 DEF Unlocked, IsOf
  <2>6. /\ IsBook(book2) /\ DOMAIN book2.bills = L \cup Bills(acc.lines) \cup {n}
        /\ \A c \in DOMAIN book2.bills : book2.bills[c] = new.book.bills[c]
    <3>1. CASE had
      <4>1. K = L \cup {old.bill} /\ old.bill \notin L
        BY <1>3, <3>1
      <4>2. {y.bill : y \in {old}} = {old.bill}
        OBVIOUS
      <4> HIDE DEF old, K, L
      <4>3. /\ IsBook(book2) /\ DOMAIN book2.bills = DOMAIN new.book.bills \ {old.bill}
            /\ \A c \in DOMAIN book2.bills : book2.bills[c] = new.book.bills[c]
        BY <2>4, <2>5, <3>1, <4>2, RemovedAre
      <4> HIDE DEF book2
      <4>4. QED
        BY <1>5, <2>4, <4>1, <4>3
    <3>2. CASE ~had
      <4>1. K = L
        BY <1>4, <3>2
      <4>2. book2 = new.book
        BY <3>2
      <4> HIDE DEF K, L, book2
      <4>3. QED
        BY <1>5, <2>4, <4>1, <4>2
    <3>3. QED
      BY <3>1, <3>2
  <2>7. L \subseteq K
    BY <1>3, <1>4
  <2> HIDE DEF line, book2, next, K, L, old, before
  <2>8. DOMAIN next = {"book", "lines"} /\ next.book = book2 /\ next.lines = acc.lines \cup {line}
    BY <2>2
  <2>9. Unlocked(book2)
    BY <2>5, <2>4, <2>6, <2>7, <1>5 DEF Unlocked
  <2>10. Fit(line, d, book2, {})
    BY <2>3, <2>4, <2>6 DEF Fit, IsOf
  <2>11. \A y \in acc.lines : y.id # line.id /\ y.bill # line.bill
    BY <1>6, <2>3, <2>4
  <2>12. \A y \in acc.lines : y.bill \in DOMAIN book2.bills /\ book2.bills[y.bill] = acc.book.bills[y.bill]
    BY <1>6, <2>4, <2>6
  <2>13. Good(next.lines, d, book2, {}) /\ AllLinked(next.lines)
    <3>1. Good(next.lines, d, book2, {})
      <4>1. Good(acc.lines, d, acc.book, {}) /\ next.lines = acc.lines \cup {line}
        BY <1>5, <2>8
      <4>2. \A y \in acc.lines : y.id # line.id /\ (Linked(y) => y.bill # line.bill)
        BY <2>11
      <4>3. \A y \in acc.lines : Linked(y) => y.bill \in DOMAIN book2.bills /\ book2.bills[y.bill] = acc.book.bills[y.bill]
        BY <2>12
      <4>4. QED
        BY <2>10, <4>1, <4>2, <4>3, OneMoreFits
    <3>2. AllLinked(next.lines)
      BY <1>5, <2>3, <2>4, <2>8 DEF AllLinked, Linked
    <3>3. QED
      BY <3>1, <3>2
  <2>14. LineIds(next.lines) = LineIds(some) /\ Bills(next.lines) = Bills(acc.lines) \cup {n}
    BY <1>7, <2>3, <2>4, <2>8
  <2>15. /\ DOMAIN book2.bills = L \cup Bills(next.lines) /\ L \cap Bills(next.lines) = {}
         /\ \A b \in L : book2.bills[b] = m.bills[b]
    BY <1>5, <2>4, <2>6, <2>7, <2>14
  <2>16. QED
    BY <2>6, <2>8, <2>9, <2>13, <2>14, <2>15 DEF IsFit, L, next
<1>10. QED
  BY <1>8, <1>9

(* What the form sends of its day: its lines fit the bills they come with, *)
(* which replace the day's, and other days' bills are as they were.        *)
LEMMA PostedFits ==
  ASSUME NEW m, IsBook(m), Unlocked(m), NEW d, NEW prior, Good(prior, d, m, {}),
         NEW ls, Lines(ls), Own(ls)
  PROVE  LET posted == syncDailyExpenseLedgerLinks(m, prior, ls, d)
             untouched == DOMAIN m.bills \ Bills(prior)
         IN  /\ IsBook(posted.book) /\ Unlocked(posted.book)
             /\ Good(posted.lines, d, posted.book, {}) /\ AllLinked(posted.lines)
             /\ LineIds(posted.lines) = LineIds(ls)
             /\ DOMAIN posted.book.bills = untouched \cup Bills(posted.lines) /\ untouched \cap Bills(posted.lines) = {}
             /\ \A b \in untouched : posted.book.bills[b] = m.bills[b]
<1>1. PICK f : AreSteps(f, m, prior, ls, d) /\ Posted(m, prior, ls, d) = f[ls]
  BY PostedSteps
<1> DEFINE G == {some \in SUBSET ls : IsFit(f[some], m, prior, some, d)}
<1>2. ASSUME NEW some \in SUBSET ls, \A x \in some : some \ {x} \in G
      PROVE  some \in G
  <2>1. CASE some = {}
    <3>1. f[some].book = m /\ f[some].lines = {} /\ DOMAIN f[some] = {"book", "lines"}
      BY <1>1, <2>1 DEF AreSteps, Unposted
    <3>2. Good({}, d, m, {}) /\ AllLinked({}) /\ LineIds({}) = {} /\ Bills({}) = {}
      BY DEF Good, Own, OneBill, AllLinked, LineIds, Bills
    <3>3. LeftAlone(m, prior, {}) = DOMAIN m.bills
      <4>1. \A p \in prior : Linked(p) => p.bill \in DOMAIN m.bills
        BY DEF Good, Fit
      <4>2. \A b \in Bills(prior) : \E p \in prior : Linked(p) /\ p.bill = b
        BY DEF Bills, Linked
      <4>3. QED
        BY <3>2, <4>1, <4>2 DEF LeftAlone
    <3>4. IsFit(f[some], m, prior, some, d)
      BY <2>1, <3>1, <3>2, <3>3 DEF IsFit
    <3>5. QED
      BY <3>4
  <2>2. CASE some # {}
    <3> DEFINE x == Last(some)
               before == some \ {x}
    <3>1. Lines(some) /\ Own(some)
      BY FS_Subset DEF Lines, Own
    <3>2. x \in some /\ IsLine(x)
      BY <3>1, <2>2, LastIsOne DEF Lines
    <3>3. f[some] = PostedLine(f[before], x, prior, d)
      BY <1>1, <2>2 DEF AreSteps
    <3>4. IsFit(f[before], m, prior, before, d)
      BY <1>2, <3>2
    <3> HIDE DEF x
    <3>5. IsFit(PostedLine(f[before], x, prior, d), m, prior, some, d)
      BY <3>1, <3>2, <3>4, PostedLineFits
    <3>6. QED
      BY <3>3, <3>5
  <2>3. QED
    BY <2>1, <2>2
<1>3. SUBSET ls \subseteq G
  <2>1. IsFiniteSet(ls)
    BY DEF Lines
  <2> HIDE DEF G
  <2>2. QED
    BY <2>1, <1>2, SubsetInduction
<1> DEFINE all == Posted(m, prior, ls, d)
           left == LeftAlone(m, prior, ls)
           untouched == DOMAIN m.bills \ Bills(prior)
           dropped == {p \in prior : Linked(p) /\ p.id \notin {x.id : x \in ls}}
           rest == removeDailyLedgerExpenseLink(all.book, dropped)
           posted == syncDailyExpenseLedgerLinks(m, prior, ls, d)
           lines == all.lines
<1>4. IsFit(all, m, prior, ls, d)
  BY <1>1, <1>3
<1>5. posted.book = rest /\ posted.lines = lines
  BY DEF syncDailyExpenseLedgerLinks
<1> HIDE DEF all, posted
<1>6. /\ IsBook(all.book) /\ Unlocked(all.book)
      /\ Good(lines, d, all.book, {}) /\ AllLinked(lines) /\ LineIds(lines) = LineIds(ls)
      /\ DOMAIN all.book.bills = left \cup Bills(lines) /\ left \cap Bills(lines) = {}
      /\ \A b \in left : all.book.bills[b] = m.bills[b]
  BY <1>4 DEF IsFit
<1>7. {p.bill : p \in dropped} = left \ untouched /\ untouched \subseteq left
  <2>1. \A p \in prior : Linked(p) => p.bill \in DOMAIN m.bills /\ p.bill \in Bills(prior)
    BY DEF Good, Fit, IsBook, Bills, Linked
  <2>2. dropped = {p \in prior : Linked(p) /\ p.id \notin LineIds(ls)}
    BY DEF LineIds
  <2> HIDE DEF dropped
  <2>3. QED
    BY <2>1, <2>2 DEF LeftAlone
<1> DEFINE gone == {p.bill : p \in dropped}
<1>8. /\ IsBook(rest) /\ DOMAIN rest.bills = DOMAIN all.book.bills \ gone
      /\ \A b \in DOMAIN rest.bills : rest.bills[b] = all.book.bills[b]
  <2>1. IsBook(all.book) /\ Unlocked(all.book)
    BY <1>6
  <2> HIDE DEF dropped
  <2>2. QED
    BY <2>1, RemovedAre
<1> HIDE DEF rest, gone, left, untouched, dropped, lines
<1>9. gone = left \ untouched /\ untouched \subseteq left
  BY <1>7 DEF gone
<1>10. DOMAIN rest.bills = untouched \cup Bills(lines) /\ untouched \cap Bills(lines) = {}
  BY <1>6, <1>8, <1>9
<1>11. Unlocked(rest) /\ \A b \in untouched : rest.bills[b] = m.bills[b]
  BY <1>6, <1>8, <1>9, <1>10 DEF Unlocked
<1>12. Good(lines, d, rest, {})
  <2>1. ASSUME NEW x \in lines PROVE Fit(x, d, rest, {})
    <3>1. Fit(x, d, all.book, {}) /\ x.bill \in Bills(lines)
      BY <1>6 DEF Good, AllLinked, Linked, Bills
    <3>2. x.bill \in DOMAIN rest.bills /\ rest.bills[x.bill] = all.book.bills[x.bill]
      BY <3>1, <1>8, <1>10
    <3>3. QED
      BY <3>1, <3>2 DEF Fit
  <2>2. QED
    BY <1>6, <2>1 DEF Good
<1>13. QED
  BY <1>5, <1>6, <1>8, <1>10, <1>11, <1>12 DEF untouched, posted

(* What the API keeps of a day's links is as good as it was.               *)
LEMMA RelinkedIsGood ==
  ASSUME NEW k, IsBook(k), NEW ls, Lines(ls), NEW d, NEW m, NEW B, Good(ls, d, m, B)
  PROVE  /\ Good(Relinked(ls, k), d, m, B)
         /\ LineIds(Relinked(ls, k)) = LineIds(ls)
         /\ Bills(Relinked(ls, k)) = Bills(ls) \cap DOMAIN k.bills
         /\ Bills(ls) \subseteq DOMAIN k.bills /\ AllLinked(ls) => AllLinked(Relinked(ls, k))
<1> DEFINE f == [x \in ls |-> [x EXCEPT !.bill = IF x.bill \in DOMAIN k.bills THEN x.bill ELSE NoLink,
                                       !.order = IF x.order \in OrderIds(k) THEN x.order ELSE NoLink]]
<1>1. Relinked(ls, k) = {f[x] : x \in ls}
  BY DEF Relinked
<1>2. ASSUME NEW x \in ls
      PROVE  /\ f[x].id = x.id /\ f[x].kind = x.kind /\ f[x].sup = x.sup /\ f[x].amt = x.amt
             /\ f[x].bill = IF x.bill \in DOMAIN k.bills THEN x.bill ELSE NoLink
    BY DEF Lines, IsLine
<1> HIDE DEF f
<1>3. LineIds(Relinked(ls, k)) = LineIds(ls)
  BY <1>1, <1>2 DEF LineIds
<1>4. \A x \in ls : Linked(f[x]) => Linked(x) /\ f[x].bill = x.bill
  BY <1>2 DEF Linked
<1>5. \A x \in ls : Fit(f[x], d, m, B)
  BY <1>2, <1>4 DEF Good, Fit
<1>6. Own(Relinked(ls, k)) /\ OneBill(Relinked(ls, k))
  <2>1. Own(Relinked(ls, k))
    BY <1>1, <1>2 DEF Good, Own
  <2>2. ASSUME NEW x \in ls, NEW y \in ls, Linked(f[x]), f[x].bill = f[y].bill PROVE f[x] = f[y]
    <3>1. Linked(f[y])
      BY <2>2 DEF Linked
    <3>2. x = y
      BY <1>4, <2>2, <3>1 DEF Good, OneBill
    <3>3. QED
      BY <3>2
  <2>3. QED
    BY <1>1, <2>1, <2>2 DEF OneBill
<1>7. Bills(ls) \subseteq DOMAIN k.bills /\ AllLinked(ls) => AllLinked(Relinked(ls, k))
  BY <1>1, <1>2 DEF AllLinked, Linked, Bills
<1>8. QED
  BY <1>1, <1>3, <1>5, <1>6, <1>7, RelinkedBills DEF Good

(* Days with the same ids and bills, which fit, agree as well.             *)
LEMMA SameAgree ==
  ASSUME NEW f, NEW g, NEW m, NEW B, NEW P, Agree(f, m, B, P), SameSets(f, g),
         \A d \in Dates : Good(g[d], d, m, B) /\ (P => AllLinked(g[d]))
  PROVE  Agree(g, m, B, P)
<1>1. P => \A b \in DOMAIN m.bills \ B : m.bills[b].kind = "invoice" => \E d \in Dates : b \in Bills(g[d])
  BY DEF Agree, SameSets
<1>2. \A d, e \in Dates : d # e => Bills(g[d]) \cap Bills(g[e]) = {} /\ LineIds(g[d]) \cap LineIds(g[e]) = {}
  BY DEF Agree, SameSets
<1>3. QED
  BY <1>1, <1>2 DEF Agree

(* So do days that keep the links the API has.                             *)
LEMMA RelinkedAgree ==
  ASSUME NEW m, IsBook(m), NEW k, IsBook(k), NEW f, NEW g, NEW B, NEW P, Agree(f, m, B, P),
         \A d \in Dates : \/ g[d] = f[d]
                          \/ Lines(f[d]) /\ Bills(f[d]) \subseteq DOMAIN k.bills /\ g[d] = Relinked(f[d], k)
  PROVE  Agree(g, m, B, P) /\ SameSets(f, g)
<1>1. ASSUME NEW d \in Dates
      PROVE  /\ Good(g[d], d, m, B) /\ (P => AllLinked(g[d]))
             /\ Bills(g[d]) = Bills(f[d]) /\ LineIds(g[d]) = LineIds(f[d])
  <2>1. Good(f[d], d, m, B) /\ (P => AllLinked(f[d]))
    BY DEF Agree
  <2>2. CASE g[d] = f[d]
    BY <2>1, <2>2
  <2>3. CASE Lines(f[d]) /\ Bills(f[d]) \subseteq DOMAIN k.bills /\ g[d] = Relinked(f[d], k)
    <3>1. Bills(f[d]) \cap DOMAIN k.bills = Bills(f[d])
      BY <2>3
    <3>2. QED
      BY <2>1, <2>3, <3>1, RelinkedIsGood
  <2>4. QED
    BY <2>2, <2>3
<1>2. SameSets(f, g)
  BY <1>1 DEF SameSets
<1>3. QED
  BY <1>1, <1>2, SameAgree

(* Where links are dropped, the days agree but for lines that have none.   *)
LEMMA DroppedAgree ==
  ASSUME NEW m, NEW k, IsBook(k), NEW f, NEW g, NEW B, Agree(f, m, B, FALSE),
         \A d \in Dates : g[d] = f[d] \/ (Lines(f[d]) /\ g[d] = Relinked(f[d], k))
  PROVE  Agree(g, m, B, FALSE)
<1>1. ASSUME NEW d \in Dates
      PROVE  /\ Good(g[d], d, m, B)
             /\ Bills(g[d]) \subseteq Bills(f[d]) /\ LineIds(g[d]) = LineIds(f[d])
  <2>1. Good(f[d], d, m, B)
    BY DEF Agree
  <2>2. CASE g[d] = f[d]
    BY <2>1, <2>2
  <2>3. CASE Lines(f[d]) /\ g[d] = Relinked(f[d], k)
    BY <2>1, <2>3, RelinkedIsGood
  <2>4. QED
    BY <2>2, <2>3
<1>2. \A d, e \in Dates : d # e => Bills(g[d]) \cap Bills(g[e]) = {} /\ LineIds(g[d]) \cap LineIds(g[e]) = {}
  BY <1>1 DEF Agree
<1>3. QED
  BY <1>1, <1>2 DEF Agree

(* The bills of a day are bills of the cashbook it fits.                   *)
LEMMA BillsOfGood ==
  ASSUME NEW ls, NEW d, NEW m, NEW B, Good(ls, d, m, B)
  PROVE  Bills(ls) \subseteq DOMAIN m.bills
  BY DEF Good, Fit, Bills, Linked

(* What the days will be, by what is under way.                            *)
LEMMA SentNow ==
  ASSUME NEW o, o.step \notin {"staff", "commit", "put"}, NEW map, NEW d \in Dates
  PROVE  Sent(o, map)[d] = map[d].lines
  BY DEF Sent

(* The day of a form has the lines it sends.                              *)
LEMMA SentCommit ==
  ASSUME NEW o, o.step \in {"staff", "commit"}, NEW map, NEW d \in Dates
  PROVE  Sent(o, map)[d] = IF d = o.date THEN o.lines ELSE map[d].lines
  BY DEF Sent

(* The day of a row has its lines.                                         *)
LEMMA SentOne ==
  ASSUME NEW o, o.step = "put", NEW r, o.rows = <<r>>, NEW map, NEW d \in Dates
  PROVE  Sent(o, map)[d] = IF d = r[1] THEN r[2] ELSE map[d].lines
  BY DEF Sent

(* So do the days of two rows, the first one if they are one.              *)
LEMMA SentTwo ==
  ASSUME NEW o, o.step = "put", NEW r, NEW q, o.rows = <<r, q>>, NEW map, NEW d \in Dates
  PROVE  Sent(o, map)[d] = IF d = r[1] THEN r[2] ELSE IF d = q[1] THEN q[2] ELSE map[d].lines
  BY DEF Sent

(* A day has its lines, or those that replace them.                        *)
LEMMA SentEither ==
  ASSUME NEW o, NEW map, NEW less, NEW d \in Dates
  PROVE  \/ Sent(o, map)[d] = Sent(o, less)[d]
         \/ Sent(o, map)[d] = map[d].lines /\ Sent(o, less)[d] = less[d].lines
  BY DEF Sent

(* A cashbook that changed: its days agree with it if their lines fit, and *)
(* it has no purchase it did not have.                                     *)
LEMMA OtherAgrees ==
  ASSUME NEW f, NEW m, NEW B, NEW P, Agree(f, m, B, P), NEW g, \A d \in Dates : g[d] = f[d], NEW n, NEW C,
         \A d \in Dates : \A x \in f[d] : Fit(x, d, m, B) => Fit(x, d, n, C),
         \A b \in DOMAIN n.bills \ C : n.bills[b].kind = "invoice" =>
           b \in DOMAIN m.bills \ B /\ m.bills[b].kind = "invoice"
  PROVE  Agree(g, n, C, P)
<1>1. ASSUME NEW d \in Dates PROVE Good(g[d], d, n, C)
  BY DEF Agree, Good
<1>2. ASSUME P, NEW b \in DOMAIN n.bills \ C, n.bills[b].kind = "invoice" PROVE \E d \in Dates : b \in Bills(g[d])
  BY <1>2 DEF Agree
<1>3. QED
  BY <1>1, <1>2 DEF Agree

(* A day that lost lines of exempt bills alone still agrees.               *)
LEMMA FewerAgree ==
  ASSUME NEW f, NEW m, NEW B, NEW P, Agree(f, m, B, P), NEW d \in Dates, NEW ls, Good(ls, d, m, B),
         P => AllLinked(ls), Bills(ls) \subseteq Bills(f[d]), LineIds(ls) \subseteq LineIds(f[d]),
         Bills(f[d]) \ Bills(ls) \subseteq B,
         NEW g, \A e \in Dates : g[e] = IF e = d THEN ls ELSE f[e]
  PROVE  Agree(g, m, B, P)
<1>1. ASSUME NEW e \in Dates PROVE Good(g[e], e, m, B) /\ (P => AllLinked(g[e]))
  BY DEF Agree
<1>2. \A e \in Dates : Bills(g[e]) \subseteq Bills(f[e]) /\ LineIds(g[e]) \subseteq LineIds(f[e])
  OBVIOUS
<1>3. ASSUME P, NEW b \in DOMAIN m.bills \ B, m.bills[b].kind = "invoice" PROVE \E e \in Dates : b \in Bills(g[e])
  <2>1. PICK e \in Dates : b \in Bills(f[e])
    BY <1>3 DEF Agree
  <2>2. b \in Bills(g[e])
    BY <2>1
  <2>3. QED
    BY <2>2
<1>4. \A e, h \in Dates : e # h => Bills(g[e]) \cap Bills(g[h]) = {} /\ LineIds(g[e]) \cap LineIds(g[h]) = {}
  BY <1>2 DEF Agree
<1>5. QED
  BY <1>1, <1>3, <1>4 DEF Agree

(* One day's lines are replaced, and its bills with them.                  *)
LEMMA ReplacedAgree ==
  ASSUME NEW f, NEW m, IsBook(m), NEW P, Agree(f, m, {}, P), NEW d \in Dates, NEW ls, NEW n,
         Good(ls, d, n, {}), AllLinked(ls),
         LET untouched == DOMAIN m.bills \ Bills(f[d])
         IN  /\ DOMAIN n.bills = untouched \cup Bills(ls) /\ untouched \cap Bills(ls) = {}
             /\ \A b \in untouched : n.bills[b] = m.bills[b],
         NEW g, \A e \in Dates : g[e] = IF e = d THEN ls ELSE f[e],
         \A e \in Dates \ {d} : LineIds(ls) \cap LineIds(f[e]) = {}
  PROVE  Agree(g, n, {}, P)
<1> DEFINE untouched == DOMAIN m.bills \ Bills(f[d])
<1>1. ASSUME NEW e \in Dates \ {d} PROVE Bills(f[e]) \subseteq untouched
  <2>1. Bills(f[e]) \subseteq DOMAIN m.bills
    BY BillsOfGood DEF Agree
  <2>2. QED
    BY <2>1 DEF Agree
<1>2. ASSUME NEW e \in Dates PROVE Good(g[e], e, n, {})
  <2>1. CASE e = d
    BY <2>1
  <2>2. CASE e # d
    <3>1. Good(f[e], e, m, {})
      BY DEF Agree
    <3>2. \A x \in f[e] : Linked(x) => x.bill \in untouched
      BY <1>1, <2>2 DEF Linked, Bills
    <3>3. \A x \in f[e] : Fit(x, e, n, {})
      BY <3>1, <3>2 DEF Good, Fit
    <3>4. QED
      BY <2>2, <3>1, <3>3 DEF Good
  <2>3. QED
    BY <2>1, <2>2
<1>3. \A e, h \in Dates : e # h => Bills(g[e]) \cap Bills(g[h]) = {} /\ LineIds(g[e]) \cap LineIds(g[h]) = {}
  <2>1. ASSUME NEW e \in Dates, NEW h \in Dates \ {d}, e # h
        PROVE  Bills(g[e]) \cap Bills(g[h]) = {} /\ LineIds(g[e]) \cap LineIds(g[h]) = {}
    <3>1. CASE e = d
      BY <1>1, <2>1, <3>1
    <3>2. CASE e # d
      BY <2>1, <3>2 DEF Agree
    <3>3. QED
      BY <3>1, <3>2
  <2>2. QED
    BY <2>1
<1>4. ASSUME P, NEW b \in DOMAIN n.bills, n.bills[b].kind = "invoice" PROVE \E e \in Dates : b \in Bills(g[e])
  <2>1. CASE b \in Bills(ls)
    BY <2>1
  <2>2. CASE b \in untouched
    <3>1. PICK e \in Dates : b \in Bills(f[e])
      BY <1>4, <2>2 DEF Agree
    <3>2. QED
      BY <2>2, <3>1
  <2>3. QED
    BY <2>1, <2>2
<1>5. P => \A e \in Dates : AllLinked(g[e])
  BY DEF Agree
<1>6. QED
  BY <1>2, <1>3, <1>4, <1>5 DEF Agree

-----------------------------------------------------------------------------
(* Each step keeps form, drawer and API agreed. *)

(* At first there is nothing to agree on.                                  *)
LEMMA InitAgrees == Init => Agreed
<1> SUFFICES ASSUME Init PROVE Agreed
  OBVIOUS
<1>1. /\ DOMAIN book.bills = {} /\ mem = book /\ cache = days /\ op.step = "idle"
      /\ \A d \in Dates : days[d].lines = {} /\ ~days[d].locked
  BY DEF Init, Idle
<1> DEFINE f == Sent(op, days)
<1>2. \A d \in Dates : f[d] = {}
  BY <1>1, SentNow
<1>3. Exempt(op) = {}
  BY <1>1 DEF Exempt
<1>4. Bills({}) = {} /\ LineIds({}) = {}
  BY DEF Bills, LineIds
<1> HIDE DEF f
<1>5. Agree(f, mem, {}, mode.prompt) /\ SameSets(f, f)
  BY <1>1, <1>2, <1>4 DEF Agree, Good, Own, OneBill, AllLinked, SameSets
<1>6. QED
  BY <1>1, <1>3, <1>5 DEF Agreed, Unlocked, f

(* A saved cashbook has the bills of all lines, so no link is dropped.     *)
LEMMA PersistAgrees ==
  ASSUME IInv, Agreed, Persist
  PROVE  Agreed'
<1> DEFINE P == mode.prompt
           f == Sent(op, days)
           g == Sent(op, days')
           c == Sent(op, cache)
<1>1. /\ book' = mem /\ mem' = mem /\ cache' = cache /\ op' = op /\ mode' = mode
      /\ \A d \in Dates : days'[d].lines = Relinked(days[d].lines, mem) /\ (days'[d].locked <=> days[d].locked)
  BY DEF Persist, Store, Step, DaysWith, IInv, TypeInv, AreDays
<1>2. Agree(f, mem, Exempt(op), P) /\ IsBook(mem)
  BY DEF Agreed, IInv, TypeInv
<1>3. ASSUME NEW d \in Dates
      PROVE  \/ g[d] = f[d]
             \/ Lines(f[d]) /\ Bills(f[d]) \subseteq DOMAIN mem.bills /\ g[d] = Relinked(f[d], mem)
  <2>1. \/ f[d] = g[d]
        \/ f[d] = days[d].lines /\ g[d] = days'[d].lines
    BY SentEither
  <2>2. Bills(f[d]) \subseteq DOMAIN mem.bills
    BY <1>2, BillsOfGood DEF Agree
  <2>3. Lines(days[d].lines)
    BY DEF IInv, TypeInv, AreDays
  <2> HIDE DEF f, g
  <2>4. QED
    BY <1>1, <2>1, <2>2, <2>3
<1> HIDE DEF f, g, c, P
<1>4. Agree(g, mem, Exempt(op), P) /\ SameSets(f, g)
  BY <1>2, <1>3, RelinkedAgree
<1>5. op.step \notin {"staff", "commit"} => Agree(c, mem, Exempt(op), P) /\ SameSets(g, c)
  BY <1>4 DEF Agreed, SameSets, f, c, P
<1>6. op.step \in {"unlink", "strip"} => Clears(op, mem, days')
  <2>1. \A d \in Dates : Bills(days'[d].lines) \subseteq Bills(days[d].lines)
    BY <1>1, <1>2, RelinkedBills DEF IInv, TypeInv, AreDays
  <2>2. op.step \in {"unlink", "strip"} => Clears(op, mem, days)
    BY DEF Agreed
  <2>3. QED
    BY <2>1, <2>2 DEF Clears
<1>7. op.step = "strip" => /\ Agree(ReadLines(op), mem, op.bills, P) /\ SameSets(g, ReadLines(op))
                           /\ \A d \in Dates : ~op.read[d].locked
  BY <1>4 DEF Agreed, SameSets, f, P
<1>8. /\ Unlocked(mem) /\ \A d \in Dates : ~days'[d].locked
      /\ op.step = "load" => Brings(op, mem)
  BY <1>1 DEF Agreed
<1>9. QED
  BY <1>1, <1>4, <1>5, <1>6, <1>7, <1>8 DEF Agreed, g, c, P

(* What the form makes of a day's lines: they keep their ids, or are new.  *)
LEMMA EditedOwn ==
  ASSUME AreDays(days), AreDays(cache), OthersAre, NEW d \in Dates, Own(cache[d].lines),
         NEW ls \in Edited(cache[d].lines)
  PROVE  Own(ls) /\ LineIds(ls) \subseteq LineIds(cache[d].lines) \cup {FreeLineId}
<1> DEFINE prior == cache[d].lines
<1>1. \A x \in prior : x.id # FreeLineId
  BY FreeLineIdIsNew DEF UsedLineIds
<1>2. CASE ls \in OneMore(prior)
  <2>1. PICK k, s, a : ls = prior \cup {Line(FreeLineId, k, s, a, NoLink, NoLink)}
    BY <1>2 DEF OneMore
  <2>2. Line(FreeLineId, k, s, a, NoLink, NoLink).id = FreeLineId
    BY DEF Line
  <2>3. QED
    BY <1>1, <2>1, <2>2 DEF Own, LineIds
<1>3. CASE ls \in OneChanged(prior)
  <2>1. PICK x \in prior, s \in Suppliers, a \in Amounts : ls = (prior \ {x}) \cup {Entered(x, s, a)}
    BY <1>3 DEF OneChanged
  <2>2. Entered(x, s, a).id = x.id
    BY DEF AreDays, Lines, IsLine, Entered
  <2>3. QED
    BY <2>1, <2>2 DEF Own, LineIds
<1>4. CASE ls \in OneLess(prior) \/ ls = prior
  BY <1>4 DEF OneLess, Own, LineIds
<1>5. QED
  BY <1>2, <1>3, <1>4 DEF Edited

(* The form's day, once saved, agrees with the cashbook it comes with.     *)
LEMMA HandleSaveAgrees ==
  ASSUME IInv, Agreed, NEW d \in Dates, handleSave(d)
  PROVE  Agreed'
<1>1. PICK ls \in Edited(cache[d].lines) :
        /\ mem' = syncDailyExpenseLedgerLinks(mem, cache[d].lines, ls, d).book
        /\ op' = [step |-> "staff", date |-> d,
                  lines |-> syncDailyExpenseLedgerLinks(mem, cache[d].lines, ls, d).lines]
        /\ UNCHANGED <<book, days, cache, mode>>
        /\ op = Idle /\ dirty'
  BY DEF handleSave, Act
<1> DEFINE prior == cache[d].lines
           posted == syncDailyExpenseLedgerLinks(mem, prior, ls, d)
           sent == posted.lines
           f == Sent(op, days)
           c == Sent(op, cache)
           g == Sent(op', days')
           untouched == DOMAIN mem.bills \ Bills(f[d])
           P == mode.prompt
<1>2. op.step = "idle" /\ Exempt(op) = {}
  BY <1>1 DEF Idle, Exempt
<1>3. \A e \in Dates : f[e] = days[e].lines /\ c[e] = cache[e].lines
  BY <1>2, SentNow
<1>4. Agree(f, mem, {}, P) /\ Agree(c, mem, {}, P) /\ SameSets(f, c)
  BY <1>2 DEF Agreed
<1>5. Good(prior, d, mem, {}) /\ Bills(prior) = Bills(f[d]) /\ LineIds(prior) = LineIds(f[d])
  BY <1>3, <1>4 DEF Agree, SameSets
<1>6. Lines(ls) /\ Own(ls) /\ LineIds(ls) \subseteq LineIds(prior) \cup {FreeLineId}
  <2>1. AreDays(days) /\ AreDays(cache) /\ OthersAre /\ Lines(prior) /\ Own(prior)
    BY <1>5 DEF IInv, TypeInv, AreDays, Good
  <2>2. QED
    BY <2>1, EditedAreLines, EditedOwn
<1>7. /\ Unlocked(posted.book)
      /\ Good(sent, d, posted.book, {}) /\ AllLinked(sent) /\ LineIds(sent) = LineIds(ls)
      /\ DOMAIN posted.book.bills = untouched \cup Bills(sent) /\ untouched \cap Bills(sent) = {}
      /\ \A b \in untouched : posted.book.bills[b] = mem.bills[b]
  <2>1. IsBook(mem) /\ Unlocked(mem)
    BY DEF IInv, TypeInv, Agreed
  <2> HIDE DEF prior
  <2>2. QED
    BY <1>5, <1>6, <2>1, PostedFits
<1> HIDE DEF posted
<1>8. op'.step = "staff" /\ op'.date = d /\ op'.lines = sent /\ mem' = posted.book
  BY <1>1 DEF posted
<1>9. \A e \in Dates : g[e] = IF e = d THEN sent ELSE f[e]
  BY <1>1, <1>3, <1>8, SentCommit
<1>10. \A e \in Dates \ {d} : LineIds(sent) \cap LineIds(f[e]) = {}
  <2>1. \A e \in Dates : FreeLineId \notin LineIds(f[e])
    BY <1>3, FreeLineIdIsNew DEF IInv, TypeInv, UsedLineIds, LineIds
  <2>2. QED
    BY <1>4, <1>5, <1>6, <1>7, <2>1 DEF Agree
<1> HIDE DEF f, g, prior, c, sent, P
<1>11. Agree(g, mem', {}, P)
  <2>1. IsBook(mem)
    BY DEF IInv, TypeInv
  <2>2. QED
    BY <1>4, <1>7, <1>8, <1>9, <1>10, <2>1, ReplacedAgree
<1>12. Exempt(op') = {}
  BY <1>8 DEF Exempt
<1>13. QED
  BY <1>1, <1>7, <1>8, <1>11, <1>12 DEF Agreed, g, P

(* The day is sent with the cashbook as it is.                             *)
LEMMA SendDayAgrees ==
  ASSUME IInv, Agreed, SendDay
  PROVE  Agreed'
<1> DEFINE f == Sent(op, days)
           g == Sent(op', days')
<1>1. /\ op.step = "staff" /\ op'.step = "commit" /\ op'.date = op.date /\ op'.lines = op.lines
      /\ UNCHANGED <<book, days, mem, cache, mode>>
  BY DEF SendDay, Step
<1>2. \A d \in Dates : g[d] = f[d]
  BY <1>1, SentCommit
<1>3. Exempt(op) = {} /\ Exempt(op') = {}
  BY <1>1 DEF Exempt
<1> HIDE DEF f, g
<1>4. Agree(f, mem, {}, mode.prompt)
  BY <1>3 DEF Agreed, f
<1>5. Agree(g, mem, {}, mode.prompt)
  BY <1>2, <1>4 DEF Agree
<1>6. QED
  BY <1>1, <1>3, <1>5 DEF Agreed, g

(* Once a transaction is answered, terminal and API have the same.         *)
LEMMA ReadAgainAgrees ==
  ASSUME ReadAgain, NEW g, \A d \in Dates : days'[d].lines = g[d] /\ ~days'[d].locked,
         Agree(g, mem', {}, mode'.prompt), Unlocked(mem')
  PROVE  Agreed'
<1> DEFINE h == Sent(op', days')
<1>1. op'.step = "idle" /\ mem' = book' /\ cache' = days'
  BY DEF ReadAgain, Idle
<1>2. \A d \in Dates : h[d] = g[d]
  BY <1>1, SentNow
<1>3. Exempt(op') = {}
  BY <1>1 DEF Exempt
<1> HIDE DEF h
<1>4. Agree(h, mem', {}, mode'.prompt) /\ SameSets(h, h)
  BY <1>2 DEF Agree, SameSets
<1>5. QED
  BY <1>1, <1>3, <1>4 DEF Agreed, h

(* Day and cashbook are saved at once.                                     *)
LEMMA CommitAgrees ==
  ASSUME IInv, Agreed, mode.patient, commitDailyEntry
  PROVE  Agreed'
<1> DEFINE f == Sent(op, days)
           g == [d \in Dates |-> days'[d].lines]
           now == DaysWith(days, mem)
           sent == Relinked(op.lines, mem)
<1>1. /\ op.step = "commit" /\ book' = mem /\ ReadAgain /\ mem' = mem /\ mode' = mode
      /\ days' = [now EXCEPT ![op.date].lines = sent]
  BY DEF commitDailyEntry, ReadAgain, Step, IInv, OpHas, SentHas
<1>2. Agree(f, mem, {}, mode.prompt) /\ IsBook(mem) /\ op.date \in Dates /\ Lines(op.lines)
  BY <1>1 DEF Agreed, IInv, TypeInv, OpIs, PostIs, Exempt
<1>3. /\ DOMAIN now = Dates
      /\ \A d \in Dates : /\ DOMAIN now[d] = {"lines", "locked"}
                          /\ now[d].lines = Relinked(days[d].lines, mem) /\ (now[d].locked <=> days[d].locked)
  BY DEF DaysWith, IInv, TypeInv, AreDays
<1> HIDE DEF now, sent
<1>4. \A d \in Dates : /\ days'[d].lines = IF d = op.date THEN sent ELSE now[d].lines
                       /\ (days'[d].locked <=> now[d].locked)
  BY <1>1, <1>2, <1>3
<1>5. ASSUME NEW d \in Dates
      PROVE  Lines(f[d]) /\ Bills(f[d]) \subseteq DOMAIN mem.bills /\ days'[d].lines = Relinked(f[d], mem)
  <2>1. f[d] = IF d = op.date THEN op.lines ELSE days[d].lines
    BY <1>1, SentCommit
  <2>2. Lines(days[d].lines)
    BY DEF IInv, TypeInv, AreDays
  <2>3. Bills(f[d]) \subseteq DOMAIN mem.bills
    BY <1>2, BillsOfGood DEF Agree
  <2> HIDE DEF f
  <2>4. QED
    BY <1>2, <1>3, <1>4, <2>1, <2>2, <2>3 DEF sent
<1>6. \A d \in Dates : g[d] = Relinked(f[d], mem) /\ days'[d].lines = g[d]
  BY <1>5
<1> HIDE DEF f, g
<1>7. Agree(g, mem, {}, mode.prompt)
  BY <1>2, <1>5, <1>6, RelinkedAgree
<1>8. Unlocked(mem') /\ \A d \in Dates : ~days'[d].locked
  BY <1>1, <1>3, <1>4 DEF Agreed, Unlocked
<1>9. QED
  BY <1>1, <1>6, <1>7, <1>8, ReadAgainAgrees

(* A deleted day takes its bills with it, and no other day has them.       *)
LEMMA DeleteDayAgrees ==
  ASSUME IInv, Agreed, NEW d \in Dates, executeDeleteHistoryEntry(d)
  PROVE  Agreed'
<1> DEFINE f == Sent(op, days)
           now == DaysWith(days, mem)
           f1 == [e \in Dates |-> now[e].lines]
           mine == {x \in now[d].lines : Linked(x) /\ ~Locked(mem, x.bill)}
           gone == {x \in mine : \A e \in Dates \ {d} : ~HasLine(now, e, x.bill)}
           bs == {x.bill : x \in gone}
           rest == [bills |-> WithoutBills(mem, bs), orders |-> WithoutOrders(mem, {x.order : x \in gone})]
           left == DaysWith(now, rest)
           h == [e \in Dates |-> IF e = d THEN {} ELSE now[e].lines]
           g == [e \in Dates |-> days'[e].lines]
           P == mode.prompt
<1>1. book' = rest /\ days' = [left EXCEPT ![d].lines = {}] /\ ReadAgain /\ op = Idle /\ mode' = mode
  BY DEF executeDeleteHistoryEntry, Act
<1>2. op.step = "idle" /\ Exempt(op) = {}
  BY <1>1 DEF Idle, Exempt
<1>3. IsBook(mem) /\ Unlocked(mem) /\ Agree(f, mem, {}, P)
  BY <1>2 DEF IInv, TypeInv, Agreed
<1>4. AreDays(now) /\ \A e \in Dates : now[e].lines = Relinked(days[e].lines, mem) /\ (now[e].locked <=> days[e].locked)
  <2>1. \A e \in Dates : now[e].lines = Relinked(days[e].lines, mem) /\ (now[e].locked <=> days[e].locked)
    BY DEF DaysWith, IInv, TypeInv, AreDays
  <2>2. AreDays(now)
    BY <1>3, DaysWithBills DEF IInv, TypeInv
  <2> HIDE DEF now
  <2>3. QED
    BY <2>1, <2>2
<1>5. ASSUME NEW e \in Dates
      PROVE  Lines(f[e]) /\ Bills(f[e]) \subseteq DOMAIN mem.bills /\ f1[e] = Relinked(f[e], mem)
  <2>1. f[e] = days[e].lines
    BY <1>2, SentNow
  <2>2. Lines(days[e].lines)
    BY DEF IInv, TypeInv, AreDays
  <2>3. Bills(f[e]) \subseteq DOMAIN mem.bills
    BY <1>3, BillsOfGood DEF Agree
  <2> HIDE DEF f, now
  <2>4. QED
    BY <1>4, <2>1, <2>2, <2>3
<1>6. Agree(f1, mem, {}, P)
  <2> HIDE DEF f, f1
  <2>1. QED
    BY <1>3, <1>5, RelinkedAgree
<1>7. \A e \in Dates : f1[e] = now[e].lines
  OBVIOUS
<1>8. \A x \in now[d].lines : Linked(x) => ~Locked(mem, x.bill) /\ \A e \in Dates \ {d} : ~HasLine(now, e, x.bill)
  <2>1. \A x \in f1[d] : Linked(x) => x.bill \in Bills(f1[d])
    BY DEF Bills, Linked
  <2> HIDE DEF f1, now
  <2>2. \A e \in Dates \ {d} : Bills(f1[d]) \cap Bills(f1[e]) = {}
    BY <1>6 DEF Agree
  <2>3. \A e \in Dates : \A b : HasLine(now, e, b) => b \in Bills(f1[e]) \/ b = NoLink
    BY <1>7 DEF HasLine, Bills
  <2>4. QED
    BY <1>3, <1>7, <2>1, <2>2, <2>3 DEF Linked, Unlocked, Locked
<1>9. bs = Bills(f1[d])
  <2>1. gone = {x \in now[d].lines : Linked(x)}
    BY <1>8
  <2> HIDE DEF gone, now
  <2>2. QED
    BY <2>1 DEF Bills, Linked
<1>10. /\ IsBook(rest) /\ DOMAIN rest.bills = DOMAIN mem.bills \ bs
       /\ \A b \in DOMAIN rest.bills : rest.bills[b] = mem.bills[b]
  <2>1. DOMAIN rest = {"bills", "orders"} /\ rest.bills = WithoutBills(mem, bs)
    OBVIOUS
  <2>2. IsBook(mem)
    BY <1>3
  <2> HIDE DEF rest, bs
  <2>3. QED
    BY <2>1, <2>2, WithoutSome
<1> HIDE DEF rest, bs, gone, mine
<1>11. Good({}, d, rest, {}) /\ AllLinked({}) /\ Bills({}) = {} /\ LineIds({}) = {}
  BY DEF Good, Own, OneBill, AllLinked, Bills, LineIds
<1>12. \A e \in Dates : h[e] = IF e = d THEN {} ELSE f1[e]
  OBVIOUS
<1> HIDE DEF f1, h
<1>13. Agree(h, rest, {}, P)
  <2>1. IsBook(mem)
    BY <1>3
  <2>2. LET untouched == DOMAIN mem.bills \ Bills(f1[d])
        IN  /\ DOMAIN rest.bills = untouched \cup Bills({}) /\ untouched \cap Bills({}) = {}
            /\ \A b \in untouched : rest.bills[b] = mem.bills[b]
    BY <1>9, <1>10, <1>11
  <2>3. \A e \in Dates \ {d} : LineIds({}) \cap LineIds(f1[e]) = {}
    BY <1>11
  <2>4. QED
    BY <1>6, <1>11, <1>12, <2>1, <2>2, <2>3, ReplacedAgree
<1> HIDE DEF now
<1>14. /\ DOMAIN left = Dates
       /\ \A e \in Dates : /\ DOMAIN left[e] = {"lines", "locked"}
                           /\ left[e].lines = Relinked(now[e].lines, rest) /\ (left[e].locked <=> now[e].locked)
  BY <1>4 DEF DaysWith, AreDays
<1> HIDE DEF left
<1>15. \A e \in Dates : /\ days'[e].lines = IF e = d THEN {} ELSE Relinked(now[e].lines, rest)
                        /\ ~days'[e].locked
  BY <1>1, <1>4, <1>14 DEF Agreed
<1>16. ASSUME NEW e \in Dates
       PROVE  \/ g[e] = h[e]
              \/ Lines(h[e]) /\ Bills(h[e]) \subseteq DOMAIN rest.bills /\ g[e] = Relinked(h[e], rest)
  <2>1. CASE e = d
    BY <1>12, <1>15, <2>1
  <2>2. CASE e # d
    <3>1. h[e] = now[e].lines /\ g[e] = Relinked(now[e].lines, rest)
      BY <1>7, <1>12, <1>15, <2>2
    <3>2. Lines(h[e])
      BY <1>4, <3>1 DEF AreDays
    <3>3. Bills(h[e]) \subseteq DOMAIN rest.bills
      BY <1>13, BillsOfGood DEF Agree
    <3> HIDE DEF g
    <3>4. QED
      BY <3>1, <3>2, <3>3
  <2>3. QED
    BY <2>1, <2>2
<1>17. \A e \in Dates : days'[e].lines = g[e] /\ ~days'[e].locked
  BY <1>15
<1> HIDE DEF g
<1>18. Agree(g, rest, {}, P)
  BY <1>10, <1>13, <1>16, RelinkedAgree
<1>19. mem' = rest /\ Unlocked(mem')
  BY <1>1, <1>3, <1>10 DEF ReadAgain, Unlocked
<1>20. QED
  BY <1>1, <1>17, <1>18, <1>19, ReadAgainAgrees

(* With the days as they were, and nothing on its way to them before.      *)
LEMMA SameDaysAgree ==
  ASSUME Agreed, op = Idle, UNCHANGED <<days, cache, mode>>,
         op'.step \in {"idle", "load", "unlink"}, NEW n, Unlocked(n), mem' = n, ~dirty' => book' = n,
         \A d \in Dates : \A x : Fit(x, d, mem, {}) => Fit(x, d, n, Exempt(op')),
         \A b \in DOMAIN n.bills \ Exempt(op') : n.bills[b].kind = "invoice" =>
           b \in DOMAIN mem.bills /\ mem.bills[b].kind = "invoice",
         op'.step = "load" => Brings(op', n),
         op'.step = "unlink" => Clears(op', n, days)
  PROVE  Agreed'
<1> DEFINE P == mode.prompt
           f == Sent(op, days)
           c == Sent(op, cache)
           g == Sent(op', days')
           h == Sent(op', cache')
<1>1. op.step = "idle" /\ Exempt(op) = {}
  BY DEF Idle, Exempt
<1>2. Agree(f, mem, {}, P) /\ Agree(c, mem, {}, P) /\ SameSets(f, c)
  BY <1>1 DEF Agreed
<1>3. \A d \in Dates : g[d] = f[d] /\ h[d] = c[d]
  BY <1>1, SentNow
<1> HIDE DEF f, c, g, h, P
<1>4. Agree(g, n, Exempt(op'), P) /\ Agree(h, n, Exempt(op'), P)
  BY <1>2, <1>3, OtherAgrees
<1>5. SameSets(g, h)
  BY <1>2, <1>3 DEF SameSets
<1>6. \A d \in Dates : ~days'[d].locked
  BY DEF Agreed
<1>7. QED
  BY <1>4, <1>5, <1>6 DEF Agreed, g, h, P

(* A new bill: a purchase is now to be brought to its day.                 *)
LEMMA SaveNewAgrees ==
  ASSUME IInv, Agreed, NEW k, NEW s, NEW d \in Dates, NEW a, saveNew(k, s, d, a)
  PROVE  Agreed'
<1> DEFINE new == commitLedgerEntryDraft(mem, k, s, d, a)
           n == new.bill
<1>1. /\ mem' = new.book /\ dirty' /\ UNCHANGED <<book, days, cache, mode>> /\ op = Idle
      /\ op' = IF k = "invoice"
               THEN [step |-> "load", bill |-> n, order |-> new.order, sup |-> s, date |-> d, amt |-> a]
               ELSE Idle
  BY DEF saveNew, ToDays, Act
<1>2. /\ n \notin DOMAIN mem.bills
      /\ DOMAIN new.book.bills = DOMAIN mem.bills \cup {n}
      /\ \A c \in DOMAIN mem.bills : new.book.bills[c] = mem.bills[c]
      /\ IsOf(new.book.bills[n], k, s, d, a)
  BY DraftIs DEF IInv, TypeInv
<1> HIDE DEF new, n
<1>3. /\ op'.step \in {"idle", "load"}
      /\ Exempt(op') = IF k = "invoice" THEN {n} ELSE {}
      /\ op'.step = "load" => k = "invoice" /\ op'.bill = n /\ op'.date = d /\ op'.sup = s /\ op'.amt = a
  BY <1>1 DEF Idle, Exempt
<1>4. Unlocked(mem')
  BY <1>1, <1>2 DEF Agreed, Unlocked, IsOf
<1>5. \A e \in Dates : \A x : Fit(x, e, mem, {}) => Fit(x, e, mem', Exempt(op'))
  BY <1>1, <1>2 DEF Fit
<1>6. \A b \in DOMAIN mem'.bills \ Exempt(op') : mem'.bills[b].kind = "invoice" =>
        b \in DOMAIN mem.bills /\ mem.bills[b].kind = "invoice"
  BY <1>1, <1>2, <1>3 DEF IsOf
<1>7. op'.step = "load" => Brings(op', mem')
  BY <1>1, <1>2, <1>3 DEF IsOf, Brings
<1>8. QED
  BY <1>1, <1>3, <1>4, <1>5, <1>6, <1>7, SameDaysAgree

(* An edited bill: a purchase is to be brought to its new day.             *)
LEMMA SaveEditedAgrees ==
  ASSUME IInv, Agreed, NEW b \in DOMAIN mem.bills, NEW s, NEW d \in Dates, NEW a, saveEdited(b, s, d, a)
  PROVE  Agreed'
<1> DEFINE F == mem.bills
           k == F[b].kind
           n == updateLedgerEntryDraft(mem, b, s, d, a)
<1>1. /\ mem' = n /\ dirty' /\ UNCHANGED <<book, days, cache, mode>> /\ op = Idle
      /\ IF k = "invoice" THEN \E o : op' = [step |-> "load", bill |-> b, order |-> o, sup |-> s, date |-> d, amt |-> a]
         ELSE op' = Idle
  BY DEF saveEdited, ToDays, Act
<1>2. DOMAIN n.bills = DOMAIN F /\ \A c \in DOMAIN F \ {b} : n.bills[c] = F[c]
  BY UpdatedIsBook DEF IInv, TypeInv
<1>3. /\ n.bills[b].kind = k /\ n.bills[b].date = d /\ n.bills[b].sup = s /\ n.bills[b].amt = a
      /\ n.bills[b].locked <=> F[b].locked
  <2>1. n.bills[b] = [F[b] EXCEPT !.sup = s, !.date = d, !.amt = a]
    BY DEF updateLedgerEntryDraft
  <2>2. IsBill(F[b])
    BY DEF IInv, TypeInv, IsBook
  <2> HIDE DEF n
  <2>3. QED
    BY <2>1, <2>2 DEF IsBill
<1> HIDE DEF n
<1>4. /\ op'.step \in {"idle", "load"}
      /\ Exempt(op') = IF k = "invoice" THEN {b} ELSE {}
      /\ op'.step = "load" => k = "invoice" /\ op'.bill = b /\ op'.date = d /\ op'.sup = s /\ op'.amt = a
  BY <1>1 DEF Idle, Exempt
<1>5. Unlocked(mem')
  BY <1>1, <1>2, <1>3 DEF Agreed, Unlocked
<1>6. \A e \in Dates : \A x : Fit(x, e, mem, {}) => Fit(x, e, mem', Exempt(op'))
  BY <1>1, <1>2, <1>3, <1>4 DEF Fit
<1>7. \A c \in DOMAIN mem'.bills \ Exempt(op') : mem'.bills[c].kind = "invoice" =>
        c \in DOMAIN F /\ F[c].kind = "invoice"
  BY <1>1, <1>2, <1>3, <1>4
<1>8. op'.step = "load" => Brings(op', mem')
  BY <1>1, <1>2, <1>3, <1>4 DEF Brings
<1>9. QED
  BY <1>1, <1>4, <1>5, <1>6, <1>7, <1>8, SameDaysAgree

(* Bills about to be removed, whose lines are to leave the days first.     *)
LEMMA RemovalAgrees ==
  ASSUME Agreed, op = Idle, UNCHANGED <<book, days, mem, dirty, cache, mode>>,
         NEW bs, NEW sup, op' = Unlinking(bs, sup, bs), bs \subseteq DOMAIN mem.bills,
         sup # {} => bs = BillsOf(mem, sup)
  PROVE  Agreed'
<1>1. op'.step = "unlink" /\ op'.bills = bs /\ op'.left = bs /\ op'.sup = sup
  BY DEF Unlinking
<1>2. Unlocked(mem) /\ mem' = mem /\ (~dirty' => book' = mem) /\ Exempt(op') = bs
  BY <1>1 DEF Agreed, Exempt, Idle
<1>3. \A d \in Dates : \A x : Fit(x, d, mem, {}) => Fit(x, d, mem, Exempt(op'))
  BY DEF Fit
<1>4. Clears(op', mem, days)
  BY <1>1 DEF Clears
<1>5. QED
  BY <1>1, <1>2, <1>3, <1>4, SameDaysAgree

(* One bill is to be removed.                                              *)
LEMMA RemoveEntryAgrees ==
  ASSUME Agreed, NEW b \in DOMAIN mem.bills, removeEntry(b)
  PROVE  Agreed'
<1>1. op = Idle /\ UNCHANGED <<book, days, mem, dirty, cache, mode>> /\ op' = Unlinking({b}, {}, {b})
  BY DEF removeEntry, Act
<1>2. QED
  BY <1>1, RemovalAgrees

(* A whole cashbook is to be removed.                                      *)
LEMMA DeleteCashbookAgrees ==
  ASSUME Agreed, NEW s, confirmDeleteCashbook(s)
  PROVE  Agreed'
<1> DEFINE bs == BillsOf(mem, {s})
<1>1. op = Idle /\ UNCHANGED <<book, days, mem, dirty, cache, mode>> /\ op' = Unlinking(bs, {s}, bs)
  BY DEF confirmDeleteCashbook, Act
<1>2. bs \subseteq DOMAIN mem.bills
  BY DEF BillsOf
<1> HIDE DEF bs
<1>3. {s} # {} => bs = BillsOf(mem, {s})
  BY DEF bs
<1>4. QED
  BY <1>1, <1>2, <1>3, RemovalAgrees

(* Bills whose lines have left the days are removed.                       *)
LEMMA RemoveUnlinkedAgrees ==
  ASSUME IInv, Agreed, removeUnlinked
  PROVE  Agreed'
<1> DEFINE P == mode.prompt
           f == Sent(op, days)
           c == Sent(op, cache)
           g == Sent(op', days')
           h == Sent(op', cache')
           B == op.bills
<1>1. op.step = "unlink" /\ op.left = {} /\ op' = Idle /\ UNCHANGED <<book, days, cache, mode>>
  BY DEF removeUnlinked, Step
<1>2. Clears(op, mem, days)
  BY <1>1 DEF Agreed
<1>3. Leaving = B /\ \A b \in Leaving : ~Locked(mem, b)
  BY <1>2 DEF Leaving, Clears, Agreed, Unlocked, Locked
<1>4. /\ DOMAIN mem'.bills = DOMAIN mem.bills \ B /\ \A b \in DOMAIN mem'.bills : mem'.bills[b] = mem.bills[b]
      /\ ~dirty' => book' = mem'
  <2>1. CASE (Leaving = {} \/ \E b \in Leaving : Locked(mem, b)) /\ UNCHANGED <<mem, dirty>>
    BY <1>1, <1>3, <2>1 DEF Agreed
  <2>2. CASE dirty' /\ DOMAIN mem' = {"bills", "orders"} /\ mem'.bills = WithoutBills(mem, Leaving)
    <3>1. IsBook(mem)
      BY DEF IInv, TypeInv
    <3> HIDE DEF B
    <3>2. QED
      BY <1>3, <2>2, <3>1, WithoutSome
  <2>3. QED
    BY <2>1, <2>2, UnlinkedAre
<1>5. op'.step = "idle" /\ Exempt(op) = B /\ Exempt(op') = {}
  BY <1>1 DEF Idle, Exempt
<1>6. Agree(f, mem, B, P) /\ Agree(c, mem, B, P) /\ SameSets(f, c)
  BY <1>1, <1>5 DEF Agreed
<1>7. \A d \in Dates : f[d] = days[d].lines /\ g[d] = f[d] /\ h[d] = c[d]
  BY <1>1, <1>5, SentNow
<1> HIDE DEF f, c, g, h, P, B
<1>8. \A d \in Dates : Bills(f[d]) \cap B = {} /\ Bills(c[d]) \cap B = {}
  BY <1>1, <1>2, <1>6, <1>7 DEF Clears, SameSets, B
<1>9. \A d \in Dates : \A x : Fit(x, d, mem, B) /\ (Linked(x) => x.bill \notin B) => Fit(x, d, mem', {})
  BY <1>4 DEF Fit
<1>10. \A d \in Dates : /\ \A x \in f[d] : Fit(x, d, mem, B) => Fit(x, d, mem', {})
                        /\ \A x \in c[d] : Fit(x, d, mem, B) => Fit(x, d, mem', {})
  BY <1>8, <1>9 DEF Bills, Linked
<1>11. \A b \in DOMAIN mem'.bills \ {} : mem'.bills[b].kind = "invoice" =>
         b \in DOMAIN mem.bills \ B /\ mem.bills[b].kind = "invoice"
  BY <1>4
<1>12. Agree(g, mem', {}, P)
  BY <1>6, <1>7, <1>10, <1>11, OtherAgrees
<1>13. Agree(h, mem', {}, P)
  BY <1>6, <1>7, <1>10, <1>11, OtherAgrees
<1>14. SameSets(g, h)
  BY <1>6, <1>7 DEF SameSets
<1>15. Unlocked(mem') /\ \A d \in Dates : ~days'[d].locked
  BY <1>1, <1>4 DEF Agreed, Unlocked
<1>16. QED
  BY <1>1, <1>4, <1>5, <1>12, <1>13, <1>14, <1>15 DEF Agreed, g, h, P

(* A removal goes on to the next day or bill, with days that agree, its    *)
(* own as it read them among them.                                         *)
LEMMA StrippingAgrees ==
  ASSUME Agreed, OpIs(op), op.step \in {"unlink", "strip"}, op.left # {},
         NEW read, op' = Stripping(read), UNCHANGED <<book, mem, dirty, mode>>,
         \A d \in Dates : ~days'[d].locked /\ ~read[d].locked,
         NEW g, NEW h, NEW p, \A d \in Dates : g[d] = days'[d].lines /\ h[d] = cache'[d].lines /\ p[d] = read[d].lines,
         Agree(g, mem, op.bills, mode.prompt), Agree(h, mem, op.bills, mode.prompt),
         Agree(p, mem, op.bills, mode.prompt), SameSets(g, h), SameSets(g, p),
         \A d \in Dates : Bills(g[d]) \cap (op.bills \ op.left) = {}
  PROVE  Agreed'
<1> DEFINE P == mode.prompt
           b == Max(op.left)
           sent == Sent(op', days')
           had == Sent(op', cache')
           left == ReadLines(op')
<1>1. b \in op.left /\ b # NoLink
  <2>1. op.left \in SUBSET Nat /\ IsFiniteSet(op.left) /\ NoLink \notin op.left
    BY DEF OpIs, UnlinkIs
  <2>2. Max(op.left) \in op.left
    BY <2>1, MaxIsMax
  <2>3. QED
    BY <2>1, <2>2
<1>2. /\ op'.step \in {"unlink", "strip"} /\ op'.bills = op.bills /\ op'.sup = op.sup
      /\ op'.step = "strip" => op'.left = op.left /\ op'.read = read
      /\ op'.step = "unlink" => op'.left = op.left \ {b} /\ \A d \in Dates : ~HasLine(read, d, b)
  BY DEF Stripping, Unlinking
<1> HIDE DEF b, P, sent, had, left
<1>3. Exempt(op') = op.bills
  BY <1>2 DEF Exempt
<1>4. \A d \in Dates : sent[d] = g[d] /\ had[d] = h[d]
  <2>1. op'.step \notin {"staff", "commit", "put"}
    BY <1>2
  <2>2. QED
    BY <2>1, SentNow DEF sent, had
<1>5. Agree(sent, mem, op.bills, P) /\ Agree(had, mem, op.bills, P) /\ SameSets(sent, had)
  <2>1. Agree(g, mem, op.bills, P) /\ Agree(h, mem, op.bills, P)
    BY DEF P
  <2>2. Agree(sent, mem, op.bills, P)
    BY <1>4, <2>1 DEF Agree
  <2>3. Agree(had, mem, op.bills, P)
    BY <1>4, <2>1 DEF Agree
  <2>4. QED
    BY <1>4, <2>2, <2>3 DEF SameSets
<1>6. Clears(op', mem, days')
  <2>1. Clears(op, mem, days)
    BY DEF Agreed
  <2>2. op'.step = "unlink" => \A d \in Dates : b \notin Bills(g[d])
    <3>1. \A d \in Dates : ~HasLine(read, d, b) => b \notin Bills(p[d])
      BY DEF HasLine, Bills
    <3>2. QED
      BY <1>2, <3>1 DEF SameSets
  <2>3. \A d \in Dates : Bills(days'[d].lines) \cap (op'.bills \ op'.left) = {}
    BY <1>2, <2>2
  <2>4. op'.left \subseteq op'.bills
    BY <1>2, <2>1 DEF Clears
  <2>5. QED
    BY <1>2, <2>1, <2>3, <2>4 DEF Clears
<1>7. op'.step = "strip" => /\ Agree(left, mem, op.bills, P) /\ SameSets(sent, left)
                            /\ \A d \in Dates : ~op'.read[d].locked
  <2>1. op'.step = "strip" => \A d \in Dates : left[d] = p[d]
    BY <1>2 DEF left, ReadLines
  <2>2. Agree(p, mem, op.bills, P)
    BY DEF P
  <2>3. op'.step = "strip" => Agree(left, mem, op.bills, P)
    BY <2>1, <2>2 DEF Agree
  <2>4. op'.step = "strip" => SameSets(sent, left)
    BY <1>4, <2>1 DEF SameSets
  <2>5. QED
    BY <1>2, <2>3, <2>4
<1>8. Unlocked(mem) /\ (~dirty' => book' = mem)
  BY DEF Agreed
<1>9. QED
  BY <1>2, <1>3, <1>5, <1>6, <1>7, <1>8 DEF Agreed, P, sent, had, left

(* For a bill to be removed the days are read.                             *)
LEMMA UnlinkAgrees ==
  ASSUME IInv, Agreed, unlinkDailyExpenseLinesForLedgerEntry
  PROVE  Agreed'
<1> DEFINE f == Sent(op, days)
<1>1. /\ op.step = "unlink" /\ op.left # {} /\ op' = Stripping(days)
      /\ UNCHANGED <<book, days, mem, dirty, mode>> /\ cache' = days
  BY DEF unlinkDailyExpenseLinesForLedgerEntry, Step
<1>2. \A d \in Dates : f[d] = days[d].lines
  BY <1>1, SentNow
<1>3. Exempt(op) = op.bills
  BY <1>1 DEF Exempt
<1> HIDE DEF f
<1>4. Agree(f, mem, op.bills, mode.prompt)
  BY <1>3 DEF Agreed, f
<1>5. \A d \in Dates : f[d] = days'[d].lines /\ f[d] = cache'[d].lines
  BY <1>1, <1>2
<1>6. SameSets(f, f) /\ \A d \in Dates : Bills(f[d]) \cap (op.bills \ op.left) = {}
  BY <1>1, <1>2 DEF SameSets, Agreed, Clears
<1>7. OpIs(op) /\ \A d \in Dates : ~days'[d].locked /\ ~days[d].locked
  BY <1>1 DEF IInv, TypeInv, Agreed
<1>8. QED
  BY <1>1, <1>2, <1>4, <1>5, <1>6, <1>7, StrippingAgrees

(* A line that leaves a day is of a bill about to be removed.              *)
LEMMA StripAgrees ==
  ASSUME IInv, Agreed, NEW d \in Dates, stripLinkedLines(d)
  PROVE  Agreed'
<1> DEFINE P == mode.prompt
           B == op.bills
           b == Max(op.left)
           kept == {x \in op.read[d].lines : x.bill # b}
           ls == Relinked(kept, book)
           read == [op.read EXCEPT ![d].lines = kept]
           f == Sent(op, days)
           c == Sent(op, cache)
           r == ReadLines(op)
           g == [e \in Dates |-> IF e = d THEN ls ELSE f[e]]
           h == [e \in Dates |-> IF e = d THEN ls ELSE c[e]]
           p == [e \in Dates |-> IF e = d THEN kept ELSE r[e]]
<1>1. /\ op.step = "strip" /\ op' = Stripping(read) /\ UNCHANGED <<book, mem, dirty, mode>>
      /\ days' = [days EXCEPT ![d].lines = ls] /\ cache' = [cache EXCEPT ![d] = days'[d]]
  BY DEF stripLinkedLines, Step, Agreed
<1>2. OpIs(op) /\ AreDays(op.read) /\ op.left # {} /\ B \subseteq DOMAIN mem.bills /\ b \in B
  <2>1. OpIs(op) /\ AreDays(op.read) /\ op.left # {}
    BY <1>1 DEF IInv, TypeInv, OpIs, StripIs
  <2>2. op.left \in SUBSET Nat /\ IsFiniteSet(op.left)
    BY <1>1, <2>1 DEF OpIs, UnlinkIs
  <2>3. Max(op.left) \in op.left
    BY <2>1, <2>2, MaxIsMax
  <2>4. Clears(op, mem, days)
    BY <1>1 DEF Agreed
  <2>5. QED
    BY <2>1, <2>3, <2>4 DEF Clears
<1>3. \A e \in Dates : f[e] = days[e].lines /\ c[e] = cache[e].lines /\ r[e] = op.read[e].lines
  BY <1>1, SentNow DEF ReadLines
<1>4. Exempt(op) = B
  BY <1>1 DEF Exempt
<1> HIDE DEF f, c, r, b, P
<1>5. /\ Agree(f, mem, B, P) /\ Agree(c, mem, B, P) /\ Agree(r, mem, B, P)
      /\ SameSets(f, c) /\ SameSets(f, r)
  BY <1>1, <1>4 DEF Agreed, f, c, r, P
<1>6. /\ Lines(kept) /\ kept \subseteq r[d] /\ Bills(kept) \subseteq Bills(r[d]) /\ Bills(r[d]) \ Bills(kept) \subseteq {b}
      /\ LineIds(kept) \subseteq LineIds(r[d])
  <2>1. Lines(op.read[d].lines) /\ r[d] = op.read[d].lines
    BY <1>2, <1>3 DEF AreDays
  <2>2. Lines(kept)
    BY <2>1, PartOfLines
  <2>3. QED
    BY <2>1, <2>2 DEF Bills, LineIds
<1>7. Good(kept, d, mem, B) /\ (P => AllLinked(kept))
  <2>1. Good(r[d], d, mem, B) /\ (P => AllLinked(r[d]))
    BY <1>5 DEF Agree
  <2> HIDE DEF kept
  <2>2. QED
    BY <1>6, <2>1 DEF Good, Own, OneBill, AllLinked
<1> HIDE DEF kept
<1>8. Bills(kept) \subseteq DOMAIN book.bills
  <2>1. Bills(f[d]) \subseteq DOMAIN book.bills
    BY <1>3 DEF IInv, Links
  <2>2. Bills(r[d]) = Bills(f[d])
    BY <1>5 DEF SameSets
  <2>3. QED
    BY <1>6, <2>1, <2>2
<1>9. /\ Good(ls, d, mem, B) /\ (P => AllLinked(ls)) /\ Bills(ls) = Bills(kept) /\ LineIds(ls) = LineIds(kept)
  <2>1. IsBook(book)
    BY DEF IInv, TypeInv
  <2>2. Bills(kept) \cap DOMAIN book.bills = Bills(kept)
    BY <1>8
  <2>3. QED
    BY <1>6, <1>7, <1>8, <2>1, <2>2, RelinkedIsGood
<1> HIDE DEF ls
<1>10. /\ \A e \in Dates : g[e] = IF e = d THEN ls ELSE f[e]
       /\ \A e \in Dates : h[e] = IF e = d THEN ls ELSE c[e]
       /\ \A e \in Dates : p[e] = IF e = d THEN kept ELSE r[e]
  OBVIOUS
<1>11. \A e \in Dates : Bills(f[e]) = Bills(r[e]) /\ Bills(c[e]) = Bills(r[e])
                        /\ LineIds(f[e]) = LineIds(r[e]) /\ LineIds(c[e]) = LineIds(r[e])
  BY <1>5 DEF SameSets
<1> HIDE DEF g, h, p, B
<1>12. Bills(r[d]) \ Bills(kept) \subseteq B
  BY <1>2, <1>6
<1>13. Agree(p, mem, B, P)
  BY <1>5, <1>6, <1>7, <1>10, <1>12, FewerAgree
<1>14. Bills(ls) \subseteq Bills(r[d]) /\ LineIds(ls) \subseteq LineIds(r[d]) /\ Bills(r[d]) \ Bills(ls) \subseteq B
  BY <1>6, <1>9, <1>12
<1>15. Agree(g, mem, B, P)
  BY <1>5, <1>9, <1>10, <1>11, <1>14, FewerAgree
<1>16. Agree(h, mem, B, P)
  BY <1>5, <1>9, <1>10, <1>11, <1>14, FewerAgree
<1>17. SameSets(g, h) /\ SameSets(g, p)
  BY <1>9, <1>10, <1>11 DEF SameSets
<1>18. \A e \in Dates : /\ g[e] = days'[e].lines /\ h[e] = cache'[e].lines /\ p[e] = read[e].lines
                        /\ ~days'[e].locked /\ ~read[e].locked
  <2>1. /\ days'[d].lines = ls /\ (days'[d].locked <=> days[d].locked) /\ cache'[d] = days'[d]
        /\ \A e \in Dates \ {d} : days'[e] = days[e] /\ cache'[e] = cache[e]
    BY <1>1 DEF IInv, TypeInv, AreDays
  <2>2. /\ read[d].lines = kept /\ (read[d].locked <=> op.read[d].locked)
        /\ \A e \in Dates \ {d} : read[e] = op.read[e]
    BY <1>2 DEF AreDays
  <2> HIDE DEF read
  <2>3. \A e \in Dates : ~days[e].locked /\ ~op.read[e].locked
    BY <1>1 DEF Agreed
  <2>4. QED
    BY <1>3, <1>10, <2>1, <2>2, <2>3
<1>19. \A e \in Dates : Bills(g[e]) \cap (op.bills \ op.left) = {}
  <2>1. \A e \in Dates : Bills(g[e]) \subseteq Bills(f[e])
    BY <1>10, <1>11, <1>14
  <2>2. \A e \in Dates : Bills(f[e]) \cap (op.bills \ op.left) = {}
    BY <1>1, <1>3 DEF Agreed, Clears
  <2>3. QED
    BY <2>1, <2>2
<1> HIDE DEF read
<1>20. /\ Agree(g, mem, op.bills, mode.prompt) /\ Agree(h, mem, op.bills, mode.prompt)
       /\ Agree(p, mem, op.bills, mode.prompt)
  BY <1>13, <1>15, <1>16 DEF B, P
<1>21. QED
  BY <1>1, <1>2, <1>17, <1>18, <1>19, <1>20, StrippingAgrees

(* One row to be sent, or two of different days; the rest without one.     *)
IsRows(o, r, q) == o.step = "put" /\ (o.rows = <<r>> \/ (o.rows = <<r, q>> /\ r[1] # q[1]))
IsRest(n, o) ==
  IF Tail(o.rows) = << >> THEN n.step = "idle" ELSE n.step = "put" /\ n.rows = Tail(o.rows)

(* What is left to be sent once the first row is saved.                    *)
LEMMA RowSaved ==
  ASSUME NEW o, NEW r, NEW q, IsRows(o, r, q), NEW n, IsRest(n, o), NEW k,
         NEW map, NEW next, next[r[1]].lines = Relinked(r[2], k), \A e \in Dates \ {r[1]} : next[e] = map[e]
  PROVE  /\ n.step \in {"idle", "put"}
         /\ \A e \in Dates : Sent(n, next)[e] = IF e = r[1] THEN Relinked(Sent(o, map)[e], k) ELSE Sent(o, map)[e]
         /\ r[1] \in Dates => Sent(o, map)[r[1]] = r[2]
<1>1. CASE o.rows = <<r>>
  <2>1. n.step = "idle"
    BY <1>1, TailOfOne DEF IsRest
  <2>2. \A e \in Dates : Sent(n, next)[e] = next[e].lines
    BY <2>1, SentNow
  <2>3. \A e \in Dates : Sent(o, map)[e] = IF e = r[1] THEN r[2] ELSE map[e].lines
    BY <1>1, SentOne DEF IsRows
  <2>4. QED
    BY <2>1, <2>2, <2>3
<1>2. CASE o.rows = <<r, q>> /\ r[1] # q[1]
  <2>1. Tail(o.rows) = <<q>> /\ <<q>> # << >>
    BY <1>2, TailOfTwo
  <2>2. n.step = "put" /\ n.rows = <<q>>
    BY <2>1 DEF IsRest
  <2>3. \A e \in Dates : Sent(n, next)[e] = IF e = q[1] THEN q[2] ELSE next[e].lines
    BY <2>2, SentOne
  <2>4. \A e \in Dates : Sent(o, map)[e] = IF e = r[1] THEN r[2] ELSE IF e = q[1] THEN q[2] ELSE map[e].lines
    BY <1>2, SentTwo DEF IsRows
  <2>5. QED
    BY <1>2, <2>2, <2>3, <2>4
<1>3. QED
  BY <1>1, <1>2 DEF IsRows

(* A row is saved: after the cashbook, where the API has the bills of its  *)
(* lines, or else links are dropped of bills it does not have yet.         *)
LEMMA SaveDayAgrees ==
  ASSUME IInv, Agreed, mode.patient, saveDailyEntry
  PROVE  Agreed'
<1> DEFINE P == mode.prompt
           r == op.rows[1]
           q == op.rows[2]
           d == r[1]
           ls == Relinked(r[2], book)
           f == Sent(op, days)
           c == Sent(op, cache)
           g == Sent(op', days')
           h == Sent(op', cache')
<1>1. /\ op.step = "put" /\ DOMAIN op = {"step", "bill", "rows"}
      /\ \/ op.rows = <<r>> /\ OneRow(days, op.bill, r)
         \/ op.rows = <<r, q>> /\ TwoRows(days, op.bill, r, q)
  BY DEF saveDailyEntry, IInv, TypeInv, OpIs, PutIs, OpHas, PutHas
<1>2. d \in Dates /\ Lines(r[2])
  BY <1>1 DEF OneRow, TwoRows, RowHas
<1>3. Head(op.rows) = r
  BY <1>1
<1>4. /\ days' = [days EXCEPT ![d].lines = ls] /\ cache' = [cache EXCEPT ![d] = days'[d]]
      /\ op' = IF Tail(op.rows) = << >> THEN Idle ELSE [op EXCEPT !.rows = Tail(op.rows)]
      /\ UNCHANGED <<book, mem, dirty, mode>> /\ (P => ~dirty)
  BY <1>3 DEF saveDailyEntry, Step
<1> HIDE DEF r, q, ls
<1>5. IsRows(op, r, q) /\ IsRest(op', op)
  BY <1>1, <1>4 DEF TwoRows, IsRows, IsRest, Idle
<1>6. /\ days'[d].lines = ls /\ cache'[d].lines = ls /\ (days'[d].locked <=> days[d].locked)
      /\ \A e \in Dates \ {d} : days'[e] = days[e] /\ cache'[e] = cache[e]
  BY <1>2, <1>4 DEF IInv, TypeInv, AreDays
<1>7. /\ op'.step \in {"idle", "put"} /\ f[d] = r[2]
      /\ \A e \in Dates : g[e] = IF e = d THEN Relinked(f[e], book) ELSE f[e]
  <2>1. days'[r[1]].lines = Relinked(r[2], book) /\ \A e \in Dates \ {r[1]} : days'[e] = days[e]
    BY <1>6 DEF ls
  <2>2. /\ op'.step \in {"idle", "put"}
        /\ \A e \in Dates : Sent(op', days')[e] = IF e = r[1] THEN Relinked(Sent(op, days)[e], book) ELSE Sent(op, days)[e]
        /\ r[1] \in Dates => Sent(op, days)[r[1]] = r[2]
    BY <1>5, <2>1, RowSaved
  <2>3. QED
    BY <1>2, <2>2
<1>8. c[d] = r[2] /\ \A e \in Dates : h[e] = IF e = d THEN Relinked(c[e], book) ELSE c[e]
  <2>1. cache'[r[1]].lines = Relinked(r[2], book) /\ \A e \in Dates \ {r[1]} : cache'[e] = cache[e]
    BY <1>6 DEF ls
  <2>2. /\ op'.step \in {"idle", "put"}
        /\ \A e \in Dates : Sent(op', cache')[e] = IF e = r[1] THEN Relinked(Sent(op, cache)[e], book) ELSE Sent(op, cache)[e]
        /\ r[1] \in Dates => Sent(op, cache)[r[1]] = r[2]
    BY <1>5, <2>1, RowSaved
  <2>3. QED
    BY <1>2, <2>2
<1>9. IsBook(mem) /\ IsBook(book) /\ (~dirty => mem = book)
  BY <1>1 DEF Agreed, IInv, TypeInv
<1>10. Exempt(op) = {} /\ Exempt(op') = {}
  BY <1>1, <1>7 DEF Exempt
<1> HIDE DEF f, c, g, h, P
<1>11. Agree(f, mem, {}, P) /\ Agree(c, mem, {}, P) /\ SameSets(f, c)
  BY <1>1, <1>10 DEF Agreed, f, c, P
<1>12. Agree(g, mem, {}, P) /\ Agree(h, mem, {}, P)
  <2>1. CASE P
    <3>1. Bills(r[2]) \subseteq DOMAIN book.bills
      BY <1>2, <1>4, <1>7, <1>9, <1>11, <2>1, BillsOfGood DEF Agree
    <3>2. \A e \in Dates : \/ g[e] = f[e]
                           \/ Lines(f[e]) /\ Bills(f[e]) \subseteq DOMAIN book.bills /\ g[e] = Relinked(f[e], book)
      BY <1>2, <1>7, <3>1
    <3>3. \A e \in Dates : \/ h[e] = c[e]
                           \/ Lines(c[e]) /\ Bills(c[e]) \subseteq DOMAIN book.bills /\ h[e] = Relinked(c[e], book)
      BY <1>2, <1>8, <3>1
    <3>4. Agree(g, mem, {}, P)
      BY <1>9, <1>11, <3>2, RelinkedAgree
    <3>5. Agree(h, mem, {}, P)
      BY <1>9, <1>11, <3>3, RelinkedAgree
    <3>6. QED
      BY <3>4, <3>5
  <2>2. CASE ~P
    <3>1. Agree(f, mem, {}, FALSE) /\ Agree(c, mem, {}, FALSE)
      BY <1>11 DEF Agree
    <3>2. \A e \in Dates : g[e] = f[e] \/ (Lines(f[e]) /\ g[e] = Relinked(f[e], book))
      BY <1>2, <1>7
    <3>3. \A e \in Dates : h[e] = c[e] \/ (Lines(c[e]) /\ h[e] = Relinked(c[e], book))
      BY <1>2, <1>8
    <3>4. Agree(g, mem, {}, FALSE)
      BY <1>9, <3>1, <3>2, DroppedAgree
    <3>5. Agree(h, mem, {}, FALSE)
      BY <1>9, <3>1, <3>3, DroppedAgree
    <3>6. QED
      BY <2>2, <3>4, <3>5 DEF Agree
  <2>3. QED
    BY <2>1, <2>2
<1>13. SameSets(g, h)
  BY <1>7, <1>8, <1>11 DEF SameSets
<1>14. Unlocked(mem') /\ \A e \in Dates : ~days'[e].locked
  BY <1>4, <1>6 DEF Agreed, Unlocked
<1>15. QED
  BY <1>4, <1>7, <1>9, <1>10, <1>12, <1>13, <1>14 DEF Agreed, g, h, P

(* The lines of a day that are not of a bill.                              *)
Others(ls, b) == {x \in ls : x.bill # b}

(* A line of a bill with an id of its own is brought to its day, off every *)
(* other.                                                                  *)
IsBrought(g, f, b, d, line) ==
  /\ \A e \in Dates : \A x \in f[e] : x.bill # b => x.id # line.id
  /\ \A e \in Dates : g[e] = IF e = d THEN Others(f[e], b) \cup {line} ELSE Others(f[e], b)

(* It fits its bill there, as the others do theirs.                        *)
LEMMA BroughtAgrees ==
  ASSUME NEW m, IsBook(m), NEW b, b # NoLink, NEW f, NEW P, Agree(f, m, {b}, P),
         NEW d \in Dates, NEW line, line.bill = b, Fit(line, d, m, {}),
         NEW g, IsBrought(g, f, b, d, line)
  PROVE  Agree(g, m, {}, P)
<1> DEFINE w(e) == Others(f[e], b)
<1>1. \A e \in Dates : g[e] = IF e = d THEN w(e) \cup {line} ELSE w(e)
  BY DEF IsBrought
<1>2. ASSUME NEW e \in Dates
      PROVE  /\ Good(w(e), e, m, {}) /\ Bills(w(e)) = Bills(f[e]) \ {b}
             /\ LineIds(w(e)) \subseteq LineIds(f[e]) /\ line.id \notin LineIds(w(e))
  <2>1. Good(f[e], e, m, {b})
    BY DEF Agree
  <2>2. Good(w(e), e, m, {})
    BY <2>1 DEF Others, Good, Own, OneBill, Fit
  <2>3. QED
    BY <2>2 DEF Others, Bills, LineIds, IsBrought
<1>3. \A x \in w(d) : x.id # line.id /\ x.bill # line.bill /\ (Linked(x) => x.bill \in DOMAIN m.bills)
  BY <1>2 DEF Others, Good, Fit, IsBrought
<1> HIDE DEF w
<1>4. Good(w(d) \cup {line}, d, m, {})
  BY <1>2, <1>3, OneMoreFits
<1>5. /\ Bills(w(d) \cup {line}) = Bills(w(d)) \cup {b}
      /\ LineIds(w(d) \cup {line}) = LineIds(w(d)) \cup {line.id}
  BY DEF Bills, LineIds
<1>6. \A e \in Dates : Good(g[e], e, m, {})
  BY <1>1, <1>2, <1>4
<1>7. ASSUME NEW e \in Dates
      PROVE  /\ Bills(g[e]) = IF e = d THEN (Bills(f[e]) \ {b}) \cup {b} ELSE Bills(f[e]) \ {b}
             /\ LineIds(g[e]) = IF e = d THEN LineIds(w(e)) \cup {line.id} ELSE LineIds(w(e))
  BY <1>1, <1>2, <1>5
<1>8. ASSUME NEW e \in Dates, NEW i \in Dates, e # i
      PROVE  Bills(g[e]) \cap Bills(g[i]) = {} /\ LineIds(g[e]) \cap LineIds(g[i]) = {}
  <2>1. Bills(f[e]) \cap Bills(f[i]) = {} /\ LineIds(f[e]) \cap LineIds(f[i]) = {}
    BY <1>8 DEF Agree
  <2>2. LineIds(w(e)) \cap LineIds(w(i)) = {} /\ line.id \notin LineIds(w(e)) /\ line.id \notin LineIds(w(i))
    BY <1>2, <2>1
  <2>3. Bills(g[e]) \cap Bills(g[i]) = {}
    <3>1. CASE e = d
      BY <1>7, <1>8, <2>1, <3>1
    <3>2. CASE e # d
      BY <1>7, <1>8, <2>1, <3>2
    <3>3. QED
      BY <3>1, <3>2
  <2>4. LineIds(g[e]) \cap LineIds(g[i]) = {}
    <3>1. CASE e = d
      BY <1>7, <1>8, <2>2, <3>1
    <3>2. CASE e # d
      BY <1>7, <1>8, <2>2, <3>2
    <3>3. QED
      BY <3>1, <3>2
  <2>5. QED
    BY <2>3, <2>4
<1>9. ASSUME P, NEW a \in DOMAIN m.bills, m.bills[a].kind = "invoice"
      PROVE  \E e \in Dates : a \in Bills(g[e])
  <2>1. CASE a = b
    BY <1>7, <2>1
  <2>2. CASE a # b
    BY <1>7, <1>9, <2>2 DEF Agree
  <2>3. QED
    BY <2>1, <2>2
<1>10. ASSUME P, NEW e \in Dates PROVE AllLinked(g[e])
  <2>1. AllLinked(w(e))
    BY <1>10 DEF Agree, AllLinked, Others, w
  <2>2. QED
    BY <1>1, <2>1 DEF AllLinked, Linked
<1>11. QED
  BY <1>6, <1>8, <1>9, <1>10 DEF Agree

(* The line of a bill goes to its day with the id it had, or a new one.    *)
LEMMA UpsertAgrees ==
  ASSUME IInv, Agreed, upsertDailyPurchaseFromLedgerInvoice
  PROVE  Agreed'
<1> DEFINE P == mode.prompt
           b == op.bill
           on == {d \in Dates : HasLine(days, d, b)}
           found == IF on = {} THEN op.date ELSE Max(on)
           id == IF on = {} THEN FreeLineId ELSE (CHOOSE x \in days[found].lines : x.bill = b).id
           line == Line(id, "invoice", op.sup, op.amt, b, op.order)
           without(d) == {x \in days[d].lines : x.bill # b}
           lines == without(op.date) \cup {line}
           put == <<op.date, lines>>
           off == <<found, without(found)>>
           rows == Rows(put, IF found = op.date THEN << >> ELSE <<off>>)
           f == Sent(op, days)
           g == Sent(op', days')
<1>1. /\ op.step = "load" /\ cache' = days /\ UNCHANGED <<book, days, mem, dirty, mode>>
      /\ op' = IF days[op.date].locked \/ days[found].locked THEN Idle
               ELSE [step |-> "put", bill |-> b, rows |-> rows]
  BY DEF upsertDailyPurchaseFromLedgerInvoice, Step
<1>2. op.date \in Dates /\ b # NoLink /\ AreDays(days) /\ AreDays(cache) /\ OthersAre /\ IsBook(mem)
  BY <1>1 DEF IInv, TypeInv, OpIs, LoadIs
<1>3. /\ Agree(f, mem, {b}, P) /\ b \in DOMAIN mem.bills
      /\ mem.bills[b].kind = "invoice" /\ mem.bills[b].date = op.date
      /\ mem.bills[b].sup = op.sup /\ mem.bills[b].amt = op.amt
  BY <1>1 DEF Agreed, Exempt, Brings
<1> HIDE DEF f, g, P
<1>4. \A d \in Dates : f[d] = days[d].lines
  BY <1>1, SentNow DEF f
<1>5. on # {} => found \in on
  <2>1. on \in SUBSET Nat /\ IsFiniteSet(on)
    BY DayBooksAssumption, FS_Subset
  <2> HIDE DEF on
  <2>2. QED
    BY <2>1, MaxIsMax
<1>6. \A d \in Dates : d \in on <=> b \in Bills(f[d])
  BY <1>2, <1>4 DEF HasLine, Bills
<1>7. found \in Dates
  <2>1. on \subseteq Dates
    OBVIOUS
  <2> HIDE DEF on
  <2>2. QED
    BY <1>2, <1>5, <2>1
<1>8. ASSUME NEW d \in Dates, d # found PROVE d \notin on
  <2>1. CASE on = {}
    BY <2>1
  <2>2. CASE on # {}
    <3> HIDE DEF on, found, b
    <3>1. found \in on /\ found \in Dates
      BY <1>5, <1>7, <2>2
    <3>2. Bills(f[d]) \cap Bills(f[found]) = {}
      BY <1>3, <1>8, <3>1 DEF Agree
    <3>3. QED
      BY <1>6, <3>1, <3>2
  <2>3. QED
    BY <2>1, <2>2
<1>9. ASSUME NEW d \in Dates, NEW x \in f[d], x.bill # b PROVE x.id # id
  <2>1. CASE on = {}
    <3>1. x.id \in UsedLineIds
      BY <1>4 DEF UsedLineIds
    <3>2. QED
      BY <1>2, <2>1, <3>1, FreeLineIdIsNew
  <2>2. CASE on # {}
    <3> DEFINE y == CHOOSE z \in days[found].lines : z.bill = b
    <3>1. HasLine(days, found, b)
      BY <1>5, <2>2
    <3> HIDE DEF found, on, b
    <3>2. y \in f[found] /\ y.bill = b
      BY <1>4, <1>7, <3>1 DEF HasLine
    <3>3. id = y.id
      BY <2>2
    <3> HIDE DEF y, id
    <3>4. y.id \in LineIds(f[found]) /\ x.id \in LineIds(f[d])
      BY <3>2 DEF LineIds
    <3>5. CASE d = found
      <4>1. Own(f[found])
        BY <1>3, <1>7 DEF Agree, Good
      <4>2. QED
        BY <1>9, <3>2, <3>3, <3>5, <4>1 DEF Own
    <3>6. CASE d # found
      BY <1>3, <1>7, <3>3, <3>4, <3>6 DEF Agree
    <3>7. QED
      BY <3>5, <3>6
  <2>3. QED
    BY <2>1, <2>2
<1>10. line.id = id /\ line.bill = b /\ Fit(line, op.date, mem, {})
  <2> HIDE DEF id, b
  <2>1. /\ line.id = id /\ line.bill = b /\ line.kind = "invoice"
        /\ line.sup = op.sup /\ line.amt = op.amt
    BY DEF Line
  <2>2. QED
    BY <1>3, <2>1 DEF Fit
<1>11. ASSUME NEW d \in Dates, d # found PROVE without(d) = days[d].lines
  BY <1>2, <1>4, <1>6, <1>8, <1>11 DEF Bills
<1> HIDE DEF on, found, id, line
<1>12. op'.step = "put" /\ op'.rows = rows
  <2>1. ~days[op.date].locked /\ ~days[found].locked
    BY <1>2, <1>7 DEF Agreed
  <2> HIDE DEF rows
  <2>2. QED
    BY <1>1, <2>1
<1> HIDE DEF without
<1>13. \A d \in Dates : g[d] = IF d = op.date THEN without(d) \cup {line} ELSE without(d)
  <2>1. put[1] = op.date /\ put[2] = lines /\ off[1] = found /\ off[2] = without(found)
    OBVIOUS
  <2> HIDE DEF put, off
  <2>2. CASE found = op.date
    <3>1. op'.rows = <<put>>
      BY <1>12, <2>2 DEF Rows
    <3>2. \A d \in Dates : g[d] = IF d = put[1] THEN put[2] ELSE days'[d].lines
      BY <1>12, <3>1, SentOne DEF g
    <3>3. QED
      BY <1>1, <1>11, <2>1, <2>2, <3>2
  <2>3. CASE found # op.date
    <3>1. op'.rows = <<put, off>>
      BY <1>12, <2>3, OneAndOne DEF Rows
    <3>2. \A d \in Dates : g[d] = IF d = put[1] THEN put[2] ELSE IF d = off[1] THEN off[2] ELSE days'[d].lines
      BY <1>12, <3>1, SentTwo DEF g
    <3>3. QED
      BY <1>1, <1>11, <2>1, <3>2
  <2>4. QED
    BY <2>2, <2>3
<1>14. \A d \in Dates : g[d] = IF d = op.date THEN Others(f[d], b) \cup {line} ELSE Others(f[d], b)
  BY <1>4, <1>13 DEF without, Others
<1>15. \A d \in Dates : \A x \in f[d] : x.bill # b => x.id # line.id
  BY <1>9, <1>10
<1> HIDE DEF b, rows
<1>16. Agree(g, mem, {}, P)
  <2>1. IsBook(mem) /\ b # NoLink /\ op.date \in Dates
    BY <1>2
  <2>2. Agree(f, mem, {b}, P)
    BY <1>3
  <2>3. line.bill = b /\ Fit(line, op.date, mem, {})
    BY <1>10
  <2>4. IsBrought(g, f, b, op.date, line)
    BY <1>14, <1>15 DEF IsBrought
  <2>5. QED
    BY <2>1, <2>2, <2>3, <2>4, BroughtAgrees
<1>17. Exempt(op') = {} /\ SameSets(g, g)
  BY <1>12 DEF Exempt, SameSets
<1>18. QED
  BY <1>1, <1>12, <1>16, <1>17 DEF Agreed, g, P

(* Nothing is refused where nothing fails or is locked.                    *)
LEMMA NothingFails ==
  ASSUME IInv, Agreed, Sound
  PROVE  ~(StaffFails \/ CommitFails \/ SaveFails \/ UnlinkFails \/ Restart \/ PutAside)
<1>1. ~(StaffFails \/ UnlinkFails \/ Restart \/ PutAside)
  BY DEF Sound, StaffFails, UnlinkFails, Restart, PutAside
<1>2. ~CommitFails
  <2>1. op.step = "commit" => op.date \in Dates
    BY DEF IInv, TypeInv, OpIs, PostIs
  <2>2. QED
    BY <2>1 DEF Sound, Agreed, CommitFails
<1>3. ~SaveFails
  <2>1. op.step = "put" => Head(op.rows)[1] \in Dates
    <3> DEFINE r == op.rows[1]
               q == op.rows[2]
    <3>1. op.step = "put" => \/ op.rows = <<r>> /\ IsRow(r)
                             \/ op.rows = <<r, q>> /\ IsRow(r) /\ IsRow(q)
      BY DEF IInv, TypeInv, OpIs, PutIs
    <3> HIDE DEF r, q
    <3>2. Head(<<r>>) = r /\ Head(<<r, q>>) = r
      OBVIOUS
    <3>3. QED
      BY <3>1, <3>2 DEF IsRow
  <2>2. QED
    BY <2>1 DEF Sound, Agreed, SaveFails
<1>4. QED
  BY <1>1, <1>2, <1>3

(* So they do always, while nothing fails, is locked or interrupted.       *)
LEMMA SoundAlways == Spec => []SoundInv
<1>1. Init => SoundInv
  BY InitAgrees DEF SoundInv
<1>2. IInv /\ SoundInv /\ [Next]_vars => SoundInv'
  <2> SUFFICES ASSUME IInv, SoundInv, [Next]_vars, Sound' PROVE Agreed'
    BY DEF SoundInv
  <2>1. mode' = mode
    BY DEF Next, vars, PutAside, TakeUp, Persist, handleSave, StaffFails, SendDay, commitDailyEntry, CommitFails,
           executeDeleteHistoryEntry, saveNew, saveEdited, upsertDailyPurchaseFromLedgerInvoice,
           saveDailyEntry, SaveFails, removeEntry, confirmDeleteCashbook,
           unlinkDailyExpenseLinesForLedgerEntry, stripLinkedLines, UnlinkFails, removeUnlinked,
           setLedgerEntryLocked, LockDay, Restart, Act, Step
  <2>2. Sound /\ Agreed /\ mode.patient
    BY <2>1 DEF SoundInv, Sound
  <2>3. ASSUME UNCHANGED vars PROVE Agreed'
    BY <2>2, <2>3 DEF vars, Agreed, Unlocked
  <2>4. ~(StaffFails \/ CommitFails \/ SaveFails \/ UnlinkFails \/ Restart \/ PutAside)
    BY <2>2, NothingFails
  <2>5. ASSUME NEW k \in DOMAIN others PROVE FALSE
    <3>1. others = << >>
      BY <2>2 DEF IInv
    <3>2. QED
      BY <2>5, <3>1
  <2>6. ASSUME SendDay \/ Persist \/ commitDailyEntry \/ upsertDailyPurchaseFromLedgerInvoice
               \/ saveDailyEntry \/ unlinkDailyExpenseLinesForLedgerEntry \/ removeUnlinked
        PROVE  Agreed'
    BY <2>2, <2>6, SendDayAgrees, PersistAgrees, CommitAgrees, UpsertAgrees, SaveDayAgrees, UnlinkAgrees,
       RemoveUnlinkedAgrees
  <2>7. ASSUME NEW d \in Dates, handleSave(d) \/ executeDeleteHistoryEntry(d) \/ stripLinkedLines(d)
        PROVE  Agreed'
    BY <2>2, <2>7, HandleSaveAgrees, DeleteDayAgrees, StripAgrees
  <2>8. ASSUME NEW d \in Dates PROVE ~LockDay(d)
    BY <2>2 DEF Sound, LockDay
  <2>9. ASSUME NEW k, NEW s, NEW d \in Dates, NEW a, saveNew(k, s, d, a) PROVE Agreed'
    BY <2>2, <2>9, SaveNewAgrees
  <2>10. ASSUME NEW b \in DOMAIN mem.bills, NEW s, NEW d \in Dates, NEW a, saveEdited(b, s, d, a) PROVE Agreed'
    BY <2>2, <2>10, SaveEditedAgrees
  <2>11. ASSUME NEW b \in DOMAIN mem.bills, removeEntry(b) PROVE Agreed'
    BY <2>2, <2>11, RemoveEntryAgrees
  <2>12. ASSUME NEW b \in DOMAIN mem.bills PROVE ~setLedgerEntryLocked(b)
    BY <2>2 DEF Sound, setLedgerEntryLocked
  <2>13. ASSUME NEW s, confirmDeleteCashbook(s) PROVE Agreed'
    BY <2>2, <2>13, DeleteCashbookAgrees
  <2>14. QED
    BY <2>3, <2>4, <2>5, <2>6, <2>7, <2>8, <2>9, <2>10, <2>11, <2>12, <2>13 DEF Next
<1>3. QED
  BY <1>1, <1>2, Inductive, PTL DEF Spec

(* With nothing under way, days and cashbook agree, whichever of the two   *)
(* the API is sent first: in full where the cashbook always comes before   *)
(* the days of the drawer, and else but for lines whose links it dropped.  *)
THEOREM BooksStayAgreed == Spec => []BooksAgree
<1>1. IInv /\ SoundInv => BooksAgree
  <2> SUFFICES ASSUME IInv, Agreed, op = Idle, ~dirty
               PROVE  /\ \A d \in Dates : \A x \in days[d].lines : Linked(x) =>
                           /\ x.kind = book.bills[x.bill].kind
                           /\ x.kind = "invoice" => /\ book.bills[x.bill].sup = x.sup /\ book.bills[x.bill].amt = x.amt
                                                    /\ book.bills[x.bill].date = d
                      /\ \A x, y \in AllLines : Linked(x) /\ x.bill = y.bill => x = y
                      /\ mode.prompt =>
                           /\ \A x \in AllLines : Linked(x)
                           /\ \A b \in DOMAIN book.bills : book.bills[b].kind = "invoice" => LinesWith(days, b) # {}
    BY DEF SoundInv, BooksAgree, Quiet
  <2> DEFINE f == Sent(op, days)
  <2>1. op.step = "idle" /\ Exempt(op) = {} /\ book = mem
    BY DEF Agreed, Idle, Exempt
  <2>2. Agree(f, book, {}, mode.prompt) /\ IsBook(book)
    BY <2>1 DEF Agreed, IInv, TypeInv
  <2>3. \A d \in Dates : f[d] = days[d].lines
    BY <2>1, SentNow
  <2> HIDE DEF f
  <2>4. ASSUME NEW d \in Dates, NEW x \in days[d].lines
        PROVE  Fit(x, d, book, {}) /\ (Linked(x) => x.bill \in Bills(days[d].lines)) /\ (mode.prompt => Linked(x))
    BY <2>2, <2>3 DEF Agree, Good, AllLinked, Bills, Linked
  <2>5. ASSUME NEW x \in AllLines, NEW y \in AllLines, Linked(x), x.bill = y.bill PROVE x = y
    <3>1. PICK d \in Dates : x \in days[d].lines
      BY DEF AllLines
    <3>2. PICK e \in Dates : y \in days[e].lines
      BY DEF AllLines
    <3>3. Linked(y)
      BY <2>5 DEF Linked
    <3>4. x.bill \in Bills(days[d].lines) /\ x.bill \in Bills(days[e].lines)
      BY <2>4, <2>5, <3>1, <3>2, <3>3
    <3>5. d = e
      BY <2>2, <2>3, <3>4 DEF Agree
    <3>6. QED
      BY <2>2, <2>3, <2>5, <3>1, <3>2, <3>5 DEF Agree, Good, OneBill
  <2>6. mode.prompt => \A x \in AllLines : Linked(x)
    BY <2>4 DEF AllLines
  <2>7. ASSUME mode.prompt, NEW b \in DOMAIN book.bills, book.bills[b].kind = "invoice" PROVE LinesWith(days, b) # {}
    <3>1. PICK d \in Dates : b \in Bills(days[d].lines)
      BY <2>2, <2>3, <2>7 DEF Agree
    <3>2. b # NoLink
      BY <2>2 DEF IsBook
    <3>3. QED
      BY <3>1, <3>2, LinesAreOnSome DEF LinesWith, OnSome
  <2>8. QED
    BY <2>4, <2>5, <2>6, <2>7 DEF Fit
<1>2. QED
  BY <1>1, Inductive, SoundAlways, PTL
=============================================================================
