------------------------- MODULE LedgerBook_proofs -------------------------
(***************************************************************************)
(* What the ledger service promises of its rows, proved of LedgerBook for  *)
(* every set of accounts, amounts, callers and bounds.                     *)
(***************************************************************************)
EXTENDS LedgerBook, Sums_proofs, SequenceTheorems

-----------------------------------------------------------------------------
(* Sums over the rows of a sequence that are in a set.                     *)

AmountsOf(rows) == [i \in DOMAIN rows |-> rows[i].amount]

Where(rows, K) == {i \in DOMAIN rows : rows[i] \in K}

SumIn(rows, K) == SumOver(AmountsOf(rows), Where(rows, K))

Sided(direction) == {e \in Entries : e.direction = direction}

Of(t, direction) == {e \in Entries : e.transaction = t /\ e.direction = direction}

At(a, direction) == {e \in Entries : e.account = a /\ e.direction = direction}

-----------------------------------------------------------------------------
(* The inductive invariant.                                                *)

RowsOK ==
    /\ entries \in Seq(Entries)
    /\ unit \in [Callers -> Seq(Entries)]
    /\ transactions \in 0..MaxTransactions

(* Every transaction id in the table was given out.                        *)
Numbered == \A i \in DOMAIN entries : entries[i].transaction <= transactions

(* Rows that make one posting: one of the first n transactions, one        *)
(* currency, two sides that agree.                                         *)
PostingRows(rows, n) ==
    /\ \E t \in 1..n : \A i \in DOMAIN rows : rows[i].transaction = t
    /\ \E currency \in Currencies : \A i \in DOMAIN rows : rows[i].currency = currency
    /\ SumIn(rows, Sided("Debit")) = SumIn(rows, Sided("Credit"))
    /\ SumIn(rows, Sided("Debit")) > 0

(* A unit of work holds one whole posting or none.                         *)
Staged == \A c \in Callers : unit[c] # <<>> => PostingRows(unit[c], transactions)

Balanced ==
    \A t \in 1..transactions :
        SumIn(entries, Of(t, "Debit")) = SumIn(entries, Of(t, "Credit"))

BookInv == RowsOK /\ Numbered /\ Staged /\ Balanced

-----------------------------------------------------------------------------

(* A side of a posting, a sum over some of its lines, is a sum of Sums.    *)
LEMMA AmountSum ==
    ASSUME NEW lines, NEW S, S \subseteq DOMAIN lines, IsFiniteSet(S)
    PROVE  MapThenSumSet(LAMBDA i : lines[i].amount, S) = SumOver(AmountsOf(lines), S)
  <1> DEFINE First(s) == CHOOSE i \in s : TRUE
             Folds(g) == g = [s \in SUBSET S |->
                 IF s = {} THEN 0 ELSE lines[First(s)].amount + g[s \ {First(s)}]]
  <1>1. MapThenSumSet(LAMBDA i : lines[i].amount, S) = (CHOOSE g : Folds(g))[S]
    BY DEF MapThenSumSet, MapThenFoldSet
  <1>2. ASSUME NEW g PROVE Folds(g) <=> Adds(g, AmountsOf(lines), S)
    <2> DEFINE one(s) == IF s = {} THEN 0 ELSE lines[First(s)].amount + g[s \ {First(s)}]
               two(s) == IF s = {} THEN 0
                         ELSE AmountsOf(lines)[Chosen(s)] + g[s \ {Chosen(s)}]
    <2>1. \A s : First(s) = Chosen(s)
      BY DEF Chosen
    <2>2. \A s \in SUBSET S : s # {} => AmountsOf(lines)[Chosen(s)] = lines[Chosen(s)].amount
      BY DEF AmountsOf, Chosen
    <2>3. \A s \in SUBSET S : one(s) = two(s)
      <3> HIDE DEF First
      <3> QED BY <2>1, <2>2
    <2>4. [s \in SUBSET S |-> one(s)] = [s \in SUBSET S |-> two(s)]
      <3> HIDE DEF one, two
      <3> QED BY <2>3
    <2> QED BY <2>4 DEF Adds
  <1>3. PICK h : Adds(h, AmountsOf(lines), S)
    BY AddsExists
  <1>4. Adds(CHOOSE g : Folds(g), AmountsOf(lines), S)
    <2> HIDE DEF Folds
    <2> QED BY <1>2, <1>3
  <1>5. (CHOOSE g : Folds(g))[S] = h[S]
    <2> HIDE DEF Folds
    <2> QED BY <1>3, <1>4, AddsUnique
  <1>6. SumOver(AmountsOf(lines), S) = h[S]
    <2> DEFINE k == CHOOSE g : Adds(g, AmountsOf(lines), S)
    <2>1. Adds(k, AmountsOf(lines), S)
      BY <1>3
    <2>2. SumOver(AmountsOf(lines), S) = k[S]
      BY SumIsFold
    <2> HIDE DEF k
    <2> QED BY <1>3, <2>1, <2>2, AddsUnique
  <1> QED BY <1>1, <1>5, <1>6

(* Rows are finitely many, and their amounts are positive.                 *)
LEMMA RowFacts ==
    ASSUME NEW rows \in Seq(Entries)
    PROVE  /\ Len(rows) \in Nat
           /\ DOMAIN rows = 1..Len(rows)
           /\ \A i \in DOMAIN rows :
                 /\ rows[i] \in Entries
                 /\ AmountsOf(rows)[i] = rows[i].amount
                 /\ AmountsOf(rows)[i] \in Nat \ {0}
           /\ \A K : /\ IsFiniteSet(Where(rows, K))
                     /\ Where(rows, K) \subseteq DOMAIN rows
                     /\ SumIn(rows, K) \in Nat
  <1>1. Len(rows) \in Nat /\ DOMAIN rows = 1..Len(rows)
    OBVIOUS
  <1>2. \A i \in DOMAIN rows :
            /\ rows[i] \in Entries
            /\ AmountsOf(rows)[i] = rows[i].amount
            /\ AmountsOf(rows)[i] \in Nat \ {0}
    <2>1. \A i \in DOMAIN rows : rows[i] \in Entries
      OBVIOUS
    <2>2. \A e \in Entries : e.amount \in Nat \ {0}
      <3> SUFFICES ASSUME NEW e \in Entries PROVE e.amount \in Nat \ {0}
        OBVIOUS
      <3>1. e.amount \in Int
        BY BookAssumption DEF Entries
      <3>2. e.amount > 0
        BY DEF Entries
      <3> QED BY <3>1, <3>2
    <2> QED BY <2>1, <2>2 DEF AmountsOf
  <1>3. ASSUME NEW K
        PROVE  /\ IsFiniteSet(Where(rows, K))
               /\ Where(rows, K) \subseteq DOMAIN rows
               /\ SumIn(rows, K) \in Nat
    <2>1. IsFiniteSet(1..Len(rows))
      BY <1>1, FS_Interval
    <2>2. Where(rows, K) \subseteq DOMAIN rows
      BY DEF Where
    <2>3. IsFiniteSet(Where(rows, K))
      BY <1>1, <2>1, <2>2, FS_Subset
    <2>4. \A i \in Where(rows, K) : AmountsOf(rows)[i] \in Nat
      BY <1>2, <2>2
    <2> QED BY <2>2, <2>3, <2>4, SumBounds DEF SumIn
  <1> QED BY <1>1, <1>2, <1>3

(* Where no row is in the set there is nothing to add.                     *)
LEMMA NoneIn ==
    ASSUME NEW rows, NEW K, \A i \in DOMAIN rows : rows[i] \notin K
    PROVE  SumIn(rows, K) = 0
  <1>1. Where(rows, K) = {}
    BY DEF Where
  <1> QED BY <1>1, SumEmpty DEF SumIn

(* Saving rows after others adds the two sums.                             *)
LEMMA ConcatSum ==
    ASSUME NEW s \in Seq(Entries), NEW u \in Seq(Entries), NEW K
    PROVE  SumIn(s \o u, K) = SumIn(s, K) + SumIn(u, K)
  <1> DEFINE r == s \o u
             n == Len(s)
             A == Where(s, K)
             B == Where(u, K)
             C == {i + n : i \in B}
             f == AmountsOf(r)
             g == AmountsOf(s)
             h == AmountsOf(u)
  <1>1. /\ r \in Seq(Entries)
        /\ Len(r) = n + Len(u)
        /\ \A i \in 1 .. n + Len(u) : r[i] = IF i <= n THEN s[i] ELSE u[i - n]
    BY ConcatProperties
  <1>2. /\ n \in Nat /\ Len(u) \in Nat
        /\ DOMAIN s = 1..n /\ DOMAIN u = 1..Len(u) /\ DOMAIN r = 1..(n + Len(u))
    BY <1>1, RowFacts
  <1>3. /\ IsFiniteSet(A) /\ A \subseteq 1..n
        /\ IsFiniteSet(B) /\ B \subseteq 1..Len(u)
    BY <1>2, RowFacts
  <1> HIDE DEF r
  <1>4. /\ \A i \in 1..n : i \in 1..(n + Len(u)) /\ r[i] = s[i]
        /\ \A i \in 1..Len(u) : i + n \in 1..(n + Len(u)) /\ r[i + n] = u[i]
    <2> HIDE DEF n
    <2>1. ASSUME NEW i \in 1..n
          PROVE  i \in 1..(n + Len(u)) /\ r[i] = s[i]
      <3>1. i \in 1..(n + Len(u)) /\ i <= n
        BY <1>2
      <3> QED BY <1>1, <3>1
    <2>2. ASSUME NEW i \in 1..Len(u)
          PROVE  i + n \in 1..(n + Len(u)) /\ r[i + n] = u[i]
      <3> DEFINE j == i + n
      <3>1. j \in 1..(n + Len(u)) /\ ~(j <= n) /\ j - n = i
        BY <1>2
      <3> HIDE DEF j
      <3>2. r[j] = u[j - n]
        BY <1>1, <3>1
      <3>3. r[j] = u[i]
        BY <3>1, <3>2
      <3> QED BY <3>1, <3>3 DEF j
    <2> QED BY <2>1, <2>2
  <1>5. \A i \in 1..(n + Len(u)) : i \in 1..n \/ i - n \in 1..Len(u)
    BY <1>2
  <1>6. Where(r, K) = A \cup C
    <2>1. ASSUME NEW i \in Where(r, K) PROVE i \in A \cup C
      <3>1. i \in 1..(n + Len(u)) /\ r[i] \in K
        BY <1>2 DEF Where
      <3>2. CASE i \in 1..n
        BY <1>2, <1>4, <3>1, <3>2 DEF Where
      <3>3. CASE i - n \in 1..Len(u)
        <4>1. i - n + n = i
          BY <1>2, <3>1
        <4>2. i - n \in B
          BY <1>2, <1>4, <3>1, <3>3, <4>1 DEF Where
        <4> QED BY <4>1, <4>2
      <3> QED BY <1>5, <3>1, <3>2, <3>3
    <2>2. ASSUME NEW i \in A PROVE i \in Where(r, K)
      BY <1>2, <1>4 DEF Where
    <2>3. ASSUME NEW i \in B PROVE i + n \in Where(r, K)
      BY <1>2, <1>4 DEF Where
    <2> QED BY <2>1, <2>2, <2>3
  <1>7. A \cap C = {}
    BY <1>2, <1>3
  <1>8. \A i \in A : f[i] = g[i] /\ g[i] \in Int
    BY <1>2, <1>3, <1>4, RowFacts DEF AmountsOf
  <1>9. \A i \in B : f[i + n] = h[i] /\ h[i] \in Int
    BY <1>2, <1>3, <1>4, RowFacts DEF AmountsOf
  <1> HIDE DEF A, B, f, g, h, n
  <1>10. SumOver(f, A) = SumOver(g, A)
    BY <1>3, <1>8, SumSame
  <1>11. IsFiniteSet(C) /\ SumOver(f, C) = SumOver(h, B)
    <2>1. B \subseteq Int /\ n \in Int
      BY <1>2, <1>3
    <2>2. IntsOn(h, B) /\ Shifts(h, f, n, B)
      BY <1>9 DEF IntsOn, Shifts
    <2> QED BY <1>3, <2>1, <2>2, SumShift
  <1>12. \A i \in A \cup C : f[i] \in Int
    BY <1>8, <1>9
  <1> HIDE DEF C
  <1>13. SumOver(f, A \cup C) = SumOver(f, A) + SumOver(f, C)
    BY <1>3, <1>7, <1>11, <1>12, SumUnion
  <1>14. /\ SumIn(r, K) = SumOver(f, A \cup C)
         /\ SumIn(s, K) = SumOver(g, A)
         /\ SumIn(u, K) = SumOver(h, B)
    BY <1>6 DEF SumIn, f, g, h, A, B
  <1>15. SumIn(r, K) = SumIn(s, K) + SumIn(u, K)
    BY <1>10, <1>11, <1>13, <1>14, Zenon
  <1> QED BY <1>15 DEF r

(* The sums by which the code asks for a transaction's and for an          *)
(* account's rows.                                                         *)
LEMMA TestSums ==
    ASSUME NEW rows \in Seq(Entries), NEW d
    PROVE  /\ \A t : Sum(rows, LAMBDA e : e.transaction = t /\ e.direction = d)
                   = SumIn(rows, Of(t, d))
           /\ \A a : Sum(rows, LAMBDA e : e.account = a /\ e.direction = d)
                   = SumIn(rows, At(a, d))
  <1>1. ASSUME NEW t
        PROVE  Sum(rows, LAMBDA e : e.transaction = t /\ e.direction = d)
             = SumIn(rows, Of(t, d))
    <2> DEFINE S == {i \in DOMAIN rows : rows[i].transaction = t /\ rows[i].direction = d}
    <2>1. Sum(rows, LAMBDA e : e.transaction = t /\ e.direction = d)
        = MapThenSumSet(LAMBDA i : rows[i].amount, S)
      BY DEF Sum
    <2>2. S = Where(rows, Of(t, d))
      BY RowFacts DEF Where, Of
    <2>3. IsFiniteSet(S) /\ S \subseteq DOMAIN rows
      BY <2>2, RowFacts
    <2>4. MapThenSumSet(LAMBDA i : rows[i].amount, S) = SumOver(AmountsOf(rows), S)
      <3> HIDE DEF S
      <3> QED BY <2>3, AmountSum
    <2> QED BY <2>1, <2>2, <2>4 DEF SumIn
  <1>2. ASSUME NEW a
        PROVE  Sum(rows, LAMBDA e : e.account = a /\ e.direction = d)
             = SumIn(rows, At(a, d))
    <2> DEFINE S == {i \in DOMAIN rows : rows[i].account = a /\ rows[i].direction = d}
    <2>1. Sum(rows, LAMBDA e : e.account = a /\ e.direction = d)
        = MapThenSumSet(LAMBDA i : rows[i].amount, S)
      BY DEF Sum
    <2>2. S = Where(rows, At(a, d))
      BY RowFacts DEF Where, At
    <2>3. IsFiniteSet(S) /\ S \subseteq DOMAIN rows
      BY <2>2, RowFacts
    <2>4. MapThenSumSet(LAMBDA i : rows[i].amount, S) = SumOver(AmountsOf(rows), S)
      <3> HIDE DEF S
      <3> QED BY <2>3, AmountSum
    <2> QED BY <2>1, <2>2, <2>4 DEF SumIn
  <1> QED BY <1>1, <1>2

-----------------------------------------------------------------------------

(***************************************************************************)
(* What AddPostingAsync stages is one balanced posting, under the next     *)
(* transaction id.                                                         *)
(***************************************************************************)
LEMMA AddStages ==
    ASSUME RowsOK, NEW c \in Callers, NEW posting \in Postings, AddPosting(c, posting)
    PROVE  /\ transactions' = transactions + 1 /\ transactions' \in 1..MaxTransactions
           /\ UNCHANGED entries
           /\ \E u \in Seq(Entries) :
                 unit' = [unit EXCEPT ![c] = u] /\ PostingRows(u, transactions')
  <1> DEFINE lines == posting.lines
             cur == posting.currency
             u == [i \in DOMAIN lines |-> EntryOf(lines[i], <<lines[i].account, cur>>, cur)]
  <1>1. PICK n \in 0..MaxLines : lines \in [1..n -> Lines]
    BY DEF Postings
  <1>2. cur \in Currencies
    BY DEF Postings
  <1>3. /\ n \in Nat /\ Len(lines) = n /\ DOMAIN lines = 1..n
        /\ \A i \in 1..n : lines[i] \in Lines
    BY <1>1, BookAssumption
  <1>4. /\ n >= 2
        /\ \A i \in 1..n : lines[i].amount > 0
        /\ Side(lines, "Debit") = Side(lines, "Credit")
        /\ \A i \in 1..n : <<lines[i].account, cur>> \in LedgerAccounts
    BY <1>3 DEF AddPosting
  <1>5. /\ transactions' = transactions + 1 /\ transactions < MaxTransactions
        /\ unit' = [unit EXCEPT ![c] = u]
        /\ UNCHANGED entries
    BY DEF AddPosting, Stage
  <1>6. transactions' \in 1..MaxTransactions
    BY <1>5, BookAssumption DEF RowsOK
  <1>7. DOMAIN u = 1..n /\ Len(u) = n
    BY <1>3
  <1>8. \A i \in 1..n : /\ u[i].transaction = transactions'
                        /\ u[i].account = <<lines[i].account, cur>>
                        /\ u[i].direction = lines[i].direction
                        /\ u[i].amount = lines[i].amount
                        /\ u[i].currency = cur
    BY <1>3 DEF EntryOf
  <1>9. u \in Seq(Entries)
    <2> SUFFICES ASSUME NEW i \in 1..n PROVE u[i] \in Entries
      BY <1>3
    <2>1. u[i] = EntryOf(lines[i], <<lines[i].account, cur>>, cur)
      BY <1>3
    <2>2. lines[i] \in Lines
      BY <1>3
    <2>3. /\ lines[i].direction \in Directions /\ lines[i].amount \in Amounts
          /\ lines[i].amount > 0 /\ <<lines[i].account, cur>> \in LedgerAccounts
      BY <1>4, <2>2 DEF Lines
    <2> HIDE DEF lines, cur, u
    <2> QED BY <1>2, <1>6, <2>1, <2>3 DEF EntryOf, Entries
  <1> HIDE DEF u
  <1>10. \A d \in Directions : SumIn(u, Sided(d)) = Side(lines, d)
    <2> SUFFICES ASSUME NEW d \in Directions PROVE SumIn(u, Sided(d)) = Side(lines, d)
      OBVIOUS
    <2> DEFINE S == {i \in DOMAIN lines : lines[i].direction = d}
    <2>1. Side(lines, d) = MapThenSumSet(LAMBDA i : lines[i].amount, S)
      BY DEF Side, Sum
    <2>2. S = Where(u, Sided(d))
      BY <1>3, <1>7, <1>8, <1>9, RowFacts DEF Where, Sided
    <2>3. IsFiniteSet(S) /\ S \subseteq DOMAIN lines /\ S \subseteq 1..n
      BY <1>3, <1>9, <2>2, RowFacts
    <2>4. \A i \in S : AmountsOf(lines)[i] = AmountsOf(u)[i]
      BY <1>3, <1>7, <1>8, <2>3 DEF AmountsOf
    <2> HIDE DEF S, lines
    <2>5. MapThenSumSet(LAMBDA i : lines[i].amount, S) = SumOver(AmountsOf(lines), S)
      BY <2>3, AmountSum
    <2>6. SumOver(AmountsOf(lines), S) = SumOver(AmountsOf(u), S)
      BY <2>3, <2>4, SumSame
    <2> QED BY <2>1, <2>2, <2>5, <2>6 DEF SumIn
  <1>11. SumIn(u, Sided("Debit")) = SumIn(u, Sided("Credit"))
    BY <1>4, <1>10 DEF Directions
  <1>12. SumIn(u, Sided("Debit")) > 0
    <2> DEFINE d == u[1].direction
               W == Where(u, Sided(d))
    <2>1. 1 \in 1..n
      BY <1>3, <1>4
    <2>2. u[1] \in Entries /\ AmountsOf(u)[1] \in Nat \ {0}
      BY <1>7, <1>9, <2>1, RowFacts
    <2>3. 1 \in W /\ d \in Directions
      BY <1>7, <2>1, <2>2 DEF Where, Sided, Entries
    <2>4. IsFiniteSet(W) /\ \A i \in W : AmountsOf(u)[i] \in Nat
      BY <1>9, RowFacts
    <2> HIDE DEF W
    <2>5. AmountsOf(u)[1] <= SumOver(AmountsOf(u), W) /\ SumOver(AmountsOf(u), W) \in Nat
      BY <2>3, <2>4, SumBounds
    <2>6. SumIn(u, Sided(d)) > 0
      BY <2>2, <2>5 DEF SumIn, W
    <2> HIDE DEF d
    <2>7. d = "Debit" \/ d = "Credit"
      BY <2>3 DEF Directions
    <2> QED BY <1>11, <2>6, <2>7
  <1>13. PostingRows(u, transactions')
    <2>1. /\ \A i \in DOMAIN u : u[i].transaction = transactions'
          /\ \A i \in DOMAIN u : u[i].currency = cur
          /\ transactions' \in 1..transactions'
      BY <1>6, <1>7, <1>8
    <2> HIDE DEF cur
    <2> QED BY <1>2, <1>11, <1>12, <2>1 DEF PostingRows
  <1> QED BY <1>5, <1>6, <1>9, <1>13

(***************************************************************************)
(* The rows of one posting give each transaction as much on one side as on *)
(* the other: its own all of it, every other nothing.                      *)
(***************************************************************************)
LEMMA PostingBalances ==
    ASSUME NEW u \in Seq(Entries), NEW n, PostingRows(u, n), NEW t
    PROVE  SumIn(u, Of(t, "Debit")) = SumIn(u, Of(t, "Credit"))
  <1>1. PICK s : \A i \in DOMAIN u : u[i].transaction = s
    BY DEF PostingRows
  <1>2. CASE s = t
    <2>1. \A d : Where(u, Of(t, d)) = Where(u, Sided(d))
      BY <1>1, <1>2, RowFacts DEF Where, Of, Sided
    <2> QED BY <2>1 DEF SumIn, PostingRows
  <1>3. CASE s # t
    <2>1. \A d : \A i \in DOMAIN u : u[i] \notin Of(t, d)
      BY <1>1, <1>3 DEF Of
    <2>2. \A d : SumIn(u, Of(t, d)) = 0
      BY <2>1, NoneIn
    <2> QED BY <2>2
  <1> QED BY <1>2, <1>3

LEMMA AddStep ==
    ASSUME BookInv, NEW c \in Callers, NEW posting \in Postings, AddPosting(c, posting)
    PROVE  BookInv'
  <1>1. /\ transactions' = transactions + 1 /\ transactions' \in 1..MaxTransactions
        /\ entries' = entries
        /\ transactions \in Nat
    BY AddStages DEF BookInv, RowsOK
  <1>2. PICK u \in Seq(Entries) :
            unit' = [unit EXCEPT ![c] = u] /\ PostingRows(u, transactions')
    BY AddStages DEF BookInv
  <1>3. RowsOK'
    BY <1>1, <1>2 DEF BookInv, RowsOK
  <1>4. Numbered'
    <2>1. \A i \in DOMAIN entries : entries[i].transaction \in Int
      BY RowFacts DEF BookInv, RowsOK, Entries
    <2> QED BY <1>1, <2>1 DEF BookInv, Numbered
  <1>5. Staged'
    <2>1. \A rows : PostingRows(rows, transactions) => PostingRows(rows, transactions')
      <3>1. 1..transactions \subseteq 1..transactions'
        BY <1>1
      <3> QED BY <3>1 DEF PostingRows
    <2>2. \A x \in Callers : unit'[x] = IF x = c THEN u ELSE unit[x]
      BY <1>2 DEF BookInv, RowsOK
    <2> QED BY <1>2, <2>1, <2>2 DEF BookInv, Staged
  <1>6. Balanced'
    <2> SUFFICES ASSUME NEW t \in 1..(transactions + 1)
                 PROVE  SumIn(entries, Of(t, "Debit")) = SumIn(entries, Of(t, "Credit"))
      BY <1>1 DEF Balanced
    <2>1. CASE t \in 1..transactions
      BY <2>1 DEF BookInv, Balanced
    <2>2. CASE t = transactions + 1
      <3>1. \A d : \A i \in DOMAIN entries : entries[i] \notin Of(t, d)
        <4> SUFFICES ASSUME NEW i \in DOMAIN entries PROVE entries[i].transaction # t
          BY DEF Of
        <4>1. entries[i].transaction \in Int
          BY RowFacts DEF BookInv, RowsOK, Entries
        <4>2. entries[i].transaction <= transactions
          BY DEF BookInv, Numbered
        <4> QED BY <1>1, <2>2, <4>1, <4>2
      <3>2. \A d : SumIn(entries, Of(t, d)) = 0
        BY <3>1, NoneIn
      <3> QED BY <3>2
    <2> QED BY <1>1, <2>1, <2>2
  <1> QED BY <1>3, <1>4, <1>5, <1>6 DEF BookInv

LEMMA SaveStep ==
    ASSUME BookInv, NEW c \in Callers, Save(c)
    PROVE  BookInv'
  <1> DEFINE u == unit[c]
  <1>1. /\ u \in Seq(Entries) /\ entries \in Seq(Entries)
        /\ entries' = entries \o u
        /\ unit' = [unit EXCEPT ![c] = <<>>]
        /\ transactions' = transactions
        /\ PostingRows(u, transactions)
        /\ transactions \in Nat
    BY BookAssumption DEF Save, BookInv, RowsOK, Staged
  <1>2. RowsOK'
    BY <1>1, ConcatProperties DEF BookInv, RowsOK
  <1>3. Numbered'
    <2>1. PICK t \in 1..transactions : \A i \in DOMAIN u : u[i].transaction = t
      BY <1>1 DEF PostingRows
    <2> HIDE DEF u
    <2>2. /\ Len(entries) \in Nat /\ Len(u) \in Nat
          /\ DOMAIN entries = 1..Len(entries) /\ DOMAIN u = 1..Len(u)
          /\ DOMAIN entries' = 1..(Len(entries) + Len(u))
      BY <1>1, ConcatProperties, RowFacts
    <2> SUFFICES ASSUME NEW i \in 1..(Len(entries) + Len(u))
                 PROVE  entries'[i].transaction <= transactions
      BY <1>1, <2>2 DEF Numbered
    <2>3. CASE i <= Len(entries)
      <3>1. i \in DOMAIN entries /\ entries'[i] = entries[i]
        BY <1>1, <2>2, <2>3, ConcatProperties
      <3> QED BY <3>1 DEF BookInv, Numbered
    <2>4. CASE ~(i <= Len(entries))
      <3>1. i - Len(entries) \in DOMAIN u
        BY <2>2, <2>4
      <3>2. entries'[i] = u[i - Len(entries)]
        BY <1>1, <2>2, <2>4, ConcatProperties
      <3>3. entries'[i].transaction = t
        BY <2>1, <3>1, <3>2
      <3> QED BY <1>1, <2>1, <3>3
    <2> QED BY <2>3, <2>4
  <1>4. Staged'
    <2>1. \A x \in Callers : unit'[x] = IF x = c THEN <<>> ELSE unit[x]
      BY <1>1 DEF BookInv, RowsOK
    <2> QED BY <1>1, <2>1 DEF BookInv, Staged
  <1>5. Balanced'
    <2> SUFFICES ASSUME NEW t \in 1..transactions
                 PROVE  SumIn(entries', Of(t, "Debit")) = SumIn(entries', Of(t, "Credit"))
      BY <1>1 DEF Balanced
    <2> HIDE DEF u
    <2>1. \A d : SumIn(entries', Of(t, d)) = SumIn(entries, Of(t, d)) + SumIn(u, Of(t, d))
      BY <1>1, ConcatSum
    <2>2. SumIn(u, Of(t, "Debit")) = SumIn(u, Of(t, "Credit"))
      BY <1>1, PostingBalances
    <2>3. SumIn(entries, Of(t, "Debit")) = SumIn(entries, Of(t, "Credit"))
      BY DEF BookInv, Balanced
    <2> QED BY <2>1, <2>2, <2>3
  <1> QED BY <1>2, <1>3, <1>4, <1>5 DEF BookInv

LEMMA DiscardStep ==
    ASSUME BookInv, NEW c \in Callers, Discard(c)
    PROVE  BookInv'
  <1>1. /\ UNCHANGED <<entries, transactions>>
        /\ unit' = [unit EXCEPT ![c] = <<>>]
    BY DEF Discard
  <1>2. RowsOK'
    BY <1>1 DEF BookInv, RowsOK
  <1>3. Numbered' /\ Balanced'
    BY <1>1 DEF BookInv, Numbered, Balanced
  <1>4. Staged'
    <2>1. \A x \in Callers : unit'[x] = IF x = c THEN <<>> ELSE unit[x]
      BY <1>1 DEF BookInv, RowsOK
    <2> QED BY <1>1, <2>1 DEF BookInv, Staged
  <1> QED BY <1>2, <1>3, <1>4 DEF BookInv

LEMMA BookKept == Spec => []BookInv
  <1>1. Init => BookInv
    <2> SUFFICES ASSUME Init PROVE BookInv
      OBVIOUS
    <2>1. RowsOK /\ Staged
      BY BookAssumption DEF Init, RowsOK, Staged
    <2>2. Numbered /\ Balanced
      BY BookAssumption DEF Init, Numbered, Balanced
    <2> QED BY <2>1, <2>2 DEF BookInv
  <1>2. BookInv /\ [Next]_vars => BookInv'
    <2> SUFFICES ASSUME BookInv, [Next]_vars PROVE BookInv'
      OBVIOUS
    <2>1. CASE UNCHANGED vars
      BY <2>1 DEF vars, BookInv, RowsOK, Numbered, Staged, Balanced
    <2>2. CASE Next
      BY <2>2, AddStep, SaveStep, DiscardStep DEF Next
    <2> QED BY <2>1, <2>2
  <1> QED BY <1>1, <1>2, PTL DEF Spec

-----------------------------------------------------------------------------

(***************************************************************************)
(* Whatever callers hand in, stage, save and drop side by side, the rows   *)
(* are entries, each in the currency of its account.                       *)
(***************************************************************************)
THEOREM TypeCorrect == Spec => []TypeOK
  <1>1. BookInv => TypeOK
    BY DEF BookInv, RowsOK, TypeOK
  <1> QED BY <1>1, BookKept, PTL

(***************************************************************************)
(* At every moment the debits of each transaction in the table are its     *)
(* credits: a save carries a whole posting or nothing.                     *)
(***************************************************************************)
THEOREM PostingsBalance == Spec => []TransactionsBalance
  <1>1. BookInv => TransactionsBalance
    BY TestSums DEF BookInv, RowsOK, Balanced, TransactionsBalance
  <1> QED BY <1>1, BookKept, PTL

-----------------------------------------------------------------------------
(* The refinement.                                                         *)

(* A side of each account, and what a save adds to it.                     *)
Sides(rows, direction) == [a \in LedgerAccounts |-> SumIn(rows, At(a, direction))]

Brings(u, direction, book) == [a \in book |-> SumIn(u, At(a, direction))]

LEMMA SumsAre ==
    ASSUME RowsOK
    PROVE  \A d : Sums(d) = Sides(entries, d)
  BY TestSums DEF RowsOK, Sums, Sides

LEMMA SumsAreNext ==
    ASSUME RowsOK'
    PROVE  \A d : Sums(d)' = Sides(entries', d)
  <1> SUFFICES ASSUME NEW d PROVE Sums(d)' = Sides(entries', d)
    OBVIOUS
  <1>1. entries' \in Seq(Entries)
    BY DEF RowsOK
  <1>2. Sums(d)' = [a \in LedgerAccounts |->
                       Sum(entries', LAMBDA e : e.account = a /\ e.direction = d)]
    BY DEF Sums, Sum, MapThenSumSet, MapThenFoldSet
  <1> QED BY <1>1, <1>2, TestSums DEF Sides

LEMMA TotalIsSum == \A f, book : Totals!Total(f, book) = SumOver(f, book)
  BY DEF Totals!Total, Totals!MapThenSumSet, Totals!MapThenFoldSet, SumOver,
         MapThenSumSet, MapThenFoldSet

(* Together the accounts of a currency get what the rows in it carry.      *)
LEMMA BroughtTotal ==
    ASSUME IsFiniteSet(LedgerAccounts), NEW u \in Seq(Entries), NEW currency,
           \A i \in DOMAIN u : u[i].currency = currency, NEW d
    PROVE  SumOver(Brings(u, d, AccountsIn(currency)), AccountsIn(currency))
         = SumIn(u, Sided(d))
  <1> DEFINE S == Where(u, Sided(d))
             key == [i \in DOMAIN u |-> u[i].account]
             book == AccountsIn(currency)
             brings == Brings(u, d, book)
  <1>1. IsFiniteSet(S) /\ S \subseteq DOMAIN u
    BY RowFacts
  <1>2. IsFiniteSet(book)
    BY FS_Subset DEF AccountsIn
  <1>3. IntsOn(AmountsOf(u), S)
    BY <1>1, RowFacts DEF IntsOn
  <1>4. \A i \in DOMAIN u : key[i] \in book
    BY RowFacts DEF AccountsIn, Entries
  <1>5. Groups(brings, book, AmountsOf(u), S, key)
    <2>1. \A a : Where(u, At(a, d)) = {i \in S : key[i] = a}
      BY RowFacts DEF Where, At, Sided
    <2> HIDE DEF S, key, book
    <2> QED BY <2>1 DEF Groups, Brings, SumIn
  <1>6. {i \in S : key[i] \in book} = S
    BY <1>1, <1>4
  <1> HIDE DEF S, key, book, brings
  <1>7. SumOver(brings, book) = SumOver(AmountsOf(u), {i \in S : key[i] \in book})
    BY <1>1, <1>2, <1>3, <1>5, SumByKey
  <1> QED BY <1>6, <1>7 DEF SumIn, S, book, brings

(* A side of the books after a save.                                       *)
LEMMA SaveMoves ==
    ASSUME IsFiniteSet(LedgerAccounts), NEW s \in Seq(Entries), NEW u \in Seq(Entries),
           NEW currency, \A i \in DOMAIN u : u[i].currency = currency, NEW d
    PROVE  LET book == AccountsIn(currency)
               old == Sides(s, d)
               new == Sides(s \o u, d)
           IN  /\ \A a \in LedgerAccounts \ book : new[a] = old[a]
               /\ \A a \in book : new[a] >= old[a]
               /\ SumOver(new, book) - SumOver(old, book) = SumIn(u, Sided(d))
  <1> DEFINE book == AccountsIn(currency)
             old == Sides(s, d)
             new == Sides(s \o u, d)
             brings == Brings(u, d, book)
             more(a) == SumIn(u, At(a, d))
  <1>1. \A a \in LedgerAccounts :
            /\ old[a] \in Nat /\ more(a) \in Nat
            /\ new[a] = old[a] + more(a)
    BY ConcatSum, RowFacts DEF Sides
  <1>2. book \subseteq LedgerAccounts /\ IsFiniteSet(book)
    BY FS_Subset DEF AccountsIn
  <1>3. \A a \in LedgerAccounts \ book : more(a) = 0
    <2> SUFFICES ASSUME NEW a \in LedgerAccounts \ book PROVE more(a) = 0
      OBVIOUS
    <2>1. \A i \in DOMAIN u : u[i] \notin At(a, d)
      BY RowFacts DEF At, AccountsIn, Entries
    <2> QED BY <2>1, NoneIn
  <1>4. \A a \in book : brings[a] = more(a)
    BY DEF Brings
  <1>5. SumOver(brings, book) = SumIn(u, Sided(d))
    BY BroughtTotal
  <1> HIDE DEF book, brings, more, old, new
  <1>6. \A a \in book : old[a] \in Int /\ brings[a] \in Int /\ new[a] = old[a] + brings[a]
    BY <1>1, <1>2, <1>4
  <1>7. SumOver(new, book) = SumOver(old, book) + SumOver(brings, book)
    BY <1>2, <1>6, SumPlus
  <1>8. SumOver(old, book) \in Int /\ SumOver(brings, book) \in Int
    BY <1>2, <1>6, SumInt
  <1>9. SumOver(new, book) - SumOver(old, book) = SumIn(u, Sided(d))
    BY <1>5, <1>7, <1>8
  <1>10. \A a \in book : new[a] >= old[a]
    BY <1>1, <1>2
  <1>11. \A a \in LedgerAccounts \ book : new[a] = old[a]
    BY <1>1, <1>3
  <1> QED BY <1>9, <1>10, <1>11 DEF book, old, new

LEMMA SavePosts ==
    ASSUME IsFiniteSet(LedgerAccounts), BookInv, RowsOK', NEW c \in Callers, Save(c)
    PROVE  \E currency \in Currencies : Totals!Post(AccountsIn(currency))
  <1> DEFINE u == unit[c]
  <1>1. /\ u \in Seq(Entries) /\ entries \in Seq(Entries)
        /\ entries' = entries \o u
        /\ PostingRows(u, transactions)
    BY DEF Save, BookInv, RowsOK, Staged
  <1> HIDE DEF u
  <1>2. PICK currency \in Currencies : \A i \in DOMAIN u : u[i].currency = currency
    BY <1>1 DEF PostingRows
  <1> DEFINE book == AccountsIn(currency)
  <1>3. \A d : Sums(d) = Sides(entries, d) /\ Sums(d)' = Sides(entries \o u, d)
    BY <1>1, SumsAre, SumsAreNext DEF BookInv
  <1>4. ASSUME NEW d
        PROVE  /\ \A a \in LedgerAccounts \ book : (Sums(d)')[a] = Sums(d)[a]
               /\ \A a \in book : (Sums(d)')[a] >= Sums(d)[a]
               /\ SumOver(Sums(d)', book) - SumOver(Sums(d), book) = SumIn(u, Sided(d))
    BY <1>1, <1>2, <1>3, SaveMoves
  <1>5. /\ SumIn(u, Sided("Debit")) = SumIn(u, Sided("Credit"))
        /\ SumIn(u, Sided("Debit")) > 0
    BY <1>1 DEF PostingRows
  <1>6. Totals!Accounts \subseteq LedgerAccounts
    BY DEF Totals!Accounts, AccountsIn
  <1>7. \A d : /\ Totals!Total(Sums(d)', book) = SumOver(Sums(d)', book)
               /\ Totals!Total(Sums(d), book) = SumOver(Sums(d), book)
    BY TotalIsSum
  <1> HIDE DEF book
  <1>8. Totals!Post(book)
    BY <1>4, <1>5, <1>6, <1>7 DEF Totals!Post
  <1> QED BY <1>8 DEF book

(***************************************************************************)
(* Read through its balances the table of rows is the abstract ledger: a   *)
(* save moves money between accounts of one currency, and nothing else     *)
(* changes a balance.  The seeded accounts are finitely many.              *)
(***************************************************************************)
THEOREM KeepsTotals ==
    ASSUME IsFiniteSet(LedgerAccounts)
    PROVE  Spec => ImplementsTotals
  <1>1. Init => Totals!Init
    <2> SUFFICES ASSUME Init PROVE Totals!Init
      OBVIOUS
    <2>1. entries = <<>> /\ entries \in Seq(Entries)
      BY DEF Init
    <2>2. \A d : Sums(d) = Sides(entries, d)
      BY <2>1, TestSums DEF Sums, Sides
    <2>3. \A K : SumIn(entries, K) = 0
      <3>1. \A K : \A i \in DOMAIN entries : entries[i] \notin K
        BY <2>1
      <3> QED BY <3>1, NoneIn
    <2>4. \A d : Sums(d) = [a \in LedgerAccounts |-> 0]
      BY <2>2, <2>3 DEF Sides
    <2>5. Totals!Accounts = LedgerAccounts
      BY BookAssumption DEF Totals!Accounts, AccountsIn
    <2> QED BY <2>4, <2>5 DEF Totals!Init
  <1>2. BookInv /\ RowsOK' /\ [Next]_vars
            => [Totals!Next]_<<Sums("Debit"), Sums("Credit")>>
    <2> SUFFICES ASSUME BookInv, RowsOK', [Next]_vars
                 PROVE  [Totals!Next]_<<Sums("Debit"), Sums("Credit")>>
      OBVIOUS
    <2>1. CASE entries' = entries
      BY <2>1, SumsAre, SumsAreNext DEF BookInv
    <2>2. CASE entries' # entries
      <3>1. PICK c \in Callers : Save(c)
        BY <2>2, AddStages DEF vars, Next, Discard, BookInv
      <3>2. PICK currency \in Currencies : Totals!Post(AccountsIn(currency))
        BY <3>1, SavePosts
      <3> QED BY <3>2 DEF Totals!Next
    <2> QED BY <2>1, <2>2
  <1>3. BookInv => RowsOK
    BY DEF BookInv
  <1> QED BY <1>1, <1>2, <1>3, BookKept, PTL DEF Spec, ImplementsTotals, Totals!Spec

=============================================================================
