---------------------------- MODULE LedgerTotals ----------------------------
(***************************************************************************)
(* What the ledger promises whoever reads its balances: money moves, it    *)
(* does not appear or vanish.  A posting adds to both sides the same,      *)
(* touches the accounts of one currency, and nothing is ever taken back.   *)
(***************************************************************************)
EXTENDS Naturals, FiniteSetsExt

CONSTANT Books  \* the accounts of each currency, a set of disjoint sets

VARIABLES
    debits,   \* sum of the debits of each account
    credits   \* sum of the credits of each account

Accounts == UNION Books

Total(sums, book) == MapThenSumSet(LAMBDA a : sums[a], book)

Init ==
    /\ debits = [a \in Accounts |-> 0]
    /\ credits = [a \in Accounts |-> 0]

Post(book) ==
    LET debited  == Total(debits', book) - Total(debits, book)
        credited == Total(credits', book) - Total(credits, book)
    IN  /\ \A a \in Accounts \ book :
               debits'[a] = debits[a] /\ credits'[a] = credits[a]
        /\ \A a \in book : debits'[a] >= debits[a] /\ credits'[a] >= credits[a]
        /\ debited = credited
        /\ debited > 0

Next == \E book \in Books : Post(book)

Spec == Init /\ [][Next]_<<debits, credits>>

=============================================================================
