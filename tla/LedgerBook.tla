----------------------------- MODULE LedgerBook -----------------------------
(***************************************************************************)
(* LedgerService over LedgerEntries as rows, for any posting a caller may  *)
(* hand in.                                                                *)
(*                                                                         *)
(* AddPostingAsync checks a posting and stages its entries on the caller's *)
(* DbContext, its unit of work; the caller's SaveChangesAsync inserts them *)
(* together.  A caller that throws drops its unit.  Every caller stages    *)
(* one posting for a save.  A refused posting is a disabled action.        *)
(***************************************************************************)
EXTENDS Integers, Sequences, FiniteSetsExt

CONSTANTS
    Codes, Currencies,
    LedgerAccounts,  \* the accounts seeded: pairs of a code and a currency
    Amounts,         \* amounts in minor units a line may carry
    MaxLines,        \* bound: lines of a posting
    Callers,         \* units of work that may be open together
    MaxTransactions  \* bound: postings staged

ASSUME BookAssumption ==
    /\ LedgerAccounts \subseteq Codes \X Currencies
    /\ Amounts \subseteq Int
    /\ MaxLines \in Nat /\ MaxTransactions \in Nat

VARIABLES
    entries,      \* LedgerEntries, in the order of their ids
    unit,         \* the entries staged in each unit of work
    transactions  \* transaction ids given out so far

vars == <<entries, unit, transactions>>

Directions == {"Debit", "Credit"}

Lines == [account : Codes, direction : Directions, amount : Amounts]

Postings == [currency : Currencies, lines : UNION {[1..n -> Lines] : n \in 0..MaxLines}]

(* An entry is in the currency of its account, and its amount is positive. *)
Entries ==
    {e \in [transaction : 1..MaxTransactions, account : LedgerAccounts,
            direction : Directions, amount : Amounts, currency : Currencies] :
        e.account[2] = e.currency /\ e.amount > 0}

Init ==
    /\ entries = <<>>
    /\ unit = [c \in Callers |-> <<>>]
    /\ transactions = 0

Sum(lines, test(_)) ==
    MapThenSumSet(LAMBDA i : lines[i].amount, {i \in DOMAIN lines : test(lines[i])})

Side(lines, direction) == Sum(lines, LAMBDA l : l.direction = direction)

EntryOf(line, account, currency) ==
    [transaction |-> transactions', account |-> account, direction |-> line.direction,
     amount |-> line.amount, currency |-> currency]

Stage(c, staged) ==
    /\ transactions < MaxTransactions
    /\ transactions' = transactions + 1
    /\ unit[c] = <<>>
    /\ unit' = [unit EXCEPT ![c] = staged]
    /\ UNCHANGED entries

(* Mutant of AddPosting: the two sides are not compared.                   *)
AddPostingUnbalanced(c, posting) ==
    LET lines == posting.lines
        account(line) == <<line.account, posting.currency>>
    IN  /\ Len(lines) >= 2
        /\ \A i \in DOMAIN lines : lines[i].amount > 0
        /\ \A i \in DOMAIN lines : account(lines[i]) \in LedgerAccounts
        /\ Stage(c, [i \in DOMAIN lines |->
                        EntryOf(lines[i], account(lines[i]), posting.currency)])

(* Mutant of AddPosting: an account is looked up by its code alone.        *)
AddPostingAnyCurrency(c, posting) ==
    LET lines == posting.lines
    IN  /\ Len(lines) >= 2
        /\ \A i \in DOMAIN lines : lines[i].amount > 0
        /\ Side(lines, "Debit") = Side(lines, "Credit")
        /\ \E currency \in Currencies :
              LET account(line) == <<line.account, currency>>
              IN  /\ \A i \in DOMAIN lines : account(lines[i]) \in LedgerAccounts
                  /\ Stage(c, [i \in DOMAIN lines |->
                                  EntryOf(lines[i], account(lines[i]), posting.currency)])

AddPosting(c, posting) ==
    LET lines == posting.lines
        account(line) == <<line.account, posting.currency>>
    IN  /\ Len(lines) >= 2
        /\ \A i \in DOMAIN lines : lines[i].amount > 0
        /\ Side(lines, "Debit") = Side(lines, "Credit")
        /\ \A i \in DOMAIN lines : account(lines[i]) \in LedgerAccounts
        /\ Stage(c, [i \in DOMAIN lines |->
                        EntryOf(lines[i], account(lines[i]), posting.currency)])

(* Mutant of Save: the entries are saved one at a time.                    *)
SaveFirst(c) ==
    /\ unit[c] # <<>>
    /\ entries' = Append(entries, Head(unit[c]))
    /\ unit' = [unit EXCEPT ![c] = Tail(@)]
    /\ UNCHANGED transactions

(* SaveChangesAsync: one transaction.                                      *)
Save(c) ==
    /\ unit[c] # <<>>
    /\ entries' = entries \o unit[c]
    /\ unit' = [unit EXCEPT ![c] = <<>>]
    /\ UNCHANGED transactions

(* The caller threw, or its process ended, before the save.                *)
Discard(c) ==
    /\ unit[c] # <<>>
    /\ unit' = [unit EXCEPT ![c] = <<>>]
    /\ UNCHANGED <<entries, transactions>>

Next ==
    \E c \in Callers :
        \/ transactions < MaxTransactions /\ \E posting \in Postings : AddPosting(c, posting)
        \/ Save(c)
        \/ Discard(c)

Spec == Init /\ [][Next]_vars

-----------------------------------------------------------------------------

(* The two sums of BalanceMinorAsync, for every account.                   *)
Sums(direction) ==
    [a \in LedgerAccounts |->
        Sum(entries, LAMBDA e : e.account = a /\ e.direction = direction)]

AccountsIn(currency) == {a \in LedgerAccounts : a[2] = currency}

(* Rows and staged entries have their types, and no entry is in another    *)
(* currency than its account.                                              *)
TypeOK ==
    /\ \A i \in DOMAIN entries : entries[i] \in Entries
    /\ \A c \in Callers : \A i \in DOMAIN unit[c] : unit[c][i] \in Entries
    /\ transactions \in 0..MaxTransactions

(***************************************************************************)
(* "Debits and credits sharing a TransactionId must sum to zero", in the   *)
(* table as it is at any moment, whatever is staged, saved or dropped by   *)
(* callers side by side.                                                   *)
(***************************************************************************)
TransactionsBalance ==
    \A t \in 1..transactions :
        Sum(entries, LAMBDA e : e.transaction = t /\ e.direction = "Debit")
      = Sum(entries, LAMBDA e : e.transaction = t /\ e.direction = "Credit")

Totals ==
    INSTANCE LedgerTotals WITH
        Books   <- {AccountsIn(currency) : currency \in Currencies},
        debits  <- Sums("Debit"),
        credits <- Sums("Credit")

(***************************************************************************)
(* Read through its balances the table of entries is the abstract ledger:  *)
(* each save moves money between accounts of one currency, and nothing     *)
(* else changes a balance.                                                 *)
(***************************************************************************)
ImplementsTotals == Totals!Spec

=============================================================================
