---------------------------- MODULE MCPaymentFlow ----------------------------
(* Instances of PaymentFlow for TLC.                                        *)
EXTENDS PaymentFlow, TLC

CONSTANTS d1, d2,        \* disbursements
          c1, c2,        \* collections
          supplier,      \* the payee of the disbursements
          ana, raj,      \* approvers
          s1, s2,        \* sessions
          w1, w2,        \* workers
          h1, h2         \* webhook deliveries

MCPayeeOf == [r \in Disbursements |-> supplier]
MCMinor == [r \in Requests |-> 1]

(* ana raised d1, and somebody who is no approver the rest.                 *)
MCRequestedBy == [r \in Requests |-> IF r = d1 THEN ana ELSE "requester"]

(* Handlers, workers and sessions are interchangeable.                       *)
PoolSymmetry ==
    Permutations(Handlers) \cup Permutations(Workers) \cup Permutations(Sessions)

=============================================================================
