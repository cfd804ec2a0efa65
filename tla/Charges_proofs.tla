--------------------------- MODULE Charges_proofs ---------------------------
(***************************************************************************)
(* Theorems about Charges, for any amounts and any number of parts they    *)
(* are counted in: the two conversions stay within one minor unit of each  *)
(* other; what is reserved is what the open requests round to, covers what *)
(* Stripe is asked for, and never stays behind.                            *)
(***************************************************************************)
EXTENDS Charges, Sums_proofs

(* Quotient and remainder, whatever the divisor.                           *)
LEMMA Division ==
    ASSUME NEW a \in Nat, NEW u \in Nat \ {0}
    PROVE  /\ a \div u \in Nat
           /\ a % u \in 0..(u - 1)
           /\ a = u * (a \div u) + (a % u)
OBVIOUS

(* What a multiple exceeds another by bounds what the factor does.         *)
LEMMA Between ==
    ASSUME NEW u \in Nat \ {0}, NEW p \in Nat, NEW q \in Nat, NEW d \in Int,
           u * p - u * q = d
    PROVE  /\ d > -u => p >= q
           /\ d < 2 * u => p <= q + 1
           /\ d < u => p <= q
<1>1. p < q => u * q - u * p >= u
  OBVIOUS
<1>2. p > q + 1 => u * p - u * q >= 2 * u
  OBVIOUS
<1>3. p > q  => u * p - u * q >= u
  OBVIOUS
<1>. QED BY <1>1, <1>2, <1>3

(* The division that ToMinorUnits makes.                                   *)
LEMMA Rounding ==
    ASSUME NEW parts \in Nat
    PROVE  /\ ToMinorUnits(parts) \in Nat
           /\ (parts + Half) % Unit \in 0..(Unit - 1)
           /\ parts + Half = Unit * ToMinorUnits(parts) + ((parts + Half) % Unit)
<1>. DEFINE raised == parts + Half
<1>1. raised \in Nat /\ Unit \in Nat \ {0}
  BY ChargesAssumption DEF Unit
<1>2. ToMinorUnits(parts) = raised \div Unit
  BY DEF ToMinorUnits
<1>3. /\ raised \div Unit \in Nat
      /\ raised % Unit \in 0..(Unit - 1)
      /\ raised = Unit * (raised \div Unit) + (raised % Unit)
  <2>. HIDE DEF raised
  <2>. QED BY <1>1, Division
<1>. QED BY <1>2, <1>3

(* The two conversions never differ by more than one minor unit, and not   *)
(* at all for an amount without further digits (ToMinorUnits and the cast  *)
(* of StripePaymentProcessor).                                             *)
LEMMA Conversions ==
    ASSUME NEW parts \in Nat
    PROVE  /\ ToMinorUnits(parts) \in Nat
           /\ StripeUnits(parts) \in Nat
           /\ ToMinorUnits(parts) - StripeUnits(parts) \in {0, 1}
           /\ parts % Unit = 0 => ToMinorUnits(parts) = StripeUnits(parts)
<1>. DEFINE p == ToMinorUnits(parts)
            q == StripeUnits(parts)
            d == Half + (parts % Unit) - ((parts + Half) % Unit)
<1>0. Unit \in Nat \ {0} /\ Unit = 2 * Half /\ Half \in Nat \ {0} /\ Half < Unit
  BY ChargesAssumption DEF Unit
<1>1. p \in Nat /\ (parts + Half) % Unit \in 0..(Unit - 1)
      /\ parts + Half = Unit * p + ((parts + Half) % Unit)
  BY Rounding
<1>2. q \in Nat /\ parts % Unit \in 0..(Unit - 1)
      /\ parts = Unit * q + (parts % Unit)
  BY <1>0, Division DEF StripeUnits
<1>3. d \in Int /\ d > -Unit /\ d < 2 * Unit /\ (parts % Unit = 0 => d < Unit)
  BY <1>0, <1>1, <1>2
<1>4. Unit * p - Unit * q = d
  <2>1. Unit * p \in Int /\ Unit * q \in Int
    BY <1>0, <1>1, <1>2
  <2>2. parts % Unit \in Int /\ (parts + Half) % Unit \in Int
    BY <1>0, <1>1, <1>2
  <2>3. Half \in Int /\ parts + Half = Unit * p + ((parts + Half) % Unit)
        /\ parts = Unit * q + (parts % Unit)
    BY <1>0, <1>1, <1>2
  <2>. HIDE DEF p, q
  <2>. QED BY <2>1, <2>2, <2>3
<1>5. p >= q /\ p <= q + 1 /\ (parts % Unit = 0 => p <= q)
  <2>. HIDE DEF p, q, d
  <2>. QED BY <1>0, <1>1, <1>2, <1>3, <1>4, Between
<1>. QED
  <2>. HIDE DEF p, q
  <2>1. p - q \in {0, 1} /\ (parts % Unit = 0 => p = q)
    BY <1>1, <1>2, <1>5
  <2>. QED BY <1>1, <1>2, <2>1 DEF p, q

(* ToMinorUnits is the nearest minor unit, the upper one from the middle.  *)
THEOREM RoundsToNearest ==
    ASSUME NEW parts \in Nat
    PROVE  Unit * ToMinorUnits(parts) - parts \in (1 - Half)..Half
<1>0. Unit \in Nat \ {0} /\ Unit = 2 * Half /\ Half \in Nat \ {0}
  BY ChargesAssumption DEF Unit
<1>1. /\ (parts + Half) % Unit \in 0..(Unit - 1)
      /\ parts + Half = Unit * ToMinorUnits(parts) + ((parts + Half) % Unit)
      /\ ToMinorUnits(parts) \in Nat
  BY Rounding
<1>2. Unit * ToMinorUnits(parts) \in Int
  BY <1>0, <1>1
<1>. QED BY <1>0, <1>1, <1>2

-----------------------------------------------------------------------------

(* The intent is for an amount's truncation, and the settlement for its    *)
(* rounding.  An approved disbursement's amount could be posted, so it     *)
(* can be again, and asked for.                                            *)
AmountInv ==
    /\ \A r \in Requests : charged[r] > 0 => charged[r] = StripeUnits(amount[r])
    /\ \A r \in Requests : charged[r] > 0 =>
           status[r] \in {"Processing", "Completed", "Failed"}
    /\ \A r \in Requests : status[r] = "Completed" =>
           charged[r] > 0 /\ booked[r] = ToMinorUnits(amount[r])
    /\ \A r \in Disbursements : status[r] \in {"Approved", "Processing"} =>
           Posts(ToMinorUnits(amount[r]))
    /\ \A r \in Disbursements : status[r] = "Processing" => charged[r] > 0

ChargesInv == TypeOK /\ AmountInv

(* The initial state of the tables is typed and has no rows.               *)
LEMMA InitInv == Init => ChargesInv
BY ChargesAssumption DEF Init, ChargesInv, TypeOK, AmountInv, Statuses

(* A step that moves a request's status and no more of it keeps the types. *)
LEMMA BecomeTyped ==
    ASSUME TypeOK, NEW r \in Requests, NEW new \in Statuses, Become(r, new)
    PROVE  /\ status' \in [Requests -> Statuses]
           /\ status'[r] = new
           /\ \A q \in Requests : q # r => status'[q] = status[q]
BY DEF TypeOK, Become

(* Submit stores an amount of a row that is new.                           *)
LEMMA SubmitKeeps ==
    ASSUME ChargesInv, NEW r \in Requests, NEW parts \in FormAmounts, Submit(r, parts)
    PROVE  ChargesInv'
<1>1. parts \in Nat
  BY ChargesAssumption DEF Submit
<1>2. status[r] = "none" /\ charged[r] = 0
  BY DEF ChargesInv, AmountInv, TypeOK, Submit
<1>3. TypeOK'
  BY <1>1, BecomeTyped DEF ChargesInv, TypeOK, Submit, Become, ledgerVars, Statuses
<1>4. AmountInv'
  BY <1>1, <1>2, ChargesAssumption
     DEF ChargesInv, AmountInv, TypeOK, Submit, Become, ledgerVars, Statuses
<1>. QED
  BY <1>3, <1>4 DEF ChargesInv

(* Fund moves balances only.                                               *)
LEMMA FundKeeps ==
    ASSUME ChargesInv, NEW parts \in FundAmounts, Fund(parts)
    PROVE  ChargesInv'
<1>1. parts \in Nat
  BY ChargesAssumption DEF Fund
<1>2. ToMinorUnits(parts) \in Nat
  BY <1>1, Conversions
<1>. QED
  BY <1>2 DEF ChargesInv, TypeOK, AmountInv, Fund

(* The guard of an approved disbursement keeps its amount within a long.   *)
LEMMA ApproveKeeps ==
    ASSUME ChargesInv, NEW r \in Requests,
           ApproveCollection(r) \/ ApproveDisbursement(r) \/ Reject(r)
    PROVE  ChargesInv'
<1>1. ToMinorUnits(amount[r]) \in Nat
  BY Conversions DEF ChargesInv, TypeOK
<1>2. TypeOK'
  BY <1>1 DEF ChargesInv, TypeOK, ApproveCollection, ApproveDisbursement, Reject,
              Become, ledgerVars, Statuses
<1>3. AmountInv'
  BY ChargesAssumption
     DEF ChargesInv, TypeOK, AmountInv, ApproveCollection, ApproveDisbursement, Reject,
         Become, ledgerVars
<1>. QED
  BY <1>2, <1>3 DEF ChargesInv

(* The worker charges the truncated amount, or strands a collection.       *)
LEMMA ChargeKeeps ==
    ASSUME ChargesInv, NEW r \in Requests, Charge(r) \/ Strand(r)
    PROVE  ChargesInv'
<1>1. /\ ToMinorUnits(amount[r]) \in Nat /\ StripeUnits(amount[r]) \in Nat
      /\ ToMinorUnits(amount[r]) - StripeUnits(amount[r]) \in {0, 1}
  BY Conversions DEF ChargesInv, TypeOK
<1>2. TypeOK'
  BY <1>1 DEF ChargesInv, TypeOK, Charge, Strand, Become, ledgerVars, Statuses
<1>3. Strand(r) => r \notin Disbursements
  BY <1>1, ChargesAssumption DEF Strand, Posts, Fits, ChargesInv, AmountInv
<1>4. AmountInv'
  BY <1>1, <1>3, ChargesAssumption
     DEF ChargesInv, TypeOK, AmountInv, Charge, Strand, Become, ledgerVars
<1>. QED
  BY <1>2, <1>4 DEF ChargesInv

(* A failure releases the reservation and leaves the amounts.              *)
LEMMA FailKeeps ==
    ASSUME ChargesInv, NEW r \in Requests, Refuse(r) \/ Fail(r)
    PROVE  ChargesInv'
<1>1. ToMinorUnits(amount[r]) \in Nat
  BY Conversions DEF ChargesInv, TypeOK
<1>2. TypeOK'
  BY <1>1 DEF ChargesInv, TypeOK, Refuse, Fail, Release, Become, Statuses
<1>3. AmountInv'
  BY ChargesAssumption DEF ChargesInv, TypeOK, AmountInv, Refuse, Fail, Release, Become
<1>. QED
  BY <1>2, <1>3 DEF ChargesInv

(* The webhook books the rounded amount of a request that was charged.     *)
LEMMA SettleKeeps ==
    ASSUME ChargesInv, NEW r \in Requests, Settle(r)
    PROVE  ChargesInv'
<1>1. ToMinorUnits(amount[r]) \in Nat
  BY Conversions DEF ChargesInv, TypeOK
<1>2. TypeOK'
  BY <1>1 DEF ChargesInv, TypeOK, Settle, Become, Statuses
<1>3. AmountInv'
  BY <1>1, ChargesAssumption DEF ChargesInv, TypeOK, AmountInv, Settle, Become
<1>. QED
  BY <1>2, <1>3 DEF ChargesInv

(* No step of the program breaks the invariant.                            *)
LEMMA NextKeeps == ChargesInv /\ [Next]_vars => ChargesInv'
<1>. SUFFICES ASSUME ChargesInv, [Next]_vars PROVE ChargesInv'
  OBVIOUS
<1>1. CASE \E parts \in FundAmounts : Fund(parts)
  BY <1>1, FundKeeps
<1>2. CASE \E r \in Requests, parts \in FormAmounts : Submit(r, parts)
  BY <1>2, SubmitKeeps
<1>3. CASE \E r \in Requests : ApproveCollection(r) \/ ApproveDisbursement(r) \/ Reject(r)
  BY <1>3, ApproveKeeps
<1>4. CASE \E r \in Requests : Charge(r) \/ Strand(r)
  BY <1>4, ChargeKeeps
<1>5. CASE \E r \in Requests : Refuse(r) \/ Fail(r)
  BY <1>5, FailKeeps
<1>6. CASE \E r \in Requests : Settle(r)
  BY <1>6, SettleKeeps
<1>7. CASE UNCHANGED vars
  BY <1>7 DEF vars, ledgerVars, ChargesInv, TypeOK, AmountInv
<1>. QED
  BY <1>1, <1>2, <1>3, <1>4, <1>5, <1>6, <1>7 DEF Next

(* The invariant holds in every behaviour.                                 *)
LEMMA Invariant == Spec => []ChargesInv
BY InitInv, NextKeeps, PTL DEF Spec

(* Every reachable state of the tables and balances is typed, for any      *)
(* requests and any amounts the forms carry.                               *)
THEOREM TypeCorrect == Spec => []TypeOK
<1>1. ChargesInv => TypeOK
  BY DEF ChargesInv
<1>. QED
  BY <1>1, Invariant, PTL

(* What is booked at settlement is what Stripe was asked for or one minor  *)
(* unit more, and the same for whole minor units.                          *)
THEOREM DriftIsBounded == Spec => []DriftBounded
<1>1. ChargesInv => DriftBounded
  <2>. SUFFICES ASSUME ChargesInv, NEW r \in Requests, status[r] = "Completed"
                PROVE  /\ charged[r] > 0
                       /\ booked[r] - charged[r] \in {0, 1}
                       /\ amount[r] % Unit = 0 => booked[r] = charged[r]
    BY DEF DriftBounded, With
  <2>1. amount[r] \in Nat
    BY DEF ChargesInv, TypeOK
  <2>2. charged[r] > 0 /\ charged[r] = StripeUnits(amount[r])
                       /\ booked[r] = ToMinorUnits(amount[r])
    BY DEF ChargesInv, AmountInv
  <2>. QED
    BY <2>1, <2>2, Conversions
<1>. QED
  BY <1>1, Invariant, PTL

(* A disbursement the worker has claimed is one Stripe was asked for: the  *)
(* approval's conversion came first, and threw if any would.               *)
THEOREM NoneIsStranded == Spec => []NoDisbursementStranded
<1>1. ChargesInv => NoDisbursementStranded
  BY DEF ChargesInv, AmountInv, NoDisbursementStranded, With
<1>. QED
  BY <1>1, Invariant, PTL

-----------------------------------------------------------------------------
(* The balance of PAYABLE as a sum over the disbursements that are open.   *)

(* What is reserved is what is open, and it is covered.                    *)
ReservedInv == payable = SumOver(Rounded, Open) /\ payable \in 0..cash

(* Each open disbursement is a term of the sum, and no term is negative.   *)
LEMMA OpenTerms ==
    ASSUME IsFiniteSet(Disbursements), TypeOK
    PROVE  /\ IsFiniteSet(Open) /\ Open \subseteq Requests
           /\ \A r \in Requests : Rounded[r] = ToMinorUnits(amount[r])
           /\ \A r \in Requests : Rounded[r] \in Nat
           /\ SumOver(Rounded, Open) \in Nat
           /\ \A r \in Open : Rounded[r] <= SumOver(Rounded, Open)
<1>1. IsFiniteSet(Open) /\ Open \subseteq Requests
  BY FS_Subset, ChargesAssumption DEF Open, With
<1>2. \A r \in Requests : Rounded[r] = ToMinorUnits(amount[r]) /\ Rounded[r] \in Nat
  BY Conversions DEF Rounded, TypeOK
<1>. QED BY <1>1, <1>2, SumBounds

(* The sum changes with what becomes open and what ceases to be.           *)
LEMMA ReservedSteps ==
    ASSUME IsFiniteSet(Disbursements), TypeOK, TypeOK',
           \A r \in Open : amount'[r] = amount[r]
    PROVE  /\ Open' = Open => SumOver(Rounded, Open)' = SumOver(Rounded, Open)
           /\ \A r \in Requests \ Open :
                  Open' = Open \cup {r} =>
                      SumOver(Rounded, Open)' = SumOver(Rounded, Open) + Rounded'[r]
           /\ \A r \in Open :
                  Open' = Open \ {r} =>
                      SumOver(Rounded, Open)' = SumOver(Rounded, Open) - Rounded[r]
<1>1. /\ IsFiniteSet(Open) /\ Open \subseteq Requests
      /\ \A r \in Requests : Rounded[r] \in Nat
      /\ SumOver(Rounded, Open) \in Nat
  BY OpenTerms
<1>2. \A r \in Requests : Rounded'[r] \in Nat
  BY Conversions DEF Rounded, TypeOK
<1>3. \A r \in Open : Rounded'[r] = Rounded[r]
  BY <1>1 DEF Rounded
<1>4. SumOver(Rounded', Open) = SumOver(Rounded, Open)
  BY <1>1, <1>3, SumSame
<1>5. SumOver(Rounded, Open)' = SumOver(Rounded', Open')
  BY DEF SumOver, MapThenSumSet, MapThenFoldSet
<1>6. ASSUME NEW r \in Requests \ Open, Open' = Open \cup {r}
      PROVE  SumOver(Rounded, Open)' = SumOver(Rounded, Open) + Rounded'[r]
  <2>0. \A q \in Open \cup {r} : Rounded'[q] \in Int
    BY <1>1, <1>2
  <2>1. SumOver(Rounded', Open \cup {r}) = SumOver(Rounded', Open) + Rounded'[r]
    BY <1>1, <2>0, SumAdd
  <2>. QED BY <1>4, <1>5, <1>6, <2>1
<1>7. ASSUME NEW r \in Open, Open' = Open \ {r}
      PROVE  SumOver(Rounded, Open)' = SumOver(Rounded, Open) - Rounded[r]
  <2>1. SumOver(Rounded, Open) = Rounded[r] + SumOver(Rounded, Open \ {r})
    BY <1>1, SumRemove
  <2>2. IsFiniteSet(Open \ {r})
    BY <1>1, FS_Subset
  <2>3. SumOver(Rounded', Open \ {r}) = SumOver(Rounded, Open \ {r})
    BY <1>3, <2>2, SumSame
  <2>4. SumOver(Rounded, Open \ {r}) \in Int /\ Rounded[r] \in Int
    BY <1>1, <2>2, SumInt
  <2>5. SumOver(Rounded, Open)' = SumOver(Rounded, Open \ {r})
    BY <1>5, <1>7, <2>3
  <2>. QED BY <2>1, <2>4, <2>5
<1>. QED BY <1>4, <1>5, <1>6, <1>7

(* A step leaves what is reserved alone, approves or releases an amount.   *)
LEMMA ReservedKeeps ==
    ASSUME IsFiniteSet(Disbursements), ChargesInv, ChargesInv', ReservedInv, [Next]_vars
    PROVE  ReservedInv'
<1>. USE ChargesAssumption
<1>0. TypeOK /\ TypeOK'
  BY DEF ChargesInv
<1>1. /\ \A r \in Requests : Rounded[r] = ToMinorUnits(amount[r]) /\ Rounded[r] \in Nat
      /\ \A r \in Open : Rounded[r] <= SumOver(Rounded, Open)
      /\ cash \in Int /\ payable \in Int
      /\ payable = SumOver(Rounded, Open) /\ payable >= 0 /\ payable <= cash
  BY <1>0, OpenTerms DEF ReservedInv, TypeOK
<1>2. ASSUME Open' = Open, \A r \in Open : amount'[r] = amount[r],
             payable' = payable, cash' \in Int, cash' >= cash
      PROVE  ReservedInv'
  <2>1. SumOver(Rounded, Open)' = SumOver(Rounded, Open)
    BY <1>0, <1>2, ReservedSteps
  <2>. QED BY <1>1, <1>2, <2>1 DEF ReservedInv
<1>3. ASSUME NEW r \in Open, Open' = Open \ {r}, amount' = amount,
             payable' = payable - ToMinorUnits(amount[r]),
             cash' \in {cash, cash - ToMinorUnits(amount[r])}
      PROVE  ReservedInv'
  <2>0. r \in Requests
    BY DEF Open, With
  <2>1. SumOver(Rounded, Open)' = SumOver(Rounded, Open) - Rounded[r]
    BY <1>0, <1>3, ReservedSteps
  <2>2. Rounded[r] = ToMinorUnits(amount[r]) /\ Rounded[r] \in Nat
        /\ Rounded[r] <= SumOver(Rounded, Open)
    BY <1>1, <2>0
  <2>. QED BY <1>1, <1>3, <2>1, <2>2 DEF ReservedInv
<1>4. CASE UNCHANGED vars
  BY <1>1, <1>2, <1>4 DEF vars, ledgerVars, Open, With
<1>5. ASSUME NEW parts \in FundAmounts, Fund(parts)
      PROVE  ReservedInv'
  <2>1. ToMinorUnits(parts) \in Nat
    BY <1>5, Conversions DEF Fund
  <2>. QED BY <1>1, <1>2, <1>5, <2>1 DEF Fund, Open, With
<1>6. ASSUME NEW r \in Requests, NEW parts \in FormAmounts, Submit(r, parts)
      PROVE  ReservedInv'
  <2>1. Open' = Open
    BY <1>0, <1>6 DEF TypeOK, Submit, Become, Open, With
  <2>2. \A q \in Open : amount'[q] = amount[q]
    BY <1>0, <1>6 DEF TypeOK, Submit, Open, With
  <2>. QED BY <1>1, <1>2, <1>6, <2>1, <2>2 DEF Submit, ledgerVars
<1>7. ASSUME NEW r \in Requests,
             ApproveCollection(r) \/ Reject(r) \/ Charge(r) \/ Strand(r)
      PROVE  ReservedInv'
  <2>1. Open' = Open
    BY <1>0, <1>7 DEF TypeOK, ApproveCollection, Reject, Charge, Strand,
                      Become, Open, With
  <2>. QED BY <1>1, <1>2, <1>7, <2>1
           DEF ApproveCollection, Reject, Charge, Strand, ledgerVars
<1>8. ASSUME NEW r \in Requests, ApproveDisbursement(r)
      PROVE  ReservedInv'
  <2>1. r \notin Open /\ Open' = Open \cup {r}
    BY <1>0, <1>8 DEF TypeOK, ApproveDisbursement, Become, Open, With
  <2>2. amount' = amount /\ cash' = cash
    BY <1>8 DEF ApproveDisbursement
  <2>3. Rounded' = Rounded
    BY <2>2 DEF Rounded
  <2>4. SumOver(Rounded, Open)' = SumOver(Rounded, Open) + Rounded[r]
    BY <1>0, <2>1, <2>2, <2>3, ReservedSteps
  <2>5. payable' = payable + Rounded[r] /\ Rounded[r] <= cash - payable
    BY <1>1, <1>8 DEF ApproveDisbursement
  <2>6. Rounded[r] \in Nat
    BY <1>1
  <2>. QED BY <1>1, <2>2, <2>4, <2>5, <2>6 DEF ReservedInv
<1>9. ASSUME NEW r \in Requests, Refuse(r) \/ Fail(r) \/ Settle(r)
      PROVE  ReservedInv'
  <2>1. CASE r \in Disbursements
    <3>1. r \in Open /\ Open' = Open \ {r}
      BY <1>0, <1>9, <2>1 DEF TypeOK, Refuse, Fail, Settle, Become, Open, With
    <3>2. /\ amount' = amount /\ payable' = payable - ToMinorUnits(amount[r])
          /\ cash' \in {cash, cash - ToMinorUnits(amount[r])}
      BY <1>9, <2>1 DEF Refuse, Fail, Settle, Release
    <3>. QED BY <1>3, <3>1, <3>2
  <2>2. CASE r \notin Disbursements
    <3>1. Open' = Open
      BY <1>0, <1>9, <2>2 DEF TypeOK, Refuse, Fail, Settle, Become, Open, With
    <3>2. /\ amount' = amount /\ payable' = payable
          /\ cash' \in {cash, cash + ToMinorUnits(amount[r])}
      BY <1>9, <2>2 DEF Refuse, Fail, Settle, Release
    <3>3. ToMinorUnits(amount[r]) \in Nat
      BY <1>1
    <3>. QED BY <1>1, <1>2, <3>1, <3>2, <3>3
  <2>. QED BY <2>1, <2>2
<1>. QED BY <1>4, <1>5, <1>6, <1>7, <1>8, <1>9 DEF Next

(* Nothing is reserved at the start.                                       *)
LEMMA ReservedInit == Init => ReservedInv
<1>. SUFFICES ASSUME Init PROVE ReservedInv
  OBVIOUS
<1>1. Open = {}
  BY ChargesAssumption DEF Init, Open, With
<1>. QED BY <1>1, SumEmpty DEF Init, ReservedInv

(* The invariant holds in every behaviour over finitely many requests.     *)
LEMMA ReservedAlways ==
    ASSUME IsFiniteSet(Disbursements)
    PROVE  Spec => [](TypeOK /\ ReservedInv)
<1>1. ChargesInv /\ ChargesInv' /\ ReservedInv /\ [Next]_vars => ReservedInv'
  BY ReservedKeeps
<1>2. ChargesInv => TypeOK
  BY DEF ChargesInv
<1>. QED BY <1>1, <1>2, ReservedInit, Invariant, PTL DEF Spec

(* The balance of PAYABLE is, to the unit, what the disbursements approved *)
(* and not yet ended round to: no posting leaves a remainder.              *)
THEOREM ReservesToTheUnit ==
    ASSUME IsFiniteSet(Disbursements)
    PROVE  Spec => []ReservedToTheUnit
<1>1. ReservedInv => ReservedToTheUnit
  BY DEF ReservedInv, ReservedToTheUnit, Sum, SumOver
<1>. QED BY <1>1, ReservedAlways, PTL

(* Termwise the cast gives no more than the rounding, so in the sum too.   *)
LEMMA TruncatedIsLess ==
    ASSUME IsFiniteSet(Disbursements), TypeOK
    PROVE  SumOver(Truncated, Open) <= SumOver(Rounded, Open)
<1>. DEFINE rest == [r \in Requests |-> Rounded[r] - Truncated[r]]
<1>1. IsFiniteSet(Open) /\ Open \subseteq Requests
  BY OpenTerms
<1>2. \A r \in Requests : /\ Rounded[r] \in Nat /\ Truncated[r] \in Nat
                          /\ Rounded[r] - Truncated[r] \in Nat
  BY Conversions DEF Rounded, Truncated, TypeOK
<1>3. \A r \in Open : /\ Truncated[r] \in Int /\ rest[r] \in Int
                      /\ Rounded[r] = Truncated[r] + rest[r]
  BY <1>1, <1>2
<1>4. \A r \in Open : Truncated[r] \in Nat /\ rest[r] \in Nat
  BY <1>1, <1>2
<1>. HIDE DEF rest
<1>5. SumOver(Rounded, Open) = SumOver(Truncated, Open) + SumOver(rest, Open)
  BY <1>1, <1>3, SumPlus
<1>6. SumOver(Truncated, Open) \in Nat /\ SumOver(rest, Open) \in Nat
  BY <1>1, <1>4, SumBounds
<1>. QED BY <1>5, <1>6

(* The guard of Approve covers every reservation, and a reservation what   *)
(* Stripe is asked for, whatever amounts the forms carry and however they  *)
(* round.                                                                  *)
THEOREM ReservesWhatIsCovered ==
    ASSUME IsFiniteSet(Disbursements)
    PROVE  Spec => []ReservedIsCovered
<1>1. TypeOK /\ ReservedInv => ReservedIsCovered
  BY TruncatedIsLess DEF ReservedInv, ReservedIsCovered, Sum, SumOver, TypeOK
<1>. QED BY <1>1, ReservedAlways, PTL

=============================================================================
