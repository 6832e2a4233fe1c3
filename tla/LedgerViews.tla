---------------------------- MODULE LedgerViews ----------------------------
(***************************************************************************)
(* What the members of a group are shown of its ledger: their totals, the  *)
(* net matrix and the personal summary.  Four queries compute them, each   *)
(* with its own filter on the status of a debt.  The pages of rows that    *)
(* are listed beside them are left out.                                    *)
(***************************************************************************)
EXTENDS Settlement, Integers

\* Tables have finitely many rows.
ASSUME LedgerAssumption ==
  IsFiniteSet(Members) /\ IsFiniteSet(Bills) /\ IsFiniteSet(Payments)

\* status IN ('awaiting', 'pending_confirmation')
Shown == {d \in Debts : debtStatus[d] \in {"awaiting", "pending_confirmation"}}
OwedBy(m) == Sum({d \in Shown : PairOf(d)[1] = m})
OwedTo(m) == Sum({d \in Shown : PairOf(d)[2] = m})

\* GetCallerDebtTotals: payable and receivable of the caller.
CallerDebtTotals(m) == [payable |-> OwedBy(m), receivable |-> OwedTo(m)]

\* GetDebtMatrix: of each pair of members the one that owes more, and how much
\* more; a pair that is even has no row.
DebtMatrix ==
  LET directional(p) == Sum({d \in Shown : PairOf(d) = p})
      net(p) == directional(p) - directional(<<p[2], p[1]>>)
  IN  {[debtor |-> p[1], creditor |-> p[2], amount |-> net(p)] :
       p \in {pair \in {PairOf(d) : d \in Shown} : net(pair) > 0}}

\* GetExpenseSummary; net_balance is the view v_member_balances.
ExpenseSummary(m) ==
  [owed |-> OwedBy(m),
   settled |-> Sum({d \in Debts : debtStatus[d] = "settled" /\ PairOf(d)[1] = m}),
   receivable |-> OwedTo(m),
   netBalance |-> OwedTo(m) - OwedBy(m)]

-----------------------------------------------------------------------------
(* Properties. *)

RowsTotal(rows) == SumFunctionOnSet([row \in rows |-> row.amount], rows)

\* What the bills in force ask of a member (side 1 of a pair) or for it (side 2),
\* and the confirmed payments it has made or received.
Charged(m, side) ==
  Sum({d \in Debts : billStatus[BillOf(d)] = "finalized" /\ PairOf(d)[side] = m})
Paid(m, side) ==
  SumFunctionOnSet(payAmount,
    {p \in Payments : payStatus[p] = "confirmed" /\ payPair[p][side] = m})

\* Money: a member is shown, in the matrix as in the summary, exactly what the
\* finalized bills ask of it less what it has paid by confirmed payments, and
\* has settled what it has paid.  Bills are finalized and voided, codes made,
\* claimed, answered and replaced by different calls; the amount of a payment
\* is fixed with its code (GetDebtMatrix, GetCallerDebtTotals,
\* GetExpenseSummary against finalizeCore, VoidBill and finishPayment).
MoneyConserved ==
  LET matrix == DebtMatrix
  IN  \A m \in Members :
        LET summary == ExpenseSummary(m)
            totals == CallerDebtTotals(m)
        IN  /\ summary.settled = Paid(m, 1)
            /\ totals.payable = Charged(m, 1) - Paid(m, 1)
            /\ totals.receivable = Charged(m, 2) - Paid(m, 2)
            /\ summary.netBalance = totals.receivable - totals.payable
            /\ summary.netBalance =
                 RowsTotal({row \in matrix : row.creditor = m})
                 - RowsTotal({row \in matrix : row.debtor = m})
=============================================================================
