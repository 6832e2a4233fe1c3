--------------------------- MODULE BillAllocation ---------------------------
(***************************************************************************)
(* How the total of a bill is divided: the contents of a bill as a request *)
(* or the OCR normalizer makes them, the reconciliation that blocks them,  *)
(* and the largest-remainder allocation of what is reconciled (spec 0003,  *)
(* AC-6, AC-10, AC-15 to AC-20).  Pure functions: no state.                *)
(*                                                                         *)
(* Amounts are whole VND.  The exact rational shares of one bill are       *)
(* numerators over one common denominator, Scale.  Overflow of int64 is    *)
(* left out: it is rejected by the code and out of the range of TLC.       *)
(***************************************************************************)
EXTENDS Integers, Sequences, SequencesExt

CONSTANTS
  Members,   \* members of the group, in the order of the bytes of their ids
  Active,    \* those that are active
  Requests,  \* bound: bodies of POST /bills and PUT /bills/{id}
  Receipts,  \* bound: receipts as the OCR provider reads them
  Splits     \* bound: inputs of CalculateAllocation

\* A list, as the columns of ordered rows: its positions are 1 to its length.
IsList(s) == Len(s) \in Nat /\ DOMAIN s = 1..Len(s)

\* Weights are positive (CHECK of bill_item_assignments, and the validations of
\* requests and of CalculateAllocation).
IsWeighting(w) == w \in [DOMAIN w -> Nat \ {0}]

\* Amounts are not negative: requests that have a negative one are rejected, the
\* normalizer reads a negative one as 0, CalculateAllocation refuses it.
ASSUME AllocationAssumption ==
  /\ Members \subseteq Nat /\ IsFiniteSet(Members)
  /\ Active \subseteq Members
  /\ \A q \in Requests :
       /\ {q.subtotal, q.service, q.vat, q.discount, q.total} \subseteq Nat
       /\ IsList(q.items)
       /\ \A i \in DOMAIN q.items :
            /\ {q.items[i].line, q.items[i].discount} \subseteq Nat
            /\ IsWeighting(q.items[i].weights)
  /\ \A r \in Receipts :
       /\ {r.subtotal, r.service, r.vat, r.discount, r.total} \subseteq Nat
       /\ IsList(r.lines)
       /\ \A i \in DOMAIN r.lines :
            r.lines[i].promotion \in BOOLEAN /\ r.lines[i].amount \in Nat
  /\ \A s \in Splits :
       /\ s.creditor \in Members
       /\ {s.service, s.vat, s.discount} \subseteq Nat
       /\ IsList(s.items)
       /\ \A i \in DOMAIN s.items :
            /\ s.items[i].amount \in Nat
            /\ IsWeighting(s.items[i].weights)
            /\ DOMAIN s.items[i].weights \in (SUBSET Members) \ {{}}

-----------------------------------------------------------------------------
AtLeast0(n) == IF n < 0 THEN 0 ELSE n
Total(f) == SumFunction(f)
LinesOf(items) == Total([i \in DOMAIN items |-> items[i].line])
ItemDiscount(items) == Total([i \in DOMAIN items |-> items[i].discount])

\* POST /bills and PUT /bills/{id}.
Acceptable(req) ==
  /\ \A i \in DOMAIN req.items : req.items[i].discount <= req.items[i].line
  /\ req.discount >= ItemDiscount(req.items)

DraftOfRequest(req) ==
  [creditor |-> req.creditor, subtotal |-> req.subtotal,
   service |-> req.service, vat |-> req.vat, total |-> req.total,
   discount |-> req.discount, itemDiscount |-> ItemDiscount(req.items),
   generalDiscount |-> req.discount - ItemDiscount(req.items),
   items |-> [i \in DOMAIN req.items |->
     [line |-> req.items[i].line, discount |-> req.items[i].discount,
      final |-> req.items[i].line - req.items[i].discount,
      weights |-> req.items[i].weights]]]

\* One line of a receipt: an item, or a promotion on the item before it.
FoldLine(read, l) ==
  LET last == Last(read.items)
      promoted == last.discount + l.amount
  IN  CASE ~l.promotion ->
             [read EXCEPT !.items = Append(@, [line |-> l.amount, discount |-> 0,
                                               final |-> l.amount])]
        [] l.promotion /\ read.items = <<>> -> [read EXCEPT !.orphan = @ + l.amount]
        [] OTHER ->
             [read EXCEPT
               !.items = ReplaceAt(@, Len(@),
                 IF promoted > last.line
                 THEN [last EXCEPT !.discount = last.line, !.final = 0]
                 ELSE [last EXCEPT !.discount = promoted, !.final = last.line - promoted]),
               !.excess = @ + AtLeast0(promoted - last.line)]

\* The totals of a receipt; those that were not read are computed.
Summed(receipt, read) ==
  LET ofItems == ItemDiscount(read.items)
      general == AtLeast0(receipt.discount + read.orphan - ofItems) + read.excess
      subtotal == IF receipt.subtotal = 0 THEN LinesOf(read.items) ELSE receipt.subtotal
      computed == AtLeast0(subtotal + receipt.service + receipt.vat - ofItems - general)
  IN  [subtotal |-> subtotal, service |-> receipt.service, vat |-> receipt.vat,
       total |-> IF receipt.total = 0 THEN computed ELSE receipt.total,
       discount |-> ofItems + general, itemDiscount |-> ofItems,
       generalDiscount |-> general, items |-> read.items]

Normalize(receipt) ==
  Summed(receipt, FoldLeft(FoldLine, [items |-> <<>>, orphan |-> 0, excess |-> 0],
                           receipt.lines))

\* Every item is divided among the active members, to be corrected by hand.
DraftOfCandidate(candidate, creditor) ==
  [creditor |-> creditor, subtotal |-> candidate.subtotal,
   service |-> candidate.service, vat |-> candidate.vat, total |-> candidate.total,
   discount |-> candidate.discount, itemDiscount |-> candidate.itemDiscount,
   generalDiscount |-> candidate.generalDiscount,
   items |-> [i \in DOMAIN candidate.items |->
     [line |-> candidate.items[i].line, discount |-> candidate.items[i].discount,
      final |-> candidate.items[i].final, weights |-> [m \in Active |-> 1]]]]

Drafts == {DraftOfRequest(r) : r \in {q \in Requests : Acceptable(q)}} \cup
          {DraftOfCandidate(c, m) : c \in {Normalize(r) : r \in Receipts}, m \in Members}

-----------------------------------------------------------------------------
(* CalculateAllocation, on [creditor, service, vat, discount,              *)
(* items : Seq([amount, weights])].                                        *)

Sharers(in) == {in.creditor} \cup UNION {DOMAIN in.items[i].weights : i \in DOMAIN in.items}
ItemsTotal(in) == Total([i \in DOMAIN in.items |-> in.items[i].amount])
AllocTotal(in) == ItemsTotal(in) + in.service + in.vat - in.discount

Weight(item) == Total(item.weights)
Common(in) == FoldLeft(LAMBDA p, item : p * Weight(item), 1, in.items)
Scale(in) == Common(in) * (IF ItemsTotal(in) = 0 THEN 1 ELSE ItemsTotal(in))

\* The part of all items that m has, over Common(in).
Items(in, m) ==
  Total([i \in DOMAIN in.items |->
    IF m \in DOMAIN in.items[i].weights
    THEN in.items[i].amount * in.items[i].weights[m] * (Common(in) \div Weight(in.items[i]))
    ELSE 0])

\* Of a charge a member bears as much as of the items; the creditor bears
\* it when the items are free.  A discount beyond what a member owes goes
\* to the creditor.
Exact(in) ==
  LET scale == Scale(in)
      part == [m \in Sharers(in) |-> Items(in, m)]
      Charge(m, c) == IF ItemsTotal(in) > 0 THEN c * part[m]
                      ELSE IF m = in.creditor THEN c * scale ELSE 0
      owed == [m \in Sharers(in) |-> part[m] * (scale \div Common(in))
                                     + Charge(m, in.service) + Charge(m, in.vat)]
      cut == [m \in Sharers(in) |-> IF m = in.creditor THEN 0
                                    ELSE AtLeast0(Charge(m, in.discount) - owed[m])]
  IN  [m \in Sharers(in) |-> owed[m] - Charge(m, in.discount) + cut[m]
                             - (IF m = in.creditor THEN Total(cut) ELSE 0)]

\* Mutant: the creditor comes first, as in an earlier version.
CreditorFirst(in, fraction, n, m) ==
  m # in.creditor /\ (n = in.creditor \/ fraction[n] > fraction[m])

Precedes(in, fraction, n, m) ==
  fraction[n] > fraction[m] \/ (fraction[n] = fraction[m] /\ n < m)

Allocatable(in) == AllocTotal(in) >= 0 /\ Exact(in)[in.creditor] >= 0

\* The exact shares rounded down, and one VND more for those that come first.
Rounded(in, exact) ==
  LET scale == Scale(in)
      base == [m \in DOMAIN exact |-> exact[m] \div scale]
      fraction == [m \in DOMAIN exact |-> exact[m] % scale]
      remaining == AllocTotal(in) - Total(base)
      Rank(m) == Cardinality({n \in DOMAIN exact : Precedes(in, fraction, n, m)})
  IN  [m \in DOMAIN exact |-> IF Rank(m) < remaining THEN base[m] + 1 ELSE base[m]]

\* Exact(in) is evaluated once, as the value of a bound variable.
CalculateAllocation(in) == CHOOSE shares \in {Rounded(in, exact) : exact \in {Exact(in)}} : TRUE

\* The personal expenses page shows a member its part of each item it shares:
\* rounded down, and one VND more for the largest fractions until the parts
\* make the item_subtotal of its share.  Weights are NUMERIC there; the exact
\* quotient is taken here.
SharedItems(in, m) == {i \in DOMAIN in.items : m \in DOMAIN in.items[i].weights}
ItemSubtotal(in, m) == Items(in, m) \div Common(in)

ItemShares(in, m) ==
  LET mine == SharedItems(in, m)
      part == [i \in mine |-> in.items[i].amount * in.items[i].weights[m]]
      whole == [i \in mine |-> Weight(in.items[i])]
      base == [i \in mine |-> part[i] \div whole[i]]
      residual == ItemSubtotal(in, m) - Total(base)
      Before(i, j) ==
        LET left == (part[i] % whole[i]) * whole[j]
            right == (part[j] % whole[j]) * whole[i]
        IN  left > right \/ (left = right /\ i < j)
      Rank(i) == 1 + Cardinality({j \in mine : Before(j, i)})
  IN  [i \in mine |-> IF Rank(i) <= residual THEN base[i] + 1 ELSE base[i]]

-----------------------------------------------------------------------------
(* evaluateAllocation. *)

Blockers(b) ==
  {c \in {"ITEM_UNASSIGNED", "INACTIVE_MEMBER_ASSIGNED", "CREDITOR_REQUIRED",
          "DISCOUNT_EXCEEDS_BILL", "SUBTOTAL_MISMATCH", "TOTAL_MISMATCH"} :
    CASE c = "ITEM_UNASSIGNED" -> \E i \in DOMAIN b.items : b.items[i].weights = [m \in {} |-> 0]
      [] c = "INACTIVE_MEMBER_ASSIGNED" ->
           \E i \in DOMAIN b.items : ~(DOMAIN b.items[i].weights \subseteq Active)
      [] c = "CREDITOR_REQUIRED" -> b.creditor \notin Active
      [] c = "DISCOUNT_EXCEEDS_BILL" -> b.discount > b.subtotal + b.service + b.vat
      [] c = "SUBTOTAL_MISMATCH" -> b.subtotal # LinesOf(b.items)
      [] c = "TOTAL_MISMATCH" -> b.total # b.subtotal + b.service + b.vat - b.discount}

\* Mutant: the whole discount is divided, though the items have theirs.
WithWholeDiscount(b) ==
  [creditor |-> b.creditor, service |-> b.service, vat |-> b.vat, discount |-> b.discount,
   items |-> [i \in DOMAIN b.items |->
     [amount |-> b.items[i].final, weights |-> b.items[i].weights]]]

ToAllocationInput(b) ==
  [creditor |-> b.creditor, service |-> b.service, vat |-> b.vat,
   discount |-> b.generalDiscount,
   items |-> [i \in DOMAIN b.items |->
     [amount |-> b.items[i].final, weights |-> b.items[i].weights]]]

-----------------------------------------------------------------------------
(* Properties. *)

(* Whatever way its contents came, a bill that passes the reconciliation   *)
(* can be divided, no share is negative, the shares make the total that    *)
(* the bill states, though the two are computed from different columns     *)
(* (line_total and discount here, final_price and general_discount there), *)
(* and only its assignees and its creditor pay (evaluateAllocation,        *)
(* toAllocationInput, Normalize).                                          *)
SharesMakeTheBill == \A b \in {d \in Drafts : Blockers(d) = {}} :
  LET shares == CalculateAllocation(ToAllocationInput(b)) IN
    /\ Allocatable(ToAllocationInput(b))
    /\ Total(shares) = b.total
    /\ \A m \in DOMAIN shares : shares[m] >= 0
    /\ \A m \in DOMAIN shares : shares[m] > 0 =>
         \/ m = b.creditor
         \/ \E i \in DOMAIN b.items : m \in DOMAIN b.items[i].weights /\ b.items[i].final > 0

\* What is divided, and how, for every input that can be.
Divided == {[total |-> AllocTotal(in), scale |-> Scale(in), exact |-> Exact(in),
             shares |-> CalculateAllocation(in)] :
            in \in {s \in Splits : Allocatable(s)}}

\* How far shares are from the exact ones, all members together.
Distance(a, shares) ==
  Total([m \in DOMAIN shares |->
    LET off == shares[m] * a.scale - a.exact[m] IN IF off < 0 THEN -off ELSE off])

(* The shares make the total; no exchange of a VND between members, or of  *)
(* one each between several, brings them closer to the exact ones, all     *)
(* members together; and of members with equal exact shares none pays more *)
(* than one whose id comes before (CalculateAllocation).                   *)
RoundingIsFair == \A a \in Divided :
  LET exchanges == {d \in [DOMAIN a.shares -> -1..1] : Total(d) = 0}
      after(d) == [m \in DOMAIN a.shares |-> a.shares[m] + d[m]]
  IN  /\ Total(a.shares) = a.total
      /\ \A d \in exchanges : Distance(a, after(d)) >= Distance(a, a.shares)
      /\ \A m, n \in DOMAIN a.shares :
           a.exact[m] = a.exact[n] /\ m < n => a.shares[m] >= a.shares[n]

(* The items a member is shown add up to its item_subtotal, which is rounded *)
(* once, by the allocation, over all of them; no item is off its exact part  *)
(* by a VND or more (ListExpenseRows against CalculateAllocation).           *)
ExpensesAddUp == \A in \in {s \in Splits : Allocatable(s)} : \A m \in Sharers(in) :
  LET shown == ItemShares(in, m) IN
    /\ SharedItems(in, m) # {} => Total(shown) = ItemSubtotal(in, m)
    /\ \A i \in DOMAIN shown :
         LET off == shown[i] * Weight(in.items[i])
                    - in.items[i].amount * in.items[i].weights[m]
         IN  off < Weight(in.items[i]) /\ -off < Weight(in.items[i])
=============================================================================
