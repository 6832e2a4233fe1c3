---------------------------- MODULE MCBillDraft ----------------------------
(* Instances of BillDraft: two OCR jobs of two attempts, and one request   *)
(* besides the edits, which are atomic.  Jobs are symmetric.               *)
(* The functions of BillAllocation are checked beside it: three members,   *)
(* one of them inactive, bills of two items, receipts of up to three lines.*)
EXTENDS BillContents

CONSTANTS j1, j2, c1

Symmetry == Permutations(Jobs)

MCMembers == {1, 2, 3}
MCActive == {1, 2}
Weights(M) == UNION {[S -> 1..2] : S \in (SUBSET M) \ {{}}}

\* Reported amounts are right, or all of them off by one.
MCRequests ==
  {[creditor |-> m,
    items |-> <<[line |-> l, discount |-> d, weights |-> w],
                [line |-> 3, discount |-> e, weights |-> [k \in {2} |-> 1]]>>,
    subtotal |-> l + 3 + off, service |-> s, vat |-> 1, discount |-> g,
    total |-> AtLeast0(l + 4 + s - g) + off] :
   m \in MCActive, l \in {0, 4}, d \in {0, 1, 4}, e \in {0, 3},
   w \in Weights(MCActive) \cup {[k \in {1, 3} |-> 1], [k \in {} |-> 1]},
   off \in 0..1, s \in {0, 2}, g \in {0, 1, 4, 7}}

MCReceipts ==
  {[lines |-> ls, subtotal |-> t, service |-> 1, vat |-> v, discount |-> g, total |-> n] :
   ls \in UNION {[1..k -> [promotion : BOOLEAN, amount : {1, 3}]] : k \in 0..3},
   t \in {0, 4}, v \in {0, 2}, g \in {0, 2, 3}, n \in {0, 3, 5}}

MCSplits ==
  {[creditor |-> 2,
    items |-> <<[amount |-> a, weights |-> w], [amount |-> b, weights |-> u],
                [amount |-> 2, weights |-> [k \in 1..3 |-> 1]]>>,
    service |-> s, vat |-> 1, discount |-> g] :
   a \in {1, 4}, b \in {0, 3}, w \in Weights(MCMembers), u \in Weights({2, 3}),
   s \in {0, 2}, g \in {0, 5}}
=============================================================================
