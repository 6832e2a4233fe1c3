CONSTANTS
  g1 = g1 q1 = q1 w1 = w1 w2 = w2 k1 = k1 k2 = k2
  Debts <- MCDebts
  Groups <- MCGroups
  GroupOf <- MCGroupOf
  Requests <- MCRequests
  Scans <- MCScans
  Keys <- MCKeys
  MaxCount = 2
SPECIFICATION RemindersSpec
SYMMETRY Symmetry
INVARIANTS CountedOnce
PROPERTIES RemindersSpaced
