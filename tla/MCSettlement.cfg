CONSTANTS
  ann = ann
  bob = bob
  cat = cat
  dinner = dinner
  taxi = taxi
  lunch = lunch
  Members = {ann, bob, cat}
  Founder = ann
  Bills = {dinner, taxi, lunch}
  Payments = {p1, p2}
  NoPayment = NoPayment
  Creditor <- MCCreditor
  Owes <- MCOwes
  Amount <- MCAmount
  ProfileEditors = {ann}
  MaxInFlight = 1
SPECIFICATION Spec
SYMMETRY Symmetry
INVARIANTS
  DebtsFollowPayments
  LiveCodesArePayable
  PaymentPartiesActive
  BillsAndDebtsAgree
  ArchivedIsSettled
  MoneyConserved
PROPERTIES
  BookSpec
