SPECIFICATION Spec
CONSTANTS
  tab1 = tab1  tab2 = tab2
  c1 = c1  c2 = c2  c3 = c3  c4 = c4  c5 = c5  c6 = c6
  ann = ann  bob = bob
  NoAccount = NoAccount
  NoTab = NoTab
  Tab = {tab1, tab2}
  Call = {c1, c2, c3, c4, c5}
  Account = {ann, bob}
  Faults = FALSE
  Expiries = 2
  Impatient = FALSE
  Barred = {}
CHECK_DEADLOCK FALSE
SYMMETRY CallSymmetry
INVARIANT ActsForWhoAsked
