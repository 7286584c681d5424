SPECIFICATION MCSpec
CONSTANTS
  k1 = k1
  k2 = k2
  p1 = p1
  p2 = p2
  g1 = g1
  g2 = g2
  o1 = o1
  o2 = o2
  o3 = o3
  o4 = o4
  Key <- MCKey
  Product <- MCProduct
  ProductOf <- MCProductOf
  Document <- Imported
  Absent = Absent
  None = None
  Token = {t1}
  Operation <- MCOperation
  Page <- MCPage
  MaxQuantity = 2
  UndoWindow = 2
  ConfirmationTTL = 2
  MaxClock = 2
  MaxCatalogue = 2
  MaxClears = 1
SYMMETRY Symmetry
INVARIANTS
  RevisionNamesContents
  UndoBelongsToItsFirstEdit
  UndoTouchesOneLine
PROPERTIES
  MutatesWhatWasConfirmed
CHECK_DEADLOCK FALSE
