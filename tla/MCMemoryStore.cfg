\* Three rows: a chain of three versions, a chain of two beside a single row,
\* an import of two entries next to a row of another origin.
SPECIFICATION Spec
CONSTANTS
  c1 = c1
  c2 = c2
  p1 = p1
  Contents <- MCContents
  Normal <- MCNormal
  Words <- MCWords
  Names <- MCNames
  Fold <- MCFold
  NameOrder <- MCNameOrder
  Convs = {k1}
  Readers = {r1}
  MaxRows = 3
  MaxEntries = 2
  None = None
  Absent = Absent
SYMMETRY Symmetry
INVARIANTS
  LinksAgree
  ImportAddsOnlyNew
  ConfirmedInScope
  HistoryComplete
