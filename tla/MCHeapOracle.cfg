CONSTANTS
  UsizeMax = 4095
  Addr = {a1, a2, a3}
  Null = Null
  Size = {0, 200}
  TcacheFillCount = 1
  AlertCap = 2
  MaxEvents = 6
SPECIFICATION Spec
INVARIANTS TypeOK BinsMirrorState BinIndexAgrees TcacheBounded CountsMatch
           BinHoldsOneSize AlertsExplainUaf
PROPERTIES LifeCycle AlertsAreJustified RefinesShadowHeap
CHECK_DEADLOCK FALSE
SYMMETRY Symmetry
