\* The documented tie-break among frames at distance +inf.
SPECIFICATION HistorySpec
CONSTANTS
  Frames = {f1, f2}
  NoFrame = NoFrame
  K = 2
  MaxTimestamp = 2
PROPERTY ImplementsLRUKEarliestFirst
