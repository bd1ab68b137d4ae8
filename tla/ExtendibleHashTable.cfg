\* Buckets of two pairs, a directory of up to eight entries.
SPECIFICATION Spec
CONSTANTS
  Keys <- MCKeys
  Hash <- MCHash
  Values = {a, b}
  BucketSize = 2
  MaxDepth = 3
  Absent = Absent
INVARIANTS
  TypeOK
  DirectoryIsPartition
  AllBucketsReachable
  DepthIsNeeded
PROPERTIES
  ImplementsMap
  InsertReturns
