SPECIFICATION FairSpec
CONSTANTS
  Doc = {d1, d2}
  NoDoc = NoDoc
  Req = {r1, r2}
  Replica = {p1, p2}
  MaxFaults = 2
INVARIANTS TypeOK RowHasObject OrphansAreUploads UploadedStays
PROPERTIES ImplementsDocumentSet DeletesFinish ReplicasServe
CHECK_DEADLOCK FALSE
