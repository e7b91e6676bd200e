SPECIFICATION PoolSpec
CONSTANTS
  NSlots = 2
  Proc = {p1, p2, p3, p4}
  Mortal = {1, 2}
  Builder = {"b1", "b2"}
  Jobs <- MCJobs
  MaxEdits = 1
INVARIANTS TypeOK OneOwnerPerSlot PermitFindsSlot AllDeadIsTrue PublishedTrue
PROPERTY HealthyPoolNeverParks
