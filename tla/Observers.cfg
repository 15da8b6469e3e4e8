CONSTANTS
  Threads = {t1, t2, t3}
  Nodes = {n1, n2}
  n1 = n1
  n2 = n2
  plain = plain
  Subscribers <- WithPlain
  Capacity <- Capacities
  Balancers = {b1, b2}
  Rotators = {r1}
  Direct = {n1}
  MaxFires = 6
  None = None
  Users = {u1, u2}
  Values <- SmallValues
  Missing = Missing
  Keys = {k1, k2}
  SameKey = FALSE
  MaxCalls = 4
  Epoch = 9
  Weights = {0, 2}
  Reporters = {logging, totals}
  logging = logging
  MRO <- TimingMRO
  Fragile = {"update", "measurement"}
  MaxClock = 1
SPECIFICATION PartSpec
SYMMETRY DispatchSymmetry
INVARIANTS WithinCapacity ReductionsAgree MeasurementsReported UpdatesAtomic
PROPERTIES SaturatedMeansBusy ElapsedIsOwn
CHECK_DEADLOCK FALSE
