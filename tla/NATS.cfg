CONSTANTS
  Threads = {t1, t2}
  Topics = {x}
  Ops = {"subscribe", "receive", "send"}
  MaxOps = 3
  Queue = Queue
  None = None
SPECIFICATION NatsFairSpec
INVARIANTS ServerAccounted NoMissedCall
PROPERTY CallsReturn
CHECK_DEADLOCK FALSE
