SPECIFICATION MdnsSpec
CONSTANTS
  Services = {s1, s2}
  Ifs = {"sta", "eth"}
  Protos = {"v4"}
  NetifActions <- MCNetifActions
  QueueLength = 3
  MaxPosts = 3
  Searches = {q1, q2}
  Results = {r1, r2}
INVARIANTS
  WorkIsScheduled WaiterIsServed
PROPERTIES
  Settles
CHECK_DEADLOCK FALSE
