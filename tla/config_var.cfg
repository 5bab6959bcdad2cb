CONSTANTS
  Threads = {t1, t2, t3}
  NoThread = NoThread
  n1 = n1
  n2 = n2
  bad = bad
  x = x
  y = y
  Names = {n1, n2, bad}
  Legal = {n1, n2}
  Types = {int, str}
  Values = {x, y}
  Static = n1
  StaticType = int
  Documents <- MCDocuments
  MaxCalls = 4
SPECIFICATION FairSpec
INVARIANT ConfigOK OneVarPerName  ListenersTold
 
CHECK_DEADLOCK FALSE
