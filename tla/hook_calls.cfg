SPECIFICATION FairSpec
CONSTANTS
  f1 = f1
  f2 = f2
  a = a
  b = b
  Fibers = {f1, f2}
  NoFiber = NoFiber
  Fds = {a, b}
  Uses <- AcceptAndWrite
  MaxCalls <- TwoAndNone
INVARIANT HookTypeOK OneWaker TimeoutIsOwn
PROPERTY BlocksOnlyUnblocked TimedWaitEnds
CHECK_DEADLOCK FALSE
