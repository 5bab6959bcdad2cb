SPECIFICATION FairSpec
CONSTANTS
  c = c
  w1 = w1
  w2 = w2
  a = a
  AnyThread = AnyThread
  Workers = {w1}
  RootThread = AnyThread
  Pins = {AnyThread}
  Fibers = {f1, f2}
  NoFiber = NoFiber
  Tasks = {t1, t2}
  NoTask = NoTask
  MaxYields = 1
  MaxStops = 1
  CountMod = 4
  Fds = {a}
  Pipe = Pipe
  Uses <- Both
  Conditions = {"IN", "OUT"}
  TimerTasks = {t2}
INVARIANT NothingStranded
PROPERTY ReadyEventsFire TasksAreTaken 
