SPECIFICATION Spec
CONSTANTS
  c = c
  w1 = w1
  w2 = w2
  AnyThread = AnyThread
  Workers = {c, w1}
  RootThread = c
  Pins = {AnyThread, c}
  Fibers = {f1, f2}
  NoFiber = NoFiber
  Tasks = {t1, t2}
  NoTask = NoTask
  MaxYields = 2
  MaxStops = 1
  CountMod = 4
SYMMETRY Symmetry
INVARIANT BackgroundStates
