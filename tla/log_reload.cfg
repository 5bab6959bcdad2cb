SPECIFICATION Spec
CONSTANTS
  root = root
  http = http
  Setters = {s1, s2}
  Names = {root, http}
  Root = root
  Documents <- AllDocuments
  MostAppenders = 2
INVARIANT LogTypeOK AsConfigured AppenderFormats
CHECK_DEADLOCK FALSE
