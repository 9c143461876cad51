\* One file, opened again and again for two sessions, with torn writes.
SPECIFICATION Spec
CONSTANTS
  run = run
  rerun = rerun
  Closed = Closed
  Sessions = {run, rerun}
  MaxOpens = 3
  MaxAppends = 6
SYMMETRY Renamed
INVARIANTS
  ReadableNumbersGrow
  TornWritesCostOneEvent
PROPERTY KeepsJournal
CHECK_DEADLOCK FALSE
