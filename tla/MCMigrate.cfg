\* Two instances of one release and one of the next, which adds a file between two
\* others; it alone may not be executed twice.
CONSTANTS
  a = a
  b = b
  c = c
  Runner <- MCRunner
  Release <- MCRelease
  Repeatable <- MCRepeatable
  MaxFailures = 2
SPECIFICATION Spec
CHECK_DEADLOCK FALSE
INVARIANTS
  MigrateInv
  DoneIsComplete
  OnceUnlessDisturbed
PROPERTIES
  RepeatableCompletes
