\* The results of one run, frozen by the command blind-freeze.
SPECIFICATION Spec
CONSTANTS
  Builders = {b1}
  Tools = {"skill"}
  Freezers = {f1}
  ByCommand = {f1}
  Readers = {r1}
  Runs = {run1, run2}
  Anonymous = Anonymous
  Outsider = Outsider
  NoFile = NoFile
  MaxEdits = 0
INVARIANTS ReferenceOfTheRun
CHECK_DEADLOCK FALSE
