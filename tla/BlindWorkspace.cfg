\* Two builders, two freezers, a reader and an editor of one directory.
SPECIFICATION Spec
CONSTANTS
  Builders = {b1, b2}
  Tools = {"benchmark", "four_track", "skill", "demo"}
  Freezers = {f1, f2}
  ByCommand = {}
  Readers = {r1}
  Runs = {run1, run2}
  Anonymous = Anonymous
  Outsider = Outsider
  NoFile = NoFile
  MaxEdits = 1
INVARIANTS SealedIsWhole OneBuilder OpenedMeansUntouched NoFalseAlarm
PROPERTIES FrozenForGood
SYMMETRY Symmetry
CONSTRAINT OneFileEdited
CHECK_DEADLOCK FALSE
