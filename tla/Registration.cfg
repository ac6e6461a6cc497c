SPECIFICATION FairSpec
CONSTANTS
  MaxRegs = 2
  MaxVersion = 7
  Keys = {k1, k2}
  Targets = {t1}
  NoSave = NoSave
  Absent = Absent
  NoProc = NoProc
  Scenes <- MCScenes
INVARIANTS
  RunsRegistered
PROPERTIES
  NoLostUpdate
  EditTakesEffect
  WakesOnEvent
CHECK_DEADLOCK FALSE
