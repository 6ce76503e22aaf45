SPECIFICATION Spec
CONSTANTS
  t1 = t1
  t2 = t2
  p1 = p1
  Tasks = {t1}
  Prompt <- Alike
  Spare = {}
  Jobs = {j1}
  NoJob = NoJob
  NoDoc = NoDoc
  Nobody = Nobody
  Sync = Sync
  Endings = {"succeeded"}
  MaxSaves = 1
  MaxReloads = 0
PROPERTIES
  CanvasKept
