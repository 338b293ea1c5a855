SPECIFICATION CredSpec
CONSTANTS
  Tasks = {t0, t1, t2}
  INITPROC = t0
  NoTask = NoTask
  Uids = {0, 1, 2}
  Signums = {9, 32}
INVARIANTS
  CapabilitiesAreRoots
  NoForeignSignal
PROPERTIES
  RootIsNotRegained
SYMMETRY Alike
