\* Two threads on a fixed VHD of two sectors.
CONSTANTS
  c1 = c1
  c2 = c2
  a = a
  Callers = {c1, c2}
  Data = {a}
  SectorCount = 2
  FileSectors = 3
  Nobody = Nobody
SPECIFICATION Spec
INVARIANTS TypeOK FooterUntouched TransfersAtOwnSector
PROPERTIES ImplementsDevice MutexComesFree
