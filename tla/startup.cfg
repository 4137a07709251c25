SPECIFICATION Spec
CONSTANTS
  n1 = n1
  n2 = n2
  Ids = {1, 2}
  Names = {n1, n2}
  ModuleNames = {core, ext}
  None = none
  SignalElements <- MCSignals
  ItemElements <- MCItems
  StatusElements <- MCStatus
  MaxElements = 4
  Clients = {c1, c2}
  Main = c1
  Io = io
  DestAdvertEnabled = TRUE
  MaxWork = 5
INVARIANTS
  TypeOK
  MapsAgree
  ReferencesResolve
  ServiceReady
  RacesOnlyWithAdvert
PROPERTIES
  CallsReturn
