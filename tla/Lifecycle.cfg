CONSTANTS
  Keys <- Services
  Threads = {gui, worker}
  Gui = gui
  Nobody = Nobody
  MaxObjects = 4
  Tried <- MCTried
  Wirings <- MCWirings
  MaxRounds = 1
  Features = {"smartctl", "rapl_power"}
  Readers = {gui, worker}
  MaxChanges = 1
  Workers = {w1, w2}
  NoWorker = NoWorker
  Scans = {"temps", "battery"}
  TTL = 2
  MaxTime = 4
SPECIFICATION Spec
INVARIANTS
  BuiltOnce
  OrderlyDisposal
  CircularIsReal
  ReadingsAreFresh
  OneView
CHECK_DEADLOCK FALSE
