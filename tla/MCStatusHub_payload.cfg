\* A status message whose payload is JSON but no object.
SPECIFICATION Spec
CONSTANTS
  Devices = {d1}
  NoDevice = NoDevice
  Callback = Callback
  Http = {}
  Conns = {c1}
  NoConn = NoConn
  MQTTLogSize = 1
  MaxMessages = 1
INVARIANTS
  FallsBackToString
