\* Two browsers come and go while the MQTT callbacks log and broadcast.
SPECIFICATION Spec
CONSTANTS
  Devices = {d1}
  NoDevice = NoDevice
  Callback = Callback
  Http = {}
  Conns = {c1, c2}
  NoConn = NoConn
  MQTTLogSize = 1
  MaxMessages = 2
SYMMETRY ConnSymmetry
INVARIANTS
  NoLostUpdate
  LogDelivered
  Registry
PROPERTIES
  ImplementsFeed
