\* One browser, the MQTT callbacks and an HTTP request: every race of the hub, and that
\* every request is finished, every browser catches up, every failed connection is removed.
SPECIFICATION FairSpec
CONSTANTS
  Devices = {d1}
  NoDevice = NoDevice
  Callback = Callback
  Http = {h1}
  Conns = {c1}
  NoConn = NoConn
  MQTTLogSize = 1
  MaxMessages = 2
INVARIANTS
  TypeOK
  NoCircularWait
  LogDelivered
PROPERTIES
  HandlerChangesMapAlone
  Finished
  CatchesUp
  FailedClientRemoved
