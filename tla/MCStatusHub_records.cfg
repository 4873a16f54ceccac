\* Two devices and a log of two entries, sent to one browser.
SPECIFICATION Spec
CONSTANTS
  Devices = {d1, d2}
  NoDevice = NoDevice
  Callback = Callback
  Http = {}
  Conns = {c1}
  NoConn = NoConn
  MQTTLogSize = 2
  MaxMessages = 3
INVARIANTS
  LogNewestFirst
PROPERTIES
  NeverGoesBack
