\* The master key and a probe, two changes, a heartbeat at every second poll.
CONSTANTS
  Devices = {probe}
  Probe = probe
  Master = Master
  Message = Message
  Peer = Peer
  None = None
  MaxChanges = 2
  HeartbeatTicks = 2
SPECIFICATION FairSpec
INVARIANTS PublishInv
PROPERTIES HeartbeatRepairs ReconnectsInTheEnd
