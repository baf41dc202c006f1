SPECIFICATION FairSpec
CONSTANTS
  MediaTimeout = 2
  MonitorInterval = 1
  RestartBackoff = 1
  Lag = 0
  Horizon = 4
  Never = Never
  AudioEnabled = FALSE
  DecoderElement = "auto"
  Hardware = "faulty"
  Interface = {eth0, eth1}
  Down = Down
  Faults = {"route", "start", "signal"}
  Unsteady = {}
PROPERTIES Recovers RouteIsFollowed SignalEndsService
