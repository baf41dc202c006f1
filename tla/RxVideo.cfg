SPECIFICATION Spec
CONSTANTS
  MediaTimeout = 2
  MonitorInterval = 1
  RestartBackoff = 1
  Lag = 1
  Horizon = 5
  Never = Never
  AudioEnabled = FALSE
  DecoderElement = "auto"
  Hardware = "working"
  Interface = {eth0}
  Down = Down
  Faults = {"peer", "construct", "start"}
  Unsteady = {"video_ingress", "video_codec", "video"}
INVARIANTS TypeOK HealthIsFresh OfflineRestartsOnce CalmCycleKeepsRunning
PROPERTY HotRetryOnce
