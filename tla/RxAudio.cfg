SPECIFICATION Spec
CONSTANTS
  MediaTimeout = 2
  MonitorInterval = 1
  RestartBackoff = 1
  Lag = 0
  Horizon = 4
  Never = Never
  AudioEnabled = TRUE
  DecoderElement = "auto"
  Hardware = "working"
  Interface = {eth0}
  Down = Down
  Faults = {"construct", "start", "terminal"}
  Unsteady = {"audio_ingress", "audio"}
INVARIANT HealthIsFresh
