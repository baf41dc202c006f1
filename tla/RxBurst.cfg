SPECIFICATION Spec
CONSTANTS
  MediaTimeout = 2
  MonitorInterval = 1
  RestartBackoff = 1
  Lag = 0
  Horizon = 4
  Never = Never
  AudioEnabled = FALSE
  DecoderElement = "auto"
  Hardware = "working"
  Interface = {eth0}
  Down = Down
  Faults = {"peer"}
  Unsteady = {"video_ingress", "video_codec", "video"}
PROPERTIES ShortBurstIsNoDecoderStall
