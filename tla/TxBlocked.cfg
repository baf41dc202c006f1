SPECIFICATION Spec
CONSTANTS
  MediaTimeout = 2
  MonitorInterval = 1
  RestartBackoff = 1
  Lag = 0
  Horizon = 4
  Never = Never
  AudioEnabled = FALSE
  EncoderElement = "auto"
  Hardware = "blocking"
  ConfiguresMmap = FALSE
  SupportsMmap = TRUE
  ConfiguresMjpeg = FALSE
  EmitsI420 = TRUE
  Interface = {eth0}
  Down = Down
  Faults = {}
  Unsteady = {"video"}
PROPERTIES SilentHardwareIsGivenUp
