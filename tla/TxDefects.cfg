SPECIFICATION FairSpec
CONSTANTS
  MediaTimeout = 2
  MonitorInterval = 1
  RestartBackoff = 1
  Lag = 0
  Horizon = 4
  Never = Never
  AudioEnabled = FALSE
  EncoderElement = "auto"
  Hardware = "silent"
  ConfiguresMmap = TRUE
  SupportsMmap = FALSE
  ConfiguresMjpeg = TRUE
  EmitsI420 = FALSE
  Interface = {eth0}
  Down = Down
  Faults = {"start", "terminal", "signal"}
  Unsteady = {}
PROPERTIES SettledRestartLearns Recovers SignalEndsService
