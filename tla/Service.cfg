SPECIFICATION Spec
CONSTANTS
  IntMax = 1000000000
  LatenessMax = 1000000
  LegalName = {"eth0", "eth1", "br0", "lo"}
  Physical = {"eth0", "eth1"}
  Rehearsal <- MCRehearsal
  Start <- MCStart
  Situation <- MCSituation
  NoteCap = 3
  MaxSaid = 9
INVARIANTS TypeOK EncoderLimitsMatch RendererHonoursWindow FallbacksAreTakenOnce HeartbeatsOutpaceWatchdog FallbackIsTheSoftwareChoice NoSilentSwitch ShapeHidesDevice NoAnswerIsTakenBack FailedExplainsItself StatsNameThePipeline
