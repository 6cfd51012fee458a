SPECIFICATION PipelineSpec
CONSTANTS
  Emit = {e1, e2}
  Boot = Boot
  Conn = {c1, c2, c3}
  None = None
  MaxRetries = 2
INVARIANTS PipelineTypeOK SoundWhenAlone StuckMeansNoMail
PROPERTIES ImplementsAnnouncement StuckIsForever EmitSettlesOrHangs ServesEventually
CHECK_DEADLOCK FALSE
