\* The pipeline and another publisher contend for one small channel whose consumer may stall or leave.
SPECIFICATION TriggerSpec
CONSTANTS
  Streams = {s1}
  Publishers = {pipeline, p2}
  Teams = {t1, t2}
  Cap = 2
  None = None
  Pipe = pipeline
INVARIANTS TypeOK NoSendOnClosed
PROPERTIES PublishReturns UnsubCompletes ImplementsBus TriggerServed
CHECK_DEADLOCK FALSE
