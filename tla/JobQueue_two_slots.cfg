SPECIFICATION QueueSpec
CONSTANTS
  Jobs = {j1, j2, j3, j4}
  runningJobsMax = 2
  UINT = 256
INVARIANTS CountIsExact WaitingJobHasRunner AcceptedInOrder
PROPERTIES ExecutorSpec
CHECK_DEADLOCK FALSE
