SPECIFICATION FairSpec
CONSTANTS
  image = image
  Task = {image}
  MaxJobs = 3
  MaxCrashes = 2
INVARIANTS
  TypeOK
  SomebodyWorks
  CrashFindsJob
PROPERTIES
  TasksSettle
CHECK_DEADLOCK FALSE
