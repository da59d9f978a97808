SPECIFICATION FairSSpec
CONSTANTS
  us1 = us1
  imu = imu
  Task = {us1, imu}
  Sensor = {us1}
  Injector <- StuckSensor
  Panel = {}
  Query = {cli_status}
INVARIANT AllMetBeforeMoving
PROPERTIES ClientsAreServed FaultEnds
