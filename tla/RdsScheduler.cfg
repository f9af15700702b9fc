CONSTANT GroupsPerMin = 20
SPECIFICATION SchedulerSpec
PROPERTIES
  EveryCycle
  ClockTimeRate
