SPECIFICATION Spec
CONSTANTS
  Procs = {p1, p2}
  Driver = "redis"
  Names = {"job"}
  Crons = {"job"}
  CronSpec <- Sundays
  Interval <- Every2
  FirstTime = 2
  MaxTime = 6
  MinuteLen = 1
  HourLen = 2
  TimeOf <- Sunday
  LockLife = 2
SYMMETRY ProcSymmetry
INVARIANTS
  OncePerMinute
  LedMinuteServed
  NotedBlockServed
