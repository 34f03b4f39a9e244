SPECIFICATION LocksFairSpec
CONSTANTS
  Tasks = {t1, t2, t3}
  Keys = {k1, k2}
  Mutexes = {m1, m2, m3, m4, m5}
  NoMutex = NoMutex
  NoKey = NoKey
  NoTask = NoTask
PROPERTIES ImplementsMutex WaiterServed
