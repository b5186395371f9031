\* Three instances on an empty database, and three crashes or failed migrations.
CONSTANTS
  i1 = i1
  i2 = i2
  i3 = i3
  Instances = {i1, i2, i3}
  MaxFaults = 3
SPECIFICATION Spec
INVARIANTS
  TypeOK
  ListeningIsReady
PROPERTY AllListen
\* With all instances listening and no fault left, nothing more happens.
CHECK_DEADLOCK FALSE
