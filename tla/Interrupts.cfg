SPECIFICATION LiveSpec
CONSTANTS
  Engines = {c2h, h2c}
  Cyclic = {c2h}
  UserIrqs = {u1}
  Readers = {r1, r2}
INVARIANTS
  TypeOK
  EngineEventPending
  UserEventPending
  SoleReaderServed
PROPERTY InterruptsServed
