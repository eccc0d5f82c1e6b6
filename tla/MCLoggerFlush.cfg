SPECIFICATION LogSpec
CONSTANTS
  Loggers = {t1, t2}
  MaxEntries = 3
INVARIANT
  FlushWritten
