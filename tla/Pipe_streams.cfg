CONSTANTS
  Writers = {w1, w2}
  Readers = {r1}
  None = None
  Values = {0, 1}
  PIPESIZE = 2
  W = 2
  MaxN = 2
  Victims = {w1, r1}
  CReaders = {r1, r2}
  CWriters = {w1, w2}
  Intr = Intr
  Printer = Printer
  INPUT_BUF_SIZE = 2
  CW = 2
  MaxRead = 2
  UART_TX_BUF_SIZE = 2
  UW = 2
  MaxWrite = 1
SPECIFICATION AllSpec
INVARIANTS ReaderWaitsUnlessKilled NoUseAfterFree
PROPERTIES IsFifo PipeEndOfFile IsLine WriterServed
CHECK_DEADLOCK FALSE
