CONSTANTS
  Queues <- MCBus
  PoolSize = 3
  maxElements = 2
  reserveElements = 1
  SizeWord = 8
  FifoSize = 1
  ReadSizes = {1}
  WriteSizes = {1}
  WriteReadSizes <- MCWriteReadSizes
  ExchangeSizes = {2}
  SharedBus = {0, 1}
  ConfiguredBus = {1}
SPECIFICATION MCSpec
INVARIANTS PoolSound SymbolsBalanced
PROPERTIES JobsInOrder JobsEnd
CHECK_DEADLOCK FALSE
