CONSTANTS
  Capacity = 4
  IndexMod = 8
  Words = {1, 2}
  Values = {0, 1}
  Items <- NineMessages
SPECIFICATION FairSpec
INVARIANTS TypeOK DataRaceFree WholeInOrder CacheConservative
PROPERTIES FifoSpec CommittedIsDelivered ProducerGetsSlot
