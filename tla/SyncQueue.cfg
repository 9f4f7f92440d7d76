SPECIFICATION FairSpec
CONSTANTS
  Producers = {p1, p2, p3, p4}
  Consumers = {c1, c2}
  BatchConsumers = {c2}
  max_size_ = 2
  MaxPuts = 1
INVARIANTS
  NoConsumerForgotten
  NoProducerStuck
PROPERTIES
  FifoSpec
  StopReleases
