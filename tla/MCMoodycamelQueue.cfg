CONSTANTS
  Parts = {"explicit", "faults", "implicit", "producers", "producers_failing", "queue", "recycling", "lifetime", "lifetime_default", "pool", "free_list"}
  nullptr = nullptr
  u1 = u1
  u2 = u2
  t3 = t3
  b1 = b1
  b2 = b2
  b3 = b3
  b4 = b4
  k1 = k1
  k2 = k2
  p1 = p1
  p2 = p2
  c1 = c1
  c2 = c2
  w1 = w1
  w2 = w2
  w3 = w3
  s1 = s1
  s2 = s2
  Waiters = {w1, w2, w3}
  Signalers = {s1, s2}
  Timed = {w2, w3}
  Want <- SemaphoreWant
  Give <- SemaphoreGive
SPECIFICATION PartSpec
INVARIANTS
  DequeuedOnceInOrder
  UnreadIndexed
  BlocksOwnedOnce
  ProducersOwned
SYMMETRY Symmetry
