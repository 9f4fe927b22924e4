SPECIFICATION FairSpec
CONSTANTS
  Spiders = {s1, s2}
  Reviews = {r1, r2, r3}
  Oversized = {r3}
  Airline = Airline
  Touch = Touch
  BatchSize = 2
  MaxItems = 3
INVARIANTS LossBounded CountsReconcile
PROPERTIES EveryCrawlCloses
CHECK_DEADLOCK FALSE
