CONSTANTS
  t1 = t1
  t2 = t2
  r1 = r1
  NoQuerySet = NoQuerySet
  Readers = {t1, t2, r1}
  Tokens = {t1, t2}
SPECIFICATION SpecTimings
INVARIANTS PollInv ProfilerInv
PROPERTIES TimingsArrive ThreadRests
