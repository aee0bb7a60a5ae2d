SPECIFICATION Spec
CONSTANTS
  a = a
  big = big
  c1 = c1
  c2 = c2
  s1 = s1
  s2 = s2
  Key = {a, big}
  Caller = {c1, c2}
  Stream = {s1}
  Size <- Sizes
  StreamOf <- OneStream
  Budget = 2
  MaxQueue = 3
  Nothing = Nothing
  MaxFailures = 0
INVARIANTS AddressesStable

