SPECIFICATION Spec
CONSTANTS
  t1 = t1
  t2 = t2
  c1 = c1
  p1 = p1
  p2 = p2
  i1 = i1
  i2 = i2
  n1 = n1
  n2 = n2
  None = None
  Workers = {t1}
  Pumps = {t2}
  Clients = {c1}
  Relays = {40000}
  Ips = {i1, i2}
  Peers = {p1, p2}
  Channels = {n1, n2}
  IpOf <- MCIpOf
  Quota = 0
  MaxPerms = 1
  MaxChans = 2
  MaxPackets = 3
  MaxAge = 1
  MaxCrashes = 1
  MaxAllocs = 1
INVARIANTS TypeOK ChannelsInverse ChannelsPersisted UsageExact QuotaBounded
SYMMETRY MCSymmetry
