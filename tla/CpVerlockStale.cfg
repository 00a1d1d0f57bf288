SPECIFICATION Spec
CONSTANTS
  RwThreads = {r1, r2, r3, r4}
  Threads = {t1, t2, t3}
  PoolThreads = {a1, a2}
  RefHolders = {h1, h2, h3}
  Clients = {c1, c2}
  PoolPkts = {k1, k2, k3}
  p1 = p1
  p2 = p2
  p3 = p3
  Socks = {w1, w2, w3}
  Ifs = {i1}
  Bad = bad
  NoThread = nothread
  Null = null
  ListEnd = listend
  UnlockFlags = {poll, wake}
  OtherFlags = {waiter}
  MaxRef = 2
  MaxFrees = 5
  CounterMod = 8
  MaxVersion = 2
  CpIps = {3}
  CpIfs = {4, 5}
  CpPorts = {6}
  CpWanted = {4}
  Rows = 2
  MaxWrites = 1
  PartsChecked = {"tables"}
PROPERTY
  ReturnsWhatWasTrue
