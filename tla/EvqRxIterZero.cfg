SPECIFICATION Spec
CONSTANTS
  PartsChecked = {"iter"}
  Null = null
  Socks = {s1, s2}
  QPkts = {p1, p2, p3}
  Waitables = {w1, w2}
  Epoll = epoll
  SynRecv = synrecv
  DlLists = {l1, l2}
  Links = {x1, x2, x3}
  Values = {x, y}
INVARIANT
  ZeroAtTheEnd
