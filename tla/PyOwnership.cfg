SPECIFICATION Spec
CONSTANTS
  Gnd = gnd0
  Nobody = nobody
  Comps = {c1}
  Nodes = {gnd0, n1}
  Topos = {t1}
  Loggers = {l1}
  Ifaces = {i1}
  Sims = {s1}
  Lists = {f1}
  NameOf <- MCNameOf
  MaxRefs = 1
INVARIANTS
  CountsExact
  NothingDangles
  DictMatchesSystem
