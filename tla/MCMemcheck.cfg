\* The gdb memory checker against every order of kernel events.
CONSTANTS
  a1 = a1
  a2 = a2
  Addrs <- MCAddrs
  PageCounts = {1, 2}
  NIL = NIL
  MaxEvents = 6
SYMMETRY AddrSymmetry
SPECIFICATION Spec
INVARIANTS ReportExact
