\* An info command whose info function raises leaves its buffer to be
\* reported as a kernel leak.
CONSTANTS
  a1 = a1
  a2 = a2
  Addrs <- MCAddrs
  PageCounts = {1, 2}
  NIL = NIL
  MaxEvents = 6
SYMMETRY AddrSymmetry
SPECIFICATION Spec
INVARIANTS LeakReportIsKernels
