SPECIFICATION Spec
CONSTANTS
  Probe = {p1}
  Deadline = 45
  Guard = 25
  Phase = 20
  Quit = 5
  Threads = 2
INVARIANTS TransportClosed
