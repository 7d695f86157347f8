SPECIFICATION FairSpec
CONSTANTS
  Probe = {p1, p2}
  Deadline = 4
  Guard = 3
  Phase = 2
  Quit = 1
  Threads = 1
INVARIANT AnsweredInTime
PROPERTIES StageAttributed Answered
