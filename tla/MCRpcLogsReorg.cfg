\* A reorganisation may fall between an eth_getLogs and the header filed with it.
SPECIFICATION ReadsSpec
CONSTANTS
  None = None
  Processes = {p1}
  univ3 = univ3
  litepsm = litepsm
  broken = broken
  inactive = inactive
  slot0 = slot0
  bitmap = bitmap
  ticks = ticks
  pocket = pocket
  balance = balance
  gone = gone
  more = more
  code = code
  Inodes = {i1, i2}
  Specs = {slot0, bitmap, ticks, pocket, balance, gone, more, code}
  Pools = {univ3, litepsm, broken, inactive}
  Inactive = {inactive}
  Failed = {gone}
  Wave <- MCWave
  Hints <- MCHints
  MaxPhases = 3
  s1 = s1
  s2 = s2
  s3 = s3
  s4 = s4
  s5 = s5
  Subcalls = {s1, s2, s3, s4, s5}
  Reverting = {s3, s5}
  Requests <- MCRequests
  ChunkSize = 4
  Absent = Absent
  Heights = {1, 2}
  Forks = {fa, fb}
  Genesis = fa
  Clients = {c1}
  Ranges <- MCRangesTwo
  MaxAttempts = 2
  WindowReorgs = TRUE
INVARIANT ReusableFilesCurrent
