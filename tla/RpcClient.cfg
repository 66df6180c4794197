SPECIFICATION Spec
CONSTANTS
  Absent = Absent
  Heights = {1}
  Forks = {fa, fb, fc}
  Genesis = fa
  Clients = {c1, c2}
  Specs = {s1, s2}
  Reverting = {s2}
INVARIANT AnswersPinned
PROPERTY CacheNeverRewritten
