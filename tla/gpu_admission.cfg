\* Two pieces of work, one after the other, through the end of a second tenure of the GPU.
SPECIFICATION Spec
CONSTANTS
  t1 = t1
  t2 = t2
  e1 = e1
  p1 = p1
  Works = {1, 2}
  RequestWorks = {2}
  Tokens = {t1, t2}
  Externals = {e1}
  Probers = {p1}
  HeadStart = 1
  Changing = {2}
  LeaseTerm = 1
  MaxTime = 1
  MaxRevision = 7
SYMMETRY TokenSymmetry
INVARIANT OneHolder
PROPERTY IdleBeforeGrant
PROPERTY FreshEvidence
PROPERTY NoRevival
\* The clock and the revisions are bounded.
CHECK_DEADLOCK FALSE
