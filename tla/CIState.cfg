\* Two subsystems, two lifecycle values, two facts and two values of the rest
\* of the document: a record can be new, replaced, stripped of some or all of
\* its facts, or torn beside another one.
SPECIFICATION Spec
CONSTANTS
  Subsystems = {s1, s2}
  Lives = {zero, failed}
  ZeroLife = zero
  Facts = {f1, f2}
  Docs = {d0, d1}
  ZeroDoc = d0
  Absent = Absent
  NoFile = NoFile
INVARIANT IInv
PROPERTIES NeverUnrecorded ImplementsLedger
