SPECIFICATION Spec
CONSTANTS
  Runs = {r1, r2}
  Strategies = {"rebase"}
  Ontos = {"release", "branch"}
  Ours = {o1, o2}
  Theirs = {u1, u2}
  MaxFailures = 1
INVARIANT NoPushOverwritten
