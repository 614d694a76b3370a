\* Two pipelines and one developer's push beside two releases: a release can
\* move between listing and fetching, and the branch between the check and the
\* push, with a second pipeline doing the same.
SPECIFICATION Spec
CONSTANTS
  Runs = {r1, r2}
  Strategies = {"merge", "mirror", "rebase"}
  Ontos = {"release", "branch"}
  Ours = {o1, o2}
  Theirs = {u1, u2}
  MaxFailures = 1
INVARIANT SyncSafe
PROPERTIES PushesWhatItPlanned EventuallySynced
