-------------------------------- MODULE GitPlan --------------------------------
(***************************************************************************)
(* The planner of shared-history git operations (src/gitplan): a situation  *)
(* (where HEAD stands relative to a destination, and what policy says of    *)
(* it) becomes a plan, the sequence of operations that Engine.Execute walks *)
(* (PushEngine).  An operation is its kind; what is said of it is left out. *)
(***************************************************************************)
EXTENDS Naturals, Sequences

OpKinds ==
  {"noop", "upload", "create-tracking", "fast-forward", "replay", "offer-mr",
   "refuse", "direct-push", "teach", "confirm", "decide"}

\* mutatesSharedHistory: the kinds that must follow a Confirm.
MutatesSharedHistory == {"replay"}

Situations ==
  [protected : BOOLEAN, hasUpstream : BOOLEAN, ahead : Nat, behind : Nat,
   onDiverge : {"ask", "rebase"}, autoConverge : BOOLEAN, inProgressOp : BOOLEAN]

firstPush(s) ==
  <<"teach", "create-tracking", "upload">> \o (IF s.protected THEN <<>> ELSE <<"offer-mr">>)

behind(s) == IF s.autoConverge THEN <<"fast-forward">> ELSE <<"refuse", "teach">>

diverged(s) ==
  IF s.protected \/ s.onDiverge = "rebase" \/ s.autoConverge
  THEN <<"confirm", "replay", "upload">>
  ELSE <<"decide">>

Resolve(s) ==
  CASE s.inProgressOp -> <<"refuse", "teach">>
    [] ~s.inProgressOp /\ ~s.hasUpstream -> firstPush(s)
    [] ~s.inProgressOp /\ s.hasUpstream /\ s.ahead = 0 /\ s.behind = 0 -> <<"noop">>
    [] ~s.inProgressOp /\ s.hasUpstream /\ s.ahead > 0 /\ s.behind = 0 -> <<"upload">>
    [] ~s.inProgressOp /\ s.hasUpstream /\ s.ahead = 0 /\ s.behind > 0 -> behind(s)
    [] OTHER -> diverged(s)

\* Down-sync: the remote's commits come into the local branch, nothing is pushed.
ResolvePull(s) ==
  CASE s.inProgressOp \/ ~s.hasUpstream -> <<"refuse", "teach">>
    [] ~s.inProgressOp /\ s.hasUpstream /\ s.ahead = 0 /\ s.behind = 0 -> <<"noop">>
    [] ~s.inProgressOp /\ s.hasUpstream /\ s.ahead = 0 /\ s.behind > 0 -> <<"fast-forward">>
    [] ~s.inProgressOp /\ s.hasUpstream /\ s.ahead > 0 /\ s.behind = 0 -> <<"teach">>
    [] OTHER -> <<"confirm", "replay">>

\* push <remote> <branch>: hasUpstream says that the destination exists.
ResolveExplicitPush(s) ==
  CASE s.inProgressOp -> <<"refuse", "teach">>
    [] ~s.inProgressOp /\ ~s.hasUpstream -> <<"teach", "direct-push">>
    [] ~s.inProgressOp /\ s.hasUpstream /\ s.ahead = 0 /\ s.behind = 0 -> <<"noop">>
    [] ~s.inProgressOp /\ s.hasUpstream /\ s.ahead > 0 /\ s.behind = 0 ->
         IF s.protected THEN <<"confirm", "direct-push">> ELSE <<"direct-push">>
    [] OTHER -> <<"refuse", "teach">>

DirectPush == <<"direct-push">>
=============================================================================
