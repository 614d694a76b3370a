----------------------------- MODULE MCWorkspace ----------------------------
(* What protects the caches and the working copy of a host, for TLC: the   *)
(* leases of a cache unit (two runs and two disk GCs) and the worktree     *)
(* guard (two paths).  They share no state, so every behaviour is about    *)
(* one of them while the others stay as they start.                        *)
EXTENDS UnitLease, WorktreeGuard

VARIABLE part      \* the component this behaviour is about

-----------------------------------------------------------------------------
LeaseIdle ==
    /\ kind = (CHOOSE k \in Kinds : TRUE) /\ cast = (CHOOSE c \in Casts : TRUE)
    /\ dir = NoDir /\ UlInit
GuardIdle == wgTree = [p \in WgPaths |-> "index"] /\ WgInit

WorkspaceInit ==
    \/ part = "lease" /\ UlInit /\ GuardIdle
    \/ part = "guard" /\ WgInit /\ LeaseIdle

WorkspaceNext ==
    \/ part = "lease" /\ UlNext /\ UNCHANGED <<part, wgVars>>
    \/ part = "guard" /\ WgNext /\ UNCHANGED <<part, ulVars>>

workspaceVars == <<part, ulVars, wgVars>>

WorkspaceSpec ==
    /\ WorkspaceInit /\ [][WorkspaceNext]_workspaceVars
    /\ UlFairness
=============================================================================
