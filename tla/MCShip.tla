------------------------------- MODULE MCShip -------------------------------
(* What ships and is retried, for TLC: releases, the promotion of stored   *)
(* images, mirrors.  Promotion varies its gates, its ref without targets   *)
(* and its signing profile one at a time.  They share no state, so every   *)
(* behaviour is about one of them while the others stay as they start.     *)
EXTENDS Release, Promotion, MirrorSync

VARIABLE part      \* the component this behaviour is about

-----------------------------------------------------------------------------
(* Promotion *)
MCPromotionInit ==
  /\ PromotionInit
  /\ prCfg.gate => prCfg.sign = "off" /\ prCfg.targeted = Img
  /\ prCfg.targeted # Img => prCfg.sign = "off"
  /\ prCfg.sign # "off" => prCfg.versions /\ ~prCfg.twin

-----------------------------------------------------------------------------
ReleaseIdle == relCfg = (CHOOSE c \in RelConfigs : TRUE) /\ ReleaseInit
PromotionIdle == prCfg = (CHOOSE c \in PrConfigs : TRUE) /\ PromotionInit
MirrorIdle ==
    /\ miCfg = (CHOOSE c \in MiConfigs : TRUE) /\ dstRel = [t \in RelTags |-> NoRel]
    /\ MirrorInit

ShipInit ==
    \/ part = "release" /\ ReleaseInit /\ PromotionIdle /\ MirrorIdle
    \/ part = "promotion" /\ MCPromotionInit /\ ReleaseIdle /\ MirrorIdle
    \/ part = "mirror" /\ MirrorInit /\ ReleaseIdle /\ PromotionIdle

ShipNext ==
    \/ part = "release" /\ ReleaseNext /\ UNCHANGED <<part, promotionVars, mirrorVars>>
    \/ part = "promotion" /\ PromotionNext /\ UNCHANGED <<part, releaseVars, mirrorVars>>
    \/ part = "mirror" /\ MirrorNext /\ UNCHANGED <<part, releaseVars, promotionVars>>

shipVars == <<part, releaseVars, promotionVars, mirrorVars>>

ShipSpec ==
    /\ ShipInit /\ [][ShipNext]_shipVars
    /\ WF_promotionVars(part = "promotion" /\ PromotionStep)
    /\ WF_promotionVars(part = "promotion" /\ prPc = "between" /\ StartPromotion)
    /\ WF_mirrorVars(part = "mirror" /\ MirrorStep)
=============================================================================
