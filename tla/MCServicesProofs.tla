-------------------------- MODULE MCServicesProofs --------------------------
(***************************************************************************)
(* MCServices is its services side by side: each of its behaviours is one  *)
(* of every service, so what ServicesProofs and StartupProofs show of one  *)
(* by itself holds in it, for every value of the constants.                *)
(***************************************************************************)
EXTENDS MCServices, ServicesProofs, StartupProofs

LEMMA InitOfEach ==
  Init => /\ AlertInit /\ AnalyticsInit /\ SettingsInit /\ WatchInit
          /\ RebalanceInit /\ LimiterInit /\ DeskInit /\ StartupInit
  BY DEF Init

\* A step is one of the active service, and the others stutter.
LEMMA StepOfEach ==
  [Next]_vars => /\ [AlertNext]_alertVars /\ [AnalyticsNext]_analyticsVars
                 /\ [SettingsNext]_settingsVars /\ [WatchNext]_watchVars
                 /\ [RebalanceNext]_rebalanceVars /\ [LimiterNext]_limiterVars
                 /\ [DeskNext]_deskVars /\ [StartupNext]_startupVars
<1> SUFFICES ASSUME [Next]_vars
             PROVE  /\ [AlertNext]_alertVars /\ [AnalyticsNext]_analyticsVars
                    /\ [SettingsNext]_settingsVars /\ [WatchNext]_watchVars
                    /\ [RebalanceNext]_rebalanceVars /\ [LimiterNext]_limiterVars
                    /\ [DeskNext]_deskVars /\ [StartupNext]_startupVars
  OBVIOUS
<1>1. CASE UNCHANGED vars
  BY <1>1 DEF vars
<1>2. CASE Next
  BY <1>2 DEF Next, Step, Still
<1> QED
  BY <1>1, <1>2

(* The services do not disturb one another: a behaviour of all of them is   *)
(* one of each, so the theorems about one hold in the composition.          *)
THEOREM ServicesApart ==
  Spec => /\ AlertSpec /\ AnalyticsSpec /\ SettingsSpec /\ WatchSpec
          /\ RebalanceSpec /\ LimiterSpec /\ DeskSpec /\ StartupSpec
  BY InitOfEach, StepOfEach, PTL
  DEF Spec, AlertSpec, AnalyticsSpec, SettingsSpec, WatchSpec, RebalanceSpec, LimiterSpec,
      DeskSpec, StartupSpec

(* Every service keeps its variables in their ranges: thresholds only on    *)
(* items that are there, flags only on advices that are there, no more      *)
(* callers of Gemini than permits, no row twice under a UNIQUE index.       *)
THEOREM ServicesStayTyped == Spec => []ServicesTypeOK
<1>1. AlertTypeOK /\ AnalyticsTypeOK /\ SettingsTypeOK /\ WatchTypeOK /\ RebalanceTypeOK
        /\ DeskTypeOK /\ StartupTypeOK => ServicesTypeOK
  BY DEF ServicesTypeOK
<1> QED
  BY ServicesApart, AlertsStayTyped, FiguresStayTyped, SettingsTypes, WatchTypes, TargetsStayTyped,
     PermitsSuffice, IndexesHold, <1>1, PTL
=============================================================================
