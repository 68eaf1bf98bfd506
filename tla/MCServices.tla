----------------------------- MODULE MCServices -----------------------------
(***************************************************************************)
(* The services that stand beside the portfolio, each on a small instance. *)
(* They share no state that their properties speak of, so a behaviour is   *)
(* one of theirs: `active` says whose, and the others stay as they began.  *)
(***************************************************************************)
EXTENDS AlertEngine, AnalyticsCaches, UserSettings, Watchlist, Rebalance,
        RateLimiter, AdviceDesk, MCStartup

VARIABLE active

vars == <<alertVars, analyticsVars, settingsVars, watchVars, rebalanceVars,
          limiterVars, deskVars, startupVars, active>>

(* Instances. *)
RowTitles == [i \in RowIds |-> IF i = 1 THEN "a" ELSE "b"]
RowWindows == [i \in RowIds |-> i + 1]
AllScopes == SUBSET Holdable

Init ==
  /\ active \in {"alerts", "analytics", "settings", "watchlist", "rebalance",
                 "limiter", "desk", "startup"}
  /\ AlertInit /\ AnalyticsInit /\ SettingsInit /\ WatchInit /\ RebalanceInit
  /\ LimiterInit /\ DeskInit /\ StartupInit
  /\ active # "startup" => disk = Empty /\ ~encrypted

Still(name, v) == IF active = name THEN TRUE ELSE UNCHANGED v

Step ==
  \/ active = "alerts" /\ AlertNext
  \/ active = "analytics" /\ AnalyticsNext
  \/ active = "settings" /\ SettingsNext
  \/ active = "watchlist" /\ WatchNext
  \/ active = "rebalance" /\ RebalanceNext
  \/ active = "limiter" /\ LimiterNext
  \/ active = "desk" /\ DeskNext
  \/ active = "startup" /\ StartupNext

Next ==
  /\ Step
  /\ Still("alerts", alertVars) /\ Still("analytics", analyticsVars)
  /\ Still("settings", settingsVars) /\ Still("watchlist", watchVars)
  /\ Still("rebalance", rebalanceVars) /\ Still("limiter", limiterVars)
  /\ Still("desk", deskVars) /\ Still("startup", startupVars)
  /\ UNCHANGED active

Spec == Init /\ [][Next]_vars

(* Every service keeps its variables in their ranges. *)
ServicesTypeOK ==
  /\ AlertTypeOK /\ AnalyticsTypeOK /\ SettingsTypeOK /\ WatchTypeOK /\ RebalanceTypeOK
  /\ DeskTypeOK /\ StartupTypeOK
=============================================================================
