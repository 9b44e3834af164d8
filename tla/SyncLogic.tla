----------------------------- MODULE SyncLogic -----------------------------
(***************************************************************************)
(* `SyncLogic` of dstate/src/core/sync_logic.rs: which outbound action a   *)
(* mutation's urgency resolves to under the state's `SyncStrategy`         *)
(* (dstate/src/types/config.rs).  The duration carried by Delayed is       *)
(* abstracted: a delayed send happens at some later step.                  *)
(***************************************************************************)

CONSTANTS
    PushMode,           \* "ActivePush", "ActiveFeedLazyPull" or "None"
    PeriodicFullSync,   \* periodic_full_sync.is_some()
    PullOnQuery,        \* pull_on_query
    SupportsDelta       \* an inbound delta applier is configured

SyncUrgency == {"Default", "Immediate", "Delayed", "Suppress"}

ASSUME StrategyAssumption ==
    /\ PushMode \in {"ActivePush", "ActiveFeedLazyPull", "None"}
    /\ PeriodicFullSync \in BOOLEAN
    /\ PullOnQuery \in BOOLEAN
    /\ SupportsDelta \in BOOLEAN

BroadcastAction ==
    IF SupportsDelta THEN "BroadcastDelta" ELSE "BroadcastSnapshot"

ResolveAction(urgency) ==
    CASE urgency = "Immediate" -> BroadcastAction
      [] urgency = "Delayed"   -> "ScheduleDelayed"
      [] urgency = "Suppress"  -> "Suppress"
      [] urgency = "Default"   ->
            CASE PushMode = "ActivePush"         -> BroadcastAction
              [] PushMode = "ActiveFeedLazyPull" -> "NotifyChangeFeed"
              [] PushMode = "None"               -> "Suppress"

=============================================================================
