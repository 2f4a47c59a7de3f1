----------------------------- MODULE MCRecurring -----------------------------
(* Timers for TLC: a heartbeat that fires once and whose channel nobody      *)
(* registered, a periodic one behind it, and a daily schedule of the defaults. *)
EXTENDS Recurring, TLC

MCTimers == {"beat", "alarm", "brief"}
MCRegOf == "beat" :> "heartbeats" @@ "alarm" :> "heartbeats" @@ "brief" :> "schedules"
MCKindOf == "beat" :> "interval" @@ "alarm" :> "once" @@ "brief" :> "daily"
MCTargetOf == "beat" :> "open" @@ "alarm" :> "missing" @@ "brief" :> "open"
MCRank == "alarm" :> 1 @@ "beat" :> 2 @@ "brief" :> 1
=============================================================================
