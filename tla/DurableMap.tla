----------------------------- MODULE DurableMap -----------------------------
(***************************************************************************)
(* What a trie directory promises: a map from keys to values that one      *)
(* client updates, a saved copy of it, and crashes.  The saved copy is     *)
(* replaced by first losing the old one, so a crash between the two steps  *)
(* loses every key; at every other moment a crash keeps either the map     *)
(* from before the running update or the map from after it, whole.         *)
(***************************************************************************)
CONSTANTS
  Keys, Values,
  Absent,  \* the key is not in the map
  Nothing  \* no update is running

VARIABLES
  map,     \* the map the client sees; empty while the process is down
  saved,   \* what a restart would find
  stage,   \* "idle", "called", "assigned", "saving" or "down"
  request  \* the running update

mvars == <<map, saved, stage, request>>

EmptyMap == [k \in Keys |-> Absent]

MapInit ==
  /\ map = EmptyMap /\ saved = EmptyMap
  /\ stage = "idle" /\ request = Nothing

Call(k, v) ==
  /\ stage = "idle" /\ stage' = "called"
  /\ request' = [key |-> k, value |-> v]
  /\ UNCHANGED <<map, saved>>

\* The update takes effect.
Assign ==
  /\ stage = "called" /\ stage' = "assigned"
  /\ map' = [map EXCEPT ![request.key] = request.value]
  /\ UNCHANGED <<saved, request>>

\* The update raises and has no effect.
Raise ==
  /\ stage = "called" /\ stage' = "idle"
  /\ request' = Nothing
  /\ UNCHANGED <<map, saved>>

Truncate ==
  /\ stage = "assigned" /\ stage' = "saving"
  /\ saved' = EmptyMap
  /\ UNCHANGED <<map, request>>

Save ==
  /\ stage = "saving" /\ stage' = "idle"
  /\ saved' = map
  /\ request' = Nothing
  /\ UNCHANGED map

Crash ==
  /\ stage # "down" /\ stage' = "down"
  /\ map' = EmptyMap /\ request' = Nothing
  /\ UNCHANGED saved

Recover ==
  /\ stage = "down" /\ stage' = "idle"
  /\ map' = saved
  /\ UNCHANGED <<saved, request>>

MapNext ==
  \/ \E k \in Keys, v \in Values : Call(k, v)
  \/ Assign \/ Raise \/ Truncate \/ Save \/ Crash \/ Recover

MapSpec == MapInit /\ [][MapNext]_mvars

=============================================================================
