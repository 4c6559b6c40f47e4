---------------------------- MODULE BridgeSilence ----------------------------
(***************************************************************************)
(* Bridge with a history variable: how long ago the newest of all the      *)
(* timestamps was that the store was ever given for a session.  ZADD       *)
(* overwrites (it has no GT), so an event that is handled late pulls a     *)
(* score back below one that a newer event or a refresh had written; the   *)
(* property says by how much that can hasten an eviction.                  *)
(***************************************************************************)
EXTENDS Bridge

VARIABLE heard

silenceVars == <<vars, heard>>

SilenceInit == Init /\ heard = [s \in Sids |-> AgeCap]

Min2(a, b) == IF a <= b THEN a ELSE b

\* The newest timestamp so far, after a step that let no time pass.
Hear ==
  heard' = [s \in Sids |->
              IF zset'[s] = Absent THEN heard[s] ELSE Min2(heard[s], zset'[s])]

SilenceNext ==
  \/ Tick /\ heard' = [s \in Sids |-> Older(heard[s])]
  \/ NextUntimed /\ Hear

SilenceSpec == SilenceInit /\ [][SilenceNext]_silenceVars

\* The sweep evicts only sessions that were silent: nothing the store was told
\* of the session, by any event, refresh or boot, is newer than SweepTTL less
\* the one MaxLag by which a late event may have pulled its score back
\* (session.go:46, 67, activity.go:59: ZADD without GT; bridge.go:199-200).
EvictionNeedsSilence ==
  [][\A s \in Sids : Evicts(s) => heard[s] + MaxLag >= SweepTTL]_silenceVars

=============================================================================
