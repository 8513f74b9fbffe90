---------------------------- MODULE MCScheduler ----------------------------
(***************************************************************************)
(* Two plugins and one task id: only alice creates it, with several        *)
(* schedules and time zones, or both plugins create it.                    *)
(***************************************************************************)
EXTENDS Scheduler, TLC

CONSTANTS alice, bob, daily

MCPlugins == {alice, bob}
MCAliceId == daily :> {alice}
MCSharedId == daily :> {alice, bob}
=============================================================================
