--------------------------- MODULE MCTaskExecutor ---------------------------
(***************************************************************************)
(* Two submissions to an executor whose queue holds one job, with failing  *)
(* saves, expiring contexts, shutdowns and crashes.                        *)
(***************************************************************************)
EXTENDS TaskExecutor

CONSTANTS t1, t2

MCTasks == {t1, t2}
=============================================================================
