----------------------- MODULE MCCompetitionLifecycle -----------------------
(***************************************************************************)
(* A small instance of CompetitionLifecycle for TLC.                       *)
(***************************************************************************)
EXTENDS CompetitionLifecycle
=============================================================================
