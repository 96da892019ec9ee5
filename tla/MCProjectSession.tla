-------------------------- MODULE MCProjectSession --------------------------
(***************************************************************************)
(* Instances of ProjectSession for TLC: a project that is opened over      *)
(* another, and coroutines enough that an edit, a save, a commit and the   *)
(* refresh after it are on their way together.                             *)
(***************************************************************************)
EXTENDS ProjectSession
=============================================================================
