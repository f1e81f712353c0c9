-------------------------- MODULE MCSceneTransition --------------------------
(* Two maps; a first load and up to two more loads, restores or disposals. *)
EXTENDS SceneTransition

CONSTANTS village, inn
=============================================================================
