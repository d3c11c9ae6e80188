------------------------------ MODULE MCScenes ------------------------------
(* One gain, room for one proxy of wider range, one group, two citizens:   *)
(* the gain, or the proxy itself, can be enrolled, and the gain pushed out *)
(* of its range; two controllers lock, write and recall.                   *)
EXTENDS Scenes, TLC
MCTop == <<1>>
Symmetry == Permutations(Controller)
=============================================================================
