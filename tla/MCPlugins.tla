------------------------------ MODULE MCPlugins ------------------------------
(* Two processes that share a home, and a plugin of each kind. *)
EXTENDS Plugins, TLC

CONSTANTS p1, p2, bundled, retired, external, old, new

MCOffered ==
    [op : {"install", "update", "uninstall", "disable"}, plugin : {external}, version : {new}]

MCSymmetry == Permutations(Sessions)
=============================================================================
