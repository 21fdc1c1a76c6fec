---------------------------- MODULE MCKernelPads ----------------------------
(* Two console pads, which look like the virtual ones, and two of another  *)
(* kind, which SDL reads through hidapi.                                   *)
EXTENDS KernelPads

MCRealPads == {<<"console", 1>>, <<"console", 2>>, <<"dual", 1>>, <<"dual", 2>>}
MCIds      == [p \in MCRealPads |-> p[1]]
MCHidapi   == {p \in MCRealPads : p[1] = "dual"}
=============================================================================
