--------------------------- MODULE MCHookListener ---------------------------
(***************************************************************************)
(* HookListener on one hook type E, an event segment F that is no hook     *)
(* type, and pods x, E and F.  The intent paths are E/x and F/x (event    *)
(* hooks), E (a global hook whose id is the hook type) and F (a global    *)
(* hook whose id is the other event segment).  Manifests v1 and v2 are   *)
(* signed, u is not.                                                      *)
(***************************************************************************)
EXTENDS HookListener, TLC

CONSTANTS E, F, x, v1, v2, u

MCHookTypes == {E}
MCEvents == {E, F}
MCPodIds == {x, E, F}
MCPaths == {<<E, x>>, <<F, x>>, <<Global, E>>, <<Global, F>>}
MCVersions == {v1, v2, u}
MCSigned == {v1, v2}

====
