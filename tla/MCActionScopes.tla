--------------------------- MODULE MCActionScopes ---------------------------
(* Up to three actions: two on the container, one on it beside the          *)
(* recreation of the agent's own, or two of those beside something else.   *)
EXTENDS ActionScopes
CONSTANTS a, b, c
MCUnits == {a, b, c}

Cast(x, y, z) == a :> x @@ b :> y @@ c :> z
MCCasts == {Cast("start", "stop", "none"),
            Cast("restart", "start", "none"),
            Cast("recreate", "stop", "none"),
            Cast("recreate", "remove", "none"),
            Cast("self", "stop", "none"),
            Cast("self", "self", "other")}
=============================================================================
