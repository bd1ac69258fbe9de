---------------------------- MODULE MCGenerations ----------------------------
(* Instances of Generations for TLC: two sound generations, one with a      *)
(* second profile that does not validate, one whose second profile makes    *)
(* Validate panic and one that Parse rejects.                               *)
EXTENDS Generations

CONSTANTS g1, g2, bad, nil, junk

\* The image has _probe and default only.
MCHas == [g \in Gens \cup {Image} |->
            CASE g = Image -> {0, 1}
              [] g = g2    -> {0, 1, 2}
              [] OTHER     -> {1, 2}]

\* g1 has no settings.
MCLevelOf == [g \in Gens |-> IF g = g1 THEN None ELSE IF g = g2 THEN "debug" ELSE "warn"]

MCBad == {<<bad, 2>>}
MCPanicking == {<<nil, 2>>} \cap (Gens \X {2})
=============================================================================
