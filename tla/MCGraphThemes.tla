---------------------------- MODULE MCGraphThemes ----------------------------
(* Instances of GraphThemes for TLC: builtin themes b1 and b2, palettes of *)
(* one token each.                                                         *)
EXTENDS GraphThemes

CONSTANTS b1, b2, light, dark, l, d

MCModeOf == [t \in Builtin |-> IF t = b1 THEN light ELSE dark]
MCPalette == [m \in Mode |-> [x \in Field |-> IF m = light THEN l ELSE d]]

=============================================================================
