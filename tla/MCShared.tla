------------------------------ MODULE MCShared ------------------------------
(* Four things that several threads, calls or tasks change at once: the    *)
(* service token, the runtime settings, the graph themes, and the edges of *)
(* an item one of whose authors has two accounts.  They share no state: a  *)
(* behaviour is one of them, chosen initially, the others still.  The      *)
(* settings are run twice, on instances of two shapes.                     *)
EXTENDS ServiceToken, SettingsSync, MCGraphThemes, ItemEdges

CONSTANTS e1, e2, e3, a, consumer, x, y, r1, r2, w1, Parts

VARIABLE part

(* Three edits, named in the order in which they load their pages (the     *)
(* first one's key is a, the third is a reset), and no process but the     *)
(* API, nothing going wrong; or two edits, and the processes with their    *)
(* mishaps.                                                                *)
Begun(e) == edit'[e].pc # "none"
InOrder ==
    /\ Begun(e3) => Begun(e2)
    /\ Begun(e2) => Begun(e1)
    /\ edit'[e1].keys # {} => a \in edit'[e1].keys
ManyEdits == mishaps' = 0 /\ listener'[consumer] = "down" /\ edit'[e3].value = Unset
ManyProcesses == ~Begun(e3)

MCWriterOf == [i \in Content |-> w1]
MCAuthorOf == (r1 :> x) @@ (r2 :> y)
MCCreatorOf == [i \in Content |-> x]
MCEdgeId == 1..13

Init == /\ part \in Parts
        /\ TokenInit /\ (part # "token" => cached = Empty)
        /\ SettingsInit(IF part = "edits" THEN {API} ELSE Process)
        /\ ThemesInit
        /\ EdgeInit

(* Themes are followed until a call was committed on stale rows.           *)
Next ==
    /\ UNCHANGED part
    /\ \/ part = "token" /\ TokenNext /\ UNCHANGED <<settingsVars, themeVars, edgeVars>>
       \/ /\ \/ part = "edits" /\ SettingsNext /\ InOrder /\ ManyEdits
             \/ part = "processes" /\ SettingsNext /\ InOrder /\ ManyProcesses
          /\ UNCHANGED <<tokenVars, themeVars, edgeVars>>
       \/ part = "themes" /\ ~stale /\ ThemesNext
          /\ UNCHANGED <<tokenVars, settingsVars, edgeVars>>
       \/ part = "edges" /\ EdgeNext /\ UNCHANGED <<tokenVars, settingsVars, themeVars>>

Spec == Init /\ [][Next]_<<part, tokenVars, settingsVars, themeVars, edgeVars>>

Symmetry == Permutations(Admin)
=============================================================================
