----------------------------- MODULE MCIdentity -----------------------------
(* Who is who: one person with a GitHub, a Jira and a Confluence account   *)
(* in the graph, and the login sessions of the web interface.  They share  *)
(* no state: a behaviour is one of them, chosen initially, the other       *)
(* still.  Sessions are run twice, on instances of two shapes.             *)
EXTENDS PersonGraph, Sessions

CONSTANTS hub, jira, wiki, gA, jX, jY, cX, mail, pr, page, s1, s2, Parts

VARIABLE part

MCResolverOf == (gA :> hub) @@ (jX :> jira) @@ (jY :> jira) @@ (cX :> wiki)
MCTwins == (gA :> << >>) @@ (jX :> <<jX, cX>>) @@ (jY :> <<jY>>) @@ (cX :> <<jX, cX>>)
MCEmailOf == [a \in Account |-> mail]
MCItemQueue == [i \in Item |-> IF i = pr THEN hub ELSE wiki]
MCNamable == [i \in Item |-> IF i = pr THEN {gA} ELSE {cX}]

(* One session and two calls at once, or two sessions and one call at a    *)
(* time; the purge comes with the second login.                            *)
OneSession == row'[s2] = NoRow /\ (row'[s1] # NoRow /\ row[s1] = NoRow => now = 1)
TwoLogins ==
    /\ Cardinality({c \in Call : call'[c] # NoCall}) <= 1
    /\ faults' = 0 /\ now' <= LoginBy

Init == part \in Parts /\ PeopleInit /\ SessionInit

(* Among the people, a failure takes the place of the last signal.         *)
Next ==
    /\ UNCHANGED part
    /\ \/ part = "people" /\ PeopleNext /\ UNCHANGED sessionVars
          /\ signals' + failures' <= MaxSignals
       \/ /\ \/ part = "session" /\ SessionNext /\ OneSession
             \/ part = "logins" /\ SessionNext /\ TwoLogins
          /\ UNCHANGED peopleVars

Spec == Init /\ [][Next]_<<part, peopleVars, sessionVars>>

Symmetry == Permutations(Call)
=============================================================================
