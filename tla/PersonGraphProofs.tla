-------------------------- MODULE PersonGraphProofs --------------------------
(* Why folding one Person into another loses nothing, although it is three *)
(* queries: the edges are read, merged to the Person that stays, and then  *)
(* the stale Person is deleted with all its edges.  As long as nobody      *)
(* wrote an edge to a Person while another task folded it (`raced`), the   *)
(* fold in progress knows every edge of its stale Person, and whatever has *)
(* an edge at all has one that no fold is about to delete.  A task never   *)
(* remembers a Person that it has folded away itself in a reroute, so that *)
(* it cannot write to it later, and an account whose mapping it does not   *)
(* queue again belongs to a Person whose mapping it wrote before.          *)
EXTENDS PersonGraph, TLAPS

(***************************************************************************)
(* The invariant.                                                          *)
(***************************************************************************)
Phase == {"idle", "owner", "upgrade", "email", "merge", "twin", "fold", "copy", "delete",
          "greet", "dedup", "map", "flush", "index", "resolve", "clear", "write"}
Person == Account \cup {NoOne}
Edges == [acts : SUBSET Item, maps : SUBSET Account]
Upsert == [pc : Phase, id : Account \cup Item \cup {NoOne}, mail : Email \cup {NoOne},
           who : Person, stale : Person, why : {"none", "reroute", "dedup"},
           names : SUBSET Account, targets : SUBSET Account, rels : Edges]

PeopleTypes ==
    /\ live \subseteq Account /\ email \in [Account -> Email \cup {NoOne}]
    /\ acts \subseteq Item \X Account /\ maps \subseteq Account \X Account
    /\ byAccount \in [Account -> Person]
    /\ byEmail \in [Resolver -> [Email -> Person]]
    /\ pending \in [Resolver -> SUBSET (Account \X Account)]
    /\ flushed \in [Resolver -> SUBSET Account]
    /\ up \in [Resolver -> Upsert]
    /\ said \in [Item -> SUBSET Account] /\ mapped \subseteq Account
    /\ folder \in [Account -> Resolver \cup {NoOne}] /\ raced \in BOOLEAN

(* What an upsert knows in each phase.                                     *)
Fold == {"fold", "copy", "delete"}
Content == {"resolve", "clear", "write"}
PersonPhase == Phase \ (Content \cup {"idle", "flush"})
UpsertIsFormed(t) ==
    /\ up[t].pc \in PersonPhase => up[t].id \in Account /\ up[t].who \in Account
    /\ up[t].id \in Account => ResolverOf[up[t].id] = t
    /\ up[t].pc = "owner" => up[t].mail \in Email
    /\ up[t].pc = "flush" =>
          \/ up[t].id \in Account /\ up[t].who \in Account
          \/ up[t].id \in Item
    /\ up[t].pc \in Content => up[t].id \in Item /\ up[t].names # {}
    /\ up[t].pc \in {"clear", "write"} => up[t].targets # {}
    /\ up[t].pc \in Fold => up[t].stale \in Account /\ up[t].stale # up[t].who
    /\ up[t].pc # "idle" /\ up[t].id \in Item =>
          ItemQueue[up[t].id] = t /\ said[up[t].id] = {}

(* Edges lead to Persons that are there, and who is there was not folded.  *)
GraphIsWhole ==
    /\ \A x \in acts : x[2] \in live
    /\ \A x \in maps : x[2] \in live
    /\ \A p \in live : folder[p] = NoOne

(* What a task remembers or has at hand, it has not folded itself.         *)
Held == PersonPhase \ {"email", "twin", "merge"}
RemembersNone(t, p) ==
    /\ \A a \in Account : ResolverOf[a] = t => byAccount[a] # p
    /\ \A e \in Email : byEmail[t][e] # p
    /\ \A m \in pending[t] : m[2] # p
    /\ p \notin flushed[t]
    /\ up[t].pc \in Held => up[t].who # p
    /\ up[t].pc = "flush" /\ up[t].id \in Account => up[t].who # p
    /\ Rerouting(t) => up[t].stale # p
FoldsAreForgotten == \A p \in Account : \A t \in Resolver : folder[p] = t => RemembersNone(t, p)

(* A fold that nobody raced knows every edge of the Person it folds.       *)
FoldIsComplete(t) ==
    /\ \A x \in acts : x[2] = up[t].stale => x[1] \in up[t].rels.acts
    /\ \A x \in maps : x[2] = up[t].stale => x[1] \in up[t].rels.maps

(* An edge of x that no fold is about to delete.                           *)
Doomed(p) == \E t \in Resolver : Doing(t, "delete") /\ up[t].stale = p
Lasts(edges, x) == \E p \in live : <<x, p>> \in edges /\ ~ Doomed(p)
Wanted(i) ==
    \/ said[i] # {}
    \/ \E t \in Resolver : Doing(t, "flush") /\ up[t].id = i /\ up[t].names # {}

EdgesLast ==
    ~ raced =>
        /\ \A t \in Resolver : Folding(t) => FoldIsComplete(t)
        /\ \A i \in Item : Wanted(i) => Lasts(acts, i)
        /\ \A a \in mapped : Lasts(maps, a)

(* An account is mapped, or its Person was by this cache.                  *)
MappingIsQueued(t) ==
    /\ Doing(t, "flush") /\ up[t].id \in Account =>
          (\E m \in pending[t] : m[1] = up[t].id) \/ up[t].who \in flushed[t]
    /\ Doing(t, "index") => up[t].id \in mapped \/ up[t].who \in flushed[t]

PeopleInv ==
    /\ PeopleTypes
    /\ \A t \in Resolver : UpsertIsFormed(t)
    /\ GraphIsWhole
    /\ FoldsAreForgotten
    /\ EdgesLast
    /\ \A t \in Resolver : MappingIsQueued(t)

-----------------------------------------------------------------------------
(* How the upsert in progress moves.                                       *)
OthersStay(t) == \A u \in Resolver \ {t} : up'[u] = up[u]
KeepsAll(t) ==
    /\ up'[t].id = up[t].id /\ up'[t].mail = up[t].mail
    /\ up'[t].names = up[t].names /\ up'[t].why \in {"none", "reroute", "dedup"}

LEMMA GoToMoves ==
    ASSUME PeopleTypes, NEW t \in Resolver, NEW pc \in Phase, GoTo(t, pc)
    PROVE  /\ up' \in [Resolver -> Upsert] /\ OthersStay(t) /\ KeepsAll(t)
           /\ up'[t].pc = pc /\ up'[t].who = up[t].who /\ up'[t].stale = up[t].stale
           /\ up'[t].why = up[t].why
           /\ up'[t].targets = up[t].targets /\ up'[t].rels = up[t].rels
<1>1. up \in [Resolver -> Upsert] BY DEF PeopleTypes
<1>2. up'[t] = [up[t] EXCEPT !.pc = pc] BY <1>1 DEF GoTo
<1>3. up[t] \in Upsert BY <1>1
<1>4. up'[t] \in Upsert BY <1>2, <1>3 DEF Upsert
<1>5. OthersStay(t) BY <1>1 DEF GoTo, OthersStay
<1>6. up' \in [Resolver -> Upsert]
  <2>1. up' = [u \in Resolver |-> IF u = t THEN up'[t] ELSE up[u]] BY <1>1, <1>2 DEF GoTo
  <2> QED BY <2>1, <1>1, <1>4
<1>7. /\ KeepsAll(t) /\ up'[t].pc = pc /\ up'[t].who = up[t].who
      /\ up'[t].stale = up[t].stale /\ up'[t].why = up[t].why
      /\ up'[t].targets = up[t].targets /\ up'[t].rels = up[t].rels
  BY <1>2, <1>3 DEF KeepsAll, Upsert
<1> QED BY <1>5, <1>6, <1>7

LEMMA SettleMoves ==
    ASSUME PeopleTypes, NEW t \in Resolver, NEW pc \in Phase, NEW p \in Person, Settle(t, pc, p)
    PROVE  /\ up' \in [Resolver -> Upsert] /\ OthersStay(t) /\ KeepsAll(t)
           /\ up'[t].pc = pc /\ up'[t].who = p /\ up'[t].stale = up[t].stale
           /\ up'[t].why = up[t].why
<1>1. up \in [Resolver -> Upsert] BY DEF PeopleTypes
<1>2. up'[t] = [up[t] EXCEPT !.pc = pc, !.who = p] BY <1>1 DEF Settle
<1>3. up[t] \in Upsert BY <1>1
<1>4. up'[t] \in Upsert BY <1>2, <1>3 DEF Upsert
<1>5. OthersStay(t) BY <1>1 DEF Settle, OthersStay
<1>6. up' \in [Resolver -> Upsert]
  <2>1. up' = [u \in Resolver |-> IF u = t THEN up'[t] ELSE up[u]] BY <1>1, <1>2 DEF Settle
  <2> QED BY <2>1, <1>1, <1>4
<1>7. /\ KeepsAll(t) /\ up'[t].pc = pc /\ up'[t].who = p
      /\ up'[t].stale = up[t].stale /\ up'[t].why = up[t].why
  BY <1>2, <1>3 DEF KeepsAll, Upsert
<1> QED BY <1>5, <1>6, <1>7

LEMMA StartFoldMoves ==
    ASSUME PeopleTypes, NEW t \in Resolver, NEW stale \in Person, NEW who \in Person,
           NEW why \in {"reroute", "dedup"}, StartFold(t, stale, who, why)
    PROVE  /\ up' \in [Resolver -> Upsert] /\ OthersStay(t) /\ KeepsAll(t)
           /\ up'[t].pc = "fold" /\ up'[t].who = who /\ up'[t].stale = stale
           /\ up'[t].why = why
<1>1. up \in [Resolver -> Upsert] BY DEF PeopleTypes
<1>2. up'[t] = [up[t] EXCEPT !.pc = "fold", !.stale = stale, !.who = who, !.why = why]
  BY <1>1 DEF StartFold
<1>3. up[t] \in Upsert BY <1>1
<1>4. up'[t] \in Upsert BY <1>2, <1>3 DEF Upsert, Phase
<1>5. OthersStay(t) BY <1>1 DEF StartFold, OthersStay
<1>6. up' \in [Resolver -> Upsert]
  <2>1. up' = [u \in Resolver |-> IF u = t THEN up'[t] ELSE up[u]] BY <1>1, <1>2 DEF StartFold
  <2> QED BY <2>1, <1>1, <1>4
<1>7. /\ KeepsAll(t) /\ up'[t].pc = "fold" /\ up'[t].who = who
      /\ up'[t].stale = stale /\ up'[t].why = why
  BY <1>2, <1>3 DEF KeepsAll, Upsert
<1> QED BY <1>5, <1>6, <1>7

LEMMA RestMoves ==
    ASSUME PeopleTypes, NEW t \in Resolver, up' = [up EXCEPT ![t] = Resting]
    PROVE  up' \in [Resolver -> Upsert] /\ OthersStay(t) /\ up'[t].pc = "idle" /\ up'[t].id = NoOne
<1>1. up \in [Resolver -> Upsert] BY DEF PeopleTypes
<1>2. Resting \in Upsert BY DEF Resting, Upsert, Person, Phase, Edges
<1>3. Resting.pc = "idle" /\ Resting.id = NoOne BY DEF Resting
<1> QED BY <1>1, <1>2, <1>3 DEF OthersStay

(* The steps that set several fields at once.                              *)
LEMMA ReadMoves ==
    ASSUME PeopleTypes, NEW t \in Resolver, ReadEdges(t)
    PROVE  /\ up' \in [Resolver -> Upsert] /\ OthersStay(t) /\ KeepsAll(t)
           /\ up'[t].pc = "copy" /\ up'[t].who = up[t].who /\ up'[t].stale = up[t].stale
           /\ up'[t].why = up[t].why /\ up'[t].rels = EdgesOf(up[t].stale)
<1>1. up \in [Resolver -> Upsert] BY DEF PeopleTypes
<1>2. PICK rels \in Edges : rels = EdgesOf(up[t].stale) BY DEF EdgesOf, Edges
<1>3. up' = [up EXCEPT ![t].pc = "copy", ![t].rels = rels] BY <1>2 DEF ReadEdges
<1>4. up'[t] = [up[t] EXCEPT !.pc = "copy", !.rels = rels] BY <1>1, <1>3
<1>5. up[t] \in Upsert BY <1>1
<1>6. up'[t] \in Upsert BY <1>4, <1>5 DEF Upsert, Phase
<1>7. OthersStay(t) BY <1>1, <1>3 DEF OthersStay
<1>8. up' \in [Resolver -> Upsert]
  <2>1. up' = [u \in Resolver |-> IF u = t THEN up'[t] ELSE up[u]] BY <1>1, <1>3, <1>4
  <2> QED BY <2>1, <1>1, <1>6
<1>9. /\ KeepsAll(t) /\ up'[t].pc = "copy" /\ up'[t].who = up[t].who
      /\ up'[t].stale = up[t].stale /\ up'[t].why = up[t].why /\ up'[t].rels = rels
  BY <1>4, <1>5 DEF KeepsAll, Upsert
<1> QED BY <1>2, <1>7, <1>8, <1>9

LEMMA ResolveMoves ==
    ASSUME PeopleTypes, NEW t \in Resolver, Resolve(t), up[t].names # {}
    PROVE  /\ up' \in [Resolver -> Upsert] /\ OthersStay(t) /\ KeepsAll(t)
           /\ up'[t].pc = "clear" /\ up'[t].targets # {}
<1>1. up \in [Resolver -> Upsert] BY DEF PeopleTypes
<1>2. PICK target \in [up[t].names -> Account] :
          up' = [up EXCEPT ![t].pc = "clear", ![t].targets = Range(target)]
  BY DEF Resolve
<1>3. Range(target) \subseteq Account /\ Range(target) # {} BY <1>2 DEF Range
<1>4. PICK targets : targets = Range(target) OBVIOUS
<1>5. targets \in SUBSET Account BY <1>3, <1>4
<1>6. up' = [up EXCEPT ![t].pc = "clear", ![t].targets = targets] BY <1>2, <1>4
<1>7. up'[t] = [up[t] EXCEPT !.pc = "clear", !.targets = targets] BY <1>1, <1>6
<1>8. up[t] \in Upsert BY <1>1
<1>9. up'[t] \in Upsert BY <1>5, <1>7, <1>8 DEF Upsert, Phase
<1>10. OthersStay(t) BY <1>1, <1>6 DEF OthersStay
<1>11. up' \in [Resolver -> Upsert]
  <2>1. up' = [u \in Resolver |-> IF u = t THEN up'[t] ELSE up[u]] BY <1>1, <1>6, <1>7
  <2> QED BY <2>1, <1>1, <1>9
<1>12. KeepsAll(t) /\ up'[t].pc = "clear" /\ up'[t].targets = targets
  BY <1>7, <1>8 DEF KeepsAll, Upsert
<1> QED BY <1>3, <1>4, <1>10, <1>11, <1>12

LEMMA TakePersonMoves ==
    ASSUME PeopleTypes, NEW t \in Resolver, NEW a \in Account, NEW e \in Email \cup {NoOne},
           TakePerson(t, a, e)
    PROVE  \E pc \in {"owner", "upgrade", "email", "twin", "merge"} : \E who \in Account :
              /\ up' \in [Resolver -> Upsert] /\ OthersStay(t)
              /\ up'[t].pc = pc /\ up'[t].id = a /\ up'[t].who = who
              /\ up'[t].mail = e /\ (pc = "owner" => e \in Email)
              /\ up'[t].why = "none" /\ ResolverOf[a] = t
              /\ \/ pc \notin {"owner", "upgrade"} /\ byAccount' = byAccount
                 \/ who = byAccount[a] /\ byAccount' = byAccount
                 \/ /\ e \in Email /\ who = byEmail[t][e] /\ pc = "upgrade"
                    /\ byAccount' = [byAccount EXCEPT ![a] = who]
<1>1. up \in [Resolver -> Upsert] /\ byAccount \in [Account -> Person]
      /\ byEmail \in [Resolver -> [Email -> Person]]
  BY DEF PeopleTypes
<1> DEFINE Start(pc, who) == up' = [up EXCEPT ![t] =
               [Resting EXCEPT !.pc = pc, !.id = a, !.mail = e, !.who = who]]
           First == {"owner", "upgrade", "email", "twin", "merge"}
<1>2. ASSUME NEW pc \in First, NEW who \in Account, Start(pc, who)
      PROVE  /\ up' \in [Resolver -> Upsert] /\ OthersStay(t)
             /\ up'[t].pc = pc /\ up'[t].id = a /\ up'[t].who = who
             /\ up'[t].mail = e /\ up'[t].why = "none"
  <2>1. PICK r : r = [Resting EXCEPT !.pc = pc, !.id = a, !.mail = e, !.who = who] OBVIOUS
  <2>2. r \in Upsert BY <2>1 DEF Resting, Upsert, Person, Phase, Edges
  <2>3. r.pc = pc /\ r.id = a /\ r.who = who /\ r.mail = e /\ r.why = "none" BY <2>1 DEF Resting
  <2>4. up' = [up EXCEPT ![t] = r] BY <1>2, <2>1
  <2> QED BY <1>1, <2>2, <2>3, <2>4 DEF OthersStay
<1>3. ResolverOf[a] = t BY DEF TakePerson
<1>4. e = NoOne \/ e \in Email OBVIOUS
<1>5. CASE byAccount[a] # NoOne
  <2>1. byAccount[a] \in Account BY <1>1, <1>5 DEF Person
  <2>2. byAccount' = byAccount /\ \E pc \in {"owner", "upgrade"} :
          Start(pc, byAccount[a]) /\ (pc = "owner" => e # NoOne)
    BY <1>5 DEF TakePerson
  <2>3. PICK pc \in {"owner", "upgrade"} : Start(pc, byAccount[a]) /\ (pc = "owner" => e # NoOne)
    BY <2>2
  <2> HIDE DEF Start
  <2>4. pc \in First OBVIOUS
  <2> QED BY <1>2, <1>3, <1>4, <2>1, <2>2, <2>3, <2>4
<1>6. CASE byAccount[a] = NoOne /\ e # NoOne /\ byEmail[t][e] # NoOne
  <2>1. byEmail[t][e] \in Account BY <1>1, <1>4, <1>6 DEF Person
  <2>2. Start("upgrade", byEmail[t][e])
        /\ byAccount' = [byAccount EXCEPT ![a] = byEmail[t][e]]
    BY <1>6 DEF TakePerson
  <2>3. e \in Email BY <1>4, <1>6
  <2> HIDE DEF Start
  <2>4. "upgrade" \in First OBVIOUS
  <2> QED BY <1>2, <1>3, <2>1, <2>2, <2>3, <2>4
<1>7. CASE byAccount[a] = NoOne /\ ~ (e # NoOne /\ byEmail[t][e] # NoOne)
  <2>1. byAccount' = byAccount /\ \E pc \in {"email", "twin", "merge"} : Start(pc, a)
    <3>1. LookupByAccount(a) \in {"twin", "merge"} BY DEF LookupByAccount
    <3> QED BY <1>7, <3>1 DEF TakePerson
  <2>2. PICK pc \in {"email", "twin", "merge"} : Start(pc, a) BY <2>1
  <2> HIDE DEF Start
  <2>3. pc \in First /\ pc \notin {"owner", "upgrade"} /\ pc # "owner" OBVIOUS
  <2> QED BY <1>2, <1>3, <2>1, <2>2, <2>3
<1> QED BY <1>5, <1>6, <1>7

LEMMA TakeContentMoves ==
    ASSUME PeopleTypes, NEW t \in Resolver, NEW i \in Item, NEW names \in SUBSET Namable[i],
           TakeContent(t, i, names)
    PROVE  /\ up' \in [Resolver -> Upsert] /\ OthersStay(t)
           /\ up'[t].pc = (IF names = {} THEN "flush" ELSE "resolve")
           /\ up'[t].id = i /\ up'[t].names = names /\ up'[t].why = "none"
           /\ ItemQueue[i] = t
<1>1. up \in [Resolver -> Upsert] BY DEF PeopleTypes
<1>2. PICK pc \in {"flush", "resolve"} : pc = IF names = {} THEN "flush" ELSE "resolve" OBVIOUS
<1>3. PICK r : r = [Resting EXCEPT !.pc = pc, !.id = i, !.names = names] OBVIOUS
<1>4. names \subseteq Account BY PeopleAreAccounts
<1>5. r \in Upsert BY <1>2, <1>3, <1>4 DEF Resting, Upsert, Person, Phase, Edges
<1>6. r.pc = pc /\ r.id = i /\ r.names = names /\ r.why = "none" BY <1>3 DEF Resting
<1>7. up' = [up EXCEPT ![t] = r] BY <1>2, <1>3 DEF TakeContent
<1> QED BY <1>1, <1>2, <1>5, <1>6, <1>7 DEF OthersStay, TakeContent

-----------------------------------------------------------------------------
(* Types, and what an upsert knows: one fact per action.                   *)
Formed(t) == PeopleTypes' /\ UpsertIsFormed(t)'

LEMMA TakeFormed ==
    ASSUME PeopleTypes, NEW t \in Resolver, NEW a \in Account, NEW e \in Email \cup {NoOne},
           TakePerson(t, a, e)
    PROVE  Formed(t)
<1>1. PICK pc \in {"owner", "upgrade", "email", "twin", "merge"}, who \in Account :
          /\ up' \in [Resolver -> Upsert]
          /\ up'[t].pc = pc /\ up'[t].id = a /\ up'[t].who = who
          /\ up'[t].mail = e /\ (pc = "owner" => e \in Email) /\ ResolverOf[a] = t
          /\ byAccount' = byAccount \/ byAccount' = [byAccount EXCEPT ![a] = who]
  BY TakePersonMoves
<1>2. UNCHANGED <<live, email, acts, maps, byEmail, pending, flushed, said, mapped, folder, raced>>
  BY DEF TakePerson, graphVars, histVars
<1>3. byAccount' \in [Account -> Person] BY <1>1 DEF PeopleTypes, Person
<1>4. PeopleTypes' BY <1>1, <1>2, <1>3 DEF PeopleTypes
<1>5. UpsertIsFormed(t)'
  BY <1>1, ItemsAreNoAccounts DEF UpsertIsFormed, PersonPhase, Phase, Content, Fold
<1> QED BY <1>4, <1>5 DEF Formed

LEMMA OwnersAreOthers ==
    ASSUME PeopleTypes, NEW t \in Resolver, UpsertIsFormed(t), FindOwner(t)
    PROVE  /\ up[t].mail \in Email /\ up[t].id \in Account /\ up[t].who \in Account
           /\ \/ byEmail' = [byEmail EXCEPT ![t][up[t].mail] = up[t].who] /\ GoTo(t, "upgrade")
              \/ /\ byEmail' = byEmail
                 /\ \E o \in Account \ {up[t].who} :
                       /\ StartFold(t, up[t].who, o, "reroute")
                       /\ o = byEmail[t][up[t].mail] \/ o \in live
<1> DEFINE e == up[t].mail
           cached == up[t].who
           others == (IF byEmail[t][e] # NoOne THEN {byEmail[t][e]} ELSE Owner(e)) \ {cached}
<1>1. byEmail \in [Resolver -> [Email -> Person]] BY DEF PeopleTypes
<1>2. e \in Email /\ up[t].id \in Account /\ cached \in Account
  BY DEF FindOwner, Doing, UpsertIsFormed, PersonPhase, Phase, Content
<1>3. \A o \in others : o \in Account \ {cached} /\ (o = byEmail[t][e] \/ o \in live)
  BY <1>1, <1>2 DEF Owner, PeopleTypes, Person
<1> QED BY <1>2, <1>3 DEF FindOwner

LEMMA FindOwnerFormed ==
    ASSUME PeopleTypes, NEW t \in Resolver, UpsertIsFormed(t), FindOwner(t)
    PROVE  Formed(t)
<1>1. up[t].mail \in Email /\ up[t].id \in Account /\ up[t].who \in Account BY OwnersAreOthers
<1>2. UNCHANGED <<live, email, acts, maps, byAccount, pending, flushed, said, mapped, folder, raced>>
  BY DEF FindOwner, graphVars, histVars
<1>3. CASE byEmail' = [byEmail EXCEPT ![t][up[t].mail] = up[t].who] /\ GoTo(t, "upgrade")
  <2>1. byEmail' \in [Resolver -> [Email -> Person]]
    BY <1>1, <1>3 DEF PeopleTypes, Person
  <2>2. /\ up' \in [Resolver -> Upsert] /\ up'[t].pc = "upgrade"
        /\ up'[t].id = up[t].id /\ up'[t].who = up[t].who
    BY <1>3, GoToMoves DEF Phase, KeepsAll
  <2>3. PeopleTypes' BY <1>2, <2>1, <2>2 DEF PeopleTypes
  <2>4. UpsertIsFormed(t)'
    BY <1>1, <2>2, ItemsAreNoAccounts DEF UpsertIsFormed, PersonPhase, Phase, Content, Fold
  <2> QED BY <2>3, <2>4 DEF Formed
<1>4. ASSUME byEmail' = byEmail, NEW o \in Account \ {up[t].who},
             StartFold(t, up[t].who, o, "reroute")
      PROVE  Formed(t)
  <2>1. /\ up' \in [Resolver -> Upsert] /\ up'[t].pc = "fold" /\ up'[t].id = up[t].id
        /\ up'[t].who = o /\ up'[t].stale = up[t].who
    BY <1>1, <1>4, StartFoldMoves DEF KeepsAll, Person
  <2>2. PeopleTypes' BY <1>2, <1>4, <2>1 DEF PeopleTypes
  <2>3. UpsertIsFormed(t)'
    BY <1>1, <2>1, ItemsAreNoAccounts DEF UpsertIsFormed, PersonPhase, Phase, Content, Fold
  <2> QED BY <2>2, <2>3 DEF Formed
<1> QED BY <1>3, <1>4, OwnersAreOthers

LEMMA MergeIsTyped ==
    ASSUME PeopleTypes, NEW p \in Account, NEW e \in Email \cup {NoOne}, MergePerson(p, e)
    PROVE  /\ live' = live \cup {p} /\ live' \subseteq Account
           /\ email' \in [Account -> Email \cup {NoOne}]
           /\ folder' \in [Account -> Resolver \cup {NoOne}]
           /\ \A q \in Account : folder'[q] = IF q = p THEN NoOne ELSE folder[q]
           /\ UNCHANGED <<acts, maps, said, mapped, raced>>
BY DEF MergePerson, Ensure, PeopleTypes

LEMMA UpgradeFormed ==
    ASSUME PeopleTypes, NEW t \in Resolver, UpsertIsFormed(t),
           Upgrade(t) \/ Greet(t) \/ UpgradeFails(t)
    PROVE  Formed(t)
<1>1. up[t].pc \in {"upgrade", "greet"} /\ GoTo(t, "dedup") /\ UNCHANGED cacheVars
  BY DEF Upgrade, Greet, UpgradeFails, Doing
<1>2. up[t].id \in Account /\ up[t].who \in Account
  BY <1>1 DEF UpsertIsFormed, PersonPhase, Phase, Content
<1>3. /\ up' \in [Resolver -> Upsert] /\ up'[t].pc = "dedup"
      /\ up'[t].id = up[t].id /\ up'[t].who = up[t].who
  BY <1>1, GoToMoves DEF Phase, KeepsAll
<1>4. up[t].mail \in Email \cup {NoOne} BY DEF PeopleTypes, Upsert
<1>5. \/ MergePerson(up[t].who, up[t].mail) \/ MergePerson(up[t].who, NoOne)
      \/ UNCHANGED <<graphVars, histVars>>
  BY DEF Upgrade, Greet, UpgradeFails
<1>6. /\ live' \subseteq Account /\ email' \in [Account -> Email \cup {NoOne}]
      /\ folder' \in [Account -> Resolver \cup {NoOne}]
      /\ UNCHANGED <<acts, maps, said, mapped, raced>>
  BY <1>2, <1>4, <1>5, MergeIsTyped DEF graphVars, histVars, PeopleTypes
<1>7. PeopleTypes' BY <1>1, <1>3, <1>6 DEF PeopleTypes, cacheVars
<1>8. UpsertIsFormed(t)'
  BY <1>2, <1>3, ItemsAreNoAccounts DEF UpsertIsFormed, PersonPhase, Phase, Content, Fold
<1> QED BY <1>7, <1>8 DEF Formed

(* A Person found by email or by a twin account.                           *)
LEMMA FoundMoves ==
    ASSUME PeopleTypes, NEW t \in Resolver, UpsertIsFormed(t), FindByEmail(t) \/ FindByTwin(t)
    PROVE  /\ up[t].id \in Account /\ up' \in [Resolver -> Upsert] /\ OthersStay(t)
           /\ up'[t].id = up[t].id /\ up'[t].pc \in {"merge", "twin"} /\ up'[t].who \in Account
<1>1. up[t].pc \in {"email", "twin"} BY DEF FindByEmail, FindByTwin, Doing
<1>2. up[t].id \in Account /\ up[t].who \in Account
  BY <1>1 DEF UpsertIsFormed, PersonPhase, Phase, Content
<1>3. (\E pc \in {"merge", "twin"} : GoTo(t, pc)) \/ (\E p \in Account : Settle(t, "merge", p))
  <2>1. CASE FindByEmail(t)
    <3>1. Owner(up[t].mail) \subseteq Account BY DEF Owner, PeopleTypes
    <3> QED BY <2>1, <3>1 DEF FindByEmail, LookupByAccount
  <2>2. CASE FindByTwin(t)
    <3>1. Range(Twins[up[t].id]) \subseteq Account BY <1>2, PeopleAreAccounts DEF Range
    <3>2. ByTwinId(up[t].id) \subseteq Account BY <3>1 DEF ByTwinId
    <3>3. ByMapping(up[t].id) \subseteq Account BY DEF ByMapping, PeopleTypes
    <3> QED BY <1>2, <2>2, <3>2, <3>3 DEF FindByTwin
  <2> QED BY <2>1, <2>2
<1>4. ASSUME NEW pc \in {"merge", "twin"}, GoTo(t, pc)
      PROVE  /\ up' \in [Resolver -> Upsert] /\ OthersStay(t)
             /\ up'[t].id = up[t].id /\ up'[t].pc = pc /\ up'[t].who = up[t].who
  BY <1>4, GoToMoves DEF KeepsAll, Phase
<1>5. ASSUME NEW p \in Account, Settle(t, "merge", p)
      PROVE  /\ up' \in [Resolver -> Upsert] /\ OthersStay(t)
             /\ up'[t].id = up[t].id /\ up'[t].pc = "merge" /\ up'[t].who = p
  BY <1>5, SettleMoves DEF KeepsAll, Phase, Person
<1> QED BY <1>2, <1>3, <1>4, <1>5

LEMMA FoundFormed ==
    ASSUME PeopleTypes, NEW t \in Resolver, UpsertIsFormed(t), FindByEmail(t) \/ FindByTwin(t)
    PROVE  Formed(t)
<1>1. /\ up[t].id \in Account /\ up' \in [Resolver -> Upsert]
      /\ up'[t].id = up[t].id /\ up'[t].pc \in {"merge", "twin"} /\ up'[t].who \in Account
  BY FoundMoves
<1>2. UNCHANGED <<graphVars, cacheVars, histVars>> BY DEF FindByEmail, FindByTwin
<1>3. PeopleTypes' BY <1>1, <1>2 DEF PeopleTypes, graphVars, cacheVars, histVars
<1>4. UpsertIsFormed(t)'
  BY <1>1, ItemsAreNoAccounts DEF UpsertIsFormed, PersonPhase, Phase, Content, Fold
<1> QED BY <1>3, <1>4 DEF Formed

LEMMA MergeFoundFormed ==
    ASSUME PeopleTypes, NEW t \in Resolver, UpsertIsFormed(t), MergeFound(t)
    PROVE  Formed(t)
<1>1. up[t].id \in Account /\ up[t].who \in Account
  BY DEF MergeFound, Doing, UpsertIsFormed, PersonPhase, Phase, Content
<1>2. up[t].mail \in Email \cup {NoOne} BY DEF PeopleTypes, Upsert
<1>3. /\ up' \in [Resolver -> Upsert] /\ up'[t].pc = "dedup"
      /\ up'[t].id = up[t].id /\ up'[t].who = up[t].who
  BY GoToMoves DEF MergeFound, Phase, KeepsAll
<1>4. /\ live' \subseteq Account /\ email' \in [Account -> Email \cup {NoOne}]
      /\ folder' \in [Account -> Resolver \cup {NoOne}]
      /\ UNCHANGED <<acts, maps, said, mapped, raced>>
  BY <1>1, <1>2, MergeIsTyped DEF MergeFound
<1>5. byAccount' \in [Account -> Person] BY <1>1 DEF MergeFound, PeopleTypes, Person
<1>6. byEmail' \in [Resolver -> [Email -> Person]]
  BY <1>1, <1>2 DEF MergeFound, PeopleTypes, Person
<1>7. UNCHANGED <<pending, flushed>> BY DEF MergeFound
<1>8. PeopleTypes' BY <1>3, <1>4, <1>5, <1>6, <1>7 DEF PeopleTypes
<1>9. UpsertIsFormed(t)'
  BY <1>1, <1>3, ItemsAreNoAccounts DEF UpsertIsFormed, PersonPhase, Phase, Content, Fold
<1> QED BY <1>8, <1>9 DEF Formed

LEMMA FoldKnows ==
    ASSUME PeopleTypes, NEW t \in Resolver, UpsertIsFormed(t), up[t].pc \in Fold
    PROVE  /\ up[t].id \in Account /\ up[t].who \in Account /\ up[t].stale \in Account
           /\ up[t].stale # up[t].who /\ up[t].rels.acts \subseteq Item
           /\ up[t].rels.maps \subseteq Account
<1>1. up[t] \in Upsert BY DEF PeopleTypes
<1>2. up[t].rels \in Edges BY <1>1 DEF Upsert
<1> QED BY <1>2 DEF UpsertIsFormed, Fold, PersonPhase, Phase, Content, Edges

LEMMA EnsureIsTyped ==
    ASSUME PeopleTypes, NEW people \in SUBSET Account, Ensure(people)
    PROVE  /\ live' = live \cup people /\ live' \subseteq Account
           /\ folder' \in [Account -> Resolver \cup {NoOne}]
           /\ \A q \in Account : folder'[q] = IF q \in people THEN NoOne ELSE folder[q]
BY DEF Ensure, PeopleTypes

LEMMA TouchesIsTyped ==
    ASSUME PeopleTypes, NEW t \in Resolver, NEW people, Touches(t, people)
    PROVE  raced' \in BOOLEAN
BY DEF Touches, PeopleTypes

LEMMA ReadFormed ==
    ASSUME PeopleTypes, NEW t \in Resolver, UpsertIsFormed(t), ReadEdges(t)
    PROVE  Formed(t)
<1>1. /\ up' \in [Resolver -> Upsert] /\ up'[t].pc = "copy" /\ up'[t].id = up[t].id
      /\ up'[t].who = up[t].who /\ up'[t].stale = up[t].stale
  BY ReadMoves DEF KeepsAll
<1>2. /\ up[t].id \in Account /\ up[t].who \in Account /\ up[t].stale \in Account
      /\ up[t].stale # up[t].who
  BY FoldKnows DEF ReadEdges, Doing, Fold
<1>3. PeopleTypes' BY <1>1 DEF ReadEdges, PeopleTypes, graphVars, cacheVars, histVars
<1>4. UpsertIsFormed(t)'
  BY <1>1, <1>2, ItemsAreNoAccounts DEF UpsertIsFormed, PersonPhase, Phase, Content, Fold
<1> QED BY <1>3, <1>4 DEF Formed

LEMMA CopyDoes ==
    ASSUME PeopleTypes, NEW t \in Resolver, UpsertIsFormed(t), CopyEdges(t)
    PROVE  LET rels == up[t].rels
               people == IF rels.acts # {} \/ rels.maps # {} THEN {up[t].who} ELSE {}
           IN /\ people \in SUBSET Account /\ Ensure(people) /\ Touches(t, people)
              /\ acts' = acts \cup (rels.acts \X {up[t].who})
              /\ maps' = maps \cup (rels.maps \X {up[t].who})
              /\ GoTo(t, "delete") /\ UNCHANGED <<email, cacheVars, said, mapped>>
<1>1. up[t].who \in Account BY FoldKnows DEF CopyEdges, Doing, Fold
<1> QED BY <1>1 DEF CopyEdges

LEMMA CopyFormed ==
    ASSUME PeopleTypes, NEW t \in Resolver, UpsertIsFormed(t), CopyEdges(t)
    PROVE  Formed(t)
<1>1. PICK people \in SUBSET Account : Ensure(people) /\ Touches(t, people) BY CopyDoes
<1>2. /\ acts' = acts \cup (up[t].rels.acts \X {up[t].who})
      /\ maps' = maps \cup (up[t].rels.maps \X {up[t].who})
      /\ GoTo(t, "delete") /\ UNCHANGED <<email, cacheVars, said, mapped>>
  BY CopyDoes
<1>3. /\ up[t].id \in Account /\ up[t].who \in Account /\ up[t].stale \in Account
      /\ up[t].stale # up[t].who /\ up[t].rels.acts \subseteq Item
      /\ up[t].rels.maps \subseteq Account
  BY FoldKnows DEF CopyEdges, Doing, Fold
<1>4. /\ up' \in [Resolver -> Upsert] /\ up'[t].pc = "delete" /\ up'[t].id = up[t].id
      /\ up'[t].who = up[t].who /\ up'[t].stale = up[t].stale
  BY <1>2, GoToMoves DEF KeepsAll, Phase
<1>5. acts' \subseteq Item \X Account /\ maps' \subseteq Account \X Account
  BY <1>2, <1>3 DEF PeopleTypes
<1>6. live' \subseteq Account /\ folder' \in [Account -> Resolver \cup {NoOne}]
      /\ raced' \in BOOLEAN
  BY <1>1, EnsureIsTyped, TouchesIsTyped
<1>7. PeopleTypes' BY <1>2, <1>4, <1>5, <1>6 DEF PeopleTypes, cacheVars
<1>8. UpsertIsFormed(t)'
  BY <1>3, <1>4, ItemsAreNoAccounts DEF UpsertIsFormed, PersonPhase, Phase, Content, Fold
<1> QED BY <1>7, <1>8 DEF Formed

LEMMA RepointIsTyped ==
    ASSUME PeopleTypes, NEW t \in Resolver, NEW stale \in Account, NEW owner \in Account,
           NEW e, Repoint(t, stale, owner, e)
    PROVE  /\ byAccount' \in [Account -> Person]
           /\ byEmail' \in [Resolver -> [Email -> Person]]
           /\ pending' \in [Resolver -> SUBSET (Account \X Account)]
           /\ flushed' \in [Resolver -> SUBSET Account]
<1>1. byAccount' \in [Account -> Person] BY DEF Repoint, PeopleTypes, Person
<1>2. byEmail' \in [Resolver -> [Email -> Person]] BY DEF Repoint, PeopleTypes, Person
<1>3. flushed' \in [Resolver -> SUBSET Account] BY DEF Repoint, PeopleTypes
<1>4. pending' \in [Resolver -> SUBSET (Account \X Account)]
  <2>1. pending \in [Resolver -> SUBSET (Account \X Account)] BY DEF PeopleTypes
  <2>2. PICK S : S = {<<m[1], IF m[2] = stale THEN owner ELSE m[2]>> : m \in pending[t]} OBVIOUS
  <2>3. \A m \in pending[t] :
            m[1] \in Account /\ (IF m[2] = stale THEN owner ELSE m[2]) \in Account
    BY <2>1
  <2>4. S \subseteq Account \X Account BY <2>2, <2>3
  <2>5. pending' = [pending EXCEPT ![t] = S] BY <2>2 DEF Repoint
  <2> QED BY <2>1, <2>4, <2>5
<1> QED BY <1>1, <1>2, <1>3, <1>4

LEMMA DeleteFormed ==
    ASSUME PeopleTypes, NEW t \in Resolver, UpsertIsFormed(t), DeleteStub(t)
    PROVE  Formed(t)
<1>1. up[t].id \in Account /\ up[t].who \in Account /\ up[t].stale \in Account
  BY FoldKnows DEF DeleteStub, Doing, Fold
<1>2. PICK pc \in {"greet", "map"} : GoTo(t, pc) BY DEF DeleteStub
<1>3. /\ up' \in [Resolver -> Upsert] /\ up'[t].pc = pc /\ up'[t].id = up[t].id
      /\ up'[t].who = up[t].who
  BY <1>2, GoToMoves DEF KeepsAll, Phase
<1>4. /\ live' \subseteq Account /\ email' \in [Account -> Email \cup {NoOne}]
      /\ acts' \subseteq Item \X Account /\ maps' \subseteq Account \X Account
      /\ UNCHANGED <<said, mapped, raced>>
  BY <1>1 DEF DeleteStub, PeopleTypes
<1>5. folder' \in [Account -> Resolver \cup {NoOne}]
  BY <1>1 DEF DeleteStub, PeopleTypes
<1>6. Repoint(t, up[t].stale, up[t].who, up[t].mail) \/ UNCHANGED cacheVars BY DEF DeleteStub
<1>7. /\ byAccount' \in [Account -> Person]
      /\ byEmail' \in [Resolver -> [Email -> Person]]
      /\ pending' \in [Resolver -> SUBSET (Account \X Account)]
      /\ flushed' \in [Resolver -> SUBSET Account]
  BY <1>1, <1>6, RepointIsTyped DEF PeopleTypes, cacheVars
<1>8. PeopleTypes' BY <1>3, <1>4, <1>5, <1>7 DEF PeopleTypes
<1>9. UpsertIsFormed(t)'
  BY <1>1, <1>3, ItemsAreNoAccounts DEF UpsertIsFormed, PersonPhase, Phase, Content, Fold
<1> QED BY <1>8, <1>9 DEF Formed

LEMMA DedupFormed ==
    ASSUME PeopleTypes, NEW t \in Resolver, UpsertIsFormed(t), Dedup(t)
    PROVE  Formed(t)
<1>1. up[t].id \in Account /\ up[t].who \in Account
  BY DEF Dedup, Doing, UpsertIsFormed, PersonPhase, Phase, Content
<1>2. PeopleTypes' /\ UpsertIsFormed(t)'
  <2>1. CASE up[t].who = up[t].id
    <3>1. /\ up' \in [Resolver -> Upsert] /\ up'[t].pc = "map" /\ up'[t].id = up[t].id
          /\ up'[t].who = up[t].who
      BY <2>1, GoToMoves DEF KeepsAll, Phase, Dedup
    <3>2. PeopleTypes' BY <3>1 DEF Dedup, PeopleTypes, graphVars, cacheVars, histVars
    <3> QED BY <1>1, <3>1, <3>2, ItemsAreNoAccounts
            DEF UpsertIsFormed, PersonPhase, Phase, Content, Fold
  <2>2. CASE up[t].who # up[t].id
    <3>1. /\ up' \in [Resolver -> Upsert] /\ up'[t].pc = "fold" /\ up'[t].id = up[t].id
          /\ up'[t].who = up[t].who /\ up'[t].stale = up[t].id
      BY <1>1, <2>2, StartFoldMoves DEF KeepsAll, Person, Dedup
    <3>2. PeopleTypes' BY <3>1 DEF Dedup, PeopleTypes, graphVars, cacheVars, histVars
    <3> QED BY <1>1, <2>2, <3>1, <3>2, ItemsAreNoAccounts
            DEF UpsertIsFormed, PersonPhase, Phase, Content, Fold
  <2> QED BY <2>1, <2>2
<1> QED BY <1>2 DEF Formed

LEMMA QueueFormed ==
    ASSUME PeopleTypes, NEW t \in Resolver, UpsertIsFormed(t), QueueMapping(t)
    PROVE  Formed(t)
<1>1. up[t].id \in Account /\ up[t].who \in Account
  BY DEF QueueMapping, Doing, UpsertIsFormed, PersonPhase, Phase, Content
<1>2. /\ up' \in [Resolver -> Upsert] /\ up'[t].pc = "flush" /\ up'[t].id = up[t].id
      /\ up'[t].who = up[t].who
  BY GoToMoves DEF KeepsAll, Phase, QueueMapping
<1>3. pending' \in [Resolver -> SUBSET (Account \X Account)]
  BY <1>1 DEF QueueMapping, PeopleTypes
<1>4. PeopleTypes' BY <1>2, <1>3 DEF QueueMapping, PeopleTypes, graphVars, histVars
<1>5. UpsertIsFormed(t)'
  BY <1>1, <1>2, ItemsAreNoAccounts DEF UpsertIsFormed, PersonPhase, Phase, Content, Fold
<1> QED BY <1>4, <1>5 DEF Formed

LEMMA FlushFormed ==
    ASSUME PeopleTypes, NEW t \in Resolver, UpsertIsFormed(t), Flush(t)
    PROVE  Formed(t)
<1>1. up[t] \in Upsert /\ up[t].pc = "flush" BY DEF PeopleTypes, Flush, Doing
<1>2. \/ up[t].id \in Account /\ up[t].who \in Account
      \/ up[t].id \in Item /\ up[t].id \notin Account
  BY <1>1, ItemsAreNoAccounts DEF UpsertIsFormed
<1>3. PICK pc \in {"index", "idle"} :
          GoTo(t, pc) /\ (pc = "index" <=> up[t].id \in Account)
  BY DEF Flush
<1>4. /\ up' \in [Resolver -> Upsert] /\ up'[t].pc = pc /\ up'[t].id = up[t].id
      /\ up'[t].who = up[t].who
  BY <1>3, GoToMoves DEF KeepsAll, Phase
<1>5. PICK people \in SUBSET Account : people = {m[2] : m \in pending[t]}
  <2>1. pending[t] \subseteq Account \X Account BY DEF PeopleTypes
  <2>2. {m[2] : m \in pending[t]} \subseteq Account BY <2>1
  <2> QED BY <2>2
<1>6. /\ maps' = maps \cup pending[t] /\ Ensure(people) /\ Touches(t, people)
      /\ flushed' = [flushed EXCEPT ![t] = @ \cup people]
      /\ mapped' = mapped \cup {m[1] : m \in pending[t]}
  BY <1>5 DEF Flush, WriteMappings
<1>7. live' \subseteq Account /\ folder' \in [Account -> Resolver \cup {NoOne}]
      /\ raced' \in BOOLEAN
  BY <1>6, EnsureIsTyped, TouchesIsTyped
<1>8. maps' \subseteq Account \X Account /\ mapped' \subseteq Account
  BY <1>6 DEF PeopleTypes
<1>9. /\ flushed' \in [Resolver -> SUBSET Account]
      /\ pending' \in [Resolver -> SUBSET (Account \X Account)]
  BY <1>6 DEF PeopleTypes, Flush
<1>10. said' \in [Item -> SUBSET Account]
  BY <1>1 DEF PeopleTypes, Flush, Upsert
<1>11. UNCHANGED <<email, acts, byAccount, byEmail>> BY DEF Flush
<1>12. PeopleTypes' BY <1>4, <1>7, <1>8, <1>9, <1>10, <1>11 DEF PeopleTypes
<1>13. UpsertIsFormed(t)'
  BY <1>2, <1>3, <1>4, ItemsAreNoAccounts DEF UpsertIsFormed, PersonPhase, Phase, Content, Fold
<1> QED BY <1>12, <1>13 DEF Formed

(* The upsert is over: indexed, or rejected.                               *)
LEMMA EndFormed ==
    ASSUME PeopleTypes, NEW t \in Resolver, IndexPerson(t) \/ Rejects(t) \/ EmailTaken(t)
    PROVE  Formed(t)
<1>1. up' = [up EXCEPT ![t] = Resting] /\ UNCHANGED <<graphVars, cacheVars, histVars>>
  BY DEF IndexPerson, Rejects, EmailTaken
<1>2. up' \in [Resolver -> Upsert] /\ up'[t].pc = "idle" /\ up'[t].id = NoOne BY <1>1, RestMoves
<1>3. PeopleTypes' BY <1>1, <1>2 DEF PeopleTypes, graphVars, cacheVars, histVars
<1>4. UpsertIsFormed(t)' BY <1>2, NoOneIsNobody DEF UpsertIsFormed, PersonPhase, Content, Fold
<1> QED BY <1>3, <1>4 DEF Formed

LEMMA TakeContentFormed ==
    ASSUME PeopleTypes, NEW t \in Resolver, NEW i \in Item, NEW names \in SUBSET Namable[i],
           TakeContent(t, i, names)
    PROVE  Formed(t)
<1>1. /\ up' \in [Resolver -> Upsert]
      /\ up'[t].pc = (IF names = {} THEN "flush" ELSE "resolve")
      /\ up'[t].id = i /\ up'[t].names = names /\ ItemQueue[i] = t
  BY TakeContentMoves
<1>2. said' = [said EXCEPT ![i] = {}] BY DEF TakeContent
<1>3. said' \in [Item -> SUBSET Account] /\ said'[i] = {} BY <1>2 DEF PeopleTypes
<1>4. PeopleTypes' BY <1>1, <1>3 DEF TakeContent, PeopleTypes, graphVars, cacheVars
<1>5. UpsertIsFormed(t)'
  <2>1. i \notin Account BY ItemsAreNoAccounts
  <2> QED BY <1>1, <1>3, <2>1 DEF UpsertIsFormed, PersonPhase, Phase, Content, Fold
<1> QED BY <1>4, <1>5 DEF Formed

LEMMA ContentKnows ==
    ASSUME NEW t \in Resolver, UpsertIsFormed(t), up[t].pc \in Content
    PROVE  /\ up[t].id \in Item /\ up[t].names # {} /\ ItemQueue[up[t].id] = t
           /\ said[up[t].id] = {}
BY DEF UpsertIsFormed, Content

LEMMA ContentFormed ==
    ASSUME PeopleTypes, NEW t \in Resolver, UpsertIsFormed(t),
           Resolve(t) \/ Clear(t) \/ WriteActs(t)
    PROVE  Formed(t)
<1>1. /\ up[t].id \in Item /\ up[t].names # {} /\ ItemQueue[up[t].id] = t
      /\ said[up[t].id] = {}
  BY ContentKnows DEF Resolve, Clear, WriteActs, Doing, Content
<1>2. up[t].id \notin Account BY <1>1, ItemsAreNoAccounts
<1>3. said' = said BY DEF Resolve, Clear, WriteActs, histVars
<1>4. CASE Resolve(t)
  <2>1. /\ up' \in [Resolver -> Upsert] /\ up'[t].pc = "clear" /\ up'[t].id = up[t].id
        /\ up'[t].names = up[t].names /\ up'[t].targets # {}
    BY <1>1, <1>4, ResolveMoves DEF KeepsAll
  <2>2. PeopleTypes' BY <1>4, <2>1 DEF Resolve, PeopleTypes, graphVars, cacheVars, histVars
  <2>3. UpsertIsFormed(t)'
    BY <1>1, <1>2, <1>3, <2>1 DEF UpsertIsFormed, PersonPhase, Phase, Content, Fold
  <2> QED BY <2>2, <2>3 DEF Formed
<1>5. CASE Clear(t)
  <2>1. /\ up' \in [Resolver -> Upsert] /\ up'[t].pc = "write" /\ up'[t].id = up[t].id
        /\ up'[t].names = up[t].names /\ up'[t].targets = up[t].targets
    BY <1>5, GoToMoves DEF KeepsAll, Phase, Clear
  <2>2. PeopleTypes' BY <1>5, <2>1 DEF Clear, PeopleTypes, cacheVars, histVars
  <2>3. up[t].targets # {} BY <1>5 DEF Clear, Doing, UpsertIsFormed
  <2>4. UpsertIsFormed(t)'
    BY <1>1, <1>2, <1>3, <2>1, <2>3 DEF UpsertIsFormed, PersonPhase, Phase, Content, Fold
  <2> QED BY <2>2, <2>4 DEF Formed
<1>6. CASE WriteActs(t)
  <2>1. /\ up' \in [Resolver -> Upsert] /\ up'[t].pc = "flush" /\ up'[t].id = up[t].id
    BY <1>6, GoToMoves DEF KeepsAll, Phase, WriteActs
  <2>2. up[t].targets \in SUBSET Account BY DEF PeopleTypes, Upsert
  <2>3. live' \subseteq Account /\ folder' \in [Account -> Resolver \cup {NoOne}]
        /\ raced' \in BOOLEAN
    BY <1>6, <2>2, EnsureIsTyped, TouchesIsTyped DEF WriteActs
  <2>4. acts' \subseteq Item \X Account BY <1>1, <1>6, <2>2 DEF WriteActs, PeopleTypes
  <2>5. PeopleTypes' BY <1>6, <2>1, <2>3, <2>4 DEF WriteActs, PeopleTypes, cacheVars
  <2>6. UpsertIsFormed(t)'
    BY <1>1, <1>2, <1>3, <2>1 DEF UpsertIsFormed, PersonPhase, Phase, Content, Fold
  <2> QED BY <2>5, <2>6 DEF Formed
<1> QED BY <1>4, <1>5, <1>6

LEMMA RerouteFailsFormed ==
    ASSUME PeopleTypes, NEW t \in Resolver, UpsertIsFormed(t), RerouteFails(t)
    PROVE  Formed(t)
<1>1. up[t].id \in Account /\ up[t].stale \in Account
  BY FoldKnows DEF RerouteFails, Rerouting, Fold
<1>2. /\ up' \in [Resolver -> Upsert] /\ up'[t].pc = "upgrade" /\ up'[t].id = up[t].id
      /\ up'[t].who = up[t].stale
  BY <1>1, SettleMoves DEF KeepsAll, Phase, Person, RerouteFails
<1>3. byEmail' \in [Resolver -> [Email -> Person]]
  BY <1>1 DEF RerouteFails, PeopleTypes, Person
<1>4. PeopleTypes' BY <1>2, <1>3 DEF RerouteFails, PeopleTypes, graphVars, histVars
<1>5. UpsertIsFormed(t)'
  BY <1>1, <1>2, ItemsAreNoAccounts DEF UpsertIsFormed, PersonPhase, Phase, Content, Fold
<1> QED BY <1>4, <1>5 DEF Formed

LEMMA RestartFormed ==
    ASSUME PeopleTypes, RestartTask
    PROVE  PeopleTypes' /\ \A t \in Resolver : UpsertIsFormed(t)' /\ up'[t].pc = "idle"
<1>1. Resting \in Upsert /\ Resting.pc = "idle" /\ Resting.id = NoOne
  BY DEF Resting, Upsert, Person, Phase, Edges
<1>2. up' \in [Resolver -> Upsert] /\ \A t \in Resolver : up'[t].pc = "idle" /\ up'[t].id = NoOne
  BY <1>1 DEF RestartTask
<1>3. PeopleTypes' BY <1>2 DEF RestartTask, PeopleTypes, Person, graphVars, histVars
<1>4. \A t \in Resolver : UpsertIsFormed(t)'
  BY <1>2, NoOneIsNobody DEF UpsertIsFormed, PersonPhase, Content, Fold
<1> QED BY <1>2, <1>3, <1>4

-----------------------------------------------------------------------------
(* What a step of t leaves alone: the upserts and caches of the others.    *)
LEMMA StepsAreOwn ==
    ASSUME PeopleTypes, NEW t \in Resolver, UpsertIsFormed(t), PersonStep(t) \/ ContentStep(t)
    PROVE  OthersStay(t)
<1>1. CASE \E a \in Account, e \in Email \cup {NoOne} : TakePerson(t, a, e)
  BY <1>1, TakePersonMoves
<1>2. CASE FindOwner(t)
  <2>1. ASSUME NEW o \in Account, StartFold(t, up[t].who, o, "reroute") PROVE OthersStay(t)
    BY <2>1, <1>2, OwnersAreOthers, StartFoldMoves DEF Person
  <2>2. GoTo(t, "upgrade") => OthersStay(t) BY GoToMoves DEF Phase
  <2> QED BY <1>2, <2>1, <2>2, OwnersAreOthers
<1>3. CASE Upgrade(t) \/ Greet(t) \/ UpgradeFails(t)
  BY <1>3, GoToMoves DEF Upgrade, Greet, UpgradeFails, Phase
<1>4. CASE FindByEmail(t) \/ FindByTwin(t) BY <1>4, FoundMoves
<1>5. CASE MergeFound(t) BY <1>5, GoToMoves DEF MergeFound, Phase
<1>6. CASE ReadEdges(t) BY <1>6, ReadMoves
<1>7. CASE CopyEdges(t) BY <1>7, GoToMoves DEF CopyEdges, Phase
<1>8. CASE DeleteStub(t)
  <2>1. GoTo(t, "greet") \/ GoTo(t, "map") BY <1>8 DEF DeleteStub
  <2> QED BY <2>1, GoToMoves DEF Phase
<1>9. CASE Dedup(t)
  <2>1. up[t].id \in Account /\ up[t].who \in Account
    BY <1>9 DEF Dedup, Doing, UpsertIsFormed, PersonPhase, Phase, Content
  <2>2. GoTo(t, "map") \/ StartFold(t, up[t].id, up[t].who, "dedup") BY <1>9 DEF Dedup
  <2> QED BY <2>1, <2>2, GoToMoves, StartFoldMoves DEF Phase, Person
<1>10. CASE QueueMapping(t) BY <1>10, GoToMoves DEF QueueMapping, Phase
<1>11. CASE Flush(t)
  <2>1. GoTo(t, "index") \/ GoTo(t, "idle") BY <1>11 DEF Flush
  <2> QED BY <2>1, GoToMoves DEF Phase
<1>12. CASE IndexPerson(t) \/ Rejects(t) \/ EmailTaken(t)
  BY <1>12, RestMoves DEF IndexPerson, Rejects, EmailTaken
<1>13. CASE RerouteFails(t)
  <2>1. up[t].stale \in Account BY <1>13, FoldKnows DEF RerouteFails, Rerouting, Fold
  <2> QED BY <1>13, <2>1, SettleMoves DEF RerouteFails, Phase, Person
<1>14. CASE \E i \in Item : \E names \in SUBSET Namable[i] : TakeContent(t, i, names)
  BY <1>14, TakeContentMoves
<1>15. CASE Resolve(t)
  <2>1. up[t].names # {} BY <1>15, ContentKnows DEF Resolve, Doing, Content
  <2> QED BY <1>15, <2>1, ResolveMoves
<1>16. CASE Clear(t) \/ WriteActs(t) BY <1>16, GoToMoves DEF Clear, WriteActs, Phase
<1> QED BY <1>1, <1>2, <1>3, <1>4, <1>5, <1>6, <1>7, <1>8, <1>9, <1>10, <1>11, <1>12, <1>13,
        <1>14, <1>15, <1>16 DEF PersonStep, ContentStep

(* What items are said to be named by changes at their own task only.      *)
LEMMA SaidIsOwn ==
    ASSUME PeopleTypes, NEW t \in Resolver, UpsertIsFormed(t), PersonStep(t) \/ ContentStep(t),
           NEW i \in Item, ItemQueue[i] # t
    PROVE  said'[i] = said[i]
<1>1. CASE Flush(t)
  <2>1. up[t].pc = "flush" BY <1>1 DEF Flush, Doing
  <2>2. up[t].id # i
    BY <2>1, ItemsAreNoAccounts DEF UpsertIsFormed
  <2> QED BY <1>1, <2>2 DEF Flush, PeopleTypes
<1>2. CASE \E j \in Item : \E names \in SUBSET Namable[j] : TakeContent(t, j, names)
  <2>1. PICK j \in Item : ItemQueue[j] = t /\ said' = [said EXCEPT ![j] = {}]
    BY <1>2 DEF TakeContent
  <2> QED BY <2>1 DEF PeopleTypes
<1>3. CASE ~ Flush(t) /\ ~ \E j \in Item : \E names \in SUBSET Namable[j] : TakeContent(t, j, names)
  <2>1. said' = said
    BY <1>3 DEF PersonStep, ContentStep, TakePerson, FindOwner, Upgrade, FindByEmail, FindByTwin,
       MergeFound, MergePerson, ReadEdges, CopyEdges, DeleteStub, Greet, Dedup, QueueMapping,
       IndexPerson, Rejects, EmailTaken, RerouteFails, UpgradeFails, Resolve, Clear, WriteActs,
       histVars
  <2> QED BY <2>1
<1> QED BY <1>1, <1>2, <1>3

LEMMA FormedStep ==
    ASSUME PeopleTypes, \A t \in Resolver : UpsertIsFormed(t), [PeopleNext]_peopleVars
    PROVE  PeopleTypes' /\ \A t \in Resolver : UpsertIsFormed(t)'
<1>1. CASE RestartTask BY <1>1, RestartFormed
<1>2. ASSUME NEW t \in Resolver, PersonStep(t) \/ ContentStep(t)
      PROVE  PeopleTypes' /\ \A u \in Resolver : UpsertIsFormed(u)'
  <2>1. Formed(t)
    BY <1>2, TakeFormed, FindOwnerFormed, UpgradeFormed, FoundFormed, MergeFoundFormed, ReadFormed,
       CopyFormed, DeleteFormed, DedupFormed, QueueFormed, FlushFormed, EndFormed,
       TakeContentFormed, ContentFormed, RerouteFailsFormed
       DEF PersonStep, ContentStep
  <2>2. ASSUME NEW u \in Resolver \ {t} PROVE UpsertIsFormed(u)'
    <3>1. up'[u] = up[u] BY <1>2, StepsAreOwn DEF OthersStay
    <3>2. UpsertIsFormed(u) OBVIOUS
    <3>3. \A i \in Item : ItemQueue[i] = u => said'[i] = said[i] BY <1>2, SaidIsOwn
    <3> QED BY <3>1, <3>2, <3>3 DEF UpsertIsFormed
  <2> QED BY <2>1, <2>2 DEF Formed
<1>3. CASE UNCHANGED peopleVars
  <2>1. UNCHANGED <<live, email, acts, maps, byAccount, byEmail, pending, flushed, up,
                    said, mapped, folder, raced>>
    BY <1>3 DEF peopleVars, graphVars, cacheVars, histVars
  <2> QED BY <2>1 DEF PeopleTypes, UpsertIsFormed
<1> QED BY <1>1, <1>2, <1>3 DEF PeopleNext

-----------------------------------------------------------------------------
(* Edges lead to Persons that are there.                                   *)
LEMMA WholeStep ==
    ASSUME PeopleTypes, \A t \in Resolver : UpsertIsFormed(t), GraphIsWhole, [PeopleNext]_peopleVars
    PROVE  GraphIsWhole'
<1>1. CASE UNCHANGED <<live, acts, maps, folder>> BY <1>1 DEF GraphIsWhole
<1>2. ASSUME NEW p \in Account, NEW e \in Email \cup {NoOne}, MergePerson(p, e)
      PROVE  GraphIsWhole'
  BY <1>2, MergeIsTyped DEF GraphIsWhole, PeopleTypes
<1>3. ASSUME NEW t \in Resolver, Upgrade(t) \/ Greet(t) \/ MergeFound(t)
      PROVE  GraphIsWhole'
  <2>1. up[t].pc \in {"upgrade", "greet", "merge"} BY <1>3 DEF Upgrade, Greet, MergeFound, Doing
  <2>2. up[t].who \in Account /\ up[t].mail \in Email \cup {NoOne}
    BY <2>1 DEF UpsertIsFormed, PersonPhase, Phase, Content, PeopleTypes, Upsert
  <2> QED BY <1>1, <1>2, <1>3, <2>2 DEF Upgrade, Greet, MergeFound, graphVars, histVars
<1>4. ASSUME NEW t \in Resolver, CopyEdges(t)
      PROVE  GraphIsWhole'
  <2>1. /\ up[t].who \in Account /\ up[t].rels.acts \subseteq Item
        /\ up[t].rels.maps \subseteq Account
    BY <1>4, FoldKnows DEF CopyEdges, Doing, Fold
  <2>2. PICK people \in SUBSET Account :
            /\ people = IF up[t].rels.acts # {} \/ up[t].rels.maps # {} THEN {up[t].who} ELSE {}
            /\ Ensure(people)
    BY <1>4, <2>1 DEF CopyEdges
  <2>3. /\ live' = live \cup people
        /\ \A q \in Account : folder'[q] = IF q \in people THEN NoOne ELSE folder[q]
    BY <2>2, EnsureIsTyped
  <2>4. /\ acts' = acts \cup (up[t].rels.acts \X {up[t].who})
        /\ maps' = maps \cup (up[t].rels.maps \X {up[t].who})
    BY <1>4 DEF CopyEdges
  <2>5. \A x \in acts' : x[2] \in live'
    <3>1. \A x \in up[t].rels.acts \X {up[t].who} : x[2] \in live' BY <2>2, <2>3
    <3> QED BY <2>3, <2>4, <3>1 DEF GraphIsWhole
  <2>6. \A x \in maps' : x[2] \in live'
    <3>1. \A x \in up[t].rels.maps \X {up[t].who} : x[2] \in live' BY <2>2, <2>3
    <3> QED BY <2>3, <2>4, <3>1 DEF GraphIsWhole
  <2> QED BY <2>3, <2>5, <2>6 DEF GraphIsWhole, PeopleTypes
<1>5. ASSUME NEW t \in Resolver, DeleteStub(t)
      PROVE  GraphIsWhole'
  <2>1. up[t].stale \in Account BY <1>5, FoldKnows DEF DeleteStub, Doing, Fold
  <2>2. /\ live' = live \ {up[t].stale} /\ acts' = {x \in acts : x[2] # up[t].stale}
        /\ maps' = {x \in maps : x[2] # up[t].stale}
    BY <1>5 DEF DeleteStub
  <2>3. folder' = [folder EXCEPT ![up[t].stale] = t] \/ folder' = folder
    BY <1>5 DEF DeleteStub
  <2> QED BY <2>1, <2>2, <2>3 DEF GraphIsWhole, PeopleTypes
<1>6. ASSUME NEW t \in Resolver, Flush(t)
      PROVE  GraphIsWhole'
  <2>1. pending[t] \subseteq Account \X Account BY DEF PeopleTypes
  <2>2. PICK people \in SUBSET Account : people = {m[2] : m \in pending[t]}
    <3>1. {m[2] : m \in pending[t]} \subseteq Account BY <2>1
    <3> QED BY <3>1
  <2>3. Ensure(people) /\ maps' = maps \cup pending[t] /\ acts' = acts
    BY <1>6, <2>2 DEF Flush, WriteMappings
  <2>4. /\ live' = live \cup people
        /\ \A q \in Account : folder'[q] = IF q \in people THEN NoOne ELSE folder[q]
    BY <2>3, EnsureIsTyped
  <2> QED BY <2>1, <2>2, <2>3, <2>4 DEF GraphIsWhole, PeopleTypes
<1>7. ASSUME NEW t \in Resolver, WriteActs(t)
      PROVE  GraphIsWhole'
  <2>1. up[t].targets \in SUBSET Account BY DEF PeopleTypes, Upsert
  <2>2. /\ live' = live \cup up[t].targets
        /\ \A q \in Account : folder'[q] = IF q \in up[t].targets THEN NoOne ELSE folder[q]
    BY <1>7, <2>1, EnsureIsTyped DEF WriteActs
  <2>3. acts' = acts \cup ({up[t].id} \X up[t].targets) /\ maps' = maps BY <1>7 DEF WriteActs
  <2> QED BY <2>1, <2>2, <2>3 DEF GraphIsWhole, PeopleTypes
<1>8. ASSUME NEW t \in Resolver, Clear(t)
      PROVE  GraphIsWhole'
  BY <1>8 DEF Clear, GraphIsWhole, histVars
<1>9. ASSUME NEW t \in Resolver,
             \/ \E a \in Account, e \in Email \cup {NoOne} : TakePerson(t, a, e)
             \/ FindOwner(t) \/ FindByEmail(t) \/ FindByTwin(t) \/ ReadEdges(t) \/ Dedup(t)
             \/ QueueMapping(t) \/ IndexPerson(t) \/ Rejects(t) \/ EmailTaken(t)
             \/ RerouteFails(t) \/ UpgradeFails(t) \/ Resolve(t)
             \/ \E i \in Item : \E names \in SUBSET Namable[i] : TakeContent(t, i, names)
      PROVE  UNCHANGED <<live, acts, maps, folder>>
  BY <1>9 DEF TakePerson, FindOwner, FindByEmail, FindByTwin, ReadEdges, Dedup, QueueMapping,
     IndexPerson, Rejects, EmailTaken, RerouteFails, UpgradeFails, Resolve, TakeContent,
     graphVars, histVars
<1>10. CASE RestartTask \/ UNCHANGED peopleVars
  BY <1>1, <1>10 DEF RestartTask, peopleVars, graphVars, histVars
<1> QED BY <1>1, <1>3, <1>4, <1>5, <1>6, <1>7, <1>8, <1>9, <1>10
        DEF PeopleNext, PersonStep, ContentStep

-----------------------------------------------------------------------------
(* A task writes its own caches only.                                      *)
CachesStay(t) ==
    /\ \A a \in Account : ResolverOf[a] # t => byAccount'[a] = byAccount[a]
    /\ \A u \in Resolver \ {t} :
          byEmail'[u] = byEmail[u] /\ pending'[u] = pending[u] /\ flushed'[u] = flushed[u]

LEMMA CachesAreOwn ==
    ASSUME PeopleTypes, NEW t \in Resolver, UpsertIsFormed(t), PersonStep(t) \/ ContentStep(t)
    PROVE  CachesStay(t)
<1>1. CASE \E a \in Account, e \in Email \cup {NoOne} : TakePerson(t, a, e)
  <2>1. PICK a \in Account, e \in Email \cup {NoOne} : TakePerson(t, a, e) BY <1>1
  <2>2. PICK pc \in {"owner", "upgrade", "email", "twin", "merge"}, p \in Account :
            /\ ResolverOf[a] = t
            /\ byAccount' = byAccount \/ byAccount' = [byAccount EXCEPT ![a] = p]
    BY <2>1, TakePersonMoves
  <2>3. UNCHANGED <<byEmail, pending, flushed>> BY <2>1 DEF TakePerson
  <2> QED BY <2>2, <2>3 DEF CachesStay, PeopleTypes
<1>2. CASE FindOwner(t) BY <1>2 DEF FindOwner, CachesStay, PeopleTypes
<1>3. CASE MergeFound(t)
  <2>1. up[t].id \in Account /\ ResolverOf[up[t].id] = t
    BY <1>3 DEF MergeFound, Doing, UpsertIsFormed, PersonPhase, Phase, Content
  <2> QED BY <1>3, <2>1 DEF MergeFound, CachesStay, PeopleTypes
<1>4. CASE DeleteStub(t)
  <2>1. Repoint(t, up[t].stale, up[t].who, up[t].mail) \/ UNCHANGED cacheVars
    BY <1>4 DEF DeleteStub
  <2> QED BY <2>1 DEF Repoint, cacheVars, CachesStay, PeopleTypes
<1>5. CASE QueueMapping(t) BY <1>5 DEF QueueMapping, CachesStay, PeopleTypes
<1>6. CASE Flush(t) BY <1>6 DEF Flush, WriteMappings, CachesStay, PeopleTypes
<1>7. CASE RerouteFails(t) BY <1>7 DEF RerouteFails, CachesStay, PeopleTypes
<1>8. CASE UNCHANGED cacheVars BY <1>8 DEF cacheVars, CachesStay
<1> QED
  BY <1>1, <1>2, <1>3, <1>4, <1>5, <1>6, <1>7, <1>8
     DEF PersonStep, ContentStep, Upgrade, FindByEmail, FindByTwin, ReadEdges, CopyEdges, Greet,
     Dedup, IndexPerson, Rejects, EmailTaken, UpgradeFails, TakeContent, Resolve, Clear, WriteActs

(* One fact per action: what t has folded it does not remember.            *)
Forgets(t) == \A p \in Account : folder'[p] = t => RemembersNone(t, p)'

LEMMA TakeForgets ==
    ASSUME PeopleTypes, NEW t \in Resolver, FoldsAreForgotten,
           NEW a \in Account, NEW e \in Email \cup {NoOne}, TakePerson(t, a, e)
    PROVE  Forgets(t)
<1>1. UNCHANGED <<byEmail, pending, flushed, folder>> BY DEF TakePerson, histVars
<1>2. PICK pc \in {"owner", "upgrade", "email", "twin", "merge"}, who \in Account :
              /\ up'[t].pc = pc /\ up'[t].who = who /\ up'[t].why = "none" /\ ResolverOf[a] = t
              /\ \/ pc \notin {"owner", "upgrade"} /\ byAccount' = byAccount
                 \/ who = byAccount[a] /\ byAccount' = byAccount
                 \/ /\ e \in Email /\ who = byEmail[t][e] /\ pc = "upgrade"
                    /\ byAccount' = [byAccount EXCEPT ![a] = who]
  BY TakePersonMoves
<1>3. ASSUME NEW p \in Account, folder'[p] = t
      PROVE  RemembersNone(t, p)'
  <2>1. RemembersNone(t, p) BY <1>1, <1>3 DEF FoldsAreForgotten
  <2>2. pc \in Held => who # p
    BY <1>2, <2>1 DEF RemembersNone, Held
  <2>3. \A b \in Account : ResolverOf[b] = t => byAccount'[b] # p
    <3>1. byAccount \in [Account -> Person] BY DEF PeopleTypes
    <3> QED BY <1>2, <2>1, <3>1 DEF RemembersNone
  <2> QED BY <1>1, <1>2, <2>1, <2>2, <2>3 DEF RemembersNone, Rerouting
<1> QED BY <1>3 DEF Forgets

LEMMA FindOwnerForgets ==
    ASSUME PeopleTypes, NEW t \in Resolver, UpsertIsFormed(t), GraphIsWhole, FoldsAreForgotten,
           FindOwner(t)
    PROVE  Forgets(t)
<1>1. up[t].mail \in Email /\ up[t].who \in Account BY OwnersAreOthers
<1>2. UNCHANGED <<byAccount, pending, flushed, folder>> BY DEF FindOwner, histVars
<1>3. up[t].pc = "owner" /\ up[t].pc \in Held
  BY DEF FindOwner, Doing, Held, PersonPhase, Phase, Content
<1>4. byEmail \in [Resolver -> [Email -> Person]] BY DEF PeopleTypes
<1>5. ASSUME NEW p \in Account, folder'[p] = t
      PROVE  RemembersNone(t, p)'
  <2>1. RemembersNone(t, p) /\ folder[p] = t BY <1>2, <1>5 DEF FoldsAreForgotten
  <2>2. up[t].who # p BY <1>3, <2>1 DEF RemembersNone
  <2>3. CASE byEmail' = [byEmail EXCEPT ![t][up[t].mail] = up[t].who] /\ GoTo(t, "upgrade")
    <3>1. up'[t].pc = "upgrade" /\ up'[t].who = up[t].who BY <2>3, GoToMoves DEF Phase
    <3>2. \A e \in Email : byEmail'[t][e] # p BY <1>4, <2>1, <2>2, <2>3 DEF RemembersNone
    <3> QED BY <1>2, <2>1, <2>2, <3>1, <3>2 DEF RemembersNone, Rerouting
  <2>4. ASSUME NEW o \in Account \ {up[t].who}, byEmail' = byEmail,
               StartFold(t, up[t].who, o, "reroute"),
               o = byEmail[t][up[t].mail] \/ o \in live
        PROVE  RemembersNone(t, p)'
    <3>1. /\ up'[t].pc = "fold" /\ up'[t].who = o /\ up'[t].stale = up[t].who
      BY <1>1, <2>4, StartFoldMoves DEF Person
    <3>2. o # p
      <4>1. t # NoOne BY NoOneIsNobody
      <4> QED BY <1>1, <2>1, <2>4, <4>1 DEF RemembersNone, GraphIsWhole
    <3> QED BY <1>2, <2>1, <2>2, <2>4, <3>1, <3>2 DEF RemembersNone, Rerouting
  <2> QED BY <2>3, <2>4, OwnersAreOthers
<1> QED BY <1>5 DEF Forgets

(* A merged Person is there, whoever folded it before.                     *)
LEMMA UpgradeForgets ==
    ASSUME PeopleTypes, NEW t \in Resolver, UpsertIsFormed(t), FoldsAreForgotten,
           Upgrade(t) \/ Greet(t) \/ UpgradeFails(t)
    PROVE  Forgets(t)
<1>1. up[t].pc \in {"upgrade", "greet"} /\ GoTo(t, "dedup") /\ UNCHANGED cacheVars
  BY DEF Upgrade, Greet, UpgradeFails, Doing
<1>2. up[t].who \in Account BY <1>1 DEF UpsertIsFormed, PersonPhase, Phase, Content
<1>3. up'[t].pc = "dedup" /\ up'[t].who = up[t].who BY <1>1, GoToMoves DEF Phase
<1>4. up[t].mail \in Email \cup {NoOne} BY DEF PeopleTypes, Upsert
<1>5. \/ MergePerson(up[t].who, up[t].mail) \/ MergePerson(up[t].who, NoOne)
      \/ UNCHANGED folder
  BY DEF Upgrade, Greet, UpgradeFails, histVars
<1>6. ASSUME NEW p \in Account, folder'[p] = t
      PROVE  RemembersNone(t, p)'
  <2>1. folder[p] = t BY <1>2, <1>4, <1>5, <1>6, MergeIsTyped, NoOneIsNobody
  <2>2. RemembersNone(t, p) BY <2>1 DEF FoldsAreForgotten
  <2>3. up[t].pc \in Held BY <1>1 DEF Held, PersonPhase, Phase, Content
  <2> QED BY <1>1, <1>3, <2>2, <2>3 DEF RemembersNone, Rerouting, cacheVars
<1> QED BY <1>6 DEF Forgets

LEMMA MergeFoundForgets ==
    ASSUME PeopleTypes, NEW t \in Resolver, UpsertIsFormed(t), FoldsAreForgotten, MergeFound(t)
    PROVE  Forgets(t)
<1>1. up[t].id \in Account /\ up[t].who \in Account
  BY DEF MergeFound, Doing, UpsertIsFormed, PersonPhase, Phase, Content
<1>2. up[t].mail \in Email \cup {NoOne} BY DEF PeopleTypes, Upsert
<1>3. up'[t].pc = "dedup" /\ up'[t].who = up[t].who BY GoToMoves DEF MergeFound, Phase
<1>4. \A q \in Account : folder'[q] = IF q = up[t].who THEN NoOne ELSE folder[q]
  BY <1>1, <1>2, MergeIsTyped DEF MergeFound
<1>5. byAccount \in [Account -> Person] /\ byEmail \in [Resolver -> [Email -> Person]]
  BY DEF PeopleTypes
<1>6. ASSUME NEW p \in Account, folder'[p] = t
      PROVE  RemembersNone(t, p)'
  <2>1. folder[p] = t /\ p # up[t].who BY <1>4, <1>6, NoOneIsNobody
  <2>2. RemembersNone(t, p) BY <2>1 DEF FoldsAreForgotten
  <2>3. \A a \in Account : ResolverOf[a] = t => byAccount'[a] # p
    BY <1>5, <2>1, <2>2 DEF MergeFound, RemembersNone
  <2>4. \A e \in Email : byEmail'[t][e] # p
    BY <1>5, <2>1, <2>2 DEF MergeFound, RemembersNone
  <2>5. pending' = pending /\ flushed' = flushed BY DEF MergeFound
  <2> QED BY <1>3, <2>1, <2>2, <2>3, <2>4, <2>5 DEF RemembersNone, Rerouting
<1> QED BY <1>6 DEF Forgets

LEMMA FoldForgets ==
    ASSUME PeopleTypes, NEW t \in Resolver, UpsertIsFormed(t), FoldsAreForgotten,
           ReadEdges(t) \/ CopyEdges(t)
    PROVE  Forgets(t)
<1>1. /\ up[t].pc \in Fold /\ up'[t].pc \in Fold /\ up'[t].who = up[t].who
      /\ up'[t].stale = up[t].stale /\ up'[t].why = up[t].why /\ UNCHANGED cacheVars
  <2>1. CASE ReadEdges(t) BY <2>1, ReadMoves DEF ReadEdges, Doing, Fold
  <2>2. CASE CopyEdges(t) BY <2>2, GoToMoves DEF CopyEdges, Doing, Fold, Phase
  <2> QED BY <2>1, <2>2
<1>2. \A q \in Account : folder'[q] = folder[q] \/ folder'[q] = NoOne
  <2>1. CASE ReadEdges(t) BY <2>1 DEF ReadEdges, histVars
  <2>2. CASE CopyEdges(t)
    <3>1. PICK people \in SUBSET Account : Ensure(people) BY <2>2, CopyDoes
    <3> QED BY <3>1, EnsureIsTyped
  <2> QED BY <2>1, <2>2
<1>3. ASSUME NEW p \in Account, folder'[p] = t
      PROVE  RemembersNone(t, p)'
  <2>1. RemembersNone(t, p) BY <1>2, <1>3, NoOneIsNobody DEF FoldsAreForgotten
  <2>2. up[t].pc \in Held /\ (Rerouting(t)' => Rerouting(t))
    BY <1>1 DEF Held, PersonPhase, Phase, Content, Fold, Rerouting
  <2> QED BY <1>1, <2>1, <2>2 DEF RemembersNone, cacheVars, Fold
<1> QED BY <1>3 DEF Forgets

LEMMA DeleteForgets ==
    ASSUME PeopleTypes, NEW t \in Resolver, UpsertIsFormed(t), FoldsAreForgotten, DeleteStub(t)
    PROVE  Forgets(t)
<1>1. /\ up[t].who \in Account /\ up[t].stale \in Account /\ up[t].stale # up[t].who
      /\ up[t].pc \in Held
  BY FoldKnows DEF DeleteStub, Doing, Fold, Held, PersonPhase, Phase, Content
<1>2. CASE up[t].why = "reroute"
  <2>1. /\ Repoint(t, up[t].stale, up[t].who, up[t].mail) /\ GoTo(t, "greet")
        /\ folder' = [folder EXCEPT ![up[t].stale] = t]
    BY <1>2 DEF DeleteStub
  <2>2. up'[t].pc = "greet" /\ up'[t].who = up[t].who BY <2>1, GoToMoves DEF Phase
  <2>3. ASSUME NEW p \in Account, folder'[p] = t
        PROVE  RemembersNone(t, p)'
    <3>1. p = up[t].stale \/ RemembersNone(t, p)
      BY <2>1, <2>3 DEF FoldsAreForgotten, PeopleTypes
    <3>2. p # up[t].who BY <1>1, <3>1 DEF RemembersNone
    <3>3. \A a \in Account : ResolverOf[a] = t => byAccount'[a] # p
      BY <2>1, <3>1, <3>2 DEF Repoint, RemembersNone, PeopleTypes
    <3>4. \A e \in Email : byEmail'[t][e] # p
      BY <2>1, <3>1, <3>2 DEF Repoint, RemembersNone, PeopleTypes
    <3>5. p \notin flushed'[t]
      BY <2>1, <3>1 DEF Repoint, RemembersNone, PeopleTypes
    <3>6. \A m \in pending'[t] : m[2] # p
      <4>1. pending'[t] = {<<m[1], IF m[2] = up[t].stale THEN up[t].who ELSE m[2]>> :
                              m \in pending[t]}
        BY <2>1 DEF Repoint, PeopleTypes
      <4>2. ASSUME NEW n \in pending'[t] PROVE n[2] # p
        <5>1. PICK m \in pending[t] :
                  n = <<m[1], IF m[2] = up[t].stale THEN up[t].who ELSE m[2]>>
          BY <4>1
        <5>2. m[2] = p => p = up[t].stale BY <3>1 DEF RemembersNone
        <5> QED BY <3>2, <5>1, <5>2
      <4> QED BY <4>2
    <3> QED BY <2>2, <3>2, <3>3, <3>4, <3>5, <3>6 DEF RemembersNone, Rerouting
  <2> QED BY <2>3 DEF Forgets
<1>3. CASE up[t].why # "reroute"
  <2>1. GoTo(t, "map") /\ UNCHANGED <<cacheVars, folder>> BY <1>3 DEF DeleteStub
  <2>2. up'[t].pc = "map" /\ up'[t].who = up[t].who BY <2>1, GoToMoves DEF Phase
  <2> QED BY <1>1, <2>1, <2>2 DEF FoldsAreForgotten, Forgets, RemembersNone, Rerouting, cacheVars
<1> QED BY <1>2, <1>3

LEMMA DedupForgets ==
    ASSUME PeopleTypes, NEW t \in Resolver, UpsertIsFormed(t), FoldsAreForgotten, Dedup(t)
    PROVE  Forgets(t)
<1>1. up[t].id \in Account /\ up[t].who \in Account /\ up[t].pc \in Held
  BY DEF Dedup, Doing, UpsertIsFormed, Held, PersonPhase, Phase, Content
<1>2. UNCHANGED <<cacheVars, folder>> BY DEF Dedup, histVars
<1>3. /\ up'[t].who = up[t].who /\ up'[t].pc \in {"map", "fold"}
      /\ up'[t].pc = "fold" => up'[t].why = "dedup"
  <2>1. CASE up[t].who = up[t].id BY <2>1, GoToMoves DEF Dedup, Phase
  <2>2. CASE up[t].who # up[t].id
    <3>1. StartFold(t, up[t].id, up[t].who, "dedup") BY <2>2 DEF Dedup
    <3> QED BY <1>1, <3>1, StartFoldMoves DEF Person
  <2> QED BY <2>1, <2>2
<1> QED BY <1>1, <1>2, <1>3 DEF FoldsAreForgotten, Forgets, RemembersNone, Rerouting, cacheVars

LEMMA QueueForgets ==
    ASSUME PeopleTypes, NEW t \in Resolver, UpsertIsFormed(t), FoldsAreForgotten, QueueMapping(t)
    PROVE  Forgets(t)
<1>1. up[t].who \in Account /\ up[t].pc \in Held
  BY DEF QueueMapping, Doing, UpsertIsFormed, Held, PersonPhase, Phase, Content
<1>2. up'[t].pc = "flush" /\ up'[t].who = up[t].who BY GoToMoves DEF QueueMapping, Phase
<1>3. UNCHANGED <<byAccount, byEmail, flushed, folder>> BY DEF QueueMapping, histVars
<1>4. pending'[t] \subseteq pending[t] \cup {<<up[t].id, up[t].who>>}
  BY DEF QueueMapping, PeopleTypes
<1>5. ASSUME NEW p \in Account, folder'[p] = t
      PROVE  RemembersNone(t, p)'
  <2>1. RemembersNone(t, p) BY <1>3, <1>5 DEF FoldsAreForgotten
  <2>2. up[t].who # p BY <1>1, <2>1 DEF RemembersNone
  <2>3. \A m \in pending'[t] : m[2] # p BY <1>4, <2>1, <2>2 DEF RemembersNone
  <2> QED BY <1>2, <1>3, <2>1, <2>2, <2>3 DEF RemembersNone, Rerouting
<1> QED BY <1>5 DEF Forgets

LEMMA FlushForgets ==
    ASSUME PeopleTypes, NEW t \in Resolver, UpsertIsFormed(t), FoldsAreForgotten, Flush(t)
    PROVE  Forgets(t)
<1>1. PICK people \in SUBSET Account : people = {m[2] : m \in pending[t]}
  <2>1. pending[t] \subseteq Account \X Account BY DEF PeopleTypes
  <2>2. {m[2] : m \in pending[t]} \subseteq Account BY <2>1
  <2> QED BY <2>2
<1>2. Ensure(people) /\ flushed' = [flushed EXCEPT ![t] = @ \cup people]
  BY <1>1 DEF Flush, WriteMappings
<1>3. \A q \in Account : folder'[q] = IF q \in people THEN NoOne ELSE folder[q]
  BY <1>2, EnsureIsTyped
<1>4. up'[t].who = up[t].who /\ up'[t].pc = IF up[t].id \in Account THEN "index" ELSE "idle"
  BY GoToMoves DEF Flush, Phase
<1>5. pending'[t] = {} /\ UNCHANGED <<byAccount, byEmail>> /\ up[t].pc = "flush"
  BY DEF Flush, Doing, PeopleTypes
<1>6. ASSUME NEW p \in Account, folder'[p] = t
      PROVE  RemembersNone(t, p)'
  <2>1. folder[p] = t /\ p \notin people BY <1>3, <1>6, NoOneIsNobody
  <2>2. RemembersNone(t, p) BY <2>1 DEF FoldsAreForgotten
  <2>3. p \notin flushed'[t] BY <1>2, <2>1, <2>2 DEF RemembersNone, PeopleTypes
  <2>4. up'[t].pc \in Held => up[t].id \in Account
    BY <1>4 DEF Held, PersonPhase, Phase, Content
  <2> QED BY <1>4, <1>5, <2>2, <2>3, <2>4 DEF RemembersNone, Rerouting
<1> QED BY <1>6 DEF Forgets

LEMMA RestForgets ==
    ASSUME PeopleTypes, NEW t \in Resolver, UpsertIsFormed(t), FoldsAreForgotten,
           \/ FindByEmail(t) \/ FindByTwin(t) \/ IndexPerson(t) \/ Rejects(t) \/ EmailTaken(t)
           \/ \E i \in Item : \E names \in SUBSET Namable[i] : TakeContent(t, i, names)
           \/ Resolve(t) \/ Clear(t) \/ WriteActs(t)
    PROVE  Forgets(t)
<1>1. UNCHANGED cacheVars
  BY DEF FindByEmail, FindByTwin, IndexPerson, Rejects, EmailTaken, TakeContent, Resolve, Clear,
     WriteActs
<1>2. \A q \in Account : folder'[q] = folder[q] \/ folder'[q] = NoOne
  <2>1. CASE WriteActs(t)
    <3>1. up[t].targets \in SUBSET Account BY DEF PeopleTypes, Upsert
    <3> QED BY <2>1, <3>1, EnsureIsTyped DEF WriteActs
  <2>2. CASE ~ WriteActs(t)
    BY <2>2 DEF FindByEmail, FindByTwin, IndexPerson, Rejects, EmailTaken, TakeContent, Resolve,
       Clear, histVars
  <2> QED BY <2>1, <2>2
<1>3. /\ up'[t].pc \in {"idle", "merge", "twin", "clear", "write", "resolve", "flush"}
      /\ up'[t].pc = "flush" => up'[t].id \in Item
  <2>1. CASE FindByEmail(t) \/ FindByTwin(t) BY <2>1, FoundMoves
  <2>2. CASE IndexPerson(t) \/ Rejects(t) \/ EmailTaken(t)
    BY <2>2, RestMoves DEF IndexPerson, Rejects, EmailTaken
  <2>3. CASE \E i \in Item : \E names \in SUBSET Namable[i] : TakeContent(t, i, names)
    BY <2>3, TakeContentMoves
  <2>4. CASE Resolve(t)
    <3>1. up[t].names # {} BY <2>4, ContentKnows DEF Resolve, Doing, Content
    <3> QED BY <2>4, <3>1, ResolveMoves
  <2>5. CASE Clear(t) BY <2>5, GoToMoves DEF Clear, Phase
  <2>6. CASE WriteActs(t)
    <3>1. up[t].id \in Item BY <2>6, ContentKnows DEF WriteActs, Doing, Content
    <3> QED BY <2>6, <3>1, GoToMoves DEF WriteActs, Phase, KeepsAll
  <2> QED BY <2>1, <2>2, <2>3, <2>4, <2>5, <2>6
<1>4. /\ up'[t].pc \notin Held /\ ~ Rerouting(t)'
      /\ ~ (up'[t].pc = "flush" /\ up'[t].id \in Account)
  BY <1>3, ItemsAreNoAccounts DEF Held, PersonPhase, Phase, Content, Rerouting
<1>5. ASSUME NEW p \in Account, folder'[p] = t
      PROVE  RemembersNone(t, p)'
  <2>1. RemembersNone(t, p) BY <1>2, <1>5, NoOneIsNobody DEF FoldsAreForgotten
  <2> QED BY <1>1, <1>4, <2>1 DEF RemembersNone, cacheVars
<1> QED BY <1>5 DEF Forgets

LEMMA RerouteFailsForgets ==
    ASSUME PeopleTypes, NEW t \in Resolver, UpsertIsFormed(t), FoldsAreForgotten, RerouteFails(t)
    PROVE  Forgets(t)
<1>1. up[t].stale \in Account /\ Rerouting(t)
  BY FoldKnows DEF RerouteFails, Rerouting, Fold
<1>2. up'[t].pc = "upgrade" /\ up'[t].who = up[t].stale
  BY <1>1, SettleMoves DEF Phase, Person, RerouteFails
<1>3. UNCHANGED <<byAccount, pending, flushed, folder>> BY DEF RerouteFails, histVars
<1>4. ASSUME NEW p \in Account, folder'[p] = t
      PROVE  RemembersNone(t, p)'
  <2>1. RemembersNone(t, p) /\ up[t].stale # p
    BY <1>1, <1>3, <1>4 DEF FoldsAreForgotten, RemembersNone
  <2>2. \A e \in Email : byEmail'[t][e] # p
    BY <2>1 DEF RerouteFails, RemembersNone, PeopleTypes
  <2>3. ~ Rerouting(t)' BY <1>2 DEF Rerouting
  <2> QED BY <1>2, <1>3, <2>1, <2>2, <2>3 DEF RemembersNone
<1> QED BY <1>4 DEF Forgets

LEMMA ForgottenStep ==
    ASSUME PeopleTypes, \A t \in Resolver : UpsertIsFormed(t), GraphIsWhole, FoldsAreForgotten,
           [PeopleNext]_peopleVars
    PROVE  FoldsAreForgotten'
<1>1. CASE RestartTask
  <2>1. \A t \in Resolver : up'[t].pc = "idle" BY <1>1, RestartFormed
  <2> QED
    BY <1>1, <2>1, NoOneIsNobody
       DEF RestartTask, FoldsAreForgotten, RemembersNone, Rerouting, Held, PersonPhase, Content
<1>2. ASSUME NEW t \in Resolver, PersonStep(t) \/ ContentStep(t)
      PROVE  FoldsAreForgotten'
  <2>1. Forgets(t)
    BY <1>2, TakeForgets, FindOwnerForgets, UpgradeForgets, MergeFoundForgets, FoldForgets,
       DeleteForgets, DedupForgets, QueueForgets, FlushForgets, RestForgets, RerouteFailsForgets
       DEF PersonStep, ContentStep
  <2>2. \A p \in Account : folder'[p] = folder[p] \/ folder'[p] = NoOne \/ folder'[p] = t
    <3>1. CASE DeleteStub(t) BY <3>1 DEF DeleteStub, PeopleTypes
    <3>2. CASE Upgrade(t) \/ Greet(t) \/ MergeFound(t)
      BY <3>2 DEF Upgrade, Greet, MergeFound, MergePerson, Ensure, histVars
    <3>3. CASE CopyEdges(t) \/ WriteActs(t) \/ Flush(t)
      BY <3>3 DEF CopyEdges, WriteActs, Flush, WriteMappings, Ensure
    <3> QED
      BY <1>2, <3>1, <3>2, <3>3
         DEF PersonStep, ContentStep, TakePerson, FindOwner, FindByEmail, FindByTwin, ReadEdges,
         Dedup, QueueMapping, IndexPerson, Rejects, EmailTaken, RerouteFails, UpgradeFails,
         TakeContent, Resolve, Clear, histVars
  <2>3. OthersStay(t) /\ CachesStay(t) BY <1>2, StepsAreOwn, CachesAreOwn
  <2>4. ASSUME NEW p \in Account, NEW u \in Resolver \ {t}, folder'[p] = u
        PROVE  RemembersNone(u, p)'
    <3>1. folder[p] = u BY <2>2, <2>4, NoOneIsNobody
    <3>2. RemembersNone(u, p) BY <3>1 DEF FoldsAreForgotten
    <3> QED BY <2>3, <3>2 DEF RemembersNone, OthersStay, CachesStay, Rerouting
  <2> QED BY <2>1, <2>4 DEF Forgets, FoldsAreForgotten
<1>3. CASE UNCHANGED peopleVars
  <2>1. UNCHANGED <<byAccount, byEmail, pending, flushed, up, folder>>
    BY <1>3 DEF peopleVars, cacheVars, histVars
  <2> QED BY <2>1 DEF FoldsAreForgotten, RemembersNone, Rerouting
<1> QED BY <1>1, <1>2, <1>3 DEF PeopleNext

-----------------------------------------------------------------------------
(* Edges last, while nobody writes one to a Person that is being folded.   *)
NoneIsDoomedAnew ==
    \A u \in Resolver : Doing(u, "delete")' => Doing(u, "delete") /\ up'[u].stale = up[u].stale

LEMMA LastsGrow ==
    ASSUME NoneIsDoomedAnew, live \subseteq live', NEW edges, NEW more, edges \subseteq more,
           NEW x, Lasts(edges, x)
    PROVE  \E p \in live' : <<x, p>> \in more /\ ~ Doomed(p)'
<1>1. PICK p \in live : <<x, p>> \in edges /\ ~ Doomed(p) BY DEF Lasts
<1>2. ~ Doomed(p)' BY <1>1 DEF Doomed, NoneIsDoomedAnew
<1> QED BY <1>1, <1>2

(* Nothing is lost by a step that removes no edge and dooms nobody.        *)
LEMMA EdgesGrow ==
    ASSUME EdgesLast, NoneIsDoomedAnew, raced => raced',
           live \subseteq live', acts \subseteq acts', maps \subseteq maps',
           ~ raced' => \A u \in Resolver : Folding(u)' => FoldIsComplete(u)',
           ~ raced' => \A i \in Item : Wanted(i)' => Wanted(i) \/ Lasts(acts, i)',
           ~ raced' => \A a \in mapped' : a \in mapped \/ Lasts(maps, a)'
    PROVE  EdgesLast'
<1> SUFFICES ASSUME ~ raced'
             PROVE  /\ \A t \in Resolver : Folding(t)' => FoldIsComplete(t)'
                    /\ \A i \in Item : Wanted(i)' => Lasts(acts, i)'
                    /\ \A a \in mapped' : Lasts(maps, a)'
  BY DEF EdgesLast
<1>1. ASSUME NEW i \in Item, Wanted(i)' PROVE Lasts(acts, i)'
  <2>1. CASE Wanted(i)
    <3>1. Lasts(acts, i) BY <2>1 DEF EdgesLast
    <3>2. \E p \in live' : <<i, p>> \in acts' /\ ~ Doomed(p)' BY <3>1, LastsGrow
    <3> QED BY <3>2 DEF Lasts
  <2> QED BY <1>1, <2>1
<1>2. ASSUME NEW a \in mapped' PROVE Lasts(maps, a)'
  <2>1. CASE a \in mapped
    <3>1. Lasts(maps, a) BY <2>1 DEF EdgesLast
    <3>2. \E p \in live' : <<a, p>> \in maps' /\ ~ Doomed(p)' BY <3>1, LastsGrow
    <3> QED BY <3>2 DEF Lasts
  <2> QED BY <1>2, <2>1
<1> QED BY <1>1, <1>2

(* Who folds, and what, after a step of t.                                 *)
LEMMA OthersFold ==
    ASSUME NEW t \in Resolver, OthersStay(t), NEW u \in Resolver \ {t}
    PROVE  /\ Folding(u)' <=> Folding(u) /\ \A pc : Doing(u, pc)' <=> Doing(u, pc)
           /\ up'[u].stale = up[u].stale /\ up'[u].rels = up[u].rels
           /\ up'[u].id = up[u].id /\ up'[u].names = up[u].names
BY DEF OthersStay, Folding, Doing

(* A step that writes edges only to Persons that nobody else folds.        *)
LEMMA OthersKnow ==
    ASSUME NEW t \in Resolver, OthersStay(t), NEW u \in Resolver \ {t}, Folding(u),
           FoldIsComplete(u), NEW people,
           \A x \in acts' : x \in acts \/ x[2] \in people,
           \A x \in maps' : x \in maps \/ x[2] \in people,
           Touches(t, people), ~ raced'
    PROVE  FoldIsComplete(u)'
<1>1. up[u].stale \notin people BY DEF Touches
<1>2. up'[u].stale = up[u].stale /\ up'[u].rels = up[u].rels BY DEF OthersStay
<1> QED BY <1>1, <1>2 DEF FoldIsComplete

(* Wanted by the last signal, or by one that is about to be acknowledged.  *)
LEMMA QuietStep ==
    ASSUME EdgesLast, NEW t \in Resolver, OthersStay(t), up'[t].pc \notin {"copy", "delete"},
           up'[t].pc = "flush" => up'[t].id \notin Item \/ up'[t].names = {},
           \A i \in Item : said'[i] # {} => said[i] # {},
           live \subseteq live', UNCHANGED <<acts, maps, mapped, raced>>
    PROVE  EdgesLast'
<1>1. NoneIsDoomedAnew BY DEF NoneIsDoomedAnew, OthersStay, Doing
<1>2. ~ raced' => \A u \in Resolver : Folding(u)' => FoldIsComplete(u)'
  <2>1. ~ Folding(t)' BY DEF Folding
  <2>2. ASSUME ~ raced', NEW u \in Resolver \ {t}, Folding(u)' PROVE FoldIsComplete(u)'
    <3>1. Folding(u) /\ up'[u] = up[u] BY <2>2 DEF OthersStay, Folding
    <3>2. FoldIsComplete(u) BY <2>2, <3>1 DEF EdgesLast
    <3> QED BY <3>1, <3>2 DEF FoldIsComplete
  <2> QED BY <2>1, <2>2
<1>3. \A i \in Item : Wanted(i)' => Wanted(i)
  BY DEF Wanted, Doing, OthersStay
<1> QED BY <1>1, <1>2, <1>3, EdgesGrow

LEMMA QuietLasts ==
    ASSUME PeopleTypes, NEW t \in Resolver, UpsertIsFormed(t), EdgesLast,
           \/ \E a \in Account, e \in Email \cup {NoOne} : TakePerson(t, a, e)
           \/ FindOwner(t) \/ Upgrade(t) \/ FindByEmail(t) \/ FindByTwin(t) \/ MergeFound(t)
           \/ Greet(t) \/ Dedup(t) \/ QueueMapping(t) \/ IndexPerson(t)
           \/ Rejects(t) \/ EmailTaken(t) \/ RerouteFails(t) \/ UpgradeFails(t)
           \/ \E i \in Item : \E names \in SUBSET Namable[i] : TakeContent(t, i, names)
           \/ Resolve(t)
    PROVE  EdgesLast'
<1>1. OthersStay(t) BY StepsAreOwn DEF PersonStep, ContentStep
<1>2. UNCHANGED <<acts, maps, mapped, raced>> /\ live \subseteq live'
  <2>1. CASE Upgrade(t) \/ MergeFound(t) \/ Greet(t)
    BY <2>1 DEF Upgrade, MergeFound, Greet, MergePerson, Ensure, graphVars, histVars
  <2>2. CASE ~ (Upgrade(t) \/ MergeFound(t) \/ Greet(t))
    BY <2>2 DEF TakePerson, FindOwner, FindByEmail, FindByTwin, Dedup, QueueMapping, IndexPerson,
       Rejects, EmailTaken, RerouteFails, UpgradeFails, TakeContent, Resolve, graphVars, histVars
  <2> QED BY <2>1, <2>2
<1>3. \A i \in Item : said'[i] # {} => said[i] # {}
  <2>1. CASE \E j \in Item : \E names \in SUBSET Namable[j] : TakeContent(t, j, names)
    <3>1. PICK j \in Item : said' = [said EXCEPT ![j] = {}] BY <2>1 DEF TakeContent
    <3> QED BY <3>1 DEF PeopleTypes
  <2>2. CASE ~ \E j \in Item : \E names \in SUBSET Namable[j] : TakeContent(t, j, names)
    <3>1. said' = said
      BY <2>2 DEF TakePerson, FindOwner, Upgrade, FindByEmail, FindByTwin, MergeFound, MergePerson,
         Greet, Dedup, QueueMapping, IndexPerson, Rejects, EmailTaken, RerouteFails, UpgradeFails,
         Resolve, histVars
    <3> QED BY <3>1
  <2> QED BY <2>1, <2>2
<1>4. /\ up'[t].pc \notin {"copy", "delete"}
      /\ up'[t].pc = "flush" => up'[t].id \notin Item \/ up'[t].names = {}
  <2>1. CASE \E a \in Account, e \in Email \cup {NoOne} : TakePerson(t, a, e)
    <3>1. PICK pc \in {"owner", "upgrade", "email", "twin", "merge"} : up'[t].pc = pc
      BY <2>1, TakePersonMoves
    <3> QED BY <3>1
  <2>2. CASE FindOwner(t)
    <3>1. ASSUME NEW o \in Account, StartFold(t, up[t].who, o, "reroute") PROVE up'[t].pc = "fold"
      BY <3>1, <2>2, OwnersAreOthers, StartFoldMoves DEF Person
    <3>2. GoTo(t, "upgrade") => up'[t].pc = "upgrade" BY GoToMoves DEF Phase
    <3> QED BY <2>2, <3>1, <3>2, OwnersAreOthers
  <2>3. CASE Upgrade(t) \/ Greet(t) \/ UpgradeFails(t) \/ MergeFound(t)
    <3>1. up'[t].pc = "dedup"
      BY <2>3, GoToMoves DEF Upgrade, Greet, UpgradeFails, MergeFound, Phase
    <3> QED BY <3>1
  <2>4. CASE FindByEmail(t) \/ FindByTwin(t) BY <2>4, FoundMoves
  <2>5. CASE Dedup(t)
    <3>1. up[t].id \in Account /\ up[t].who \in Account
      BY <2>5 DEF Dedup, Doing, UpsertIsFormed, PersonPhase, Phase, Content
    <3>2. GoTo(t, "map") \/ StartFold(t, up[t].id, up[t].who, "dedup") BY <2>5 DEF Dedup
    <3>3. up'[t].pc \in {"map", "fold"}
      BY <3>1, <3>2, GoToMoves, StartFoldMoves DEF Phase, Person
    <3> QED BY <3>3
  <2>6. CASE QueueMapping(t)
    <3>1. up[t].id \in Account
      BY <2>6 DEF QueueMapping, Doing, UpsertIsFormed, PersonPhase, Phase, Content
    <3>2. up'[t].pc = "flush" /\ up'[t].id = up[t].id
      BY <2>6, GoToMoves DEF QueueMapping, Phase, KeepsAll
    <3> QED BY <3>1, <3>2, ItemsAreNoAccounts
  <2>7. CASE IndexPerson(t) \/ Rejects(t) \/ EmailTaken(t)
    BY <2>7, RestMoves DEF IndexPerson, Rejects, EmailTaken
  <2>8. CASE RerouteFails(t)
    <3>1. up[t].stale \in Account BY <2>8, FoldKnows DEF RerouteFails, Rerouting, Fold
    <3>2. up'[t].pc = "upgrade" BY <2>8, <3>1, SettleMoves DEF RerouteFails, Phase, Person
    <3> QED BY <3>2
  <2>9. CASE \E i \in Item : \E names \in SUBSET Namable[i] : TakeContent(t, i, names)
    BY <2>9, TakeContentMoves
  <2>10. CASE Resolve(t)
    <3>1. up[t].names # {} BY <2>10, ContentKnows DEF Resolve, Doing, Content
    <3> QED BY <2>10, <3>1, ResolveMoves
  <2> QED BY <2>1, <2>2, <2>3, <2>4, <2>5, <2>6, <2>7, <2>8, <2>9, <2>10
<1> QED BY <1>1, <1>2, <1>3, <1>4, QuietStep

LEMMA ReadLasts ==
    ASSUME PeopleTypes, NEW t \in Resolver, UpsertIsFormed(t), EdgesLast, ReadEdges(t)
    PROVE  EdgesLast'
<1>1. /\ OthersStay(t) /\ up'[t].pc = "copy" /\ up'[t].stale = up[t].stale
      /\ up'[t].rels = EdgesOf(up[t].stale)
  BY ReadMoves
<1>2. UNCHANGED <<live, acts, maps, said, mapped, raced>> BY DEF ReadEdges, graphVars, histVars
<1>3. NoneIsDoomedAnew BY <1>1 DEF NoneIsDoomedAnew, OthersStay, Doing
<1>4. FoldIsComplete(t)'
  <2>1. \A x \in acts : x[1] \in Item /\ x = <<x[1], x[2]>> BY DEF PeopleTypes
  <2>2. \A x \in maps : x[1] \in Account /\ x = <<x[1], x[2]>> BY DEF PeopleTypes
  <2>3. /\ up'[t].rels.acts = {i \in Item : <<i, up[t].stale>> \in acts}
        /\ up'[t].rels.maps = {a \in Account : <<a, up[t].stale>> \in maps}
    BY <1>1 DEF EdgesOf
  <2> QED BY <1>1, <1>2, <2>1, <2>2, <2>3 DEF FoldIsComplete
<1>5. ~ raced' => \A u \in Resolver : Folding(u)' => FoldIsComplete(u)'
  <2>1. ASSUME ~ raced', NEW u \in Resolver \ {t}, Folding(u)' PROVE FoldIsComplete(u)'
    <3>1. Folding(u) /\ up'[u] = up[u] BY <1>1, <2>1 DEF OthersStay, Folding
    <3>2. FoldIsComplete(u) BY <1>2, <2>1, <3>1 DEF EdgesLast
    <3> QED BY <1>2, <3>1, <3>2 DEF FoldIsComplete
  <2> QED BY <1>4, <2>1
<1>6. \A i \in Item : Wanted(i)' => Wanted(i) BY <1>1, <1>2 DEF Wanted, Doing, OthersStay
<1> QED BY <1>2, <1>3, <1>5, <1>6, EdgesGrow

(* The copies lead to a Person that nobody folds.                          *)
LEMMA CopyLasts ==
    ASSUME PeopleTypes, NEW t \in Resolver, UpsertIsFormed(t), EdgesLast, CopyEdges(t)
    PROVE  EdgesLast'
<1>0. PICK who, rels : who = up[t].who /\ rels = up[t].rels OBVIOUS
<1>1. PICK people \in SUBSET Account :
          /\ people = IF rels.acts # {} \/ rels.maps # {} THEN {who} ELSE {}
          /\ Ensure(people) /\ Touches(t, people)
  BY <1>0, CopyDoes
<1>2. /\ acts' = acts \cup (rels.acts \X {who}) /\ maps' = maps \cup (rels.maps \X {who})
      /\ GoTo(t, "delete") /\ UNCHANGED <<said, mapped>>
  BY <1>0, CopyDoes
<1>3. who \in Account /\ up[t].stale \in Account /\ up[t].stale # who
  BY <1>0, FoldKnows DEF CopyEdges, Doing, Fold
<1>4. live' = live \cup people BY <1>1, EnsureIsTyped
<1>5. /\ OthersStay(t) /\ up'[t].pc = "delete" /\ up'[t].stale = up[t].stale
      /\ up'[t].rels = rels
  BY <1>0, <1>2, GoToMoves DEF Phase
<1>6. Folding(t) /\ ~ Doing(t, "delete") BY DEF CopyEdges, Doing, Folding
<1> SUFFICES ASSUME ~ raced'
             PROVE  /\ \A u \in Resolver : Folding(u)' => FoldIsComplete(u)'
                    /\ \A i \in Item : Wanted(i)' => Lasts(acts, i)'
                    /\ \A a \in mapped' : Lasts(maps, a)'
  BY DEF EdgesLast
<1>7. ~ raced BY <1>1 DEF Touches
<1>8. FoldIsComplete(t) BY <1>6, <1>7 DEF EdgesLast
<1>9. \A x \in acts' : x \in acts \/ (x[2] = who /\ x[2] \in people)
  <2>1. \A x \in rels.acts \X {who} : x[2] = who /\ rels.acts # {} OBVIOUS
  <2> QED BY <1>1, <1>2, <2>1
<1>10. \A x \in maps' : x \in maps \/ (x[2] = who /\ x[2] \in people)
  <2>1. \A x \in rels.maps \X {who} : x[2] = who /\ rels.maps # {} OBVIOUS
  <2> QED BY <1>1, <1>2, <2>1
<1>11. FoldIsComplete(t)' BY <1>0, <1>3, <1>5, <1>8, <1>9, <1>10 DEF FoldIsComplete
<1>12. ASSUME NEW u \in Resolver \ {t}, Folding(u)' PROVE FoldIsComplete(u)'
  <2>1. Folding(u) BY <1>5, <1>12 DEF OthersStay, Folding
  <2>2. FoldIsComplete(u) BY <1>7, <2>1 DEF EdgesLast
  <2> QED BY <1>1, <1>5, <1>9, <1>10, <2>1, <2>2, OthersKnow
<1>13. \A p \in live : ~ Doomed(p) /\ p # up[t].stale => ~ Doomed(p)'
  BY <1>5 DEF Doomed, Doing, OthersStay
<1>14. who \in people => ~ Doomed(who)'
  <2>1. ASSUME who \in people, NEW u \in Resolver \ {t}, Doing(u, "delete")'
        PROVE  up'[u].stale # who
    <3>1. Folding(u) /\ up'[u] = up[u] BY <1>5, <2>1 DEF OthersStay, Doing, Folding
    <3> QED BY <1>1, <2>1, <3>1 DEF Touches
  <2>2. up'[t].stale # who BY <1>3, <1>5
  <2> QED BY <2>1, <2>2 DEF Doomed
<1>15. ASSUME NEW i \in Item, Wanted(i)' PROVE Lasts(acts, i)'
  <2>1. Wanted(i) BY <1>2, <1>5, <1>15 DEF Wanted, Doing, OthersStay
  <2>2. PICK p \in live : <<i, p>> \in acts /\ ~ Doomed(p) BY <1>7, <2>1 DEF EdgesLast, Lasts
  <2>3. CASE p = up[t].stale
    <3>1. i \in rels.acts BY <1>0, <1>8, <2>2, <2>3 DEF FoldIsComplete
    <3>2. <<i, who>> \in acts' /\ who \in people BY <1>1, <1>2, <3>1
    <3> QED BY <1>4, <1>14, <3>2 DEF Lasts
  <2>4. CASE p # up[t].stale BY <1>2, <1>4, <1>13, <2>2, <2>4 DEF Lasts
  <2> QED BY <2>3, <2>4
<1>16. ASSUME NEW a \in mapped' PROVE Lasts(maps, a)'
  <2>1. PICK p \in live : <<a, p>> \in maps /\ ~ Doomed(p)
    BY <1>2, <1>7, <1>16 DEF EdgesLast, Lasts
  <2>2. CASE p = up[t].stale
    <3>1. a \in rels.maps BY <1>0, <1>8, <2>1, <2>2 DEF FoldIsComplete
    <3>2. <<a, who>> \in maps' /\ who \in people BY <1>1, <1>2, <3>1
    <3> QED BY <1>4, <1>14, <3>2 DEF Lasts
  <2>3. CASE p # up[t].stale BY <1>2, <1>4, <1>13, <2>1, <2>3 DEF Lasts
  <2> QED BY <2>2, <2>3
<1> QED BY <1>11, <1>12, <1>15, <1>16

(* What the stub takes along leads elsewhere too.                          *)
LEMMA DeleteLasts ==
    ASSUME PeopleTypes, NEW t \in Resolver, UpsertIsFormed(t), EdgesLast, DeleteStub(t)
    PROVE  EdgesLast'
<1>1. /\ live' = live \ {up[t].stale} /\ acts' = {x \in acts : x[2] # up[t].stale}
      /\ maps' = {x \in maps : x[2] # up[t].stale} /\ UNCHANGED <<said, mapped, raced>>
  BY DEF DeleteStub
<1>2. PICK pc \in {"greet", "map"} : GoTo(t, pc) BY DEF DeleteStub
<1>3. OthersStay(t) /\ up'[t].pc = pc BY <1>2, GoToMoves DEF Phase
<1>4. Doomed(up[t].stale) BY DEF DeleteStub, Doomed
<1>5. \A p : Doomed(p)' => Doomed(p) BY <1>3 DEF Doomed, Doing, OthersStay
<1> SUFFICES ASSUME ~ raced'
             PROVE  /\ \A u \in Resolver : Folding(u)' => FoldIsComplete(u)'
                    /\ \A i \in Item : Wanted(i)' => Lasts(acts, i)'
                    /\ \A a \in mapped' : Lasts(maps, a)'
  BY DEF EdgesLast
<1>6. ASSUME NEW u \in Resolver, Folding(u)' PROVE FoldIsComplete(u)'
  <2>1. u # t /\ Folding(u) /\ up'[u] = up[u] BY <1>3, <1>6 DEF OthersStay, Folding
  <2>2. FoldIsComplete(u) BY <1>1, <2>1 DEF EdgesLast
  <2> QED BY <1>1, <2>1, <2>2 DEF FoldIsComplete
<1>7. ASSUME NEW i \in Item, Wanted(i)' PROVE Lasts(acts, i)'
  <2>1. Wanted(i) BY <1>1, <1>3, <1>7 DEF Wanted, Doing, OthersStay
  <2>2. PICK p \in live : <<i, p>> \in acts /\ ~ Doomed(p) BY <1>1, <2>1 DEF EdgesLast, Lasts
  <2> QED BY <1>1, <1>4, <1>5, <2>2 DEF Lasts
<1>8. ASSUME NEW a \in mapped' PROVE Lasts(maps, a)'
  <2>1. PICK p \in live : <<a, p>> \in maps /\ ~ Doomed(p) BY <1>1, <1>8 DEF EdgesLast, Lasts
  <2> QED BY <1>1, <1>4, <1>5, <2>1 DEF Lasts
<1> QED BY <1>6, <1>7, <1>8

LEMMA FlushLasts ==
    ASSUME PeopleTypes, NEW t \in Resolver, UpsertIsFormed(t), EdgesLast, Flush(t)
    PROVE  EdgesLast'
<1>1. pending[t] \subseteq Account \X Account BY DEF PeopleTypes
<1>2. PICK people \in SUBSET Account : people = {m[2] : m \in pending[t]}
  <2>1. {m[2] : m \in pending[t]} \subseteq Account BY <1>1
  <2> QED BY <2>1
<1>3. /\ maps' = maps \cup pending[t] /\ acts' = acts /\ Ensure(people) /\ Touches(t, people)
      /\ mapped' = mapped \cup {m[1] : m \in pending[t]}
  BY <1>2 DEF Flush, WriteMappings
<1>4. live' = live \cup people BY <1>3, EnsureIsTyped
<1>5. PICK pc \in {"index", "idle"} : GoTo(t, pc) BY DEF Flush
<1>6. OthersStay(t) /\ up'[t].pc = pc BY <1>5, GoToMoves DEF Phase
<1>7. NoneIsDoomedAnew BY <1>6 DEF NoneIsDoomedAnew, OthersStay, Doing
<1>8. raced => raced' BY <1>3 DEF Touches
<1>9. \A x \in maps' : x \in maps \/ x[2] \in people BY <1>2, <1>3
<1>10. ~ raced' => \A u \in Resolver : Folding(u)' => FoldIsComplete(u)'
  <2>1. ~ Folding(t)' BY <1>6 DEF Folding
  <2>2. ASSUME ~ raced', NEW u \in Resolver \ {t}, Folding(u)' PROVE FoldIsComplete(u)'
    <3>1. Folding(u) BY <1>6, <2>2 DEF OthersStay, Folding
    <3>2. FoldIsComplete(u) BY <1>8, <2>2, <3>1 DEF EdgesLast
    <3> QED BY <1>3, <1>6, <1>9, <2>2, <3>1, <3>2, OthersKnow
  <2> QED BY <2>1, <2>2
<1>11. \A i \in Item : Wanted(i)' => Wanted(i)
  <2>1. said' = [i \in Item |-> IF up[t].id = i THEN up[t].names ELSE said[i]]
    BY DEF Flush
  <2>2. Doing(t, "flush") BY DEF Flush
  <2> QED BY <1>6, <2>1, <2>2 DEF Wanted, Doing, OthersStay
<1>12. ~ raced' => \A a \in mapped' : a \in mapped \/ Lasts(maps, a)'
  <2>1. ASSUME ~ raced', NEW a \in mapped' \ mapped PROVE Lasts(maps, a)'
    <3>1. PICK m \in pending[t] : a = m[1] BY <1>3, <2>1
    <3>2. m = <<a, m[2]>> /\ m[2] \in people BY <1>1, <1>2, <3>1
    <3>3. ~ Doomed(m[2])'
      BY <1>3, <1>6, <2>1, <3>2 DEF Touches, Doomed, Doing, Folding, OthersStay
    <3> QED BY <1>3, <1>4, <3>2, <3>3 DEF Lasts
  <2> QED BY <2>1
<1> QED BY <1>3, <1>4, <1>7, <1>8, <1>10, <1>11, <1>12, EdgesGrow

(* Nobody wants the edges of an item whose signal is being written.        *)
LEMMA ClearLasts ==
    ASSUME PeopleTypes, \A u \in Resolver : UpsertIsFormed(u), NEW t \in Resolver, EdgesLast,
           Clear(t)
    PROVE  EdgesLast'
<1> DEFINE i == up[t].id
<1>1. i \in Item /\ ItemQueue[i] = t /\ said[i] = {}
  BY ContentKnows DEF Clear, Doing, Content
<1>2. /\ acts' = {x \in acts : x[1] # i} /\ UNCHANGED <<live, maps, said, mapped, raced>>
      /\ GoTo(t, "write")
  BY DEF Clear, histVars
<1>3. OthersStay(t) /\ up'[t].pc = "write" BY <1>2, GoToMoves DEF Phase
<1>4. \A p : Doomed(p)' => Doomed(p) BY <1>3 DEF Doomed, Doing, OthersStay
<1>5. \A j \in Item : Wanted(j)' => Wanted(j) /\ j # i
  <2>1. ASSUME NEW u \in Resolver \ {t} PROVE ~ (Doing(u, "flush") /\ up[u].id = i)
    BY <1>1 DEF UpsertIsFormed, Doing
  <2> QED BY <1>1, <1>2, <1>3, <2>1 DEF Wanted, Doing, OthersStay
<1> SUFFICES ASSUME ~ raced'
             PROVE  /\ \A u \in Resolver : Folding(u)' => FoldIsComplete(u)'
                    /\ \A j \in Item : Wanted(j)' => Lasts(acts, j)'
                    /\ \A a \in mapped' : Lasts(maps, a)'
  BY DEF EdgesLast
<1>6. ASSUME NEW u \in Resolver, Folding(u)' PROVE FoldIsComplete(u)'
  <2>1. u # t /\ Folding(u) /\ up'[u] = up[u] BY <1>3, <1>6 DEF OthersStay, Folding
  <2>2. FoldIsComplete(u) BY <1>2, <2>1 DEF EdgesLast
  <2> QED BY <1>2, <2>1, <2>2 DEF FoldIsComplete
<1>7. ASSUME NEW j \in Item, Wanted(j)' PROVE Lasts(acts, j)'
  <2>1. PICK p \in live : <<j, p>> \in acts /\ ~ Doomed(p)
    BY <1>2, <1>5, <1>7 DEF EdgesLast, Lasts
  <2> QED BY <1>2, <1>4, <1>5, <1>7, <2>1 DEF Lasts
<1>8. ASSUME NEW a \in mapped' PROVE Lasts(maps, a)'
  <2>1. PICK p \in live : <<a, p>> \in maps /\ ~ Doomed(p) BY <1>2, <1>8 DEF EdgesLast, Lasts
  <2> QED BY <1>2, <1>4, <2>1 DEF Lasts
<1> QED BY <1>6, <1>7, <1>8

LEMMA WriteLasts ==
    ASSUME PeopleTypes, NEW t \in Resolver, UpsertIsFormed(t), EdgesLast, WriteActs(t)
    PROVE  EdgesLast'
<1>0. PICK people, i : people = up[t].targets /\ i = up[t].id OBVIOUS
<1>1. people \in SUBSET Account BY <1>0 DEF PeopleTypes, Upsert
<1>2. people # {} BY <1>0 DEF WriteActs, Doing, UpsertIsFormed
<1>3. /\ acts' = acts \cup ({i} \X people) /\ Ensure(people) /\ Touches(t, people)
      /\ GoTo(t, "flush") /\ UNCHANGED <<maps, said, mapped>>
  BY <1>0 DEF WriteActs
<1>4. live' = live \cup people BY <1>1, <1>3, EnsureIsTyped
<1>5. OthersStay(t) /\ up'[t].pc = "flush" /\ up'[t].id = i BY <1>0, <1>3, GoToMoves DEF Phase, KeepsAll
<1>6. NoneIsDoomedAnew BY <1>5 DEF NoneIsDoomedAnew, OthersStay, Doing
<1>7. raced => raced' BY <1>3 DEF Touches
<1>8. \A x \in acts' : x \in acts \/ x[2] \in people BY <1>3
<1>9. ~ raced' => \A u \in Resolver : Folding(u)' => FoldIsComplete(u)'
  <2>1. ~ Folding(t)' BY <1>5 DEF Folding
  <2>2. ASSUME ~ raced', NEW u \in Resolver \ {t}, Folding(u)' PROVE FoldIsComplete(u)'
    <3>1. Folding(u) BY <1>5, <2>2 DEF OthersStay, Folding
    <3>2. FoldIsComplete(u) BY <1>7, <2>2, <3>1 DEF EdgesLast
    <3> QED BY <1>3, <1>5, <1>8, <2>2, <3>1, <3>2, OthersKnow
  <2> QED BY <2>1, <2>2
<1>10. ~ raced' => \A j \in Item : Wanted(j)' => Wanted(j) \/ Lasts(acts, j)'
  <2>1. ~ raced' => Lasts(acts, i)'
    <3>1. PICK p \in people : TRUE BY <1>2
    <3>2. ~ raced' => ~ Doomed(p)'
      BY <1>3, <1>5, <3>1 DEF Touches, Doomed, Doing, Folding, OthersStay
    <3>3. p \in live' /\ <<i, p>> \in acts' BY <1>3, <1>4, <3>1
    <3> QED BY <3>2, <3>3 DEF Lasts
  <2>2. \A j \in Item : Wanted(j)' => Wanted(j) \/ j = i
    BY <1>3, <1>5 DEF Wanted, Doing, OthersStay
  <2> QED BY <2>1, <2>2
<1> QED BY <1>3, <1>4, <1>6, <1>7, <1>9, <1>10, EdgesGrow

LEMMA EdgesStep ==
    ASSUME PeopleTypes, \A t \in Resolver : UpsertIsFormed(t), EdgesLast, [PeopleNext]_peopleVars
    PROVE  EdgesLast'
<1>1. CASE RestartTask
  <2>1. \A t \in Resolver : up'[t].pc = "idle" BY <1>1, RestartFormed
  <2>2. UNCHANGED <<live, acts, maps, said, mapped, raced>>
    BY <1>1 DEF RestartTask, graphVars, histVars
  <2>3. NoneIsDoomedAnew BY <2>1 DEF NoneIsDoomedAnew, Doing
  <2>4. \A u \in Resolver : ~ Folding(u)' BY <2>1 DEF Folding
  <2>5. \A i \in Item : Wanted(i)' => Wanted(i) BY <2>1, <2>2 DEF Wanted, Doing
  <2> QED BY <2>2, <2>3, <2>4, <2>5, EdgesGrow
<1>2. ASSUME NEW t \in Resolver, PersonStep(t) \/ ContentStep(t) PROVE EdgesLast'
  BY <1>2, QuietLasts, ReadLasts, CopyLasts, DeleteLasts, FlushLasts, ClearLasts, WriteLasts
     DEF PersonStep, ContentStep
<1>3. CASE UNCHANGED peopleVars
  <2>1. UNCHANGED <<live, acts, maps, said, mapped, raced, up>>
    BY <1>3 DEF peopleVars, graphVars, histVars
  <2>2. NoneIsDoomedAnew BY <2>1 DEF NoneIsDoomedAnew, Doing
  <2>3. ~ raced' => \A u \in Resolver : Folding(u)' => FoldIsComplete(u)'
    BY <2>1 DEF EdgesLast, Folding, FoldIsComplete
  <2>4. \A i \in Item : Wanted(i)' => Wanted(i) BY <2>1 DEF Wanted, Doing
  <2> QED BY <2>1, <2>2, <2>3, <2>4, EdgesGrow
<1> QED BY <1>1, <1>2, <1>3 DEF PeopleNext

-----------------------------------------------------------------------------
(* An account is mapped, or its Person was by this cache.                  *)
LEMMA QueuedStep ==
    ASSUME PeopleTypes, \A t \in Resolver : UpsertIsFormed(t), [PeopleNext]_peopleVars,
           \A t \in Resolver : MappingIsQueued(t)
    PROVE  \A t \in Resolver : MappingIsQueued(t)'
<1>1. CASE RestartTask
  <2>1. \A t \in Resolver : up'[t].pc = "idle" BY <1>1, RestartFormed
  <2> QED BY <2>1 DEF MappingIsQueued, Doing
<1>2. ASSUME NEW t \in Resolver, PersonStep(t) \/ ContentStep(t)
      PROVE  \A u \in Resolver : MappingIsQueued(u)'
  <2>1. OthersStay(t) /\ CachesStay(t) BY <1>2, StepsAreOwn, CachesAreOwn
  <2>2. mapped \subseteq mapped'
    <3>1. CASE Flush(t) BY <3>1 DEF Flush, WriteMappings
    <3>2. CASE ~ Flush(t)
      BY <1>2, <3>2
         DEF PersonStep, ContentStep, TakePerson, FindOwner, Upgrade, FindByEmail, FindByTwin,
         MergeFound, MergePerson, ReadEdges, CopyEdges, DeleteStub, Greet, Dedup, QueueMapping,
         IndexPerson, Rejects, EmailTaken, RerouteFails, UpgradeFails, TakeContent, Resolve, Clear,
         WriteActs, histVars
    <3> QED BY <3>1, <3>2
  <2>3. ASSUME NEW u \in Resolver \ {t} PROVE MappingIsQueued(u)'
    BY <2>1, <2>2 DEF OthersStay, CachesStay, MappingIsQueued, Doing
  <2>4. MappingIsQueued(t)'
    <3>1. CASE QueueMapping(t)
      <4>1. up[t].id \in Account /\ up[t].who \in Account
        BY <3>1 DEF QueueMapping, Doing, UpsertIsFormed, PersonPhase, Phase, Content
      <4>2. up'[t].pc = "flush" /\ up'[t].id = up[t].id /\ up'[t].who = up[t].who
        BY <3>1, GoToMoves DEF QueueMapping, Phase, KeepsAll
      <4>3. flushed' = flushed BY <3>1 DEF QueueMapping
      <4>4. (\E m \in pending'[t] : m[1] = up[t].id) \/ up[t].who \in flushed[t]
        <5>1. pending'[t] = IF up[t].who \in flushed[t] \/ \E m \in pending[t] : m[1] = up[t].id
                            THEN pending[t] ELSE pending[t] \cup {<<up[t].id, up[t].who>>}
          BY <3>1 DEF QueueMapping, PeopleTypes
        <5>2. <<up[t].id, up[t].who>>[1] = up[t].id OBVIOUS
        <5> QED BY <5>1, <5>2
      <4> QED BY <4>2, <4>3, <4>4 DEF MappingIsQueued, Doing
    <3>2. CASE Flush(t)
      <4>1. up[t].pc = "flush" /\ GoTo(t, IF up[t].id \in Account THEN "index" ELSE "idle")
        BY <3>2 DEF Flush, Doing
      <4>2. /\ up'[t].pc = IF up[t].id \in Account THEN "index" ELSE "idle"
            /\ up'[t].id = up[t].id /\ up'[t].who = up[t].who
        BY <4>1, GoToMoves DEF Phase, KeepsAll
      <4>3. up[t].id \in Account =>
              (\E m \in pending[t] : m[1] = up[t].id) \/ up[t].who \in flushed[t]
        BY <4>1 DEF MappingIsQueued, Doing
      <4>4. /\ mapped' = mapped \cup {m[1] : m \in pending[t]}
            /\ flushed[t] \subseteq flushed'[t]
        BY <3>2 DEF Flush, WriteMappings, PeopleTypes
      <4> QED BY <4>2, <4>3, <4>4 DEF MappingIsQueued, Doing
    <3>3. CASE ~ QueueMapping(t) /\ ~ Flush(t)
      <4>1. up'[t].pc # "index" /\ (up'[t].pc = "flush" => up'[t].id \notin Account)
        <5>1. CASE \E a \in Account, e \in Email \cup {NoOne} : TakePerson(t, a, e)
          <6>1. PICK pc \in {"owner", "upgrade", "email", "twin", "merge"} : up'[t].pc = pc
            BY <5>1, TakePersonMoves
          <6> QED BY <6>1
        <5>2. CASE FindOwner(t)
          <6>1. ASSUME NEW o \in Account, StartFold(t, up[t].who, o, "reroute")
                PROVE  up'[t].pc = "fold"
            BY <6>1, <5>2, OwnersAreOthers, StartFoldMoves DEF Person
          <6>2. GoTo(t, "upgrade") => up'[t].pc = "upgrade" BY GoToMoves DEF Phase
          <6> QED BY <5>2, <6>1, <6>2, OwnersAreOthers
        <5>3. CASE Upgrade(t) \/ Greet(t) \/ UpgradeFails(t) \/ MergeFound(t)
          <6>1. up'[t].pc = "dedup"
            BY <5>3, GoToMoves DEF Upgrade, Greet, UpgradeFails, MergeFound, Phase
          <6> QED BY <6>1
        <5>4. CASE FindByEmail(t) \/ FindByTwin(t) BY <5>4, FoundMoves
        <5>5. CASE ReadEdges(t) BY <5>5, ReadMoves
        <5>6. CASE CopyEdges(t)
          <6>1. up'[t].pc = "delete" BY <5>6, GoToMoves DEF CopyEdges, Phase
          <6> QED BY <6>1
        <5>7. CASE DeleteStub(t)
          <6>1. GoTo(t, "greet") \/ GoTo(t, "map") BY <5>7 DEF DeleteStub
          <6>2. up'[t].pc \in {"greet", "map"} BY <6>1, GoToMoves DEF Phase
          <6> QED BY <6>2
        <5>8. CASE Dedup(t)
          <6>1. up[t].id \in Account /\ up[t].who \in Account
            BY <5>8 DEF Dedup, Doing, UpsertIsFormed, PersonPhase, Phase, Content
          <6>2. GoTo(t, "map") \/ StartFold(t, up[t].id, up[t].who, "dedup") BY <5>8 DEF Dedup
          <6>3. up'[t].pc \in {"map", "fold"}
            BY <6>1, <6>2, GoToMoves, StartFoldMoves DEF Phase, Person
          <6> QED BY <6>3
        <5>9. CASE IndexPerson(t) \/ Rejects(t) \/ EmailTaken(t)
          BY <5>9, RestMoves DEF IndexPerson, Rejects, EmailTaken
        <5>10. CASE RerouteFails(t)
          <6>1. up[t].stale \in Account BY <5>10, FoldKnows DEF RerouteFails, Rerouting, Fold
          <6>2. up'[t].pc = "upgrade" BY <5>10, <6>1, SettleMoves DEF RerouteFails, Phase, Person
          <6> QED BY <6>2
        <5>11. CASE \E i \in Item : \E names \in SUBSET Namable[i] : TakeContent(t, i, names)
          BY <5>11, TakeContentMoves, ItemsAreNoAccounts
        <5>12. CASE Resolve(t) \/ Clear(t) \/ WriteActs(t)
          <6>1. up[t].id \in Item /\ up[t].names # {}
            BY <5>12, ContentKnows DEF Resolve, Clear, WriteActs, Doing, Content
          <6>2. up'[t].pc # "index" /\ up'[t].id = up[t].id
            BY <5>12, <6>1, ResolveMoves, GoToMoves DEF Clear, WriteActs, Phase, KeepsAll
          <6> QED BY <6>1, <6>2, ItemsAreNoAccounts
        <5> QED
          BY <1>2, <3>3, <5>1, <5>2, <5>3, <5>4, <5>5, <5>6, <5>7, <5>8, <5>9, <5>10, <5>11, <5>12
             DEF PersonStep, ContentStep
      <4> QED BY <4>1 DEF MappingIsQueued, Doing
    <3> QED BY <3>1, <3>2, <3>3
  <2> QED BY <2>3, <2>4
<1>3. CASE UNCHANGED peopleVars
  <2>1. UNCHANGED <<up, mapped, pending, flushed>>
    BY <1>3 DEF peopleVars, cacheVars, histVars
  <2> QED BY <2>1 DEF MappingIsQueued, Doing
<1> QED BY <1>1, <1>2, <1>3 DEF PeopleNext

-----------------------------------------------------------------------------
LEMMA InitHolds == PeopleInit => PeopleInv
<1> SUFFICES ASSUME PeopleInit PROVE PeopleInv OBVIOUS
<1>1. /\ Resting \in Upsert /\ Resting.pc = "idle" /\ Resting.id = NoOne
      /\ Resting.stale = NoOne /\ Resting.names = {}
  BY DEF Resting, Upsert, Person, Phase, Edges
<1>2. up \in [Resolver -> Upsert] /\ \A t \in Resolver : up[t] = Resting BY <1>1 DEF PeopleInit
<1>3. PeopleTypes BY <1>2 DEF PeopleInit, PeopleTypes, Person
<1>4. \A t \in Resolver : UpsertIsFormed(t)
  BY <1>1, <1>2, NoOneIsNobody DEF UpsertIsFormed, PersonPhase, Content, Fold
<1>5. GraphIsWhole BY DEF PeopleInit, GraphIsWhole
<1>6. FoldsAreForgotten BY NoOneIsNobody DEF PeopleInit, FoldsAreForgotten
<1>7. EdgesLast
  <2>1. \A i \in Item : ~ Wanted(i) BY <1>1, <1>2 DEF PeopleInit, Wanted, Doing
  <2>2. \A t \in Resolver : ~ Folding(t) BY <1>1, <1>2 DEF Folding
  <2> QED BY <2>1, <2>2 DEF PeopleInit, EdgesLast
<1>8. \A t \in Resolver : MappingIsQueued(t) BY <1>1, <1>2 DEF MappingIsQueued, Doing
<1> QED BY <1>3, <1>4, <1>5, <1>6, <1>7, <1>8 DEF PeopleInv

LEMMA StepHolds == PeopleInv /\ [PeopleNext]_peopleVars => PeopleInv'
<1> SUFFICES ASSUME PeopleInv, [PeopleNext]_peopleVars PROVE PeopleInv' OBVIOUS
<1>1. /\ PeopleTypes /\ \A t \in Resolver : UpsertIsFormed(t)
      /\ GraphIsWhole /\ FoldsAreForgotten /\ EdgesLast /\ \A t \in Resolver : MappingIsQueued(t)
  BY DEF PeopleInv
<1>2. PeopleTypes' /\ \A t \in Resolver : UpsertIsFormed(t)' BY <1>1, FormedStep
<1>3. GraphIsWhole' BY <1>1, WholeStep
<1>4. FoldsAreForgotten' BY <1>1, ForgottenStep
<1>5. EdgesLast' BY <1>1, EdgesStep
<1>6. \A t \in Resolver : MappingIsQueued(t)' BY <1>1, QueuedStep
<1> QED BY <1>2, <1>3, <1>4, <1>5, <1>6 DEF PeopleInv

(* The invariant of the identity resolution: what the tasks know in each   *)
(* phase, that edges lead to Persons that exist, that no task remembers a  *)
(* Person it has folded, and that a fold nobody raced loses no edge.       *)
THEOREM PeopleInvariant == PeopleSpec => []PeopleInv
BY InitHolds, StepHolds, PTL DEF PeopleSpec

(* Folds lose nobody's interactions: what the last acknowledged signal of  *)
(* an item said stays in the graph, through any interleaving of the tasks, *)
(* unless an edge was written to a Person while another task folded it.    *)
THEOREM FoldsKeepInteractions == PeopleSpec => []InteractionsSurvive
<1>1. PeopleInv => InteractionsSurvive
  <2> SUFFICES ASSUME PeopleInv, ~ raced, NEW i \in Item, said[i] # {}
               PROVE  \E p \in live : <<i, p>> \in acts
    BY DEF InteractionsSurvive
  <2>1. Lasts(acts, i) BY DEF PeopleInv, EdgesLast, Wanted
  <2> QED BY <2>1 DEF Lasts
<1> QED BY <1>1, PeopleInvariant, PTL

(* An IdentityMapping stays mapped to a Person that exists, and a Person   *)
(* signal is not acknowledged before its account has one or its Person had *)
(* one from the same cache.                                                *)
THEOREM FoldsKeepMappings == PeopleSpec => []AccountsStayMapped
<1>1. PeopleInv => AccountsStayMapped
  <2> SUFFICES ASSUME PeopleInv PROVE AccountsStayMapped OBVIOUS
  <2>1. ASSUME ~ raced, NEW a \in mapped PROVE \E p \in live : <<a, p>> \in maps
    <3>1. Lasts(maps, a) BY <2>1 DEF PeopleInv, EdgesLast
    <3> QED BY <3>1 DEF Lasts
  <2>2. \A t \in Resolver : Doing(t, "index") =>
            up[t].id \in mapped \/ up[t].who \in flushed[t]
    BY DEF PeopleInv, MappingIsQueued
  <2> QED BY <2>1, <2>2 DEF AccountsStayMapped
<1> QED BY <1>1, PeopleInvariant, PTL

(* After a reroute none of the task's caches names the Person it folded    *)
(* away, until somebody creates that Person again.                         *)
THEOREM ReroutesAreForgotten == PeopleSpec => []CachesForgetTheFolded
<1>1. PeopleInv => CachesForgetTheFolded
  BY DEF PeopleInv, FoldsAreForgotten, RemembersNone, CachesForgetTheFolded
<1> QED BY <1>1, PeopleInvariant, PTL
=============================================================================
