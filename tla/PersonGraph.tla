----------------------------- MODULE PersonGraph -----------------------------
(***************************************************************************)
(* Person identity in the signal consumer.  One task per provider queue    *)
(* upserts signals into Neo4j, one at a time, with a PersonCache of its    *)
(* own; the tasks run in threads, and every query is a transaction of its  *)
(* own, so that two upserts interleave between any two queries.            *)
(*                                                                         *)
(* A Person signal is resolved to a canonical Person (by cache, by email,  *)
(* by Atlassian account, or its own id), the stub under its own id is      *)
(* folded into the canonical one, and an IdentityMapping is written.  A    *)
(* content signal resolves the people it names and replaces the            *)
(* interactions of its item.                                               *)
(*                                                                         *)
(* A Person's id is the account it was made for.  A queue carries one      *)
(* provider, so that the account cache of an Atlassian task always agrees  *)
(* with its provider cache and is not a variable.  Names, urls and other   *)
(* properties are left out.                                                *)
(***************************************************************************)
EXTENDS Naturals, FiniteSets, Sequences, Functions, TLC

CONSTANTS
    Resolver,        \* one per queue
    Account,     \* provider accounts
    ResolverOf,     \* ResolverOf[a]: the task that gets the signals of account a
    Twins,       \* Twins[a]: the accounts with a's Atlassian id, Jira's
                 \* first, or << >> for GitHub
    Email,
    EmailOf,     \* EmailOf[a]: the email a provider may show for a
    Item,        \* pull requests, issues, pages
    ItemQueue,   \* ItemQueue[i]: the task that gets the signals of item i
    Namable,     \* Namable[i]: accounts that may interact with item i
    NoOne,       \* no Person, no email
    MaxSignals,  \* bound: signals
    MaxFailures  \* bound: failed queries and restarts

ASSUME GraphBounds == MaxSignals \in Nat /\ MaxFailures \in Nat
ASSUME NoOneIsNobody == NoOne \notin Account \cup Email \cup Resolver
ASSUME PeopleAreAccounts ==
    /\ \A a \in Account : Twins[a] \in Seq(Account)
    /\ \A i \in Item : Namable[i] \subseteq Account
ASSUME ItemsAreNoAccounts == Item \cap (Account \cup {NoOne}) = {}

VARIABLES
    live,       \* Person nodes
    email,      \* email[p]: Person.email
    acts,       \* interaction edges <<item, person>>
    maps,       \* MAPS_TO edges <<account, person>>
    docs,       \* Person documents in Elasticsearch
    byAccount,  \* _provider_cache of the task of the account
    byEmail,    \* byEmail[t]: _email_cache
    pending,    \* pending[t]: _pending_identities
    flushed,    \* flushed[t]: _flushed_persons
    up,         \* up[t]: the upsert in progress
    said,       \* history: who interacts with i by its last signal, {} if
                \* that is unknown
    mapped,     \* history: accounts whose IdentityMapping was written
    folder,     \* history: folder[p]: the task whose reroute removed p
    raced,      \* history: an edge was written to a Person while another
                \* task was folding it
    signals, failures

graphVars == <<live, email, acts, maps>>
cacheVars == <<byAccount, byEmail, pending, flushed>>
histVars == <<said, mapped, folder, raced>>
boundVars == <<signals, failures>>
peopleVars == <<graphVars, docs, cacheVars, up, histVars, boundVars>>

Resting == [pc |-> "idle", id |-> NoOne, mail |-> NoOne, who |-> NoOne, stale |-> NoOne,
         why |-> "none", names |-> {}, targets |-> {},
         rels |-> [acts |-> {}, maps |-> {}]]

PeopleInit ==
    /\ live = {} /\ email = [p \in Account |-> NoOne] /\ acts = {} /\ maps = {}
    /\ docs = {}
    /\ byAccount = [a \in Account |-> NoOne]
    /\ byEmail = [t \in Resolver |-> [e \in Email |-> NoOne]]
    /\ pending = [t \in Resolver |-> {}] /\ flushed = [t \in Resolver |-> {}]
    /\ up = [t \in Resolver |-> Resting]
    /\ said = [i \in Item |-> {}] /\ mapped = {}
    /\ folder = [p \in Account |-> NoOne] /\ raced = FALSE
    /\ signals = 0 /\ failures = 0

-----------------------------------------------------------------------------
Doing(t, pc) == up[t].pc = pc
GoTo(t, pc) == up' = [up EXCEPT ![t].pc = pc]
Settle(t, pc, p) == up' = [up EXCEPT ![t].pc = pc, ![t].who = p]
StartFold(t, stale, who, why) ==
    up' = [up EXCEPT ![t].pc = "fold", ![t].stale = stale, ![t].who = who, ![t].why = why]

\* Between reading the edges of a Person and deleting it.
Folding(t) == up[t].pc \in {"copy", "delete"}
Touches(t, people) ==
    raced' = (raced \/ \E u \in Resolver \ {t} : Folding(u) /\ up[u].stale \in people)

(* MERGE on a Person id: a node that is gone is created again, bare.       *)
Ensure(people) ==
    /\ live' = live \cup people
    /\ folder' = [p \in Account |-> IF p \in people THEN NoOne ELSE folder[p]]

Owner(e) == {p \in live : email[p] = e}

(* merge_person: Person.email is unique, so that a Person cannot take an   *)
(* email another one has.                                                  *)
MayMerge(p, e) == e = NoOne \/ Owner(e) \subseteq {p}
MergePerson(p, e) ==
    /\ MayMerge(p, e)
    /\ Ensure({p})
    /\ email' = IF e = NoOne THEN email ELSE [email EXCEPT ![p] = e]
    /\ UNCHANGED <<acts, maps, said, mapped, raced>>

-----------------------------------------------------------------------------
(* get_or_create_person, the part in memory: the provider cache, then the  *)
(* email cache.                                                            *)
LookupByAccount(a) == IF Twins[a] = << >> THEN "merge" ELSE "twin"
TakePerson(t, a, e) ==
    /\ Doing(t, "idle") /\ ResolverOf[a] = t /\ e \in {NoOne, EmailOf[a]}
    /\ signals < MaxSignals /\ signals' = signals + 1
    /\ LET cached == byAccount[a]
           owner == IF e = NoOne THEN NoOne ELSE byEmail[t][e]
           Start(pc, who) == up' = [up EXCEPT ![t] =
               [Resting EXCEPT !.pc = pc, !.id = a, !.mail = e, !.who = who]]
       IN
       \/ /\ cached # NoOne
          /\ Start(IF e # NoOne /\ owner # cached THEN "owner" ELSE "upgrade", cached)
          /\ UNCHANGED byAccount
       \/ /\ cached = NoOne /\ owner # NoOne
          /\ Start("upgrade", owner)
          /\ byAccount' = [byAccount EXCEPT ![a] = owner]
       \/ /\ cached = NoOne /\ owner = NoOne
          /\ Start(IF e # NoOne THEN "email" ELSE LookupByAccount(a), a)
          /\ UNCHANGED byAccount
    /\ UNCHANGED <<graphVars, docs, byEmail, pending, flushed, histVars, failures>>

(* _reroute_to_email_owner: somebody else has the email of a cached Person.*)
FindOwner(t) ==
    /\ Doing(t, "owner")
    /\ LET e == up[t].mail
           cached == up[t].who
           others == (IF byEmail[t][e] # NoOne THEN {byEmail[t][e]} ELSE Owner(e)) \ {cached}
       IN IF others = {}
          THEN /\ byEmail' = [byEmail EXCEPT ![t][e] = cached]
               /\ GoTo(t, "upgrade")
          ELSE /\ \E o \in others : StartFold(t, cached, o, "reroute")
               /\ UNCHANGED byEmail
    /\ UNCHANGED <<graphVars, docs, byAccount, pending, flushed, histVars, boundVars>>

(* _try_merge_richer_person: a unique email that is taken does not matter, *)
(* nor does a failure (UpgradeFails).                                      *)
Upgrade(t) ==
    /\ Doing(t, "upgrade")
    /\ GoTo(t, "dedup")
    /\ IF MayMerge(up[t].who, up[t].mail)
       THEN MergePerson(up[t].who, up[t].mail)
       ELSE UNCHANGED <<graphVars, histVars>>
    /\ UNCHANGED <<docs, cacheVars, boundVars>>

FindByEmail(t) ==
    /\ Doing(t, "email")
    /\ LET owners == Owner(up[t].mail) IN
       IF owners = {} THEN GoTo(t, LookupByAccount(up[t].id))
       ELSE \E p \in owners : Settle(t, "merge", p)
    /\ UNCHANGED <<graphVars, docs, cacheVars, histVars, boundVars>>

(* _lookup_by_atlassian_account: by IdentityMapping, then by Person id;    *)
(* any of several.                                                         *)
ByMapping(a) == {m[2] : m \in {n \in maps : n[1] \in Range(Twins[a])}}
ByTwinId(a) == Range(Twins[a]) \cap live
FindByTwin(t) ==
    /\ Doing(t, "twin")
    /\ LET a == up[t].id
           found == IF ByMapping(a) # {} THEN ByMapping(a) ELSE ByTwinId(a)
       IN \E p \in (IF found = {} THEN {a} ELSE found) : Settle(t, "merge", p)
    /\ UNCHANGED <<graphVars, docs, cacheVars, histVars, boundVars>>

MergeFound(t) ==
    /\ Doing(t, "merge") /\ MergePerson(up[t].who, up[t].mail)
    /\ byAccount' = [byAccount EXCEPT ![up[t].id] = up[t].who]
    /\ byEmail' = IF up[t].mail = NoOne THEN byEmail
                  ELSE [byEmail EXCEPT ![t][up[t].mail] = up[t].who]
    /\ GoTo(t, "dedup")
    /\ UNCHANGED <<docs, pending, flushed, boundVars>>

-----------------------------------------------------------------------------
(* rehome_person: read the edges, merge them onto the canonical Person,    *)
(* delete the stub with whatever edges it has by then.                     *)
MutItemEdges(p) == [acts |-> {x \in Item : <<x, p>> \in acts}, maps |-> {}]
MutMappings(p) == [acts |-> {}, maps |-> {x \in Account : <<x, p>> \in maps}]
EdgesOf(p) == [acts |-> {x \in Item : <<x, p>> \in acts},
               maps |-> {x \in Account : <<x, p>> \in maps}]

ReadEdges(t) ==
    /\ Doing(t, "fold")
    /\ up' = [up EXCEPT ![t].pc = "copy", ![t].rels = EdgesOf(up[t].stale)]
    /\ UNCHANGED <<graphVars, docs, cacheVars, histVars, boundVars>>

CopyEdges(t) ==
    /\ Doing(t, "copy")
    /\ LET rels == up[t].rels
           who == up[t].who
           some == rels.acts # {} \/ rels.maps # {}
       IN /\ acts' = acts \cup (rels.acts \X {who})
          /\ maps' = maps \cup (rels.maps \X {who})
          /\ Ensure(IF some THEN {who} ELSE {})
          /\ Touches(t, IF some THEN {who} ELSE {})
    /\ GoTo(t, "delete")
    /\ UNCHANGED <<email, docs, cacheVars, said, mapped, boundVars>>

(* After a reroute, the caches and the pending mappings that name the stub *)
(* are pointed at the owner.                                               *)
MutRepoint(t, stale, owner, e) ==
    /\ byEmail' = [byEmail EXCEPT ![t] = [f \in Email |->
           IF f = e \/ byEmail[t][f] = stale THEN owner ELSE byEmail[t][f]]]
    /\ flushed' = [flushed EXCEPT ![t] = @ \ {stale}]
    /\ UNCHANGED <<byAccount, pending>>
Repoint(t, stale, owner, e) ==
    /\ byAccount' = [a \in Account |->
           IF ResolverOf[a] = t /\ byAccount[a] = stale THEN owner ELSE byAccount[a]]
    /\ byEmail' = [byEmail EXCEPT ![t] = [f \in Email |->
           IF f = e \/ byEmail[t][f] = stale THEN owner ELSE byEmail[t][f]]]
    /\ flushed' = [flushed EXCEPT ![t] = @ \ {stale}]
    /\ pending' = [pending EXCEPT ![t] =
           {<<m[1], IF m[2] = stale THEN owner ELSE m[2]>> : m \in @}]

DeleteStub(t) ==
    /\ Doing(t, "delete")
    /\ LET stale == up[t].stale IN
       /\ live' = live \ {stale}
       /\ email' = [email EXCEPT ![stale] = NoOne]
       /\ acts' = {x \in acts : x[2] # stale}
       /\ maps' = {x \in maps : x[2] # stale}
       /\ IF up[t].why = "reroute"
          THEN /\ Repoint(t, stale, up[t].who, up[t].mail) /\ GoTo(t, "greet")
               /\ folder' = [folder EXCEPT ![stale] = t]
          ELSE UNCHANGED <<cacheVars, folder>> /\ GoTo(t, "map")
    /\ UNCHANGED <<docs, said, mapped, raced, boundVars>>

(* The owner is merged once more, without the email.                       *)
Greet(t) ==
    /\ Doing(t, "greet")
    /\ MergePerson(up[t].who, NoOne)
    /\ GoTo(t, "dedup")
    /\ UNCHANGED <<docs, cacheVars, boundVars>>

(* _handle_person folds the stub a content signal may have left under the  *)
(* signal's own id.                                                        *)
Dedup(t) ==
    /\ Doing(t, "dedup")
    /\ IF up[t].who = up[t].id THEN GoTo(t, "map")
       ELSE StartFold(t, up[t].id, up[t].who, "dedup")
    /\ UNCHANGED <<graphVars, docs, cacheVars, histVars, boundVars>>

(* queue_identity_mapping: one per Person and cache.                       *)
QueueMapping(t) ==
    /\ Doing(t, "map")
    /\ pending' = [pending EXCEPT ![t] =
           IF up[t].who \in flushed[t] \/ \E m \in @ : m[1] = up[t].id THEN @
           ELSE @ \cup {<<up[t].id, up[t].who>>}]
    /\ GoTo(t, "flush")
    /\ UNCHANGED <<graphVars, docs, byAccount, byEmail, flushed, histVars, boundVars>>

(* flush_identity_mappings after every signal, then the acknowledgement.   *)
WriteMappings(t) ==
    LET people == {m[2] : m \in pending[t]} IN
    /\ maps' = maps \cup pending[t]
    /\ Ensure(people) /\ Touches(t, people)
    /\ flushed' = [flushed EXCEPT ![t] = @ \cup people]
    /\ mapped' = mapped \cup {m[1] : m \in pending[t]}
Flush(t) ==
    /\ Doing(t, "flush")
    /\ WriteMappings(t)
    /\ pending' = [pending EXCEPT ![t] = {}]
    /\ said' = [i \in Item |-> IF up[t].id = i THEN up[t].names ELSE said[i]]
    /\ GoTo(t, IF up[t].id \in Account THEN "index" ELSE "idle")
    /\ UNCHANGED <<email, acts, docs, byAccount, byEmail, boundVars>>

(* Elasticsearch: a new document under the signal's own id, or an update   *)
(* of the canonical one; a failure is logged.                              *)
IndexPerson(t) ==
    /\ Doing(t, "index")
    /\ up' = [up EXCEPT ![t] = Resting]
    /\ \/ docs' = IF up[t].who = up[t].id THEN docs \cup {up[t].id} ELSE docs
       \/ docs' = docs
    /\ UNCHANGED <<graphVars, cacheVars, histVars, boundVars>>

-----------------------------------------------------------------------------
(* A content signal: the item and who interacts with it.                   *)
TakeContent(t, i, names) ==
    /\ Doing(t, "idle") /\ ItemQueue[i] = t
    /\ signals < MaxSignals /\ signals' = signals + 1
    /\ said' = [said EXCEPT ![i] = {}]
    /\ up' = [up EXCEPT ![t] = [Resting EXCEPT !.pc = IF names = {} THEN "flush" ELSE "resolve",
                                            !.id = i, !.names = names]]
    /\ UNCHANGED <<graphVars, docs, cacheVars, mapped, folder, raced, failures>>

(* _batch_resolve_targets: Atlassian accounts by IdentityMapping, then by  *)
(* Person id, Jira's first; otherwise the account's own id.                *)
Resolutions(a) ==
    LET twins == Twins[a]
        Mapped(b) == {m[2] : m \in {n \in maps : n[1] = b}}
        IsFirst(n, S) == n \in S /\ \A k \in S : n <= k
        mappedAt == {n \in DOMAIN twins : Mapped(twins[n]) # {}}
        liveAt == {n \in DOMAIN twins : twins[n] \in live}
    IN IF mappedAt # {} THEN UNION {Mapped(twins[n]) : n \in {k \in mappedAt : IsFirst(k, mappedAt)}}
       ELSE IF liveAt # {} THEN {twins[n] : n \in {k \in liveAt : IsFirst(k, liveAt)}}
       ELSE {a}

Resolve(t) ==
    /\ Doing(t, "resolve")
    /\ \E target \in [up[t].names -> Account] :
          /\ \A a \in up[t].names : target[a] \in Resolutions(a)
          /\ up' = [up EXCEPT ![t].pc = "clear", ![t].targets = Range(target)]
    /\ UNCHANGED <<graphVars, docs, cacheVars, histVars, boundVars>>

(* replace_snapshot_interaction_relationships: delete, then write.         *)
Clear(t) ==
    /\ Doing(t, "clear")
    /\ acts' = {x \in acts : x[1] # up[t].id}
    /\ GoTo(t, "write")
    /\ UNCHANGED <<live, email, maps, docs, cacheVars, histVars, boundVars>>

WriteActs(t) ==
    /\ Doing(t, "write")
    /\ acts' = acts \cup ({up[t].id} \X up[t].targets)
    /\ Ensure(up[t].targets) /\ Touches(t, up[t].targets)
    /\ GoTo(t, "flush")
    /\ UNCHANGED <<email, maps, docs, cacheVars, said, mapped, boundVars>>

-----------------------------------------------------------------------------
(* A query fails, or a merge meets the unique email.  The message goes to  *)
(* the dead letter queue, what the caches know stays; but a failed reroute *)
(* is logged, and the cached Person kept.                                  *)
Rerouting(t) == up[t].why = "reroute" /\ up[t].pc \in {"fold", "copy", "delete"}
Rejects(t) ==
    /\ up[t].pc \in {"owner", "email", "twin", "fold", "copy", "delete", "merge", "flush",
                     "resolve", "clear", "write"}
    /\ ~ Rerouting(t)
    /\ failures < MaxFailures /\ failures' = failures + 1
    /\ up' = [up EXCEPT ![t] = Resting]
    /\ UNCHANGED <<graphVars, docs, cacheVars, histVars, signals>>

EmailTaken(t) ==
    /\ Doing(t, "merge") /\ ~ MayMerge(up[t].who, up[t].mail)
    /\ up' = [up EXCEPT ![t] = Resting]
    /\ UNCHANGED <<graphVars, docs, cacheVars, histVars, boundVars>>

RerouteFails(t) ==
    /\ Rerouting(t)
    /\ failures < MaxFailures /\ failures' = failures + 1
    /\ byEmail' = [byEmail EXCEPT ![t][up[t].mail] = up[t].stale]
    /\ Settle(t, "upgrade", up[t].stale)
    /\ UNCHANGED <<graphVars, docs, byAccount, pending, flushed, histVars, signals>>

UpgradeFails(t) ==
    /\ up[t].pc \in {"upgrade", "greet"}
    /\ failures < MaxFailures /\ failures' = failures + 1
    /\ GoTo(t, "dedup")
    /\ UNCHANGED <<graphVars, docs, cacheVars, histVars, signals>>

(* The consumer process restarts; messages in work are delivered again.    *)
RestartTask ==
    /\ failures < MaxFailures /\ failures' = failures + 1
    /\ up' = [t \in Resolver |-> Resting]
    /\ byAccount' = [a \in Account |-> NoOne]
    /\ byEmail' = [t \in Resolver |-> [e \in Email |-> NoOne]]
    /\ pending' = [t \in Resolver |-> {}] /\ flushed' = [t \in Resolver |-> {}]
    /\ UNCHANGED <<graphVars, docs, histVars, signals>>

PersonStep(t) ==
    \/ \E a \in Account, e \in Email \cup {NoOne} : TakePerson(t, a, e)
    \/ FindOwner(t) \/ Upgrade(t) \/ FindByEmail(t) \/ FindByTwin(t) \/ MergeFound(t)
    \/ ReadEdges(t) \/ CopyEdges(t) \/ DeleteStub(t) \/ Greet(t) \/ Dedup(t)
    \/ QueueMapping(t) \/ Flush(t) \/ IndexPerson(t)
    \/ Rejects(t) \/ EmailTaken(t) \/ RerouteFails(t) \/ UpgradeFails(t)

ContentStep(t) ==
    \/ \E i \in Item : \E names \in SUBSET Namable[i] : TakeContent(t, i, names)
    \/ Resolve(t) \/ Clear(t) \/ WriteActs(t)

PeopleNext == RestartTask \/ \E t \in Resolver : PersonStep(t) \/ ContentStep(t)
PeopleSpec == PeopleInit /\ [][PeopleNext]_peopleVars

-----------------------------------------------------------------------------
(* What an acknowledged content signal said of an item stays in the graph: *)
(* folds move edges and lose none, but those written to a Person while     *)
(* another task folds it.                                                  *)
InteractionsSurvive ==
    ~ raced => \A i \in Item : said[i] # {} => \E p \in live : <<i, p>> \in acts

(* An account whose IdentityMapping was written stays mapped to a Person,  *)
(* through any folds; a Person signal is acknowledged when its account has *)
(* one, or its Person had one from this cache before.                      *)
AccountsStayMapped ==
    /\ ~ raced => \A a \in mapped : \E p \in live : <<a, p>> \in maps
    /\ \A t \in Resolver : Doing(t, "index") =>
          up[t].id \in mapped \/ up[t].who \in flushed[t]

(* No cache names a Person that its own task has folded into the owner of  *)
(* its email, until somebody creates that Person again.                    *)
CachesForgetTheFolded ==
    \A p \in Account : \A t \in Resolver : folder[p] = t =>
        /\ \A a \in Account : ResolverOf[a] = t => byAccount[a] # p
        /\ \A e \in Email : byEmail[t][e] # p
        /\ \A m \in pending[t] : m[2] # p
        /\ p \notin flushed[t]
=============================================================================
