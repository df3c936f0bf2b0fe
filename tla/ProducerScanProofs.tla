-------------------------- MODULE ProducerScanProofs --------------------------
(***************************************************************************)
(* Proofs about the three scans, for any items, people, permits and        *)
(* bounds: what the cursor promises, that everyone a signal names is       *)
(* introduced, that parents come first, and that an exhausted retry budget *)
(* leaves the cursor.                                                      *)
(*                                                                         *)
(* NothingMissed is not inductive: it says of the old cursor what a scan   *)
(* must already know of the new one.  The strengthening says of every item *)
(* edited before the scan began that the scan has dealt with it, or will:  *)
(* it is in a part not listed yet, in a job, a page or a fetched record    *)
(* (JobsAreReal, SnapshotsAreReal, TodoIsReal: as the provider has it now, *)
(* unless it was edited after the scan began, so that the next scan lists  *)
(* it).  What is older than the window was dealt with before, because      *)
(* nobody else moves the cursor (TimesAreOrdered).                         *)
(***************************************************************************)
EXTENDS GitHubScan, JiraScan, ConfluenceScan, FiniteSetTheorems, TLAPS

-----------------------------------------------------------------------------
(* What every scan has.                                                    *)

\* The variables of ProducerScan that the other parts calculate with.
ScanTypes ==
    /\ now \in Nat /\ started \in Nat
    /\ item \in [Item -> [rev : Nat, at : Nat]]
    /\ emitted \in [Item -> Nat]
    /\ cursor \in Nat \cup {Never} /\ last \in Nat \cup {Never}

\* Nothing is dated in the future; no revision goes out before it exists; a
\* scan begins after the cursor it read, which nobody else moves.
TimesAreOrdered ==
    /\ \A x \in Item : item[x].at <= now /\ emitted[x] <= item[x].rev
    /\ cursor # Never => cursor <= now
    /\ phase # "idle" =>
           last = cursor /\ started <= now /\ (cursor # Never => cursor <= started)

\* Whom the tracker has claimed with a profile has been dealt with.
ClaimsAreSettled == profiles \subseteq settled /\ sighted \subseteq settled

\* The error of an exhausted budget reaches the handler of the resource.
BudgetEndsTheScan == timedOut => phase = "failed"

LEMMA PublishOne ==
  ASSUME emitted \in [Item -> Nat], NEW x \in Item, NEW r \in Nat,
         Publish({<<x, r>>})
  PROVE  emitted' = [emitted EXCEPT ![x] = Latest(emitted[x], r)]
  <1>1. (CHOOSE e \in {<<x, r>>} : e[1] = x) = <<x, r>>
    OBVIOUS
  <1>2. \A y \in Item : (\E e \in {<<x, r>>} : e[1] = y) <=> y = x
    OBVIOUS
  <1>3. emitted' = [y \in Item |-> IF y = x THEN Latest(emitted[x], r) ELSE emitted[y]]
    BY <1>1, <1>2 DEF Publish
  <1> QED
    BY <1>3

-----------------------------------------------------------------------------
(* Jira.                                                                   *)

JobStates == {"none", "wait", "comments", "publish", "done", "left"}
Waiting(x) == job[x].st \in {"wait", "comments", "publish"}

JiraTypes ==
    /\ phase \in {"idle", "projects", "list", "entities", "stubs", "advance", "failed"}
    /\ level \in 1 .. 3
    /\ job \in [Entity -> [st : JobStates, rev : Nat]]
    /\ mapped \in SUBSET Entity
    /\ partOf \in SUBSET (Entity \X Entity)

\* The levels are scanned in their order.
LevelsAreOrdered ==
    /\ phase \in {"idle", "projects"} => level = 1
    /\ phase \in {"stubs", "advance"} => level = 3

\* A task works on an entity of the level, on a revision that was the latest
\* when the level was listed.
JobsAreReal ==
    \A x \in Entity : Waiting(x) =>
        /\ phase \in {"entities", "failed"} /\ Level[x] = level
        /\ 0 < job[x].rev /\ job[x].rev <= item[x].rev
        /\ job[x].rev = item[x].rev \/ started <= item[x].at

\* What was edited before the scan began has been published or dropped, or a
\* task waits to do it, or its level is still to come.
Ahead(x) ==
    phase = "projects" \/ Level[x] > level \/ (phase = "list" /\ Level[x] = level)
DoneWith(x) == emitted[x] = item[x].rev \/ Seen(x) \in skipped \cup lost
WindowIsHandled ==
    phase \in {"projects", "list", "entities", "stubs", "advance"} =>
        \A x \in Entity : Known(x) /\ item[x].at < started =>
            DoneWith(x) \/ Waiting(x) \/ Ahead(x)

\* What may become a parent has been published or had no valid signal, unless
\* its level still runs.
MappedGoOut ==
    \A x \in mapped :
        /\ Level[x] <= level /\ Level[x] < 3
        /\ Level[x] = level => phase \in {"entities", "failed"}
        /\ \/ emitted[x] > 0 \/ LeftOut(x) \/ Waiting(x)
           \/ Level[x] = level /\ phase = "failed"

JiraInv ==
    /\ ScanTypes /\ JiraTypes /\ TimesAreOrdered /\ LevelsAreOrdered /\ JobsAreReal
    /\ WindowIsHandled /\ JiraMissesNothing

LEMMA StartOfJira ==
  JiraStart => /\ JiraInv /\ MappedGoOut
               /\ ClaimsAreSettled /\ BudgetEndsTheScan
  <1> SUFFICES ASSUME JiraInit, NEW S \in SUBSET Item, ProducerInit(S)
               PROVE  /\ JiraInv /\ MappedGoOut
                      /\ ClaimsAreSettled /\ BudgetEndsTheScan
    BY DEF JiraStart
  <1> USE ScanBounds, JiraHierarchy DEF JiraInit, ProducerInit, NoJobs
  <1>1. ScanTypes /\ JiraTypes /\ ClaimsAreSettled /\ BudgetEndsTheScan
    BY DEF ScanTypes, JiraTypes, JobStates, ClaimsAreSettled, BudgetEndsTheScan
  <1>2. TimesAreOrdered /\ LevelsAreOrdered /\ JobsAreReal /\ WindowIsHandled
    BY DEF TimesAreOrdered, LevelsAreOrdered, JobsAreReal, WindowIsHandled, Waiting
  <1>3. JiraMissesNothing /\ MappedGoOut
    BY DEF JiraMissesNothing, NothingMissed, MappedGoOut
  <1> QED BY <1>1, <1>2, <1>3 DEF JiraInv

LEMMA JiraStepTypes ==
  ScanTypes /\ JiraTypes
    /\ [JiraNext]_<<producerVars, jiraVars>> => (ScanTypes /\ JiraTypes)'
  <1> DEFINE Goal == (ScanTypes /\ JiraTypes)'
  <1> SUFFICES ASSUME ScanTypes /\ JiraTypes,
                      [JiraNext]_<<producerVars, jiraVars>>
               PROVE  Goal
    OBVIOUS
  <1> USE ScanBounds, JiraHierarchy DEF ScanTypes, JiraTypes, JobStates, Goto,
          Drop, BudgetExhausted, EndProcess, AbortScan, MoveCursor, BeginScan,
          EndJobs, JobTo, Working, Introduce, Claim, worldVars, trackVars,
          scanVars, storeVars, jiraVars, jiraRunVars, NoJobs
  <1>1. CASE Tick /\ UNCHANGED jiraVars
    BY <1>1 DEF Tick
  <1>2. ASSUME NEW x \in Entity, EditEntity(x) PROVE Goal
    BY <1>2 DEF EditEntity, Edit, Edited
  <1>3. ASSUME NEW x \in Entity, BeginEntity(x) PROVE Goal
    BY <1>3 DEF BeginEntity
  <1>4. ASSUME NEW x \in Entity, FetchComments(x) PROVE Goal
    BY <1>4 DEF FetchComments
  <1>5. ASSUME NEW x \in Entity, PublishEntity(x) PROVE Goal
    <2>1. emitted' = [emitted EXCEPT ![x] = Latest(emitted[x], job[x].rev)]
      BY <1>5, PublishOne DEF PublishEntity
    <2>2. emitted' \in [Item -> Nat]
      BY <2>1 DEF Latest
    <2>3. ParentLinks(x) \in SUBSET (Entity \X Entity)
      BY DEF ParentLinks
    <2>4. /\ partOf' = partOf \cup ParentLinks(x)
          /\ job' = [job EXCEPT ![x].st = "done"]
          /\ UNCHANGED <<now, started, item, cursor, last, phase, level, mapped>>
      BY <1>5 DEF PublishEntity
    <2> QED BY <2>2, <2>3, <2>4
  <1>6. ASSUME NEW x \in Entity, EntityFails(x) PROVE Goal
    BY <1>6 DEF EntityFails
  <1>7. ASSUME NEW x \in Entity, EntityGivesUp(x) PROVE Goal
    BY <1>7 DEF EntityGivesUp
  <1>8. CASE StartJira
    BY <1>8 DEF StartJira
  <1>9. CASE PublishProjects
    BY <1>9 DEF PublishProjects
  <1>10. CASE ListLevel
    <2>1. PICK batch \in SUBSET LevelWindow :
            /\ job' = [x \in Entity |-> IF x \in batch
                                        THEN [st |-> "wait", rev |-> item[x].rev]
                                        ELSE job[x]]
            /\ mapped' = IF level < 3 THEN mapped \cup batch ELSE mapped
            /\ phase' = "entities"
            /\ UNCHANGED <<started, last>>
      BY <1>10 DEF ListLevel
    <2>2. batch \in SUBSET Entity
      BY DEF LevelWindow
    <2>3. job' \in [Entity -> [st : JobStates, rev : Nat]]
      BY <2>1
    <2>4. UNCHANGED <<now, item, emitted, cursor, level, partOf>>
      BY <1>10 DEF ListLevel
    <2> QED BY <2>1, <2>2, <2>3, <2>4
  <1>11. CASE LevelDone
    BY <1>11 DEF LevelDone
  <1>12. CASE LookUpStubs
    BY <1>12 DEF LookUpStubs
  <1>13. CASE GiveUpJira
    BY <1>13 DEF GiveUpJira
  <1>14. CASE ErrorJira
    BY <1>14 DEF ErrorJira
  <1>15. CASE FailAccount
    BY <1>15 DEF FailAccount
  <1>16. CASE FinishJira
    BY <1>16 DEF FinishJira
  <1>17. CASE KillJira
    BY <1>17 DEF KillJira
  <1>18. CASE UNCHANGED <<producerVars, jiraVars>>
    BY <1>18 DEF producerVars
  <1>19. ASSUME NEW x \in Entity, SkipEntity(x) PROVE Goal
    BY <1>19 DEF SkipEntity
  <1> QED
    BY <1>1, <1>2, <1>3, <1>4, <1>5, <1>6, <1>7, <1>8, <1>9,
       <1>10, <1>11, <1>12, <1>13, <1>14, <1>15, <1>16, <1>17, <1>18, <1>19
       DEF JiraNext, EntityStep

LEMMA JiraStepTimes ==
  ScanTypes /\ JiraTypes /\ TimesAreOrdered /\ JobsAreReal
    /\ [JiraNext]_<<producerVars, jiraVars>> => TimesAreOrdered'
  <1> SUFFICES ASSUME ScanTypes /\ JiraTypes /\ TimesAreOrdered /\ JobsAreReal,
                      [JiraNext]_<<producerVars, jiraVars>>
               PROVE  TimesAreOrdered'
    OBVIOUS
  <1> USE ScanBounds, JiraHierarchy DEF ScanTypes, JiraTypes, TimesAreOrdered,
          Goto, Drop, BudgetExhausted, EndProcess, AbortScan, MoveCursor,
          BeginScan, EndJobs, JobTo, Working, Introduce, Claim, worldVars,
          trackVars, scanVars, storeVars, jiraVars, jiraRunVars, NoJobs
  <1>1. CASE Tick /\ UNCHANGED jiraVars
    BY <1>1 DEF Tick
  <1>2. ASSUME NEW x \in Entity, EditEntity(x) PROVE TimesAreOrdered'
    BY <1>2 DEF EditEntity, Edit, Edited
  <1>3. ASSUME NEW x \in Entity, BeginEntity(x) PROVE TimesAreOrdered'
    BY <1>3 DEF BeginEntity
  <1>4. ASSUME NEW x \in Entity, FetchComments(x) PROVE TimesAreOrdered'
    BY <1>4 DEF FetchComments
  <1>5. ASSUME NEW x \in Entity, PublishEntity(x) PROVE TimesAreOrdered'
    <2>1. emitted' = [emitted EXCEPT ![x] = Latest(emitted[x], job[x].rev)]
      BY <1>5, PublishOne DEF PublishEntity
    <2>2. job[x].rev <= item[x].rev
      BY <1>5 DEF PublishEntity, JobsAreReal, Waiting
    <2>3. \A y \in Item : emitted'[y] <= item[y].rev
      BY <2>1, <2>2 DEF Latest
    <2> QED BY <1>5, <2>3 DEF PublishEntity
  <1>6. ASSUME NEW x \in Entity, EntityFails(x) PROVE TimesAreOrdered'
    BY <1>6 DEF EntityFails
  <1>7. ASSUME NEW x \in Entity, EntityGivesUp(x) PROVE TimesAreOrdered'
    BY <1>7 DEF EntityGivesUp
  <1>8. CASE StartJira
    BY <1>8 DEF StartJira
  <1>9. CASE PublishProjects
    BY <1>9 DEF PublishProjects
  <1>10. CASE ListLevel
    BY <1>10 DEF ListLevel
  <1>11. CASE LevelDone
    BY <1>11 DEF LevelDone
  <1>12. CASE LookUpStubs
    BY <1>12 DEF LookUpStubs
  <1>13. CASE GiveUpJira
    BY <1>13 DEF GiveUpJira
  <1>14. CASE ErrorJira
    BY <1>14 DEF ErrorJira
  <1>15. CASE FailAccount
    BY <1>15 DEF FailAccount
  <1>16. CASE FinishJira
    BY <1>16 DEF FinishJira
  <1>17. CASE KillJira
    BY <1>17 DEF KillJira
  <1>18. CASE UNCHANGED <<producerVars, jiraVars>>
    BY <1>18 DEF producerVars
  <1>19. ASSUME NEW x \in Entity, SkipEntity(x) PROVE TimesAreOrdered'
    BY <1>19 DEF SkipEntity
  <1> QED
    BY <1>1, <1>2, <1>3, <1>4, <1>5, <1>6, <1>7, <1>8, <1>9,
       <1>10, <1>11, <1>12, <1>13, <1>14, <1>15, <1>16, <1>17, <1>18, <1>19
       DEF JiraNext, EntityStep

LEMMA JiraStepLevels ==
  JiraTypes /\ LevelsAreOrdered
    /\ [JiraNext]_<<producerVars, jiraVars>> => LevelsAreOrdered'
  <1> SUFFICES ASSUME JiraTypes /\ LevelsAreOrdered,
                      [JiraNext]_<<producerVars, jiraVars>>
               PROVE  LevelsAreOrdered'
    OBVIOUS
  <1> USE DEF JiraTypes, LevelsAreOrdered, Goto, Drop, BudgetExhausted,
          EndProcess, AbortScan, MoveCursor, BeginScan, EndJobs, JobTo,
          Working, Introduce, Claim, worldVars, trackVars, scanVars,
          storeVars, jiraVars, jiraRunVars, NoJobs
  <1>1. CASE Tick /\ UNCHANGED jiraVars
    BY <1>1 DEF Tick
  <1>2. ASSUME NEW x \in Entity, EditEntity(x) PROVE LevelsAreOrdered'
    BY <1>2 DEF EditEntity, Edit, Edited
  <1>3. ASSUME NEW x \in Entity, BeginEntity(x) PROVE LevelsAreOrdered'
    BY <1>3 DEF BeginEntity
  <1>4. ASSUME NEW x \in Entity, FetchComments(x) PROVE LevelsAreOrdered'
    BY <1>4 DEF FetchComments
  <1>5. ASSUME NEW x \in Entity, PublishEntity(x) PROVE LevelsAreOrdered'
    BY <1>5 DEF PublishEntity
  <1>6. ASSUME NEW x \in Entity, EntityFails(x) PROVE LevelsAreOrdered'
    BY <1>6 DEF EntityFails
  <1>7. ASSUME NEW x \in Entity, EntityGivesUp(x) PROVE LevelsAreOrdered'
    BY <1>7 DEF EntityGivesUp
  <1>8. CASE StartJira
    BY <1>8 DEF StartJira
  <1>9. CASE PublishProjects
    BY <1>9 DEF PublishProjects
  <1>10. CASE ListLevel
    BY <1>10 DEF ListLevel
  <1>11. CASE LevelDone
    BY <1>11 DEF LevelDone
  <1>12. CASE LookUpStubs
    BY <1>12 DEF LookUpStubs
  <1>13. CASE GiveUpJira
    BY <1>13 DEF GiveUpJira
  <1>14. CASE ErrorJira
    BY <1>14 DEF ErrorJira
  <1>15. CASE FailAccount
    BY <1>15 DEF FailAccount
  <1>16. CASE FinishJira
    BY <1>16 DEF FinishJira
  <1>17. CASE KillJira
    BY <1>17 DEF KillJira
  <1>18. CASE UNCHANGED <<producerVars, jiraVars>>
    BY <1>18 DEF producerVars
  <1>19. ASSUME NEW x \in Entity, SkipEntity(x) PROVE LevelsAreOrdered'
    BY <1>19 DEF SkipEntity
  <1> QED
    BY <1>1, <1>2, <1>3, <1>4, <1>5, <1>6, <1>7, <1>8, <1>9,
       <1>10, <1>11, <1>12, <1>13, <1>14, <1>15, <1>16, <1>17, <1>18, <1>19
       DEF JiraNext, EntityStep

LEMMA JiraStepJobs ==
  ScanTypes /\ JiraTypes /\ TimesAreOrdered /\ LevelsAreOrdered /\ JobsAreReal
    /\ [JiraNext]_<<producerVars, jiraVars>> => JobsAreReal'
  <1> SUFFICES ASSUME ScanTypes /\ JiraTypes /\ TimesAreOrdered /\ LevelsAreOrdered /\ JobsAreReal,
                      [JiraNext]_<<producerVars, jiraVars>>
               PROVE  JobsAreReal'
    OBVIOUS
  <1> USE ScanBounds, JiraHierarchy DEF ScanTypes, JiraTypes,
          LevelsAreOrdered, JobsAreReal, Waiting, Goto, Drop, BudgetExhausted,
          EndProcess, AbortScan, MoveCursor, BeginScan, EndJobs, JobTo,
          Working, Introduce, Claim, worldVars, trackVars, scanVars,
          storeVars, jiraVars, jiraRunVars, NoJobs
  <1>1. CASE Tick /\ UNCHANGED jiraVars
    BY <1>1 DEF Tick
  <1>2. ASSUME NEW x \in Entity, EditEntity(x) PROVE JobsAreReal'
    <2>1. /\ item' = [y \in Item |-> IF y \in {x} THEN [rev |-> item[y].rev + 1, at |-> now]
                                            ELSE item[y]]
          /\ UNCHANGED <<phase, started, level, job>>
      BY <1>2 DEF EditEntity, Edit, Edited
    <2>2. phase # "idle" => started <= now
      BY DEF TimesAreOrdered
    <2> QED BY <2>1, <2>2
  <1>3. ASSUME NEW x \in Entity, BeginEntity(x) PROVE JobsAreReal'
    BY <1>3 DEF BeginEntity
  <1>4. ASSUME NEW x \in Entity, FetchComments(x) PROVE JobsAreReal'
    BY <1>4 DEF FetchComments
  <1>5. ASSUME NEW x \in Entity, PublishEntity(x) PROVE JobsAreReal'
    BY <1>5 DEF PublishEntity
  <1>6. ASSUME NEW x \in Entity, EntityFails(x) PROVE JobsAreReal'
    BY <1>6 DEF EntityFails
  <1>7. ASSUME NEW x \in Entity, EntityGivesUp(x) PROVE JobsAreReal'
    BY <1>7 DEF EntityGivesUp
  <1>8. CASE StartJira
    BY <1>8 DEF StartJira
  <1>9. CASE PublishProjects
    BY <1>9 DEF PublishProjects
  <1>10. CASE ListLevel
    <2>1. PICK batch \in SUBSET LevelWindow :
            /\ job' = [x \in Entity |-> IF x \in batch
                                        THEN [st |-> "wait", rev |-> item[x].rev]
                                        ELSE job[x]]
            /\ phase' = "entities"
      BY <1>10 DEF ListLevel
    <2>2. \A x \in batch : Level[x] = level /\ item[x].rev > 0
      BY DEF LevelWindow, Known
    <2>3. UNCHANGED <<item, level, started>>
      BY <1>10 DEF ListLevel
    <2> QED BY <2>1, <2>2, <2>3
  <1>11. CASE LevelDone
    BY <1>11 DEF LevelDone
  <1>12. CASE LookUpStubs
    BY <1>12 DEF LookUpStubs
  <1>13. CASE GiveUpJira
    BY <1>13 DEF GiveUpJira
  <1>14. CASE ErrorJira
    BY <1>14 DEF ErrorJira
  <1>15. CASE FailAccount
    BY <1>15 DEF FailAccount
  <1>16. CASE FinishJira
    BY <1>16 DEF FinishJira
  <1>17. CASE KillJira
    BY <1>17 DEF KillJira
  <1>18. CASE UNCHANGED <<producerVars, jiraVars>>
    BY <1>18 DEF producerVars
  <1>19. ASSUME NEW x \in Entity, SkipEntity(x) PROVE JobsAreReal'
    BY <1>19 DEF SkipEntity
  <1> QED
    BY <1>1, <1>2, <1>3, <1>4, <1>5, <1>6, <1>7, <1>8, <1>9,
       <1>10, <1>11, <1>12, <1>13, <1>14, <1>15, <1>16, <1>17, <1>18, <1>19
       DEF JiraNext, EntityStep

LEMMA JiraStepSettled ==
  ClaimsAreSettled
    /\ [JiraNext]_<<producerVars, jiraVars>> => ClaimsAreSettled'
  <1> SUFFICES ASSUME ClaimsAreSettled,
                      [JiraNext]_<<producerVars, jiraVars>>
               PROVE  ClaimsAreSettled'
    OBVIOUS
  <1> USE DEF ClaimsAreSettled, ClaimedProfiles, Goto, Drop, BudgetExhausted,
          EndProcess, AbortScan, MoveCursor, BeginScan, EndJobs, JobTo,
          Working, Introduce, Claim, worldVars, trackVars, scanVars,
          storeVars, jiraVars, jiraRunVars, NoJobs
  <1>1. CASE Tick /\ UNCHANGED jiraVars
    BY <1>1 DEF Tick
  <1>2. ASSUME NEW x \in Entity, EditEntity(x) PROVE ClaimsAreSettled'
    BY <1>2 DEF EditEntity, Edit, Edited
  <1>3. ASSUME NEW x \in Entity, BeginEntity(x) PROVE ClaimsAreSettled'
    BY <1>3 DEF BeginEntity
  <1>4. ASSUME NEW x \in Entity, FetchComments(x) PROVE ClaimsAreSettled'
    BY <1>4 DEF FetchComments
  <1>5. ASSUME NEW x \in Entity, PublishEntity(x) PROVE ClaimsAreSettled'
    BY <1>5 DEF PublishEntity
  <1>6. ASSUME NEW x \in Entity, EntityFails(x) PROVE ClaimsAreSettled'
    BY <1>6 DEF EntityFails
  <1>7. ASSUME NEW x \in Entity, EntityGivesUp(x) PROVE ClaimsAreSettled'
    BY <1>7 DEF EntityGivesUp
  <1>8. CASE StartJira
    BY <1>8 DEF StartJira
  <1>9. CASE PublishProjects
    BY <1>9 DEF PublishProjects
  <1>10. CASE ListLevel
    BY <1>10 DEF ListLevel
  <1>11. CASE LevelDone
    BY <1>11 DEF LevelDone
  <1>12. CASE LookUpStubs
    BY <1>12 DEF LookUpStubs
  <1>13. CASE GiveUpJira
    BY <1>13 DEF GiveUpJira
  <1>14. CASE ErrorJira
    BY <1>14 DEF ErrorJira
  <1>15. CASE FailAccount
    BY <1>15 DEF FailAccount
  <1>16. CASE FinishJira
    BY <1>16 DEF FinishJira
  <1>17. CASE KillJira
    BY <1>17 DEF KillJira
  <1>18. CASE UNCHANGED <<producerVars, jiraVars>>
    BY <1>18 DEF producerVars
  <1>19. ASSUME NEW x \in Entity, SkipEntity(x) PROVE ClaimsAreSettled'
    BY <1>19 DEF SkipEntity
  <1> QED
    BY <1>1, <1>2, <1>3, <1>4, <1>5, <1>6, <1>7, <1>8, <1>9,
       <1>10, <1>11, <1>12, <1>13, <1>14, <1>15, <1>16, <1>17, <1>18, <1>19
       DEF JiraNext, EntityStep

LEMMA JiraStepBudget ==
  BudgetEndsTheScan
    /\ [JiraNext]_<<producerVars, jiraVars>> => BudgetEndsTheScan'
  <1> SUFFICES ASSUME BudgetEndsTheScan,
                      [JiraNext]_<<producerVars, jiraVars>>
               PROVE  BudgetEndsTheScan'
    OBVIOUS
  <1> USE DEF BudgetEndsTheScan, Goto, Drop, BudgetExhausted, EndProcess,
          AbortScan, MoveCursor, BeginScan, EndJobs, JobTo, Working,
          Introduce, Claim, worldVars, trackVars, scanVars, storeVars,
          jiraVars, jiraRunVars, NoJobs
  <1>1. CASE Tick /\ UNCHANGED jiraVars
    BY <1>1 DEF Tick
  <1>2. ASSUME NEW x \in Entity, EditEntity(x) PROVE BudgetEndsTheScan'
    BY <1>2 DEF EditEntity, Edit, Edited
  <1>3. ASSUME NEW x \in Entity, BeginEntity(x) PROVE BudgetEndsTheScan'
    BY <1>3 DEF BeginEntity
  <1>4. ASSUME NEW x \in Entity, FetchComments(x) PROVE BudgetEndsTheScan'
    BY <1>4 DEF FetchComments
  <1>5. ASSUME NEW x \in Entity, PublishEntity(x) PROVE BudgetEndsTheScan'
    BY <1>5 DEF PublishEntity
  <1>6. ASSUME NEW x \in Entity, EntityFails(x) PROVE BudgetEndsTheScan'
    BY <1>6 DEF EntityFails
  <1>7. ASSUME NEW x \in Entity, EntityGivesUp(x) PROVE BudgetEndsTheScan'
    BY <1>7 DEF EntityGivesUp
  <1>8. CASE StartJira
    BY <1>8 DEF StartJira
  <1>9. CASE PublishProjects
    BY <1>9 DEF PublishProjects
  <1>10. CASE ListLevel
    BY <1>10 DEF ListLevel
  <1>11. CASE LevelDone
    BY <1>11 DEF LevelDone
  <1>12. CASE LookUpStubs
    BY <1>12 DEF LookUpStubs
  <1>13. CASE GiveUpJira
    BY <1>13 DEF GiveUpJira
  <1>14. CASE ErrorJira
    BY <1>14 DEF ErrorJira
  <1>15. CASE FailAccount
    BY <1>15 DEF FailAccount
  <1>16. CASE FinishJira
    BY <1>16 DEF FinishJira
  <1>17. CASE KillJira
    BY <1>17 DEF KillJira
  <1>18. CASE UNCHANGED <<producerVars, jiraVars>>
    BY <1>18 DEF producerVars
  <1>19. ASSUME NEW x \in Entity, SkipEntity(x) PROVE BudgetEndsTheScan'
    BY <1>19 DEF SkipEntity
  <1> QED
    BY <1>1, <1>2, <1>3, <1>4, <1>5, <1>6, <1>7, <1>8, <1>9,
       <1>10, <1>11, <1>12, <1>13, <1>14, <1>15, <1>16, <1>17, <1>18, <1>19
       DEF JiraNext, EntityStep

LEMMA JiraStepWindow ==
  JiraInv
    /\ [JiraNext]_<<producerVars, jiraVars>> => (WindowIsHandled /\ JiraMissesNothing)'
  <1> DEFINE Goal == (WindowIsHandled /\ JiraMissesNothing)'
  <1> SUFFICES ASSUME JiraInv,
                      [JiraNext]_<<producerVars, jiraVars>>
               PROVE  Goal
    OBVIOUS
  <1> USE ScanBounds, JiraHierarchy DEF JiraInv, ScanTypes, JiraTypes,
          WindowIsHandled, JiraMissesNothing, NothingMissed, DoneWith, Seen,
          Known, Waiting, Ahead, Goto, Drop, BudgetExhausted, EndProcess,
          AbortScan, MoveCursor, BeginScan, EndJobs, JobTo, Working,
          Introduce, Claim, worldVars, trackVars, scanVars, storeVars,
          jiraVars, jiraRunVars, NoJobs
  <1>1. CASE Tick /\ UNCHANGED jiraVars
    BY <1>1 DEF Tick
  <1>2. ASSUME NEW x \in Entity, EditEntity(x) PROVE Goal
    <2>1. /\ item' = [y \in Item |-> IF y \in {x} THEN [rev |-> item[y].rev + 1, at |-> now]
                                            ELSE item[y]]
          /\ UNCHANGED <<phase, started, level, job, emitted, skipped, lost, cursor>>
      BY <1>2 DEF EditEntity, Edit, Edited
    <2>2. /\ phase # "idle" => started <= now
          /\ cursor # Never => cursor <= now
      BY DEF TimesAreOrdered
    <2> QED BY <2>1, <2>2
  <1>3. ASSUME NEW x \in Entity, BeginEntity(x) PROVE Goal
    BY <1>3 DEF BeginEntity
  <1>4. ASSUME NEW x \in Entity, FetchComments(x) PROVE Goal
    <2>1. /\ job' = [job EXCEPT ![x].st = "publish"] /\ job[x].st = "comments"
          /\ skipped \subseteq skipped'
          /\ UNCHANGED <<phase, started, level, item, emitted, lost, cursor>>
      BY <1>4 DEF FetchComments
    <2> QED BY <2>1
  <1>5. ASSUME NEW x \in Entity, PublishEntity(x) PROVE Goal
    <2>1. emitted' = [emitted EXCEPT ![x] = Latest(emitted[x], job[x].rev)]
      BY <1>5, PublishOne DEF PublishEntity
    <2>2. /\ job' = [job EXCEPT ![x].st = "done"] /\ job[x].st = "publish"
          /\ UNCHANGED <<phase, started, level, item, skipped, lost, cursor>>
      BY <1>5 DEF PublishEntity
    <2>3. /\ job[x].rev <= item[x].rev
          /\ job[x].rev = item[x].rev \/ started <= item[x].at
          /\ emitted[x] <= item[x].rev
      BY <2>2 DEF JobsAreReal, TimesAreOrdered
    <2>4. /\ emitted[x] = item[x].rev => emitted'[x] = item[x].rev
          /\ item[x].at < started => emitted'[x] = item[x].rev
      BY <2>1, <2>3 DEF Latest
    <2>5. \A y \in Entity \ {x} : emitted'[y] = emitted[y] /\ job'[y] = job[y]
      BY <2>1, <2>2
    <2>6. \A y \in Entity : DoneWith(y) => DoneWith(y)'
      BY <2>2, <2>4, <2>5
    <2>7. WindowIsHandled'
      BY <2>2, <2>4, <2>5, <2>6
    <2>8. JiraMissesNothing'
      <3>1. \A y \in Entity : emitted[y] = item[y].rev => emitted'[y] = item[y].rev
        BY <2>4, <2>5
      <3> QED BY <2>2, <3>1
    <2> QED BY <2>7, <2>8
  <1>6. ASSUME NEW x \in Entity, EntityFails(x) PROVE Goal
    <2>1. /\ job' = [job EXCEPT ![x].st = "done"] /\ Waiting(x)
          /\ skipped \subseteq skipped'
          /\ UNCHANGED <<started, level, item, emitted, lost, cursor>>
      BY <1>6 DEF EntityFails, AtWork
    <2>2. /\ job[x].rev = item[x].rev \/ started <= item[x].at
          /\ phase \in {"entities", "failed"}
      BY <2>1 DEF JobsAreReal
    <2>3. phase' = "failed" \/ (phase' = phase /\ <<x, job[x].rev>> \in skipped')
      BY <1>6 DEF EntityFails
    <2>4. \A y \in Entity \ {x} : job'[y] = job[y]
      BY <2>1
    <2>5. \A y \in Entity : DoneWith(y) => DoneWith(y)'
      BY <2>1
    <2>6. ASSUME phase' # "failed", item[x].at < started PROVE DoneWith(x)'
      <3>1. job[x].rev = item[x].rev
        BY <2>2, <2>6
      <3>2. <<x, item[x].rev>> \in skipped'
        BY <2>3, <2>6, <3>1
      <3>3. item' = item
        BY <2>1
      <3> QED BY ONLY <3>2, <3>3 DEF DoneWith, Seen
    <2>7. WindowIsHandled'
      BY <2>1, <2>3, <2>4, <2>5, <2>6
    <2> QED BY <2>1, <2>7
  <1>7. ASSUME NEW x \in Entity, EntityGivesUp(x) PROVE Goal
    BY <1>7 DEF EntityGivesUp
  <1>8. CASE StartJira
    BY <1>8 DEF StartJira
  <1>9. CASE PublishProjects
    BY <1>9 DEF PublishProjects, LevelsAreOrdered
  <1>10. CASE ListLevel
    <2>1. PICK batch \in SUBSET LevelWindow :
            /\ job' = [x \in Entity |-> IF x \in batch
                                        THEN [st |-> "wait", rev |-> item[x].rev]
                                        ELSE job[x]]
            /\ phase' = "entities"
            /\ skipped' = skipped \cup {Seen(x) : x \in LevelWindow \ batch}
      BY <1>10 DEF ListLevel
    <2>2. phase = "list" /\ UNCHANGED <<item, level, started, emitted, lost, cursor>>
      BY <1>10 DEF ListLevel
    <2>3. ASSUME NEW x \in Entity, Known(x), item[x].at < started
          PROVE  (DoneWith(x) \/ Waiting(x) \/ Ahead(x))'
      <3>1. CASE Level[x] # level
        <4>1. DoneWith(x) \/ Level[x] > level
          BY <2>2, <2>3, <3>1 DEF JobsAreReal
        <4> QED BY <4>1, <2>1, <2>2
      <3>2. CASE Level[x] = level /\ item[x].at < Since
        <4>1. cursor # Never /\ item[x].at < cursor
          BY <3>2, <2>2 DEF Since, TimesAreOrdered
        <4>2. DoneWith(x)
          BY <4>1, <2>3
        <4> QED BY <4>2, <2>1, <2>2
      <3>3. CASE Level[x] = level /\ item[x].at >= Since
        <4>1. x \in LevelWindow
          BY <3>3, <2>3 DEF LevelWindow
        <4>2. CASE x \in batch
          BY <4>2, <2>1
        <4>3. CASE x \notin batch
          <5>1. Seen(x) \in skipped'
            BY <4>1, <4>3, <2>1
          <5> QED BY <5>1, <2>2
        <4> QED BY <4>2, <4>3
      <3>4. Since \in Nat
        BY DEF Since
      <3> QED BY <3>1, <3>2, <3>3, <3>4
    <2>4. WindowIsHandled'
      BY <2>2, <2>3
    <2>5. JiraMissesNothing'
      BY <2>1, <2>2
    <2> QED BY <2>4, <2>5
  <1>11. CASE LevelDone
    <2>1. \A x \in Entity : ~Waiting(x)
      BY <1>11 DEF LevelDone
    <2>2. /\ phase = "entities" /\ phase' = (IF level < 3 THEN "list" ELSE "stubs")
          /\ level' = (IF level < 3 THEN level + 1 ELSE level)
          /\ skipped \subseteq skipped'
          /\ UNCHANGED <<item, started, emitted, lost, cursor, job>>
      BY <1>11 DEF LevelDone
    <2> QED BY <2>1, <2>2
  <1>12. CASE LookUpStubs
    BY <1>12 DEF LookUpStubs
  <1>13. CASE GiveUpJira
    BY <1>13 DEF GiveUpJira
  <1>14. CASE ErrorJira
    BY <1>14 DEF ErrorJira
  <1>15. CASE FailAccount
    BY <1>15 DEF FailAccount
  <1>16. CASE FinishJira
    <2>1. /\ phase = "advance" /\ level = 3
          /\ phase' = "idle" /\ cursor' = started /\ lost' = lost \cup skipped
          /\ UNCHANGED <<item, emitted>>
      BY <1>16 DEF FinishJira, LevelsAreOrdered
    <2>2. \A x \in Entity : ~Waiting(x) /\ ~Ahead(x)
      BY <2>1 DEF JobsAreReal
    <2>3. \A x \in Entity : Known(x) /\ item[x].at < started => DoneWith(x)
      BY <2>1, <2>2
    <2> QED BY <2>1, <2>3
  <1>17. CASE KillJira
    BY <1>17 DEF KillJira
  <1>18. CASE UNCHANGED <<producerVars, jiraVars>>
    BY <1>18 DEF producerVars
  <1>19. ASSUME NEW x \in Entity, SkipEntity(x) PROVE Goal
    <2>1. /\ job' = [job EXCEPT ![x].st = "left"] /\ Waiting(x)
          /\ skipped' = skipped \cup {<<x, job[x].rev>>}
          /\ UNCHANGED <<phase, started, level, item, emitted, lost, cursor>>
      BY <1>19 DEF SkipEntity
    <2>2. job[x].rev = item[x].rev \/ started <= item[x].at
      BY <2>1 DEF JobsAreReal
    <2>3. \A y \in Entity \ {x} : job'[y] = job[y]
      BY <2>1
    <2>4. \A y \in Entity : DoneWith(y) => DoneWith(y)'
      BY <2>1
    <2>5. ASSUME item[x].at < started PROVE DoneWith(x)'
      <3>1. job[x].rev = item[x].rev
        BY <2>2, <2>5
      <3>2. <<x, item[x].rev>> \in skipped' /\ item' = item
        BY <2>1, <3>1
      <3> QED BY ONLY <3>2 DEF DoneWith, Seen
    <2>6. WindowIsHandled'
      BY <2>1, <2>3, <2>4, <2>5
    <2> QED BY <2>1, <2>6
  <1> QED
    BY <1>1, <1>2, <1>3, <1>4, <1>5, <1>6, <1>7, <1>8, <1>9,
       <1>10, <1>11, <1>12, <1>13, <1>14, <1>15, <1>16, <1>17, <1>18, <1>19
       DEF JiraNext, EntityStep

LEMMA JiraStepMapped ==
  JiraInv /\ MappedGoOut
    /\ [JiraNext]_<<producerVars, jiraVars>> => MappedGoOut'
  <1> SUFFICES ASSUME JiraInv /\ MappedGoOut,
                      [JiraNext]_<<producerVars, jiraVars>>
               PROVE  MappedGoOut'
    OBVIOUS
  <1> USE ScanBounds, JiraHierarchy DEF JiraInv, ScanTypes, JiraTypes,
          LevelsAreOrdered, MappedGoOut, LeftOut, Waiting,
          Goto, Drop, BudgetExhausted, EndProcess, AbortScan, MoveCursor,
          BeginScan, EndJobs, JobTo, Working, Introduce, Claim, worldVars,
          trackVars, scanVars, storeVars, jiraVars, jiraRunVars, NoJobs
  <1>1. CASE Tick /\ UNCHANGED jiraVars
    BY <1>1 DEF Tick
  <1>2. ASSUME NEW x \in Entity, EditEntity(x) PROVE MappedGoOut'
    BY <1>2 DEF EditEntity, Edit, Edited
  <1>3. ASSUME NEW x \in Entity, BeginEntity(x) PROVE MappedGoOut'
    BY <1>3 DEF BeginEntity
  <1>4. ASSUME NEW x \in Entity, FetchComments(x) PROVE MappedGoOut'
    BY <1>4 DEF FetchComments
  <1>5. ASSUME NEW x \in Entity, PublishEntity(x) PROVE MappedGoOut'
    <2>1. emitted' = [emitted EXCEPT ![x] = Latest(emitted[x], job[x].rev)]
      BY <1>5, PublishOne DEF PublishEntity
    <2>2. /\ job' = [job EXCEPT ![x].st = "done"] /\ job[x].st = "publish"
          /\ UNCHANGED <<phase, level, mapped>>
      BY <1>5 DEF PublishEntity
    <2>3. 0 < job[x].rev
      BY <2>2 DEF JobsAreReal
    <2>4. emitted'[x] > 0 /\ \A y \in Item : emitted[y] > 0 => emitted'[y] > 0
      BY <2>1, <2>3 DEF Latest
    <2> QED BY <2>2, <2>4
  <1>6. ASSUME NEW x \in Entity, EntityFails(x) PROVE MappedGoOut'
    <2>1. /\ job' = [job EXCEPT ![x].st = "done"] /\ Waiting(x)
          /\ UNCHANGED <<level, emitted, mapped>>
      BY <1>6 DEF EntityFails, AtWork
    <2>2. Level[x] = level /\ phase \in {"entities", "failed"}
      BY <2>1 DEF JobsAreReal
    <2>3. (Level[x] = 3 /\ phase' = phase) \/ phase' = "failed"
      BY <1>6 DEF EntityFails
    <2>4. Level[x] = 3 => x \notin mapped
      OBVIOUS
    <2> QED BY <2>1, <2>2, <2>3, <2>4
  <1>7. ASSUME NEW x \in Entity, EntityGivesUp(x) PROVE MappedGoOut'
    BY <1>7 DEF EntityGivesUp, JobsAreReal
  <1>8. CASE StartJira
    BY <1>8 DEF StartJira
  <1>9. CASE PublishProjects
    BY <1>9 DEF PublishProjects
  <1>10. CASE ListLevel
    <2>1. PICK batch \in SUBSET LevelWindow :
            /\ job' = [x \in Entity |-> IF x \in batch
                                        THEN [st |-> "wait", rev |-> item[x].rev]
                                        ELSE job[x]]
            /\ mapped' = IF level < 3 THEN mapped \cup batch ELSE mapped
            /\ phase' = "entities"
      BY <1>10 DEF ListLevel
    <2>2. phase = "list" /\ UNCHANGED <<item, level, emitted>>
      BY <1>10 DEF ListLevel
    <2>3. \A x \in batch : x \in Entity /\ Level[x] = level
      BY DEF LevelWindow
    <2>4. \A x \in mapped : Level[x] < level /\ (emitted[x] > 0 \/ LeftOut(x))
      BY <2>2 DEF JobsAreReal
    <2> QED BY <2>1, <2>2, <2>3, <2>4
  <1>11. CASE LevelDone
    <2>1. \A x \in Entity : ~Waiting(x)
      BY <1>11 DEF LevelDone
    <2>2. /\ phase = "entities" /\ phase' = (IF level < 3 THEN "list" ELSE "stubs")
          /\ level' = (IF level < 3 THEN level + 1 ELSE level)
          /\ UNCHANGED <<emitted, job, mapped>>
      BY <1>11 DEF LevelDone
    <2>3. \A x \in mapped : emitted[x] > 0 \/ LeftOut(x)
      BY <2>1, <2>2
    <2> QED BY <2>2, <2>3
  <1>12. CASE LookUpStubs
    BY <1>12 DEF LookUpStubs
  <1>13. CASE GiveUpJira
    BY <1>13 DEF GiveUpJira
  <1>14. CASE ErrorJira
    BY <1>14 DEF ErrorJira
  <1>15. CASE FailAccount
    BY <1>15 DEF FailAccount
  <1>16. CASE FinishJira
    BY <1>16 DEF FinishJira
  <1>17. CASE KillJira
    BY <1>17 DEF KillJira
  <1>18. CASE UNCHANGED <<producerVars, jiraVars>>
    BY <1>18 DEF producerVars
  <1>19. ASSUME NEW x \in Entity, SkipEntity(x) PROVE MappedGoOut'
    BY <1>19 DEF SkipEntity
  <1> QED
    BY <1>1, <1>2, <1>3, <1>4, <1>5, <1>6, <1>7, <1>8, <1>9,
       <1>10, <1>11, <1>12, <1>13, <1>14, <1>15, <1>16, <1>17, <1>18, <1>19
       DEF JiraNext, EntityStep

\* Only the publication of a child adds a link.
LEMMA JiraStepLinks ==
  JiraInv /\ MappedGoOut /\ [JiraNext]_<<producerVars, jiraVars>>
    => \A e \in partOf' \ partOf : emitted[e[2]] > 0 \/ LeftOut(e[2])
  <1> SUFFICES ASSUME JiraInv, MappedGoOut, [JiraNext]_<<producerVars, jiraVars>>
               PROVE  \A e \in partOf' \ partOf : emitted[e[2]] > 0 \/ LeftOut(e[2])
    OBVIOUS
  <1>1. UNCHANGED partOf \/ \E x \in Entity : PublishEntity(x)
    BY DEF JiraNext, EntityStep, EditEntity, BeginEntity, FetchComments, SkipEntity,
           EntityFails, EntityGivesUp, StartJira, PublishProjects, ListLevel, LevelDone,
           LookUpStubs, GiveUpJira, ErrorJira, FailAccount, FinishJira, KillJira, jiraVars
  <1>2. ASSUME NEW x \in Entity, PublishEntity(x), Parent[x] \in mapped
        PROVE  emitted[Parent[x]] > 0 \/ LeftOut(Parent[x])
    <2>1. phase \in {"entities", "failed"} /\ job[x].st = "publish"
      BY <1>2 DEF PublishEntity, Working
    <2>2. level = Level[x]
      BY <2>1 DEF JiraInv, JobsAreReal, Waiting
    <2>3. Parent[x] \in Entity /\ Level[Parent[x]] = level - 1 /\ level \in 1 .. 3
      BY <1>2, <2>2, JiraHierarchy DEF JiraInv, JiraTypes
    <2>4. ~Waiting(Parent[x])
      BY <2>3 DEF JiraInv, JobsAreReal
    <2> QED BY <1>2, <2>3, <2>4 DEF MappedGoOut
  <1>3. ASSUME NEW x \in Entity, PublishEntity(x), NEW e \in partOf' \ partOf
        PROVE  emitted[e[2]] > 0 \/ LeftOut(e[2])
    <2>1. Parent[x] \in mapped /\ e = <<x, Parent[x]>>
      BY <1>3 DEF PublishEntity, ParentLinks
    <2> QED BY <1>2, <1>3, <2>1
  <1> QED BY <1>1, <1>3

LEMMA JiraInvHolds == JiraSpec => [](JiraInv /\ MappedGoOut)
  <1>1. JiraInv /\ MappedGoOut /\ [JiraNext]_<<producerVars, jiraVars>>
          => (JiraInv /\ MappedGoOut)'
    BY JiraStepTypes, JiraStepTimes, JiraStepLevels, JiraStepJobs, JiraStepWindow,
       JiraStepMapped DEF JiraInv
  <1> QED
    BY StartOfJira, <1>1, PTL DEF JiraSpec

\* No edit of an initiative, an epic or an issue falls between two scans of
\* the account, for any hierarchy, any number of permits and any edits and
\* failures while the scans run: what was edited before the cursor is out as
\* it is, or was dropped by an error that the producer logs.
THEOREM JiraScansMissNothing == JiraSpec => []JiraMissesNothing
  BY JiraInvHolds, PTL DEF JiraInv

\* A link goes out to a parent that is out already, or whose signal was not
\* valid: the tasks of a level run in any order, some of them fail, and a failed
\* level is followed by no other.
THEOREM ParentsComeFirst == JiraSpec => ParentsArePublishedFirst
  BY JiraInvHolds, JiraStepLinks, PTL DEF JiraSpec, ParentsArePublishedFirst

\* Whoever a scan met with a profile has been published with it when the
\* cursor is about to move, unless the publisher failed.
THEOREM JiraPublishesProfiles == JiraSpec => []ProfilesReachTheGraph
  <1>1. ClaimsAreSettled => ProfilesReachTheGraph
    BY DEF ClaimsAreSettled, ProfilesReachTheGraph
  <1> QED
    BY <1>1, StartOfJira, JiraStepSettled, PTL DEF JiraSpec

\* A scan whose retry budget ran out, at whatever depth, leaves the cursor.
THEOREM JiraBudgetKeepsCursor == JiraSpec => ExhaustedBudgetKeepsCursor
  <1>1. BudgetEndsTheScan /\ [JiraNext]_<<producerVars, jiraVars>>
          => [timedOut => cursor' = cursor]_producerVars
    <2> SUFFICES ASSUME BudgetEndsTheScan, timedOut,
                        [JiraNext]_<<producerVars, jiraVars>>
                 PROVE  cursor' = cursor
      OBVIOUS
    <2>1. phase # "advance"
      BY DEF BudgetEndsTheScan
    <2>2. cursor' = cursor \/ FinishJira
      BY DEF JiraNext, EntityStep, Tick, EditEntity, Edit, BeginEntity, FetchComments,
             PublishEntity, SkipEntity, EntityFails, EntityGivesUp, StartJira,
             PublishProjects, ListLevel, LevelDone, LookUpStubs, GiveUpJira, ErrorJira, FailAccount,
             KillJira, AbortScan, BudgetExhausted, BeginScan, producerVars, storeVars
    <2> QED BY <2>1, <2>2 DEF FinishJira, MoveCursor
  <1> QED
    BY <1>1, StartOfJira, JiraStepBudget, PTL
       DEF JiraSpec, ExhaustedBudgetKeepsCursor

-----------------------------------------------------------------------------
(* Confluence.                                                             *)

ConfluenceTypes ==
    /\ phase \in {"idle", "spaces", "pages", "people", "advance", "failed"}
    /\ talk \in [Page -> Nat] /\ heard \in [Page -> Nat]
    /\ spaces \in SUBSET Space
    /\ pages \in SUBSET [id : Page, rev : Nat, at : Nat]
    /\ gap \in BOOLEAN

\* The last pages of the last space are through before the people go out.
SpacesAreOrdered ==
    /\ \A x \in Page : talk[x] <= now
    /\ phase \in {"people", "advance"} => spaces = {} /\ pages = {}
    /\ ~gap /\ phase # "idle" =>
           started <= (IF last = Never THEN 0 ELSE last) + Lookback

\* A listed page is of the window, and was the latest when it was listed.
SnapshotsAreReal ==
    \A c \in pages :
        /\ phase # "idle" /\ SinceDate <= c.at
        /\ c.rev <= item[c.id].rev
        /\ \/ c.rev = item[c.id].rev /\ c.at = item[c.id].at
           \/ started <= item[c.id].at

InScan == phase \in {"spaces", "pages", "people", "advance"}

\* The scan has not come to the page.
ToCome(x) ==
    phase = "spaces" \/ SpaceOf[x] \in spaces \/ \E c \in pages : c.id = x

PagesAreHandled ==
    InScan /\ ~gap =>
        \A x \in Page : Known(x) /\ item[x].at < started => DoneWith(x) \/ ToCome(x)

TalkIsHandled ==
    InScan =>
        \A x \in Page :
            Known(x) /\ SinceDate <= item[x].at /\ item[x].at < started /\ talk[x] < started =>
                heard[x] = talk[x] \/ ToCome(x)

ConfluenceInv ==
    /\ ScanTypes /\ ConfluenceTypes /\ TimesAreOrdered /\ SpacesAreOrdered
    /\ SnapshotsAreReal /\ PagesAreHandled /\ ConfluenceMissesNothing
    /\ TalkIsHandled /\ CommentsAreHeard

LEMMA StartOfConfluence ==
  ConfluenceStart => ConfluenceInv /\ BudgetEndsTheScan
  <1> SUFFICES ASSUME ConfluenceInit, NEW S \in SUBSET Item, ProducerInit(S)
               PROVE  ConfluenceInv /\ BudgetEndsTheScan
    BY DEF ConfluenceStart
  <1> USE ScanBounds, SpacesHavePages DEF ConfluenceInit, ProducerInit
  <1>1. ScanTypes /\ ConfluenceTypes /\ BudgetEndsTheScan
    BY DEF ScanTypes, ConfluenceTypes, BudgetEndsTheScan
  <1>2. TimesAreOrdered /\ SpacesAreOrdered /\ SnapshotsAreReal
    BY DEF TimesAreOrdered, SpacesAreOrdered, SnapshotsAreReal
  <1>3. PagesAreHandled /\ ConfluenceMissesNothing /\ TalkIsHandled /\ CommentsAreHeard
    BY DEF PagesAreHandled, InScan, ConfluenceMissesNothing, NothingMissed,
           TalkIsHandled, CommentsAreHeard
  <1> QED BY <1>1, <1>2, <1>3 DEF ConfluenceInv

LEMMA ConfluenceStepTypes ==
  ScanTypes /\ ConfluenceTypes
    /\ [ConfluenceNext]_<<producerVars, confluenceVars>>
    => (ScanTypes /\ ConfluenceTypes)'
  <1> DEFINE Goal == (ScanTypes /\ ConfluenceTypes)'
  <1> SUFFICES ASSUME ScanTypes /\ ConfluenceTypes,
                      [ConfluenceNext]_<<producerVars, confluenceVars>>
               PROVE  Goal
    OBVIOUS
  <1> USE ScanBounds, SpacesHavePages DEF ScanTypes, ConfluenceTypes, Goto,
          Drop, BudgetExhausted, EndProcess, AbortScan, MoveCursor, BeginScan,
          EndPages, worldVars, trackVars, scanVars, storeVars, producerVars,
          confluenceVars, confluenceRunVars
  <1>1. CASE Tick /\ UNCHANGED confluenceVars
    BY <1>1 DEF Tick
  <1>2. ASSUME NEW x \in Page, EditPage(x) PROVE Goal
    BY <1>2 DEF EditPage, Edit, Edited
  <1>3. ASSUME NEW x \in Page, Comment(x) PROVE Goal
    BY <1>3 DEF Comment
  <1>4. CASE StartConfluence
    BY <1>4 DEF StartConfluence
  <1>5. CASE ListSpaces
    BY <1>5 DEF ListSpaces
  <1>6. ASSUME NEW s \in Space, ListSpace(s) PROVE Goal
    <2>1. {[id |-> x, rev |-> item[x].rev, at |-> item[x].at] : x \in InWindow(s)}
            \in SUBSET [id : Page, rev : Nat, at : Nat]
      BY DEF InWindow
    <2>2. pages' \in SUBSET [id : Page, rev : Nat, at : Nat]
      BY <1>6, <2>1 DEF ListSpace
    <2>3. heard' \in [Page -> Nat]
      BY <1>6 DEF ListSpace
    <2> QED BY <1>6, <2>2, <2>3 DEF ListSpace
  <1>7. ASSUME NEW c \in pages, PublishPage(c) PROVE Goal
    <2>1. emitted' = emitted \/ emitted' = [emitted EXCEPT ![c.id] = Latest(emitted[c.id], c.rev)]
      BY <1>7, PublishOne DEF PublishPage
    <2>2. emitted' \in [Item -> Nat]
      BY <2>1 DEF Latest
    <2> QED BY <1>7, <2>2 DEF PublishPage
  <1>8. CASE SpacesDone
    BY <1>8 DEF SpacesDone
  <1>9. CASE PublishPeople
    BY <1>9 DEF PublishPeople
  <1>10. CASE GiveUpConfluence
    BY <1>10 DEF GiveUpConfluence
  <1>11. CASE ErrorConfluence
    BY <1>11 DEF ErrorConfluence
  <1>12. CASE FailConfluence
    BY <1>12 DEF FailConfluence
  <1>13. CASE FinishConfluence
    BY <1>13 DEF FinishConfluence
  <1>14. CASE KillConfluence
    BY <1>14 DEF KillConfluence
  <1>15. CASE UNCHANGED <<producerVars, confluenceVars>>
    BY <1>15
  <1>16. ASSUME NEW c \in pages, SkipPage(c) PROVE Goal
    BY <1>16 DEF SkipPage
  <1> QED
    BY <1>1, <1>2, <1>3, <1>4, <1>5, <1>6, <1>7, <1>8, <1>9,
       <1>10, <1>11, <1>12, <1>13, <1>14, <1>15, <1>16
       DEF ConfluenceNext

LEMMA ConfluenceStepTimes ==
  ScanTypes /\ ConfluenceTypes /\ TimesAreOrdered /\ SnapshotsAreReal
    /\ [ConfluenceNext]_<<producerVars, confluenceVars>> => TimesAreOrdered'
  <1> SUFFICES ASSUME ScanTypes /\ ConfluenceTypes /\ TimesAreOrdered /\ SnapshotsAreReal,
                      [ConfluenceNext]_<<producerVars, confluenceVars>>
               PROVE  TimesAreOrdered'
    OBVIOUS
  <1> USE ScanBounds, SpacesHavePages DEF ScanTypes, ConfluenceTypes,
          TimesAreOrdered, Goto, Drop, BudgetExhausted, EndProcess, AbortScan,
          MoveCursor, BeginScan, EndPages, worldVars, trackVars, scanVars,
          storeVars, producerVars, confluenceVars, confluenceRunVars
  <1>1. CASE Tick /\ UNCHANGED confluenceVars
    BY <1>1 DEF Tick
  <1>2. ASSUME NEW x \in Page, EditPage(x) PROVE TimesAreOrdered'
    BY <1>2 DEF EditPage, Edit, Edited
  <1>3. ASSUME NEW x \in Page, Comment(x) PROVE TimesAreOrdered'
    BY <1>3 DEF Comment
  <1>4. CASE StartConfluence
    BY <1>4 DEF StartConfluence
  <1>5. CASE ListSpaces
    BY <1>5 DEF ListSpaces
  <1>6. ASSUME NEW s \in Space, ListSpace(s) PROVE TimesAreOrdered'
    BY <1>6 DEF ListSpace
  <1>7. ASSUME NEW c \in pages, PublishPage(c) PROVE TimesAreOrdered'
    <2>1. emitted' = emitted \/ emitted' = [emitted EXCEPT ![c.id] = Latest(emitted[c.id], c.rev)]
      BY <1>7, PublishOne DEF PublishPage
    <2>2. c.rev <= item[c.id].rev
      BY DEF SnapshotsAreReal
    <2>3. \A y \in Item : emitted'[y] <= item[y].rev
      BY <2>1, <2>2 DEF Latest
    <2> QED BY <1>7, <2>3 DEF PublishPage
  <1>8. CASE SpacesDone
    BY <1>8 DEF SpacesDone
  <1>9. CASE PublishPeople
    BY <1>9 DEF PublishPeople
  <1>10. CASE GiveUpConfluence
    BY <1>10 DEF GiveUpConfluence
  <1>11. CASE ErrorConfluence
    BY <1>11 DEF ErrorConfluence
  <1>12. CASE FailConfluence
    BY <1>12 DEF FailConfluence
  <1>13. CASE FinishConfluence
    BY <1>13 DEF FinishConfluence
  <1>14. CASE KillConfluence
    BY <1>14 DEF KillConfluence
  <1>15. CASE UNCHANGED <<producerVars, confluenceVars>>
    BY <1>15
  <1>16. ASSUME NEW c \in pages, SkipPage(c) PROVE TimesAreOrdered'
    BY <1>16 DEF SkipPage
  <1> QED
    BY <1>1, <1>2, <1>3, <1>4, <1>5, <1>6, <1>7, <1>8, <1>9,
       <1>10, <1>11, <1>12, <1>13, <1>14, <1>15, <1>16
       DEF ConfluenceNext

LEMMA ConfluenceStepSpaces ==
  ScanTypes /\ ConfluenceTypes /\ SpacesAreOrdered
    /\ [ConfluenceNext]_<<producerVars, confluenceVars>> => SpacesAreOrdered'
  <1> SUFFICES ASSUME ScanTypes /\ ConfluenceTypes /\ SpacesAreOrdered,
                      [ConfluenceNext]_<<producerVars, confluenceVars>>
               PROVE  SpacesAreOrdered'
    OBVIOUS
  <1> USE ScanBounds, SpacesHavePages DEF ScanTypes, ConfluenceTypes,
          SpacesAreOrdered, Goto, Drop, BudgetExhausted, EndProcess,
          AbortScan, MoveCursor, BeginScan, EndPages, worldVars, trackVars,
          scanVars, storeVars, producerVars, confluenceVars, confluenceRunVars
  <1>1. CASE Tick /\ UNCHANGED confluenceVars
    BY <1>1 DEF Tick
  <1>2. ASSUME NEW x \in Page, EditPage(x) PROVE SpacesAreOrdered'
    BY <1>2 DEF EditPage, Edit, Edited
  <1>3. ASSUME NEW x \in Page, Comment(x) PROVE SpacesAreOrdered'
    BY <1>3 DEF Comment
  <1>4. CASE StartConfluence
    <2> DEFINE base == IF cursor = Never THEN 0 ELSE cursor
    <2>1. ~gap' => ~(now > base + Lookback)
      BY <1>4 DEF StartConfluence
    <2>2. base \in Nat
      OBVIOUS
    <2>3. /\ last' = cursor /\ started' = now /\ phase' = "spaces"
          /\ UNCHANGED <<now, talk>>
      BY <1>4 DEF StartConfluence
    <2>4. ~gap' => started' <= (IF last' = Never THEN 0 ELSE last') + Lookback
      BY <2>1, <2>2, <2>3
    <2> QED BY <2>3, <2>4
  <1>5. CASE ListSpaces
    BY <1>5 DEF ListSpaces
  <1>6. ASSUME NEW s \in Space, ListSpace(s) PROVE SpacesAreOrdered'
    BY <1>6 DEF ListSpace
  <1>7. ASSUME NEW c \in pages, PublishPage(c) PROVE SpacesAreOrdered'
    BY <1>7 DEF PublishPage
  <1>8. CASE SpacesDone
    BY <1>8 DEF SpacesDone
  <1>9. CASE PublishPeople
    BY <1>9 DEF PublishPeople
  <1>10. CASE GiveUpConfluence
    BY <1>10 DEF GiveUpConfluence
  <1>11. CASE ErrorConfluence
    BY <1>11 DEF ErrorConfluence
  <1>12. CASE FailConfluence
    BY <1>12 DEF FailConfluence
  <1>13. CASE FinishConfluence
    BY <1>13 DEF FinishConfluence
  <1>14. CASE KillConfluence
    BY <1>14 DEF KillConfluence
  <1>15. CASE UNCHANGED <<producerVars, confluenceVars>>
    BY <1>15
  <1>16. ASSUME NEW c \in pages, SkipPage(c) PROVE SpacesAreOrdered'
    BY <1>16 DEF SkipPage
  <1> QED
    BY <1>1, <1>2, <1>3, <1>4, <1>5, <1>6, <1>7, <1>8, <1>9,
       <1>10, <1>11, <1>12, <1>13, <1>14, <1>15, <1>16
       DEF ConfluenceNext

LEMMA ConfluenceStepSnapshots ==
  ScanTypes /\ ConfluenceTypes /\ TimesAreOrdered /\ SnapshotsAreReal
    /\ [ConfluenceNext]_<<producerVars, confluenceVars>> => SnapshotsAreReal'
  <1> SUFFICES ASSUME ScanTypes /\ ConfluenceTypes /\ TimesAreOrdered /\ SnapshotsAreReal,
                      [ConfluenceNext]_<<producerVars, confluenceVars>>
               PROVE  SnapshotsAreReal'
    OBVIOUS
  <1> USE ScanBounds, SpacesHavePages DEF ScanTypes, ConfluenceTypes,
          SnapshotsAreReal, SinceDate, Goto, Drop, BudgetExhausted,
          EndProcess, AbortScan, MoveCursor, BeginScan, EndPages, worldVars,
          trackVars, scanVars, storeVars, producerVars, confluenceVars,
          confluenceRunVars
  <1>1. CASE Tick /\ UNCHANGED confluenceVars
    BY <1>1 DEF Tick
  <1>2. ASSUME NEW x \in Page, EditPage(x) PROVE SnapshotsAreReal'
    <2>1. /\ item' = [y \in Item |-> IF y \in {x} THEN [rev |-> item[y].rev + 1, at |-> now]
                                            ELSE item[y]]
          /\ UNCHANGED <<phase, started, last, cursor, emitted, lost, skipped, spaces,
                         pages, talk, heard, gap>>
      BY <1>2 DEF EditPage, Edit, Edited
    <2>2. \A c \in pages : started <= now
      BY DEF TimesAreOrdered
    <2>3. ASSUME NEW c \in pages
          PROVE  /\ c.rev <= item'[c.id].rev
                 /\ \/ c.rev = item'[c.id].rev /\ c.at = item'[c.id].at
                    \/ started <= item'[c.id].at
      <3>1. c.id \in Page /\ c.rev \in Nat
        OBVIOUS
      <3> QED BY <2>1, <2>2, <3>1
    <2> QED BY <2>1, <2>3
  <1>3. ASSUME NEW x \in Page, Comment(x) PROVE SnapshotsAreReal'
    BY <1>3 DEF Comment
  <1>4. CASE StartConfluence
    BY <1>4 DEF StartConfluence
  <1>5. CASE ListSpaces
    BY <1>5 DEF ListSpaces
  <1>6. ASSUME NEW s \in Space, ListSpace(s) PROVE SnapshotsAreReal'
    <2> DEFINE new == {[id |-> x, rev |-> item[x].rev, at |-> item[x].at] : x \in InWindow(s)}
    <2>1. pages' = new \/ pages' = pages
      BY <1>6 DEF ListSpace
    <2>2. phase = "pages" /\ UNCHANGED <<phase, item, started>>
      BY <1>6 DEF ListSpace
    <2>3. \A c \in new : c.at >= SinceDate /\ c.rev = item[c.id].rev /\ c.at = item[c.id].at
      BY DEF InWindow
    <2>4. \A x \in Page : item[x].rev \in Nat /\ item[x].at \in Nat
      OBVIOUS
    <2> HIDE DEF new
    <2>5. CASE pages' = new
      <3>1. new \in SUBSET [id : Page, rev : Nat, at : Nat]
        BY DEF new, InWindow
      <3> QED BY <2>2, <2>3, <2>4, <2>5, <3>1
    <2> QED BY <2>1, <2>2, <2>5
  <1>7. ASSUME NEW c \in pages, PublishPage(c) PROVE SnapshotsAreReal'
    BY <1>7 DEF PublishPage
  <1>8. CASE SpacesDone
    BY <1>8 DEF SpacesDone
  <1>9. CASE PublishPeople
    BY <1>9 DEF PublishPeople
  <1>10. CASE GiveUpConfluence
    BY <1>10 DEF GiveUpConfluence
  <1>11. CASE ErrorConfluence
    BY <1>11 DEF ErrorConfluence
  <1>12. CASE FailConfluence
    BY <1>12 DEF FailConfluence
  <1>13. CASE FinishConfluence
    BY <1>13 DEF FinishConfluence
  <1>14. CASE KillConfluence
    BY <1>14 DEF KillConfluence
  <1>15. CASE UNCHANGED <<producerVars, confluenceVars>>
    BY <1>15
  <1>16. ASSUME NEW c \in pages, SkipPage(c) PROVE SnapshotsAreReal'
    BY <1>16 DEF SkipPage
  <1> QED
    BY <1>1, <1>2, <1>3, <1>4, <1>5, <1>6, <1>7, <1>8, <1>9,
       <1>10, <1>11, <1>12, <1>13, <1>14, <1>15, <1>16
       DEF ConfluenceNext

LEMMA ConfluenceStepBudget ==
  BudgetEndsTheScan
    /\ [ConfluenceNext]_<<producerVars, confluenceVars>> => BudgetEndsTheScan'
  <1> SUFFICES ASSUME BudgetEndsTheScan,
                      [ConfluenceNext]_<<producerVars, confluenceVars>>
               PROVE  BudgetEndsTheScan'
    OBVIOUS
  <1> USE DEF BudgetEndsTheScan, Goto, Drop, BudgetExhausted, EndProcess,
          AbortScan, MoveCursor, BeginScan, EndPages, worldVars, trackVars,
          scanVars, storeVars, producerVars, confluenceVars, confluenceRunVars
  <1>1. CASE Tick /\ UNCHANGED confluenceVars
    BY <1>1 DEF Tick
  <1>2. ASSUME NEW x \in Page, EditPage(x) PROVE BudgetEndsTheScan'
    BY <1>2 DEF EditPage, Edit, Edited
  <1>3. ASSUME NEW x \in Page, Comment(x) PROVE BudgetEndsTheScan'
    BY <1>3 DEF Comment
  <1>4. CASE StartConfluence
    BY <1>4 DEF StartConfluence
  <1>5. CASE ListSpaces
    BY <1>5 DEF ListSpaces
  <1>6. ASSUME NEW s \in Space, ListSpace(s) PROVE BudgetEndsTheScan'
    BY <1>6 DEF ListSpace
  <1>7. ASSUME NEW c \in pages, PublishPage(c) PROVE BudgetEndsTheScan'
    BY <1>7 DEF PublishPage
  <1>8. CASE SpacesDone
    BY <1>8 DEF SpacesDone
  <1>9. CASE PublishPeople
    BY <1>9 DEF PublishPeople
  <1>10. CASE GiveUpConfluence
    BY <1>10 DEF GiveUpConfluence
  <1>11. CASE ErrorConfluence
    BY <1>11 DEF ErrorConfluence
  <1>12. CASE FailConfluence
    BY <1>12 DEF FailConfluence
  <1>13. CASE FinishConfluence
    BY <1>13 DEF FinishConfluence
  <1>14. CASE KillConfluence
    BY <1>14 DEF KillConfluence
  <1>15. CASE UNCHANGED <<producerVars, confluenceVars>>
    BY <1>15
  <1>16. ASSUME NEW c \in pages, SkipPage(c) PROVE BudgetEndsTheScan'
    BY <1>16 DEF SkipPage
  <1> QED
    BY <1>1, <1>2, <1>3, <1>4, <1>5, <1>6, <1>7, <1>8, <1>9,
       <1>10, <1>11, <1>12, <1>13, <1>14, <1>15, <1>16
       DEF ConfluenceNext

LEMMA ConfluenceStepWindow ==
  ConfluenceInv
    /\ [ConfluenceNext]_<<producerVars, confluenceVars>>
    => (PagesAreHandled /\ ConfluenceMissesNothing)'
  <1> DEFINE Goal == (PagesAreHandled /\ ConfluenceMissesNothing)'
  <1> SUFFICES ASSUME ConfluenceInv,
                      [ConfluenceNext]_<<producerVars, confluenceVars>>
               PROVE  Goal
    OBVIOUS
  <1> USE ScanBounds, SpacesHavePages DEF ConfluenceInv, ScanTypes,
          ConfluenceTypes, PagesAreHandled, ConfluenceMissesNothing,
          NothingMissed, DoneWith, Seen, Known, ToCome, InScan, Goto, Drop,
          BudgetExhausted, EndProcess, AbortScan, MoveCursor, BeginScan,
          EndPages, worldVars, trackVars, scanVars, storeVars, producerVars,
          confluenceVars, confluenceRunVars
  <1>1. CASE Tick /\ UNCHANGED confluenceVars
    BY <1>1 DEF Tick
  <1>2. ASSUME NEW x \in Page, EditPage(x) PROVE Goal
    <2>1. /\ item' = [y \in Item |-> IF y \in {x} THEN [rev |-> item[y].rev + 1, at |-> now]
                                            ELSE item[y]]
          /\ UNCHANGED <<phase, started, last, cursor, emitted, lost, skipped, spaces,
                         pages, talk, heard, gap>>
      BY <1>2 DEF EditPage, Edit, Edited
    <2>2. /\ phase # "idle" => started <= now
          /\ cursor # Never => cursor <= now
      BY DEF TimesAreOrdered
    <2> QED BY <2>1, <2>2
  <1>3. ASSUME NEW x \in Page, Comment(x) PROVE Goal
    BY <1>3 DEF Comment
  <1>4. CASE StartConfluence
    <2>1. phase' = "spaces" /\ (gap => gap')
      BY <1>4 DEF StartConfluence
    <2>2. UNCHANGED <<item, emitted, lost, cursor>>
      BY <1>4 DEF StartConfluence
    <2> QED BY <2>1, <2>2
  <1>5. CASE ListSpaces
    BY <1>5 DEF ListSpaces
  <1>6. ASSUME NEW s \in Space, ListSpace(s) PROVE Goal
    <2> DEFINE new == {[id |-> x, rev |-> item[x].rev, at |-> item[x].at] : x \in InWindow(s)}
    <2>1. /\ phase = "pages" /\ pages = {} /\ spaces' = spaces \ {s}
          /\ UNCHANGED <<phase, item, started, last, emitted, lost, cursor, talk, gap>>
      BY <1>6 DEF ListSpace
    <2>2. \/ pages' = new /\ skipped' = skipped /\ heard' = heard
          \/ /\ skipped' = skipped \cup {Seen(x) : x \in InWindow(s)}
             /\ heard' = [x \in Page |-> IF x \in InWindow(s) THEN talk[x] ELSE heard[x]]
             /\ pages' = pages
      BY <1>6 DEF ListSpace
    <2>3. ASSUME NEW x \in InWindow(s) PROVE \E c \in new : c.id = x
      <3>1. [id |-> x, rev |-> item[x].rev, at |-> item[x].at] \in new
        OBVIOUS
      <3> QED BY <3>1
    <2> HIDE DEF new
    <2>4. ASSUME ~gap, NEW x \in Page, Known(x), item[x].at < started
          PROVE  (DoneWith(x) \/ ToCome(x))'
      <3>1. CASE DoneWith(x)
        BY <3>1, <2>1, <2>2
      <3>2. CASE SpaceOf[x] \in spaces \ {s}
        BY <3>2, <2>1
      <3>3. CASE SpaceOf[x] = s /\ ~DoneWith(x)
        <4>1. SinceDate <= item[x].at
          <5>1. last # Never => item[x].at >= last
            BY <3>3, <2>1, <2>4 DEF TimesAreOrdered
          <5>2. started <= (IF last = Never THEN 0 ELSE last) + Lookback
            BY <2>1, <2>4 DEF SpacesAreOrdered
          <5> QED BY <5>1, <5>2 DEF SinceDate
        <4>2. x \in InWindow(s)
          BY <3>3, <4>1, <2>4 DEF InWindow, SinceDate
        <4> QED BY <4>2, <2>1, <2>2, <2>3
      <3>4. DoneWith(x) \/ SpaceOf[x] \in spaces
        BY <2>1, <2>4
      <3> QED BY <3>1, <3>2, <3>3, <3>4
    <2>5. PagesAreHandled'
      BY <2>1, <2>4
    <2>6. ConfluenceMissesNothing'
      BY <2>1
    <2> QED BY <2>5, <2>6
  <1>7. ASSUME NEW c \in pages, PublishPage(c) PROVE Goal
    <2>1. emitted' = emitted \/ emitted' = [emitted EXCEPT ![c.id] = Latest(emitted[c.id], c.rev)]
      BY <1>7, PublishOne DEF PublishPage
    <2>2. /\ phase = "pages" /\ pages' = pages \ {c}
          /\ \/ ~BodyIsDue(c)
             \/ emitted' = [emitted EXCEPT ![c.id] = Latest(emitted[c.id], c.rev)]
          /\ UNCHANGED <<phase, item, started, last, lost, skipped, cursor, spaces, gap>>
      BY <1>7, PublishOne DEF PublishPage
    <2>3. /\ c.rev <= item[c.id].rev /\ SinceDate <= c.at
          /\ \/ c.rev = item[c.id].rev /\ c.at = item[c.id].at
             \/ started <= item[c.id].at
      BY DEF SnapshotsAreReal
    <2>4. \A y \in Page : emitted[y] = item[y].rev => emitted'[y] = item[y].rev
      BY <2>1, <2>3 DEF Latest
    <2>5. ASSUME ~gap, item[c.id].at < started, Known(c.id) PROVE DoneWith(c.id)'
      <3>1. c.rev = item[c.id].rev /\ c.at = item[c.id].at /\ emitted[c.id] <= c.rev
        BY <2>3, <2>5 DEF TimesAreOrdered
      <3>2. CASE emitted' = [emitted EXCEPT ![c.id] = Latest(emitted[c.id], c.rev)]
        BY <3>1, <3>2, <2>2 DEF Latest
      <3>3. CASE ~BodyIsDue(c)
        <4>1. last # Never /\ c.at < last
          BY <3>3, <2>3 DEF BodyIsDue, SinceDate
        <4>2. DoneWith(c.id)
          BY <4>1, <3>1, <2>2, <2>5 DEF TimesAreOrdered
        <4> QED BY <4>2, <2>2, <2>4
      <3> QED BY <3>2, <3>3, <2>1, <2>2
    <2>6. \A y \in Page : y # c.id /\ ToCome(y) => ToCome(y)'
      BY <2>2
    <2>7. \A y \in Page : DoneWith(y) => DoneWith(y)'
      BY <2>2, <2>4
    <2>8. PagesAreHandled'
      BY <2>2, <2>5, <2>6, <2>7
    <2>9. ConfluenceMissesNothing'
      BY <2>2, <2>4
    <2> QED BY <2>8, <2>9
  <1>8. CASE SpacesDone
    BY <1>8 DEF SpacesDone
  <1>9. CASE PublishPeople
    BY <1>9 DEF PublishPeople
  <1>10. CASE GiveUpConfluence
    BY <1>10 DEF GiveUpConfluence
  <1>11. CASE ErrorConfluence
    BY <1>11 DEF ErrorConfluence
  <1>12. CASE FailConfluence
    BY <1>12 DEF FailConfluence
  <1>13. CASE FinishConfluence
    <2>1. /\ phase = "advance" /\ spaces = {} /\ pages = {}
          /\ phase' = "idle" /\ cursor' = started /\ lost' = lost \cup skipped
          /\ UNCHANGED <<item, emitted, gap>>
      BY <1>13 DEF FinishConfluence, SpacesAreOrdered
    <2>2. ASSUME ~gap, NEW x \in Page, Known(x), item[x].at < started PROVE DoneWith(x)
      BY <2>1, <2>2
    <2> QED BY <2>1, <2>2
  <1>14. CASE KillConfluence
    BY <1>14 DEF KillConfluence
  <1>15. CASE UNCHANGED <<producerVars, confluenceVars>>
    BY <1>15
  <1>16. ASSUME NEW c \in pages, SkipPage(c) PROVE Goal
    <2>1. /\ phase = "pages" /\ pages' = pages \ {c}
          /\ skipped' = skipped \cup {<<c.id, c.rev>>}
          /\ UNCHANGED <<phase, item, started, last, lost, emitted, cursor, spaces, gap>>
      BY <1>16 DEF SkipPage
    <2>2. /\ c.id \in Page
          /\ \/ c.rev = item[c.id].rev /\ c.at = item[c.id].at
             \/ started <= item[c.id].at
      BY DEF SnapshotsAreReal
    <2>3. \A y \in Page : DoneWith(y) => DoneWith(y)'
      BY <2>1
    <2>4. ASSUME item[c.id].at < started PROVE DoneWith(c.id)'
      <3>1. <<c.id, item[c.id].rev>> \in skipped' /\ item' = item
        BY <2>1, <2>2, <2>4
      <3> QED BY ONLY <3>1 DEF DoneWith, Seen
    <2>5. \A y \in Page : y # c.id /\ ToCome(y) => ToCome(y)'
      BY <2>1
    <2>6. PagesAreHandled'
      BY <2>1, <2>3, <2>4, <2>5
    <2> QED BY <2>1, <2>6
  <1> QED
    BY <1>1, <1>2, <1>3, <1>4, <1>5, <1>6, <1>7, <1>8, <1>9,
       <1>10, <1>11, <1>12, <1>13, <1>14, <1>15, <1>16
       DEF ConfluenceNext

LEMMA ConfluenceStepTalk ==
  ConfluenceInv
    /\ [ConfluenceNext]_<<producerVars, confluenceVars>>
    => (TalkIsHandled /\ CommentsAreHeard)'
  <1> DEFINE Goal == (TalkIsHandled /\ CommentsAreHeard)'
  <1> SUFFICES ASSUME ConfluenceInv,
                      [ConfluenceNext]_<<producerVars, confluenceVars>>
               PROVE  Goal
    OBVIOUS
  <1> USE ScanBounds, SpacesHavePages DEF ConfluenceInv, ScanTypes,
          ConfluenceTypes, TalkIsHandled, CommentsAreHeard, Known, ToCome,
          InScan, SinceDate, Goto, Drop, BudgetExhausted, EndProcess,
          AbortScan, MoveCursor, BeginScan, EndPages, worldVars, trackVars,
          scanVars, storeVars, producerVars, confluenceVars, confluenceRunVars
  <1>1. CASE Tick /\ UNCHANGED confluenceVars
    BY <1>1 DEF Tick
  <1>2. ASSUME NEW x \in Page, EditPage(x) PROVE Goal
    <2>1. /\ item' = [y \in Item |-> IF y \in {x} THEN [rev |-> item[y].rev + 1, at |-> now]
                                            ELSE item[y]]
          /\ UNCHANGED <<phase, started, last, cursor, emitted, lost, skipped, spaces,
                         pages, talk, heard, gap>>
      BY <1>2 DEF EditPage, Edit, Edited
    <2>2. /\ phase # "idle" => started <= now
          /\ cursor # Never => cursor <= now
      BY DEF TimesAreOrdered
    <2> QED BY <2>1, <2>2
  <1>3. ASSUME NEW x \in Page, Comment(x) PROVE Goal
    <2>1. /\ talk' = [talk EXCEPT ![x] = now]
          /\ UNCHANGED <<phase, started, cursor, item, spaces, pages, heard>>
      BY <1>3 DEF Comment
    <2>2. /\ phase # "idle" => started <= now
          /\ cursor # Never => cursor <= now
      BY DEF TimesAreOrdered
    <2> QED BY <2>1, <2>2
  <1>4. CASE StartConfluence
    BY <1>4 DEF StartConfluence
  <1>5. CASE ListSpaces
    BY <1>5 DEF ListSpaces
  <1>6. ASSUME NEW s \in Space, ListSpace(s) PROVE Goal
    <2> DEFINE new == {[id |-> x, rev |-> item[x].rev, at |-> item[x].at] : x \in InWindow(s)}
    <2>1. /\ phase = "pages" /\ pages = {} /\ spaces' = spaces \ {s}
          /\ UNCHANGED <<phase, item, started, last, emitted, lost, cursor, talk, gap>>
      BY <1>6 DEF ListSpace
    <2>2. \/ pages' = new /\ skipped' = skipped /\ heard' = heard
          \/ /\ skipped' = skipped \cup {Seen(x) : x \in InWindow(s)}
             /\ heard' = [x \in Page |-> IF x \in InWindow(s) THEN talk[x] ELSE heard[x]]
             /\ pages' = pages
      BY <1>6 DEF ListSpace
    <2>3. ASSUME NEW x \in InWindow(s) PROVE \E c \in new : c.id = x
      <3>1. [id |-> x, rev |-> item[x].rev, at |-> item[x].at] \in new
        OBVIOUS
      <3> QED BY <3>1
    <2> HIDE DEF new
    <2>4. ASSUME NEW x \in Page, Known(x), SinceDate <= item[x].at, item[x].at < started,
                 talk[x] < started
          PROVE  (heard[x] = talk[x] \/ ToCome(x))'
      <3>1. heard[x] = talk[x] \/ SpaceOf[x] \in spaces
        BY <2>1, <2>4
      <3>2. SpaceOf[x] = s => x \in InWindow(s)
        BY <2>4 DEF InWindow
      <3> QED BY <3>1, <3>2, <2>1, <2>2, <2>3
    <2>5. TalkIsHandled'
      BY <2>1, <2>4
    <2>6. \A x \in Page : heard[x] = talk[x] => heard'[x] = talk'[x]
      BY <2>1, <2>2
    <2>7. CommentsAreHeard'
      BY <2>1, <2>6
    <2> QED BY <2>5, <2>7
  <1>7. ASSUME NEW c \in pages, PublishPage(c) PROVE Goal
    <2>1. /\ heard' = [heard EXCEPT ![c.id] = talk[c.id]] /\ pages' = pages \ {c}
          /\ UNCHANGED <<phase, item, started, cursor, spaces, talk>>
      BY <1>7 DEF PublishPage
    <2> QED BY <2>1
  <1>8. CASE SpacesDone
    BY <1>8 DEF SpacesDone
  <1>9. CASE PublishPeople
    BY <1>9 DEF PublishPeople
  <1>10. CASE GiveUpConfluence
    BY <1>10 DEF GiveUpConfluence
  <1>11. CASE ErrorConfluence
    BY <1>11 DEF ErrorConfluence
  <1>12. CASE FailConfluence
    BY <1>12 DEF FailConfluence
  <1>13. CASE FinishConfluence
    <2>1. /\ phase = "advance" /\ spaces = {} /\ pages = {}
          /\ phase' = "idle" /\ cursor' = started
          /\ UNCHANGED <<item, talk, heard>>
      BY <1>13 DEF FinishConfluence, SpacesAreOrdered
    <2>2. \A x \in Page : item[x].at + Lookback >= started => SinceDate <= item[x].at
      OBVIOUS
    <2> QED BY <2>1, <2>2
  <1>14. CASE KillConfluence
    BY <1>14 DEF KillConfluence
  <1>15. CASE UNCHANGED <<producerVars, confluenceVars>>
    BY <1>15
  <1>16. ASSUME NEW c \in pages, SkipPage(c) PROVE Goal
    <2>1. /\ heard' = [heard EXCEPT ![c.id] = talk[c.id]] /\ pages' = pages \ {c}
          /\ UNCHANGED <<phase, item, started, cursor, spaces, talk>>
      BY <1>16 DEF SkipPage
    <2> QED BY <2>1
  <1> QED
    BY <1>1, <1>2, <1>3, <1>4, <1>5, <1>6, <1>7, <1>8, <1>9,
       <1>10, <1>11, <1>12, <1>13, <1>14, <1>15, <1>16
       DEF ConfluenceNext

LEMMA ConfluenceInvHolds == ConfluenceSpec => []ConfluenceInv
  <1>1. ConfluenceInv /\ [ConfluenceNext]_<<producerVars, confluenceVars>>
          => ConfluenceInv'
    BY ConfluenceStepTypes, ConfluenceStepTimes, ConfluenceStepSpaces,
       ConfluenceStepSnapshots, ConfluenceStepWindow, ConfluenceStepTalk
       DEF ConfluenceInv
  <1> QED
    BY StartOfConfluence, <1>1, PTL DEF ConfluenceSpec

\* Unless a scan came later than the lookback reaches, the body of every page
\* edited before the cursor is out as it is, or was dropped by an error the
\* producer logs, although a page is listed by one bound and its body read by
\* another, for any lookback and any spaces.
THEOREM ConfluenceScansMissNothing == ConfluenceSpec => []ConfluenceMissesNothing
  BY ConfluenceInvHolds, PTL DEF ConfluenceInv

\* A scan that moved the cursor has read every older comment of the pages in
\* its window, though a comment does not touch its page.
THEOREM ConfluenceHearsComments == ConfluenceSpec => []CommentsAreHeard
  BY ConfluenceInvHolds, PTL DEF ConfluenceInv

\* A scan whose retry budget ran out leaves the cursor.
THEOREM ConfluenceBudgetKeepsCursor == ConfluenceSpec => ExhaustedBudgetKeepsCursor
  <1>1. BudgetEndsTheScan /\ [ConfluenceNext]_<<producerVars, confluenceVars>>
          => [timedOut => cursor' = cursor]_producerVars
    <2> SUFFICES ASSUME BudgetEndsTheScan, timedOut,
                        [ConfluenceNext]_<<producerVars, confluenceVars>>
                 PROVE  cursor' = cursor
      OBVIOUS
    <2>1. phase # "advance"
      BY DEF BudgetEndsTheScan
    <2>2. cursor' = cursor \/ FinishConfluence
      BY DEF ConfluenceNext, Tick, EditPage, Edit, Comment, StartConfluence, ListSpaces,
             ListSpace, PublishPage, SkipPage, SpacesDone, PublishPeople,
             GiveUpConfluence, ErrorConfluence, FailConfluence, KillConfluence, AbortScan,
             BudgetExhausted, BeginScan, producerVars, storeVars
    <2> QED BY <2>1, <2>2 DEF FinishConfluence, MoveCursor
  <1> QED
    BY <1>1, StartOfConfluence, ConfluenceStepBudget, PTL
       DEF ConfluenceSpec, ExhaustedBudgetKeepsCursor

-----------------------------------------------------------------------------
(* GitHub.                                                                 *)

GitHubTypes ==
    /\ phase \in {"idle", "repo", "identity", "list", "commits", "prs", "issues",
                  "advance", "failed"}
    /\ task \in [Commit -> {"none", "wait", "person", "commit", "done"}]

\* The coroutines of the commits have ended when the scan goes on without
\* an error.
TasksEnd ==
    \A c \in Commit : task[c] \in {"wait", "person", "commit"} =>
        phase \in {"commits", "failed"}

\* A commit goes out after its author was claimed, by whichever coroutine.
AuthorsAreClaimed ==
    \A c \in Commit : task[c] \in {"person", "commit"} =>
        Author[c] \in stubs \cup profiles

\* A claimed profile is settled, or a coroutine is about to publish it.
Underway == {Author[c] : c \in {d \in Commit : task[d] = "person"}}
ClaimsAreUnderway == sighted \subseteq profiles /\ profiles \subseteq settled \cup Underway

GitHubInv ==
    /\ GitHubTypes /\ TasksEnd /\ AuthorsAreClaimed /\ ClaimsAreUnderway
    /\ NamedPeopleAreIntroduced

LEMMA StartOfGitHub == GitHubStart => GitHubInv /\ BudgetEndsTheScan
  BY DEF GitHubStart, ProducerInit, GitHubInit, NoTasks, GitHubInv, GitHubTypes, TasksEnd,
         AuthorsAreClaimed, ClaimsAreUnderway, NamedPeopleAreIntroduced,
         BudgetEndsTheScan

LEMMA GitHubStepTasks ==
  GitHubTypes /\ TasksEnd /\ [GitHubNext]_<<producerVars, githubVars>>
    => (GitHubTypes /\ TasksEnd)'
  <1> DEFINE Goal == (GitHubTypes /\ TasksEnd)'
  <1> SUFFICES ASSUME GitHubTypes /\ TasksEnd,
                      [GitHubNext]_<<producerVars, githubVars>>
               PROVE  Goal
    OBVIOUS
  <1> USE DEF GitHubTypes, TasksEnd, Goto, Drop, BudgetExhausted, EndProcess,
          AbortScan, MoveCursor, BeginScan, EndRun, TaskTo, Running,
          CommitsDone, NoTasks, worldVars, trackVars, scanVars, storeVars,
          producerVars, githubVars, runVars, repoVars
  <1>1. CASE GitHubWorld
    BY <1>1 DEF GitHubWorld, Tick, PushCommit, OpenPR, MergePR, EditItem, Edit,
           WorldStep
  <1>2. CASE StartGitHub
    BY <1>2 DEF StartGitHub
  <1>3. CASE PublishRepository
    BY <1>3 DEF PublishRepository
  <1>4. CASE RefreshIdentity
    BY <1>4 DEF RefreshIdentity
  <1>5. CASE ListCommits
    BY <1>5 DEF ListCommits
  <1>6. ASSUME NEW c \in Commit, Extract(c) PROVE Goal
    BY <1>6 DEF Extract
  <1>7. ASSUME NEW c \in Commit, ExtractGivesUp(c) PROVE Goal
    BY <1>7 DEF ExtractGivesUp
  <1>8. ASSUME NEW c \in Commit, PublishAuthor(c) PROVE Goal
    BY <1>8 DEF PublishAuthor
  <1>9. ASSUME NEW c \in Commit, PublishCommit(c) PROVE Goal
    BY <1>9 DEF PublishCommit
  <1>10. ASSUME NEW c \in Commit, DropCommit(c) PROVE Goal
    BY <1>10 DEF DropCommit
  <1>11. CASE ListPRs
    BY <1>11 DEF ListPRs
  <1>12. CASE StopAtOldPR
    BY <1>12 DEF StopAtOldPR
  <1>13. ASSUME NEW p \in PR, PublishPR(p) PROVE Goal
    BY <1>13 DEF PublishPR, EmitPRCommits
  <1>14. ASSUME NEW p \in PR, DropPR(p) PROVE Goal
    BY <1>14 DEF DropPR, EmitPRCommits
  <1>15. CASE ListIssues
    BY <1>15 DEF ListIssues
  <1>16. CASE IssuesDone
    BY <1>16 DEF IssuesDone
  <1>17. ASSUME NEW i \in Issue, PublishIssue(i) PROVE Goal
    BY <1>17 DEF PublishIssue
  <1>18. ASSUME NEW i \in Issue, DropIssue(i) PROVE Goal
    BY <1>18 DEF DropIssue
  <1>19. CASE GiveUpGitHub
    BY <1>19 DEF GiveUpGitHub
  <1>20. CASE ErrorGitHub
    BY <1>20 DEF ErrorGitHub
  <1>21. CASE FailRepo
    BY <1>21 DEF FailRepo
  <1>22. CASE FinishGitHub
    BY <1>22 DEF FinishGitHub
  <1>23. CASE KillGitHub
    BY <1>23 DEF KillGitHub
  <1>24. CASE UNCHANGED <<producerVars, githubVars>>
    BY <1>24
  <1>25. CASE SkipRepository
    BY <1>25 DEF SkipRepository
  <1> QED BY <1>1, <1>2, <1>3, <1>4, <1>5, <1>6, <1>7, <1>8, <1>9, <1>10,
             <1>11, <1>12, <1>13, <1>14, <1>15, <1>16, <1>17, <1>18, <1>19,
             <1>20, <1>21, <1>22, <1>23, <1>24, <1>25 DEF GitHubNext, CommitStep

LEMMA GitHubStepAuthors ==
  GitHubTypes /\ TasksEnd /\ AuthorsAreClaimed
    /\ [GitHubNext]_<<producerVars, githubVars>>
    => AuthorsAreClaimed'
  <1> SUFFICES ASSUME GitHubTypes /\ TasksEnd /\ AuthorsAreClaimed,
                      [GitHubNext]_<<producerVars, githubVars>>
               PROVE  AuthorsAreClaimed'
    OBVIOUS
  <1> USE DEF GitHubTypes, AuthorsAreClaimed, Introduce, Claim,
          ClaimedProfiles, ClaimedStubs, Goto, Drop, BudgetExhausted,
          EndProcess, AbortScan, MoveCursor, BeginScan, EndRun, TaskTo,
          Running, CommitsDone, NoTasks, worldVars, trackVars, scanVars,
          storeVars, producerVars, githubVars, runVars, repoVars
  <1>1. CASE GitHubWorld
    BY <1>1 DEF GitHubWorld, Tick, PushCommit, OpenPR, MergePR, EditItem, Edit,
           WorldStep
  <1>2. CASE StartGitHub
    BY <1>2 DEF StartGitHub
  <1>3. CASE PublishRepository
    BY <1>3 DEF PublishRepository
  <1>4. CASE RefreshIdentity
    BY <1>4 DEF RefreshIdentity
  <1>5. CASE ListCommits
    BY <1>5 DEF ListCommits
  <1>6. ASSUME NEW c \in Commit, Extract(c) PROVE AuthorsAreClaimed'
    BY <1>6 DEF Extract
  <1>7. ASSUME NEW c \in Commit, ExtractGivesUp(c) PROVE AuthorsAreClaimed'
    BY <1>7 DEF ExtractGivesUp
  <1>8. ASSUME NEW c \in Commit, PublishAuthor(c) PROVE AuthorsAreClaimed'
    BY <1>8 DEF PublishAuthor
  <1>9. ASSUME NEW c \in Commit, PublishCommit(c) PROVE AuthorsAreClaimed'
    BY <1>9 DEF PublishCommit
  <1>10. ASSUME NEW c \in Commit, DropCommit(c) PROVE AuthorsAreClaimed'
    BY <1>10 DEF DropCommit
  <1>11. CASE ListPRs
    BY <1>11 DEF ListPRs
  <1>12. CASE StopAtOldPR
    BY <1>12 DEF StopAtOldPR
  <1>13. ASSUME NEW p \in PR, PublishPR(p) PROVE AuthorsAreClaimed'
    BY <1>13 DEF PublishPR, EmitPRCommits
  <1>14. ASSUME NEW p \in PR, DropPR(p) PROVE AuthorsAreClaimed'
    BY <1>14 DEF DropPR, EmitPRCommits
  <1>15. CASE ListIssues
    BY <1>15 DEF ListIssues
  <1>16. CASE IssuesDone
    BY <1>16 DEF IssuesDone
  <1>17. ASSUME NEW i \in Issue, PublishIssue(i) PROVE AuthorsAreClaimed'
    BY <1>17 DEF PublishIssue
  <1>18. ASSUME NEW i \in Issue, DropIssue(i) PROVE AuthorsAreClaimed'
    BY <1>18 DEF DropIssue
  <1>19. CASE GiveUpGitHub
    BY <1>19 DEF GiveUpGitHub
  <1>20. CASE ErrorGitHub
    BY <1>20 DEF ErrorGitHub
  <1>21. CASE FailRepo
    BY <1>21 DEF FailRepo
  <1>22. CASE FinishGitHub
    BY <1>22 DEF FinishGitHub
  <1>23. CASE KillGitHub
    BY <1>23 DEF KillGitHub
  <1>24. CASE UNCHANGED <<producerVars, githubVars>>
    BY <1>24
  <1>25. CASE SkipRepository
    BY <1>25 DEF SkipRepository
  <1> QED BY <1>1, <1>2, <1>3, <1>4, <1>5, <1>6, <1>7, <1>8, <1>9, <1>10,
             <1>11, <1>12, <1>13, <1>14, <1>15, <1>16, <1>17, <1>18, <1>19,
             <1>20, <1>21, <1>22, <1>23, <1>24, <1>25 DEF GitHubNext, CommitStep

LEMMA GitHubStepClaims ==
  GitHubTypes /\ TasksEnd /\ ClaimsAreUnderway
    /\ [GitHubNext]_<<producerVars, githubVars>>
    => ClaimsAreUnderway'
  <1> SUFFICES ASSUME GitHubTypes /\ TasksEnd /\ ClaimsAreUnderway,
                      [GitHubNext]_<<producerVars, githubVars>>
               PROVE  ClaimsAreUnderway'
    OBVIOUS
  <1> USE DEF GitHubTypes, TasksEnd, ClaimsAreUnderway, Underway, Introduce,
          Claim, ClaimedProfiles, ClaimedStubs, Goto, Drop, BudgetExhausted,
          EndProcess, AbortScan, MoveCursor, BeginScan, EndRun, TaskTo,
          Running, CommitsDone, NoTasks, worldVars, trackVars, scanVars,
          storeVars, producerVars, githubVars, runVars, repoVars
  <1>1. CASE GitHubWorld
    BY <1>1 DEF GitHubWorld, Tick, PushCommit, OpenPR, MergePR, EditItem, Edit,
           WorldStep
  <1>2. CASE StartGitHub
    BY <1>2 DEF StartGitHub
  <1>3. CASE PublishRepository
    BY <1>3 DEF PublishRepository
  <1>4. CASE RefreshIdentity
    BY <1>4 DEF RefreshIdentity
  <1>5. CASE ListCommits
    BY <1>5 DEF ListCommits
  <1>6. ASSUME NEW c \in Commit, Extract(c) PROVE ClaimsAreUnderway'
    <2> DEFINE known == Lookup({Author[c]})
    <2>1. /\ task[c] = "wait" /\ settled' = settled
          /\ profiles' = profiles \cup (known \ profiles)
          /\ sighted' = sighted \cup known
          /\ task' = [task EXCEPT ![c] = "person"] \/ task' = [task EXCEPT ![c] = "commit"]
          /\ known \ profiles # {} => task' = [task EXCEPT ![c] = "person"]
      BY <1>6 DEF Extract
    <2>2. \A d \in Commit : task[d] = "person" => task'[d] = "person"
      BY <2>1
    <2>3. Underway \subseteq Underway'
      BY <2>2
    <2>4. known \ profiles # {} => Author[c] \in Underway'
      BY <2>1
    <2>5. known \subseteq {Author[c]}
      BY DEF Lookup
    <2> HIDE DEF known, Underway
    <2> QED BY <2>1, <2>3, <2>4, <2>5
  <1>7. ASSUME NEW c \in Commit, ExtractGivesUp(c) PROVE ClaimsAreUnderway'
    BY <1>7 DEF ExtractGivesUp
  <1>8. ASSUME NEW c \in Commit, PublishAuthor(c) PROVE ClaimsAreUnderway'
    BY <1>8 DEF PublishAuthor
  <1>9. ASSUME NEW c \in Commit, PublishCommit(c) PROVE ClaimsAreUnderway'
    BY <1>9 DEF PublishCommit
  <1>10. ASSUME NEW c \in Commit, DropCommit(c) PROVE ClaimsAreUnderway'
    BY <1>10 DEF DropCommit
  <1>11. CASE ListPRs
    BY <1>11 DEF ListPRs
  <1>12. CASE StopAtOldPR
    BY <1>12 DEF StopAtOldPR
  <1>13. ASSUME NEW p \in PR, PublishPR(p) PROVE ClaimsAreUnderway'
    BY <1>13 DEF PublishPR, EmitPRCommits
  <1>14. ASSUME NEW p \in PR, DropPR(p) PROVE ClaimsAreUnderway'
    BY <1>14 DEF DropPR, EmitPRCommits
  <1>15. CASE ListIssues
    BY <1>15 DEF ListIssues
  <1>16. CASE IssuesDone
    BY <1>16 DEF IssuesDone
  <1>17. ASSUME NEW i \in Issue, PublishIssue(i) PROVE ClaimsAreUnderway'
    BY <1>17 DEF PublishIssue
  <1>18. ASSUME NEW i \in Issue, DropIssue(i) PROVE ClaimsAreUnderway'
    BY <1>18 DEF DropIssue
  <1>19. CASE GiveUpGitHub
    BY <1>19 DEF GiveUpGitHub
  <1>20. CASE ErrorGitHub
    BY <1>20 DEF ErrorGitHub
  <1>21. CASE FailRepo
    BY <1>21 DEF FailRepo
  <1>22. CASE FinishGitHub
    BY <1>22 DEF FinishGitHub
  <1>23. CASE KillGitHub
    BY <1>23 DEF KillGitHub
  <1>24. CASE UNCHANGED <<producerVars, githubVars>>
    BY <1>24
  <1>25. CASE SkipRepository
    BY <1>25 DEF SkipRepository
  <1> QED BY <1>1, <1>2, <1>3, <1>4, <1>5, <1>6, <1>7, <1>8, <1>9, <1>10,
             <1>11, <1>12, <1>13, <1>14, <1>15, <1>16, <1>17, <1>18, <1>19,
             <1>20, <1>21, <1>22, <1>23, <1>24, <1>25 DEF GitHubNext, CommitStep

LEMMA GitHubStepNamed ==
  GitHubTypes /\ AuthorsAreClaimed /\ NamedPeopleAreIntroduced
    /\ [GitHubNext]_<<producerVars, githubVars>>
    => NamedPeopleAreIntroduced'
  <1> SUFFICES ASSUME GitHubTypes /\ AuthorsAreClaimed /\ NamedPeopleAreIntroduced,
                      [GitHubNext]_<<producerVars, githubVars>>
               PROVE  NamedPeopleAreIntroduced'
    OBVIOUS
  <1> USE DEF GitHubTypes, NamedPeopleAreIntroduced, Introduce, Claim,
          ClaimedProfiles, ClaimedStubs, Goto, Drop, BudgetExhausted,
          EndProcess, AbortScan, MoveCursor, BeginScan, EndRun, TaskTo,
          Running, CommitsDone, NoTasks, worldVars, trackVars, scanVars,
          storeVars, producerVars, githubVars, runVars, repoVars
  <1>1. CASE GitHubWorld
    BY <1>1 DEF GitHubWorld, Tick, PushCommit, OpenPR, MergePR, EditItem, Edit,
           WorldStep
  <1>2. CASE StartGitHub
    BY <1>2 DEF StartGitHub
  <1>3. CASE PublishRepository
    BY <1>3 DEF PublishRepository
  <1>4. CASE RefreshIdentity
    BY <1>4 DEF RefreshIdentity
  <1>5. CASE ListCommits
    BY <1>5 DEF ListCommits
  <1>6. ASSUME NEW c \in Commit, Extract(c) PROVE NamedPeopleAreIntroduced'
    BY <1>6 DEF Extract
  <1>7. ASSUME NEW c \in Commit, ExtractGivesUp(c) PROVE NamedPeopleAreIntroduced'
    BY <1>7 DEF ExtractGivesUp
  <1>8. ASSUME NEW c \in Commit, PublishAuthor(c) PROVE NamedPeopleAreIntroduced'
    BY <1>8 DEF PublishAuthor
  <1>9. ASSUME NEW c \in Commit, PublishCommit(c) PROVE NamedPeopleAreIntroduced'
    <2>1. /\ named' = named \cup People(CommitLinks(c)) /\ task[c] = "commit"
          /\ UNCHANGED <<stubs, profiles>>
      BY <1>9 DEF PublishCommit
    <2>2. People(CommitLinks(c)) \subseteq {Author[c]}
      BY DEF People, CommitLinks
    <2> QED BY <2>1, <2>2 DEF AuthorsAreClaimed
  <1>10. ASSUME NEW c \in Commit, DropCommit(c) PROVE NamedPeopleAreIntroduced'
    BY <1>10 DEF DropCommit
  <1>11. CASE ListPRs
    BY <1>11 DEF ListPRs
  <1>12. CASE StopAtOldPR
    BY <1>12 DEF StopAtOldPR
  <1>13. ASSUME NEW p \in PR, PublishPR(p) PROVE NamedPeopleAreIntroduced'
    BY <1>13 DEF PublishPR, EmitPRCommits
  <1>14. ASSUME NEW p \in PR, DropPR(p) PROVE NamedPeopleAreIntroduced'
    BY <1>14 DEF DropPR, EmitPRCommits
  <1>15. CASE ListIssues
    BY <1>15 DEF ListIssues
  <1>16. CASE IssuesDone
    BY <1>16 DEF IssuesDone
  <1>17. ASSUME NEW i \in Issue, PublishIssue(i) PROVE NamedPeopleAreIntroduced'
    <2>1. /\ named' = named \cup People(IssueLinks(i))
          /\ Claim(Related(i), Lookup(CommentersOf(i)))
      BY <1>17 DEF PublishIssue
    <2>2. People(IssueLinks(i)) \subseteq People(IssuePeople[i])
      BY DEF People, IssueLinks
    <2>3. Related(i) = People(IssuePeople[i]) \ profiles
      BY DEF Related
    <2>4. Related(i) \subseteq stubs' \cup profiles'
      BY <2>1
    <2>5. stubs \subseteq stubs' /\ profiles \subseteq profiles'
      BY <2>1
    <2> HIDE DEF Claim
    <2> QED BY <2>1, <2>2, <2>3, <2>4, <2>5
  <1>18. ASSUME NEW i \in Issue, DropIssue(i) PROVE NamedPeopleAreIntroduced'
    BY <1>18 DEF DropIssue
  <1>19. CASE GiveUpGitHub
    BY <1>19 DEF GiveUpGitHub
  <1>20. CASE ErrorGitHub
    BY <1>20 DEF ErrorGitHub
  <1>21. CASE FailRepo
    BY <1>21 DEF FailRepo
  <1>22. CASE FinishGitHub
    BY <1>22 DEF FinishGitHub
  <1>23. CASE KillGitHub
    BY <1>23 DEF KillGitHub
  <1>24. CASE UNCHANGED <<producerVars, githubVars>>
    BY <1>24
  <1>25. CASE SkipRepository
    BY <1>25 DEF SkipRepository
  <1> QED BY <1>1, <1>2, <1>3, <1>4, <1>5, <1>6, <1>7, <1>8, <1>9, <1>10,
             <1>11, <1>12, <1>13, <1>14, <1>15, <1>16, <1>17, <1>18, <1>19,
             <1>20, <1>21, <1>22, <1>23, <1>24, <1>25 DEF GitHubNext, CommitStep

LEMMA GitHubStepBudget ==
  BudgetEndsTheScan /\ [GitHubNext]_<<producerVars, githubVars>>
    => BudgetEndsTheScan'
  <1> SUFFICES ASSUME BudgetEndsTheScan,
                      [GitHubNext]_<<producerVars, githubVars>>
               PROVE  BudgetEndsTheScan'
    OBVIOUS
  <1> USE DEF BudgetEndsTheScan, Goto, Drop, BudgetExhausted, EndProcess,
          AbortScan, MoveCursor, BeginScan, EndRun, TaskTo, Running,
          CommitsDone, NoTasks, worldVars, trackVars, scanVars, storeVars,
          producerVars, githubVars, runVars, repoVars
  <1>1. CASE GitHubWorld
    BY <1>1 DEF GitHubWorld, Tick, PushCommit, OpenPR, MergePR, EditItem, Edit,
           WorldStep
  <1>2. CASE StartGitHub
    BY <1>2 DEF StartGitHub
  <1>3. CASE PublishRepository
    BY <1>3 DEF PublishRepository
  <1>4. CASE RefreshIdentity
    BY <1>4 DEF RefreshIdentity
  <1>5. CASE ListCommits
    BY <1>5 DEF ListCommits
  <1>6. ASSUME NEW c \in Commit, Extract(c) PROVE BudgetEndsTheScan'
    BY <1>6 DEF Extract
  <1>7. ASSUME NEW c \in Commit, ExtractGivesUp(c) PROVE BudgetEndsTheScan'
    BY <1>7 DEF ExtractGivesUp
  <1>8. ASSUME NEW c \in Commit, PublishAuthor(c) PROVE BudgetEndsTheScan'
    BY <1>8 DEF PublishAuthor
  <1>9. ASSUME NEW c \in Commit, PublishCommit(c) PROVE BudgetEndsTheScan'
    BY <1>9 DEF PublishCommit
  <1>10. ASSUME NEW c \in Commit, DropCommit(c) PROVE BudgetEndsTheScan'
    BY <1>10 DEF DropCommit
  <1>11. CASE ListPRs
    BY <1>11 DEF ListPRs
  <1>12. CASE StopAtOldPR
    BY <1>12 DEF StopAtOldPR
  <1>13. ASSUME NEW p \in PR, PublishPR(p) PROVE BudgetEndsTheScan'
    BY <1>13 DEF PublishPR, EmitPRCommits
  <1>14. ASSUME NEW p \in PR, DropPR(p) PROVE BudgetEndsTheScan'
    BY <1>14 DEF DropPR, EmitPRCommits
  <1>15. CASE ListIssues
    BY <1>15 DEF ListIssues
  <1>16. CASE IssuesDone
    BY <1>16 DEF IssuesDone
  <1>17. ASSUME NEW i \in Issue, PublishIssue(i) PROVE BudgetEndsTheScan'
    BY <1>17 DEF PublishIssue
  <1>18. ASSUME NEW i \in Issue, DropIssue(i) PROVE BudgetEndsTheScan'
    BY <1>18 DEF DropIssue
  <1>19. CASE GiveUpGitHub
    BY <1>19 DEF GiveUpGitHub
  <1>20. CASE ErrorGitHub
    BY <1>20 DEF ErrorGitHub
  <1>21. CASE FailRepo
    BY <1>21 DEF FailRepo
  <1>22. CASE FinishGitHub
    BY <1>22 DEF FinishGitHub
  <1>23. CASE KillGitHub
    BY <1>23 DEF KillGitHub
  <1>24. CASE UNCHANGED <<producerVars, githubVars>>
    BY <1>24
  <1>25. CASE SkipRepository
    BY <1>25 DEF SkipRepository
  <1> QED BY <1>1, <1>2, <1>3, <1>4, <1>5, <1>6, <1>7, <1>8, <1>9, <1>10,
             <1>11, <1>12, <1>13, <1>14, <1>15, <1>16, <1>17, <1>18, <1>19,
             <1>20, <1>21, <1>22, <1>23, <1>24, <1>25 DEF GitHubNext, CommitStep

LEMMA GitHubInvHolds == GitHubSpec => []GitHubInv
  <1>1. GitHubInv /\ [GitHubNext]_<<producerVars, githubVars>> => GitHubInv'
    BY GitHubStepTasks, GitHubStepAuthors, GitHubStepClaims, GitHubStepNamed
       DEF GitHubInv
  <1> QED
    BY StartOfGitHub, <1>1, PTL DEF GitHubSpec

\* Everyone a published commit, pull request or issue names, except
\* reporters, was claimed in the scan, for any number of coroutines that claim
\* the same people at once.
THEOREM GitHubIntroducesPeople == GitHubSpec => []NamedPeopleAreIntroduced
  BY GitHubInvHolds, PTL DEF GitHubInv

\* And whoever was met with a profile has been published with it when the
\* cursor is about to move, though the coroutine that claimed the profile is
\* often not the one whose commit needs it.
THEOREM GitHubPublishesProfiles == GitHubSpec => []ProfilesReachTheGraph
  <1>1. GitHubInv => ProfilesReachTheGraph
    <2> SUFFICES ASSUME GitHubInv, phase = "advance" PROVE sighted \subseteq settled
      BY DEF ProfilesReachTheGraph
    <2>1. Underway = {}
      BY DEF GitHubInv, TasksEnd, Underway
    <2> QED BY <2>1 DEF GitHubInv, ClaimsAreUnderway
  <1> QED
    BY <1>1, GitHubInvHolds, PTL

\* A scan whose retry budget ran out, in whichever coroutine, leaves the
\* cursor.
THEOREM GitHubBudgetKeepsCursor == GitHubSpec => ExhaustedBudgetKeepsCursor
  <1>1. BudgetEndsTheScan /\ [GitHubNext]_<<producerVars, githubVars>>
          => [timedOut => cursor' = cursor]_producerVars
    <2> SUFFICES ASSUME BudgetEndsTheScan, timedOut,
                        [GitHubNext]_<<producerVars, githubVars>>
                 PROVE  cursor' = cursor
      OBVIOUS
    <2>1. phase # "advance"
      BY DEF BudgetEndsTheScan
    <2>2. cursor' = cursor \/ FinishGitHub
      BY DEF GitHubNext, CommitStep, GitHubWorld, Tick, PushCommit, OpenPR, MergePR,
             EditItem, Edit, WorldStep, StartGitHub, PublishRepository, SkipRepository,
             RefreshIdentity, ListCommits, Extract, ExtractGivesUp, PublishAuthor,
             PublishCommit, DropCommit, ListPRs, StopAtOldPR, PublishPR, DropPR,
             EmitPRCommits, ListIssues, IssuesDone, PublishIssue, DropIssue,
             GiveUpGitHub, ErrorGitHub, FailRepo, KillGitHub, AbortScan,
             BudgetExhausted, BeginScan, producerVars, storeVars
    <2> QED BY <2>1, <2>2 DEF FinishGitHub, MoveCursor
  <1> QED
    BY <1>1, StartOfGitHub, GitHubStepBudget, PTL
       DEF GitHubSpec, ExhaustedBudgetKeepsCursor

-----------------------------------------------------------------------------
(* GitHub: what is edited and what is published.                           *)

RepoTypes ==
    /\ where \in [Commit -> {"local", "pr", "main"}]
    /\ landed \in [Commit -> Nat \cup {Never}]
    /\ prState \in [PR -> {"none", "open", "merged"}]
    /\ seen \in SUBSET Commit
    /\ todo \in Seq([id : Item, rev : Nat, at : Nat])

\* A commit that is out of its author's hands is edited no more.
Fixed(c) == where[c] # "local"

RepoIsSound ==
    /\ \A c \in Commit :
           /\ Fixed(c) => item[c].rev > 0
           /\ landed[c] # Never => where[c] = "main" /\ landed[c] <= now
           /\ task[c] \in {"wait", "person", "commit"} => Fixed(c)
    /\ \A p \in PR :
           /\ prState[p] # "none" <=> item[p].rev > 0
           /\ prState[p] # "none" => \A c \in CommitsOf[p] : where[c] # "local"

\* A fetched item was the latest when it was fetched.
TodoIsReal ==
    \A k \in 1 .. Len(todo) :
        /\ phase \in {"prs", "issues", "failed"}
        /\ phase = "prs" => todo[k].id \in PR
        /\ phase = "issues" => todo[k].id \in Issue
        /\ todo[k].rev > 0 /\ todo[k].rev <= item[todo[k].id].rev
        /\ todo[k].at <= item[todo[k].id].at
        /\ \/ todo[k].rev = item[todo[k].id].rev /\ todo[k].at = item[todo[k].id].at
           \/ started <= item[todo[k].id].at

PRsAreSorted ==
    phase = "prs" => \A j, k \in 1 .. Len(todo) : j < k => todo[j].at >= todo[k].at

LEMMA FixedIsKnown ==
  ASSUME RepoIsSound, NEW c \in Commit, Fixed(c) PROVE item[c].rev > 0
  BY DEF RepoIsSound, Fixed

LEMMA PullRequestsFix ==
  ASSUME RepoIsSound, NEW p \in PR, prState[p] # "none", NEW c \in CommitsOf[p]
  PROVE  c \in Commit /\ Fixed(c)
  BY RepositoryShape DEF RepoIsSound, Fixed

\* What is published is never taken back.
LEMMA PublishMany ==
  ASSUME emitted \in [Item -> Nat], NEW revs \in SUBSET (Item \X Nat), Publish(revs),
         \A e, f \in revs : e[1] = f[1] => e = f
  PROVE  /\ emitted' \in [Item -> Nat]
         /\ \A x \in Item : emitted[x] <= emitted'[x]
         /\ \A e \in revs : emitted'[e[1]] = Latest(emitted[e[1]], e[2])
         /\ \A x \in Item : emitted'[x] = emitted[x]
                            \/ \E e \in revs : e[1] = x /\ emitted'[x] = e[2]
  <1> DEFINE Of(x) == CHOOSE e \in revs : e[1] = x
  <1>1. \A e \in revs : Of(e[1]) = e
    OBVIOUS
  <1>2. \A e \in revs : e[1] \in Item /\ e[2] \in Nat
    OBVIOUS
  <1>3. emitted' = [x \in Item |-> IF \E e \in revs : e[1] = x
                                   THEN Latest(emitted[x], Of(x)[2]) ELSE emitted[x]]
    BY DEF Publish
  <1> HIDE DEF Of
  <1>4. ASSUME NEW e \in revs
        PROVE  emitted'[e[1]] = Latest(emitted[e[1]], e[2])
    BY <1>1, <1>2, <1>3
  <1>5. ASSUME NEW x \in Item, \A e \in revs : e[1] # x PROVE emitted'[x] = emitted[x]
    BY <1>3, <1>5
  <1>6. ASSUME NEW x \in Item
        PROVE  /\ emitted'[x] \in Nat /\ emitted[x] <= emitted'[x]
               /\ emitted'[x] = emitted[x]
                  \/ \E e \in revs : e[1] = x /\ emitted'[x] = e[2]
    <2>1. CASE \E e \in revs : e[1] = x
      <3>1. PICK e \in revs : e[1] = x
        BY <2>1
      <3> QED BY <3>1, <1>2, <1>4 DEF Latest
    <2>2. CASE \A e \in revs : e[1] # x
      BY <2>2, <1>5
    <2> QED BY <2>1, <2>2
  <1> QED
    BY <1>3, <1>4, <1>6

LEMMA HeadAndTail ==
  ASSUME NEW S, NEW s \in Seq(S), s # << >>
  PROVE  /\ 1 \in 1 .. Len(s) /\ Head(s) = s[1] /\ Head(s) \in S
         /\ Tail(s) \in Seq(S) /\ Len(Tail(s)) = Len(s) - 1
         /\ \A k \in 1 .. Len(s) - 1 : Tail(s)[k] = s[k + 1]
  OBVIOUS

\* A listing holds each item once, the latest first.
LEMMA ListingIsComplete ==
  ASSUME ScanTypes, NEW S \in SUBSET Item, IsFiniteSet(S), NEW s \in NewestFirst(S)
  PROVE  /\ s \in Seq([id : Item, rev : Nat, at : Nat])
         /\ \A k \in 1 .. Len(s) : s[k] = Snapshot(s[k].id) /\ s[k].id \in S
         /\ \A x \in S : \E k \in 1 .. Len(s) : s[k] = Snapshot(x)
         /\ \A j, k \in 1 .. Len(s) : j < k => s[j].at >= s[k].at
  <1> DEFINE snaps == {Snapshot(x) : x \in S}
             n == Cardinality(snaps)
  <1>1. IsFiniteSet(snaps)
    <2> DEFINE f == [x \in S |-> Snapshot(x)]
    <2>1. f \in Surjection(S, snaps)
      BY DEF Surjection
    <2> QED BY <2>1, FS_Surjection
  <1>2. n \in Nat
    BY <1>1, FS_CardinalityType
  <1>3. /\ s \in [1 .. n -> snaps]
        /\ \A j, k \in 1 .. n : j # k => s[j] # s[k]
        /\ \A j, k \in DOMAIN s : j < k => s[j].at >= s[k].at
    BY DEF NewestFirst, SetToSeqs
  <1>4. \A e \in snaps : e \in [id : Item, rev : Nat, at : Nat] /\ e.id \in S /\ e = Snapshot(e.id)
    BY DEF Snapshot, ScanTypes
  <1>5. s \in Surjection(1 .. n, snaps)
    <2>1. s \in Injection(1 .. n, snaps)
      BY <1>3 DEF Injection, IsInjective
    <2>2. Cardinality(1 .. n) = n
      BY <1>2, FS_Interval
    <2> QED BY <2>1, <2>2, <1>1, FS_Injection
  <1>6. \A x \in S : Snapshot(x) \in snaps
    OBVIOUS
  <1> HIDE DEF snaps, n
  <1>7. Len(s) = n /\ s \in Seq([id : Item, rev : Nat, at : Nat])
    <2> DEFINE R == [id : Item, rev : Nat, at : Nat]
    <2>1. snaps \subseteq R
      BY <1>4
    <2> HIDE DEF R
    <2>2. s \in [1 .. n -> R]
      BY <1>3, <2>1
    <2>3. s \in Seq(R) /\ Len(s) = n
      BY <1>2, <2>2
    <2> QED BY <2>3 DEF R
  <1>8. \A k \in 1 .. Len(s) : s[k] = Snapshot(s[k].id) /\ s[k].id \in S
    BY <1>3, <1>4, <1>7
  <1>9. \A x \in S : \E k \in 1 .. Len(s) : s[k] = Snapshot(x)
    BY <1>5, <1>6, <1>7 DEF Surjection
  <1>10. \A j, k \in 1 .. Len(s) : j < k => s[j].at >= s[k].at
    BY <1>3, <1>7
  <1> QED BY <1>7, <1>8, <1>9, <1>10

LEMMA HeadIsReal ==
  ASSUME ScanTypes, RepoTypes, TodoIsReal, todo # << >>
  PROVE  /\ Head(todo) \in [id : Item, rev : Nat, at : Nat]
         /\ Head(todo).rev > 0 /\ Head(todo).rev <= item[Head(todo).id].rev
         /\ Head(todo).at <= item[Head(todo).id].at
         /\ \/ /\ Head(todo).rev = item[Head(todo).id].rev
               /\ Head(todo).at = item[Head(todo).id].at
            \/ started <= item[Head(todo).id].at
  <1>1. 1 \in 1 .. Len(todo) /\ Head(todo) = todo[1]
        /\ Head(todo) \in [id : Item, rev : Nat, at : Nat]
    BY HeadAndTail DEF RepoTypes
  <1> QED BY <1>1 DEF TodoIsReal

\* Nothing is taken back, and nothing goes out before it is written.
EmitsOnward ==
    /\ emitted' \in [Item -> Nat]
    /\ \A x \in Item : emitted[x] <= emitted'[x] /\ emitted'[x] <= item'[x].rev

EmitInv == ScanTypes /\ RepoTypes /\ TimesAreOrdered /\ TodoIsReal

\* What a pull request sends: some commits, and perhaps itself.
LEMMA EmitMany ==
  ASSUME EmitInv, item' = item, NEW out \in SUBSET Commit,
         NEW own \in SUBSET {RevAtHand}, todo # << >>, Head(todo).id \notin Commit,
         NEW revs, revs = {Seen(c) : c \in out} \cup own, Publish(revs)
  PROVE  /\ EmitsOnward
         /\ \A c \in out : emitted'[c] = item[c].rev
         /\ own # {} => emitted'[Head(todo).id] >= Head(todo).rev
         /\ \A x \in Item : emitted'[x] # emitted[x] =>
                x \in out \/ (own # {} /\ x = Head(todo).id)
  <1>1. \A e \in revs : /\ e \in Item \X Nat /\ e[2] <= item[e[1]].rev
                        /\ \/ e[1] \in out /\ e = Seen(e[1])
                           \/ e = RevAtHand /\ e[1] = Head(todo).id /\ own # {}
    <2>1. ASSUME NEW c \in out
          PROVE  /\ Seen(c) \in Item \X Nat /\ Seen(c)[1] = c
                 /\ Seen(c)[2] = item[c].rev
      BY RepositoryShape DEF Seen, EmitInv, ScanTypes
    <2>2. /\ RevAtHand \in Item \X Nat /\ RevAtHand[1] = Head(todo).id
          /\ RevAtHand[2] = Head(todo).rev /\ Head(todo).rev <= item[Head(todo).id].rev
      BY HeadIsReal DEF RevAtHand, EmitInv
    <2>3. \A c \in out : item[c].rev \in Nat
      BY RepositoryShape DEF EmitInv, ScanTypes
    <2> QED BY <2>1, <2>2, <2>3
  <1>2. revs \in SUBSET (Item \X Nat)
    BY <1>1
  <1>3. \A e, f \in revs : e[1] = f[1] => e = f
    BY <1>1
  <1>4. Publish(revs) /\ emitted \in [Item -> Nat]
    BY DEF EmitInv, ScanTypes
  <1>5. \A c \in out : Seen(c) \in revs
    OBVIOUS
  <1>6. own # {} => RevAtHand \in revs
    OBVIOUS
  <1>7. /\ emitted' \in [Item -> Nat]
        /\ \A x \in Item : emitted[x] <= emitted'[x]
        /\ \A e \in revs : emitted'[e[1]] = Latest(emitted[e[1]], e[2])
        /\ \A x \in Item : emitted'[x] = emitted[x]
                           \/ \E e \in revs : e[1] = x /\ emitted'[x] = e[2]
    BY <1>2, <1>3, <1>4, PublishMany
  <1>8. \A x \in Item : emitted[x] <= item[x].rev /\ item[x].rev \in Nat /\ emitted[x] \in Nat
    BY DEF EmitInv, TimesAreOrdered, ScanTypes
  <1>9. EmitsOnward
    BY <1>1, <1>7, <1>8 DEF EmitsOnward
  <1>10. ASSUME NEW c \in out PROVE emitted'[c] = item[c].rev
    <2>1. emitted'[Seen(c)[1]] = Latest(emitted[Seen(c)[1]], Seen(c)[2])
      BY <1>5, <1>7
    <2>2. c \in Item
      BY RepositoryShape
    <2> QED BY <2>1, <2>2, <1>8 DEF Seen, Latest
  <1>11. ASSUME own # {} PROVE emitted'[Head(todo).id] >= Head(todo).rev
    <2>1. emitted'[RevAtHand[1]] = Latest(emitted[RevAtHand[1]], RevAtHand[2])
      BY <1>6, <1>7, <1>11
    <2>2. Head(todo).id \in Item /\ Head(todo).rev \in Nat
      BY HeadIsReal DEF EmitInv
    <2> QED BY <2>1, <2>2, <1>8 DEF RevAtHand, Latest
  <1>12. \A x \in Item : emitted'[x] # emitted[x] => x \in out \/ (own # {} /\ x = Head(todo).id)
    BY <1>1, <1>7
  <1> QED BY <1>9, <1>10, <1>11, <1>12

LEMMA GitHubStepEmits ==
  EmitInv /\ [GitHubNext]_<<producerVars, githubVars>>
    => EmitsOnward
  <1> SUFFICES ASSUME EmitInv,
                      [GitHubNext]_<<producerVars, githubVars>>
               PROVE  EmitsOnward
    OBVIOUS
  <1> USE RepositoryShape, ScanBounds DEF EmitInv, EmitsOnward, ScanTypes,
          TimesAreOrdered, Goto, Drop, BudgetExhausted, EndProcess, AbortScan,
          MoveCursor, BeginScan, EndRun, TaskTo, Running, CommitsDone,
          NoTasks, worldVars, trackVars, scanVars, storeVars, producerVars,
          githubVars, runVars, repoVars
  <1>1. CASE GitHubWorld
    BY <1>1 DEF GitHubWorld, Tick, PushCommit, OpenPR, MergePR, EditItem, Edit,
           Edited, WorldStep
  <1>2. CASE StartGitHub
    BY <1>2 DEF StartGitHub
  <1>3. CASE PublishRepository
    BY <1>3 DEF PublishRepository
  <1>4. CASE RefreshIdentity
    BY <1>4 DEF RefreshIdentity
  <1>5. CASE ListCommits
    BY <1>5 DEF ListCommits
  <1>6. ASSUME NEW c \in Commit, Extract(c) PROVE EmitsOnward
    BY <1>6 DEF Extract
  <1>7. ASSUME NEW c \in Commit, ExtractGivesUp(c) PROVE EmitsOnward
    BY <1>7 DEF ExtractGivesUp
  <1>8. ASSUME NEW c \in Commit, PublishAuthor(c) PROVE EmitsOnward
    BY <1>8 DEF PublishAuthor
  <1>9. ASSUME NEW c \in Commit, PublishCommit(c) PROVE EmitsOnward
    <2>1. c \in Item /\ item' = item
      BY <1>9 DEF PublishCommit
    <2>2. emitted' = [emitted EXCEPT ![c] = Latest(emitted[c], item[c].rev)]
      BY <1>9, <2>1, PublishOne DEF PublishCommit, Seen
    <2> QED BY <2>1, <2>2 DEF Latest
  <1>10. ASSUME NEW c \in Commit, DropCommit(c) PROVE EmitsOnward
    BY <1>10 DEF DropCommit
  <1>11. CASE ListPRs
    BY <1>11 DEF ListPRs
  <1>12. CASE StopAtOldPR
    BY <1>12 DEF StopAtOldPR
  <1>13. ASSUME NEW p \in PR, PublishPR(p) PROVE EmitsOnward
    <2>1. PICK out \in SUBSET Unseen(p) : Publish({Seen(c) : c \in out} \cup {RevAtHand})
      BY <1>13 DEF PublishPR
    <2>2. todo # << >> /\ Head(todo).id = p /\ item' = item
      BY <1>13 DEF PublishPR, PRAtHand, AtHand, EmitPRCommits
    <2>3. out \in SUBSET Commit /\ p \notin Commit
      BY RepositoryShape DEF Unseen
    <2> DEFINE revs == {Seen(c) : c \in out} \cup {RevAtHand}
    <2> HIDE DEF revs
    <2>4. Publish(revs) /\ revs = {Seen(c) : c \in out} \cup {RevAtHand}
      BY <2>1 DEF revs
    <2> QED BY ONLY <2>2, <2>3, <2>4, EmitMany, EmitInv
  <1>14. ASSUME NEW p \in PR, DropPR(p) PROVE EmitsOnward
    <2>1. PICK out \in SUBSET Unseen(p) : Publish({Seen(c) : c \in out})
      BY <1>14 DEF DropPR
    <2>2. todo # << >> /\ Head(todo).id = p /\ item' = item
      BY <1>14 DEF DropPR, PRAtHand, AtHand, EmitPRCommits
    <2>3. out \in SUBSET Commit /\ p \notin Commit
      BY RepositoryShape DEF Unseen
    <2> DEFINE revs == {Seen(c) : c \in out}
    <2> HIDE DEF revs
    <2>4. Publish(revs) /\ revs = {Seen(c) : c \in out} \cup {}
      BY <2>1 DEF revs
    <2> QED BY ONLY <2>2, <2>3, <2>4, EmitMany, EmitInv
  <1>15. CASE ListIssues
    BY <1>15 DEF ListIssues
  <1>16. CASE IssuesDone
    BY <1>16 DEF IssuesDone
  <1>17. ASSUME NEW i \in Issue, PublishIssue(i) PROVE EmitsOnward
    <2>1. Publish({RevAtHand})
      BY <1>17 DEF PublishIssue
    <2>2. todo # << >> /\ Head(todo).id = i /\ item' = item
      BY <1>17 DEF PublishIssue, AtHand
    <2>3. i \notin Commit
      BY RepositoryShape
    <2> DEFINE revs == {RevAtHand}
    <2> HIDE DEF revs
    <2>4. Publish(revs) /\ revs = {Seen(c) : c \in {}} \cup {RevAtHand}
      BY <2>1 DEF revs
    <2> QED BY ONLY <2>2, <2>3, <2>4, EmitMany, EmitInv
  <1>18. ASSUME NEW i \in Issue, DropIssue(i) PROVE EmitsOnward
    BY <1>18 DEF DropIssue
  <1>19. CASE GiveUpGitHub
    BY <1>19 DEF GiveUpGitHub
  <1>20. CASE ErrorGitHub
    BY <1>20 DEF ErrorGitHub
  <1>21. CASE FailRepo
    BY <1>21 DEF FailRepo
  <1>22. CASE FinishGitHub
    BY <1>22 DEF FinishGitHub
  <1>23. CASE KillGitHub
    BY <1>23 DEF KillGitHub
  <1>24. CASE UNCHANGED <<producerVars, githubVars>>
    BY <1>24
  <1>25. CASE SkipRepository
    BY <1>25 DEF SkipRepository
  <1> QED BY <1>1, <1>2, <1>3, <1>4, <1>5, <1>6, <1>7, <1>8, <1>9, <1>10,
             <1>11, <1>12, <1>13, <1>14, <1>15, <1>16, <1>17, <1>18, <1>19,
             <1>20, <1>21, <1>22, <1>23, <1>24, <1>25 DEF GitHubNext, CommitStep

\* What happens to the repository changes nothing in the scan.
LEMMA WorldEdits ==
  ASSUME ScanTypes, GitHubWorld
  PROVE  /\ item' \in [Item -> [rev : Nat, at : Nat]]
         /\ \A x \in Item : item'[x] = item[x]
                \/ item'[x] = [rev |-> item[x].rev + 1, at |-> now]
         /\ now' \in Nat /\ now <= now'
         /\ UNCHANGED <<scanVars, storeVars, trackVars, runVars>>
  <1> USE DEF ScanTypes, Edited, WorldStep, scanVars, storeVars, trackVars,
          githubVars
  <1> DEFINE Goal == /\ item' \in [Item -> [rev : Nat, at : Nat]]
                     /\ \A x \in Item : item'[x] = item[x]
                            \/ item'[x] = [rev |-> item[x].rev + 1, at |-> now]
                     /\ now' \in Nat /\ now <= now'
                     /\ UNCHANGED <<scanVars, storeVars, trackVars, runVars>>
  <1>1. ASSUME NEW c \in Commit, PushCommit(c) PROVE Goal
    BY <1>1 DEF PushCommit
  <1>2. ASSUME NEW p \in PR, OpenPR(p) PROVE Goal
    BY <1>2 DEF OpenPR
  <1>3. ASSUME NEW p \in PR, MergePR(p) PROVE Goal
    BY <1>3 DEF MergePR
  <1>4. ASSUME NEW x \in PR \cup Issue, EditItem(x) PROVE Goal
    BY <1>4 DEF EditItem, Edit
  <1>5. CASE Tick /\ UNCHANGED githubVars
    BY <1>5 DEF Tick
  <1> QED BY <1>1, <1>2, <1>3, <1>4, <1>5 DEF GitHubWorld

LEMMA GitHubStepTypes ==
  ScanTypes /\ RepoTypes /\ EmitsOnward /\ [GitHubNext]_<<producerVars, githubVars>>
    => (ScanTypes /\ RepoTypes)'
  <1> DEFINE Goal == (ScanTypes /\ RepoTypes)'
  <1> SUFFICES ASSUME ScanTypes /\ RepoTypes /\ EmitsOnward,
                      [GitHubNext]_<<producerVars, githubVars>>
               PROVE  Goal
    OBVIOUS
  <1> USE RepositoryShape, ScanBounds DEF ScanTypes, RepoTypes, EmitsOnward,
          Goto, Drop, BudgetExhausted, EndProcess, AbortScan, MoveCursor,
          BeginScan, EndRun, TaskTo, Running, CommitsDone, NoTasks, worldVars,
          trackVars, scanVars, storeVars, producerVars, githubVars, runVars,
          repoVars
  <1>1. CASE GitHubWorld
    <2>1. where' \in [Commit -> {"local", "pr", "main"}]
      BY <1>1 DEF GitHubWorld, Tick, PushCommit, OpenPR, MergePR, EditItem
    <2>2. landed' \in [Commit -> Nat \cup {Never}]
      <3>1. ASSUME NEW p \in PR, MergePR(p) PROVE landed' \in [Commit -> Nat \cup {Never}]
        BY <3>1 DEF MergePR
      <3>2. ASSUME NEW p \in PR, OpenPR(p) PROVE landed' = landed
        BY <3>2 DEF OpenPR
      <3>3. ASSUME NEW c \in Commit, PushCommit(c) PROVE landed' = [landed EXCEPT ![c] = now]
        BY <3>3 DEF PushCommit
      <3>4. ASSUME NEW x \in PR \cup Issue, EditItem(x) PROVE landed' = landed
        BY <3>4 DEF EditItem
      <3> QED BY <1>1, <3>1, <3>2, <3>3, <3>4 DEF GitHubWorld
    <2>3. prState' \in [PR -> {"none", "open", "merged"}]
      BY <1>1 DEF GitHubWorld, Tick, PushCommit, OpenPR, MergePR, EditItem
    <2> QED BY <1>1, <2>1, <2>2, <2>3, WorldEdits
  <1>2. CASE StartGitHub
    BY <1>2 DEF StartGitHub
  <1>3. CASE PublishRepository
    BY <1>3 DEF PublishRepository
  <1>4. CASE RefreshIdentity
    BY <1>4 DEF RefreshIdentity
  <1>5. CASE ListCommits
    BY <1>5 DEF ListCommits
  <1>6. ASSUME NEW c \in Commit, Extract(c) PROVE Goal
    BY <1>6 DEF Extract
  <1>7. ASSUME NEW c \in Commit, ExtractGivesUp(c) PROVE Goal
    BY <1>7 DEF ExtractGivesUp
  <1>8. ASSUME NEW c \in Commit, PublishAuthor(c) PROVE Goal
    BY <1>8 DEF PublishAuthor
  <1>9. ASSUME NEW c \in Commit, PublishCommit(c) PROVE Goal
    BY <1>9 DEF PublishCommit
  <1>10. ASSUME NEW c \in Commit, DropCommit(c) PROVE Goal
    BY <1>10 DEF DropCommit
  <1>11. CASE ListPRs
    <2>1. todo' \in Seq([id : Item, rev : Nat, at : Nat])
      <3> DEFINE S == {p \in PR : prState[p] # "none"}
      <3>1. S \in SUBSET Item /\ IsFiniteSet(S) /\ todo' \in NewestFirst(S)
        BY <1>11, FS_Subset DEF ListPRs, Fetched
      <3> HIDE DEF S
      <3> QED BY <3>1, ListingIsComplete
    <2> QED BY <1>11, <2>1 DEF ListPRs
  <1>12. CASE StopAtOldPR
    BY <1>12 DEF StopAtOldPR
  <1>13. ASSUME NEW p \in PR, PublishPR(p) PROVE Goal
    <2>1. todo # << >> /\ todo' = Tail(todo)
      BY <1>13 DEF PublishPR, EmitPRCommits, PRAtHand, AtHand, Unseen
    <2>2. Tail(todo) \in Seq([id : Item, rev : Nat, at : Nat])
      BY <2>1, HeadAndTail
    <2> QED BY <1>13, <2>1, <2>2 DEF PublishPR, EmitPRCommits, PRAtHand, AtHand, Unseen
  <1>14. ASSUME NEW p \in PR, DropPR(p) PROVE Goal
    <2>1. todo # << >> /\ todo' = Tail(todo)
      BY <1>14 DEF DropPR, EmitPRCommits, PRAtHand, AtHand, Unseen
    <2>2. Tail(todo) \in Seq([id : Item, rev : Nat, at : Nat])
      BY <2>1, HeadAndTail
    <2> QED BY <1>14, <2>1, <2>2 DEF DropPR, EmitPRCommits, PRAtHand, AtHand, Unseen
  <1>15. CASE ListIssues
    <2>1. todo' = todo \/ todo' \in Seq([id : Item, rev : Nat, at : Nat])
      <3> SUFFICES ASSUME todo' \in NewestFirst(IssueWindow)
                   PROVE  todo' \in Seq([id : Item, rev : Nat, at : Nat])
        BY <1>15 DEF ListIssues
      <3>1. IssueWindow \in SUBSET Item /\ IsFiniteSet(IssueWindow)
        BY FS_Subset DEF IssueWindow
      <3> QED BY <3>1, ListingIsComplete
    <2> QED BY <1>15, <2>1 DEF ListIssues
  <1>16. CASE IssuesDone
    BY <1>16 DEF IssuesDone
  <1>17. ASSUME NEW i \in Issue, PublishIssue(i) PROVE Goal
    <2>1. todo # << >> /\ todo' = Tail(todo)
      BY <1>17 DEF PublishIssue, AtHand
    <2>2. Tail(todo) \in Seq([id : Item, rev : Nat, at : Nat])
      BY <2>1, HeadAndTail
    <2> QED BY <1>17, <2>1, <2>2 DEF PublishIssue, AtHand
  <1>18. ASSUME NEW i \in Issue, DropIssue(i) PROVE Goal
    <2>1. todo # << >> /\ todo' = Tail(todo)
      BY <1>18 DEF DropIssue, AtHand
    <2>2. Tail(todo) \in Seq([id : Item, rev : Nat, at : Nat])
      BY <2>1, HeadAndTail
    <2> QED BY <1>18, <2>1, <2>2 DEF DropIssue, AtHand
  <1>19. CASE GiveUpGitHub
    BY <1>19 DEF GiveUpGitHub
  <1>20. CASE ErrorGitHub
    BY <1>20 DEF ErrorGitHub
  <1>21. CASE FailRepo
    BY <1>21 DEF FailRepo
  <1>22. CASE FinishGitHub
    BY <1>22 DEF FinishGitHub
  <1>23. CASE KillGitHub
    BY <1>23 DEF KillGitHub
  <1>24. CASE UNCHANGED <<producerVars, githubVars>>
    BY <1>24
  <1>25. CASE SkipRepository
    BY <1>25 DEF SkipRepository
  <1> QED BY <1>1, <1>2, <1>3, <1>4, <1>5, <1>6, <1>7, <1>8, <1>9, <1>10,
             <1>11, <1>12, <1>13, <1>14, <1>15, <1>16, <1>17, <1>18, <1>19,
             <1>20, <1>21, <1>22, <1>23, <1>24, <1>25 DEF GitHubNext, CommitStep

LEMMA GitHubStepTimes ==
  ScanTypes /\ TimesAreOrdered /\ EmitsOnward
    /\ [GitHubNext]_<<producerVars, githubVars>>
    => TimesAreOrdered'
  <1> SUFFICES ASSUME ScanTypes /\ TimesAreOrdered /\ EmitsOnward,
                      [GitHubNext]_<<producerVars, githubVars>>
               PROVE  TimesAreOrdered'
    OBVIOUS
  <1> USE RepositoryShape, ScanBounds DEF ScanTypes, TimesAreOrdered,
          EmitsOnward, Goto, Drop, BudgetExhausted, EndProcess, AbortScan,
          MoveCursor, BeginScan, EndRun, TaskTo, Running, CommitsDone,
          NoTasks, worldVars, trackVars, scanVars, storeVars, producerVars,
          githubVars, runVars, repoVars
  <1>1. CASE GitHubWorld
    BY <1>1 DEF GitHubWorld, Tick, PushCommit, OpenPR, MergePR, EditItem, Edit,
           Edited, WorldStep
  <1>2. CASE StartGitHub
    BY <1>2 DEF StartGitHub
  <1>3. CASE PublishRepository
    BY <1>3 DEF PublishRepository
  <1>4. CASE RefreshIdentity
    BY <1>4 DEF RefreshIdentity
  <1>5. CASE ListCommits
    BY <1>5 DEF ListCommits
  <1>6. ASSUME NEW c \in Commit, Extract(c) PROVE TimesAreOrdered'
    BY <1>6 DEF Extract
  <1>7. ASSUME NEW c \in Commit, ExtractGivesUp(c) PROVE TimesAreOrdered'
    BY <1>7 DEF ExtractGivesUp
  <1>8. ASSUME NEW c \in Commit, PublishAuthor(c) PROVE TimesAreOrdered'
    BY <1>8 DEF PublishAuthor
  <1>9. ASSUME NEW c \in Commit, PublishCommit(c) PROVE TimesAreOrdered'
    BY <1>9 DEF PublishCommit
  <1>10. ASSUME NEW c \in Commit, DropCommit(c) PROVE TimesAreOrdered'
    BY <1>10 DEF DropCommit
  <1>11. CASE ListPRs
    BY <1>11 DEF ListPRs
  <1>12. CASE StopAtOldPR
    BY <1>12 DEF StopAtOldPR
  <1>13. ASSUME NEW p \in PR, PublishPR(p) PROVE TimesAreOrdered'
    BY <1>13 DEF PublishPR, EmitPRCommits
  <1>14. ASSUME NEW p \in PR, DropPR(p) PROVE TimesAreOrdered'
    BY <1>14 DEF DropPR, EmitPRCommits
  <1>15. CASE ListIssues
    BY <1>15 DEF ListIssues
  <1>16. CASE IssuesDone
    BY <1>16 DEF IssuesDone
  <1>17. ASSUME NEW i \in Issue, PublishIssue(i) PROVE TimesAreOrdered'
    BY <1>17 DEF PublishIssue
  <1>18. ASSUME NEW i \in Issue, DropIssue(i) PROVE TimesAreOrdered'
    BY <1>18 DEF DropIssue
  <1>19. CASE GiveUpGitHub
    BY <1>19 DEF GiveUpGitHub
  <1>20. CASE ErrorGitHub
    BY <1>20 DEF ErrorGitHub
  <1>21. CASE FailRepo
    BY <1>21 DEF FailRepo
  <1>22. CASE FinishGitHub
    BY <1>22 DEF FinishGitHub
  <1>23. CASE KillGitHub
    BY <1>23 DEF KillGitHub
  <1>24. CASE UNCHANGED <<producerVars, githubVars>>
    BY <1>24
  <1>25. CASE SkipRepository
    BY <1>25 DEF SkipRepository
  <1> QED BY <1>1, <1>2, <1>3, <1>4, <1>5, <1>6, <1>7, <1>8, <1>9, <1>10,
             <1>11, <1>12, <1>13, <1>14, <1>15, <1>16, <1>17, <1>18, <1>19,
             <1>20, <1>21, <1>22, <1>23, <1>24, <1>25 DEF GitHubNext, CommitStep

LEMMA GitHubStepRepo ==
  ScanTypes /\ GitHubTypes /\ RepoTypes /\ RepoIsSound
    /\ [GitHubNext]_<<producerVars, githubVars>>
    => RepoIsSound'
  <1> SUFFICES ASSUME ScanTypes /\ GitHubTypes /\ RepoTypes /\ RepoIsSound,
                      [GitHubNext]_<<producerVars, githubVars>>
               PROVE  RepoIsSound'
    OBVIOUS
  <1> USE RepositoryShape, ScanBounds DEF ScanTypes, GitHubTypes, RepoTypes,
          RepoIsSound, Fixed, Goto, Drop, BudgetExhausted, EndProcess,
          AbortScan, MoveCursor, BeginScan, EndRun, TaskTo, Running,
          CommitsDone, NoTasks, worldVars, trackVars, scanVars, storeVars,
          producerVars, githubVars, runVars, repoVars
  <1>1. CASE GitHubWorld
    <2>1. ASSUME NEW c \in Commit, PushCommit(c) PROVE RepoIsSound'
      BY <2>1 DEF PushCommit, Edited, WorldStep
    <2>2. ASSUME NEW p \in PR, OpenPR(p) PROVE RepoIsSound'
      BY <2>2 DEF OpenPR, Edited, WorldStep
    <2>3. ASSUME NEW p \in PR, MergePR(p) PROVE RepoIsSound'
      <3>1. PICK new \in {{}, {c \in CommitsOf[p] : where[c] = "pr"}} :
               /\ where' = [c \in Commit |-> IF c \in new THEN "main" ELSE where[c]]
               /\ landed' = [c \in Commit |-> IF c \in new THEN now ELSE landed[c]]
        BY <2>3 DEF MergePR
      <3>2. /\ prState[p] = "open" /\ prState' = [prState EXCEPT ![p] = "merged"]
            /\ UNCHANGED <<now, task>>
        BY <2>3 DEF MergePR, WorldStep
      <3>3. item' = [x \in Item |-> IF x \in {p} THEN [rev |-> item[x].rev + 1, at |-> now]
                                                ELSE item[x]]
        BY <2>3 DEF MergePR, Edited
      <3>4. \A c \in Commit : item'[c] = item[c]
        BY <3>3
      <3>5. \A q \in PR : prState'[q] # "none" <=> prState[q] # "none"
        BY <3>2
      <3>6. \A c \in new : where[c] = "pr"
        BY <3>1
      <3>7. \A c \in Commit : where[c] # "local" <=> where'[c] # "local"
        BY <3>1, <3>6
      <3>8. \A q \in PR : item'[q].rev > 0 <=> item[q].rev > 0
        BY <3>2, <3>3
      <3>9. ASSUME NEW c \in Commit
            PROVE  /\ where'[c] # "local" => item'[c].rev > 0
                   /\ landed'[c] # Never => where'[c] = "main" /\ landed'[c] <= now'
                   /\ task'[c] \in {"wait", "person", "commit"} => where'[c] # "local"
        BY <3>1, <3>2, <3>4, <3>7
      <3>10. \A q \in PR :
               /\ prState'[q] # "none" <=> item'[q].rev > 0
               /\ prState'[q] # "none" => \A c \in CommitsOf[q] : where'[c] # "local"
        BY <3>5, <3>7, <3>8
      <3> QED BY <3>9, <3>10
    <2>4. ASSUME NEW x \in PR \cup Issue, EditItem(x) PROVE RepoIsSound'
      BY <2>4 DEF EditItem, Edit, Edited, Known
    <2>5. CASE Tick /\ UNCHANGED githubVars
      BY <2>5 DEF Tick
    <2> QED BY <1>1, <2>1, <2>2, <2>3, <2>4, <2>5 DEF GitHubWorld
  <1>2. CASE StartGitHub
    BY <1>2 DEF StartGitHub
  <1>3. CASE PublishRepository
    BY <1>3 DEF PublishRepository
  <1>4. CASE RefreshIdentity
    BY <1>4 DEF RefreshIdentity
  <1>5. CASE ListCommits
    BY <1>5 DEF ListCommits, Listed
  <1>6. ASSUME NEW c \in Commit, Extract(c) PROVE RepoIsSound'
    BY <1>6 DEF Extract
  <1>7. ASSUME NEW c \in Commit, ExtractGivesUp(c) PROVE RepoIsSound'
    BY <1>7 DEF ExtractGivesUp
  <1>8. ASSUME NEW c \in Commit, PublishAuthor(c) PROVE RepoIsSound'
    BY <1>8 DEF PublishAuthor
  <1>9. ASSUME NEW c \in Commit, PublishCommit(c) PROVE RepoIsSound'
    BY <1>9 DEF PublishCommit
  <1>10. ASSUME NEW c \in Commit, DropCommit(c) PROVE RepoIsSound'
    BY <1>10 DEF DropCommit
  <1>11. CASE ListPRs
    BY <1>11 DEF ListPRs
  <1>12. CASE StopAtOldPR
    BY <1>12 DEF StopAtOldPR
  <1>13. ASSUME NEW p \in PR, PublishPR(p) PROVE RepoIsSound'
    BY <1>13 DEF PublishPR, EmitPRCommits
  <1>14. ASSUME NEW p \in PR, DropPR(p) PROVE RepoIsSound'
    BY <1>14 DEF DropPR, EmitPRCommits
  <1>15. CASE ListIssues
    BY <1>15 DEF ListIssues
  <1>16. CASE IssuesDone
    BY <1>16 DEF IssuesDone
  <1>17. ASSUME NEW i \in Issue, PublishIssue(i) PROVE RepoIsSound'
    BY <1>17 DEF PublishIssue
  <1>18. ASSUME NEW i \in Issue, DropIssue(i) PROVE RepoIsSound'
    BY <1>18 DEF DropIssue
  <1>19. CASE GiveUpGitHub
    BY <1>19 DEF GiveUpGitHub
  <1>20. CASE ErrorGitHub
    BY <1>20 DEF ErrorGitHub
  <1>21. CASE FailRepo
    BY <1>21 DEF FailRepo
  <1>22. CASE FinishGitHub
    BY <1>22 DEF FinishGitHub
  <1>23. CASE KillGitHub
    BY <1>23 DEF KillGitHub
  <1>24. CASE UNCHANGED <<producerVars, githubVars>>
    BY <1>24
  <1>25. CASE SkipRepository
    BY <1>25 DEF SkipRepository
  <1> QED BY <1>1, <1>2, <1>3, <1>4, <1>5, <1>6, <1>7, <1>8, <1>9, <1>10,
             <1>11, <1>12, <1>13, <1>14, <1>15, <1>16, <1>17, <1>18, <1>19,
             <1>20, <1>21, <1>22, <1>23, <1>24, <1>25 DEF GitHubNext, CommitStep

LEMMA TodoTypes ==
  ASSUME RepoTypes, NEW k \in 1 .. Len(todo)
  PROVE  todo[k] \in [id : Item, rev : Nat, at : Nat]
  <1> DEFINE Rec == [id : Item, rev : Nat, at : Nat]
  <1>1. todo \in Seq(Rec)
    BY DEF RepoTypes
  <1> HIDE DEF Rec
  <1>2. todo[k] \in Rec
    BY <1>1
  <1> QED BY <1>2 DEF Rec

\* The loop goes on to the next item.
LEMMA TailIsReal ==
  ASSUME RepoTypes, TodoIsReal, PRsAreSorted, todo # << >>, todo' = Tail(todo),
         UNCHANGED <<phase, item, started>>
  PROVE  TodoIsReal' /\ PRsAreSorted'
  <1>1. /\ Len(todo') = Len(todo) - 1 /\ Len(todo) \in Nat
        /\ \A k \in 1 .. Len(todo) - 1 : todo'[k] = todo[k + 1]
    BY HeadAndTail DEF RepoTypes
  <1>2. \A k \in 1 .. Len(todo') : k + 1 \in 1 .. Len(todo) /\ todo'[k] = todo[k + 1]
    BY <1>1
  <1>3. TodoIsReal'
    <2> SUFFICES ASSUME NEW k \in 1 .. Len(todo')
                 PROVE  /\ phase \in {"prs", "issues", "failed"}
                        /\ phase = "prs" => todo'[k].id \in PR
                        /\ phase = "issues" => todo'[k].id \in Issue
                        /\ todo'[k].rev > 0 /\ todo'[k].rev <= item[todo'[k].id].rev
                        /\ todo'[k].at <= item[todo'[k].id].at
                        /\ \/ /\ todo'[k].rev = item[todo'[k].id].rev
                              /\ todo'[k].at = item[todo'[k].id].at
                           \/ started <= item[todo'[k].id].at
      BY DEF TodoIsReal
    <2>1. k + 1 \in 1 .. Len(todo) /\ todo'[k] = todo[k + 1]
      BY <1>2
    <2> QED BY <2>1 DEF TodoIsReal
  <1>4. ASSUME phase = "prs", NEW j \in 1 .. Len(todo'), NEW k \in 1 .. Len(todo'), j < k
        PROVE  todo'[j].at >= todo'[k].at
    <2>1. j + 1 \in 1 .. Len(todo) /\ k + 1 \in 1 .. Len(todo) /\ j + 1 < k + 1
      BY <1>2, <1>4
    <2> QED BY <2>1, <1>2, <1>4 DEF PRsAreSorted
  <1> QED BY <1>3, <1>4 DEF PRsAreSorted

LEMMA GitHubStepTodo ==
  EmitInv /\ PRsAreSorted /\ RepoIsSound
    /\ [GitHubNext]_<<producerVars, githubVars>>
    => (TodoIsReal /\ PRsAreSorted)'
  <1> DEFINE Goal == (TodoIsReal /\ PRsAreSorted)'
  <1> SUFFICES ASSUME EmitInv /\ PRsAreSorted /\ RepoIsSound,
                      [GitHubNext]_<<producerVars, githubVars>>
               PROVE  Goal
    OBVIOUS
  <1> USE RepositoryShape, ScanBounds DEF EmitInv, ScanTypes, RepoTypes,
          TodoIsReal, PRsAreSorted, Goto, Drop, BudgetExhausted, EndProcess,
          AbortScan, MoveCursor, BeginScan, EndRun, TaskTo, Running,
          CommitsDone, NoTasks, worldVars, trackVars, scanVars, storeVars,
          producerVars, githubVars, runVars, repoVars
  <1>1. CASE GitHubWorld
    <2>1. /\ \A x \in Item : item'[x] = item[x]
                \/ item'[x] = [rev |-> item[x].rev + 1, at |-> now]
          /\ UNCHANGED <<phase, started, todo>>
      BY <1>1, WorldEdits
    <2>2. phase # "idle" => started <= now
      BY DEF TimesAreOrdered
    <2>3. ASSUME NEW k \in 1 .. Len(todo)
          PROVE  /\ todo[k].rev > 0 /\ todo[k].rev <= item'[todo[k].id].rev
                 /\ todo[k].at <= item'[todo[k].id].at
                 /\ \/ /\ todo[k].rev = item'[todo[k].id].rev
                       /\ todo[k].at = item'[todo[k].id].at
                    \/ started <= item'[todo[k].id].at
      <3>1. todo[k] \in [id : Item, rev : Nat, at : Nat]
        BY TodoTypes
      <3>2. item[todo[k].id].at <= now /\ phase # "idle"
        BY <3>1 DEF TimesAreOrdered
      <3>3. /\ item[todo[k].id].rev \in Nat /\ item[todo[k].id].at \in Nat
            /\ now \in Nat /\ started \in Nat
        BY <3>1
      <3>4. CASE item'[todo[k].id] = item[todo[k].id]
        BY <3>4, <3>1
      <3>5. CASE item'[todo[k].id] = [rev |-> item[todo[k].id].rev + 1, at |-> now]
        <4>1. /\ todo[k].rev > 0 /\ todo[k].rev <= item[todo[k].id].rev
              /\ todo[k].at <= item[todo[k].id].at
          OBVIOUS
        <4>2. /\ item'[todo[k].id].rev = item[todo[k].id].rev + 1
              /\ item'[todo[k].id].at = now
          BY <3>5
        <4>3. todo[k].rev \in Nat /\ todo[k].at \in Nat
          BY <3>1
        <4> QED BY ONLY <4>1, <4>2, <4>3, <3>2, <3>3, <2>2
      <3> QED BY <2>1, <3>1, <3>4, <3>5
    <2> QED BY <2>1, <2>3
  <1>2. CASE StartGitHub
    BY <1>2 DEF StartGitHub
  <1>3. CASE PublishRepository
    BY <1>3 DEF PublishRepository
  <1>4. CASE RefreshIdentity
    BY <1>4 DEF RefreshIdentity
  <1>5. CASE ListCommits
    BY <1>5 DEF ListCommits
  <1>6. ASSUME NEW c \in Commit, Extract(c) PROVE Goal
    BY <1>6 DEF Extract
  <1>7. ASSUME NEW c \in Commit, ExtractGivesUp(c) PROVE Goal
    BY <1>7 DEF ExtractGivesUp
  <1>8. ASSUME NEW c \in Commit, PublishAuthor(c) PROVE Goal
    BY <1>8 DEF PublishAuthor
  <1>9. ASSUME NEW c \in Commit, PublishCommit(c) PROVE Goal
    BY <1>9 DEF PublishCommit
  <1>10. ASSUME NEW c \in Commit, DropCommit(c) PROVE Goal
    BY <1>10 DEF DropCommit
  <1>11. CASE ListPRs
    <2> DEFINE S == {p \in PR : prState[p] # "none"}
    <2> SUFFICES ASSUME todo' \in NewestFirst(S), phase' = "prs" PROVE Goal
      BY <1>11 DEF ListPRs, Fetched
    <2>1. S \in SUBSET PR /\ IsFiniteSet(S) /\ \A x \in S : item[x].rev > 0
      BY FS_Subset DEF RepoIsSound, IssueWindow, Known
    <2>2. UNCHANGED <<item, started>>
      BY <1>11 DEF ListPRs
    <2> HIDE DEF S
    <2>3. /\ \A k \in 1 .. Len(todo') : todo'[k] = Snapshot(todo'[k].id) /\ todo'[k].id \in S
          /\ \A j, k \in 1 .. Len(todo') : j < k => todo'[j].at >= todo'[k].at
      BY <2>1, ListingIsComplete
    <2>4. ASSUME NEW k \in 1 .. Len(todo')
          PROVE  /\ todo'[k].id \in PR /\ todo'[k].rev = item[todo'[k].id].rev
                 /\ todo'[k].at = item[todo'[k].id].at /\ item[todo'[k].id].rev > 0
                 /\ item[todo'[k].id].rev \in Nat /\ item[todo'[k].id].at \in Nat
      <3>1. todo'[k].id \in S /\ todo'[k] = Snapshot(todo'[k].id)
        BY <2>3
      <3>2. todo'[k].id \in Item /\ todo'[k].id \in PR /\ item[todo'[k].id].rev > 0
        BY <2>1, <3>1
      <3> QED BY <3>1, <3>2 DEF Snapshot
    <2> QED BY <2>2, <2>3, <2>4
  <1>12. CASE StopAtOldPR
    BY <1>12 DEF StopAtOldPR
  <1>13. ASSUME NEW p \in PR, PublishPR(p) PROVE Goal
    <2>1. todo # << >> /\ todo' = Tail(todo) /\ UNCHANGED <<phase, item, started>>
      BY <1>13 DEF PublishPR, PRAtHand, AtHand, EmitPRCommits
    <2> QED BY ONLY <2>1, EmitInv, PRsAreSorted, TailIsReal DEF EmitInv
  <1>14. ASSUME NEW p \in PR, DropPR(p) PROVE Goal
    <2>1. todo # << >> /\ todo' = Tail(todo) /\ UNCHANGED <<phase, item, started>>
      BY <1>14 DEF DropPR, PRAtHand, AtHand, EmitPRCommits
    <2> QED BY ONLY <2>1, EmitInv, PRsAreSorted, TailIsReal DEF EmitInv
  <1>15. CASE ListIssues
    <2>a. CASE phase' = "advance"
      BY <1>15, <2>a DEF ListIssues
    <2>b. CASE phase' = "issues" /\ todo' \in NewestFirst(IssueWindow)
      <3> DEFINE S == IssueWindow
      <3>0. todo' \in NewestFirst(S)
        BY <2>b
      <3>1. S \in SUBSET Issue /\ IsFiniteSet(S) /\ \A x \in S : item[x].rev > 0
        BY FS_Subset DEF RepoIsSound, IssueWindow, Known
      <3>2. UNCHANGED <<item, started>>
        BY <1>15 DEF ListIssues
      <3> HIDE DEF S
      <3>3. /\ \A k \in 1 .. Len(todo') : todo'[k] = Snapshot(todo'[k].id) /\ todo'[k].id \in S
            /\ \A j, k \in 1 .. Len(todo') : j < k => todo'[j].at >= todo'[k].at
        BY <3>0, <3>1, ListingIsComplete
      <3>4. ASSUME NEW k \in 1 .. Len(todo')
            PROVE  /\ todo'[k].id \in Issue /\ todo'[k].rev = item[todo'[k].id].rev
                   /\ todo'[k].at = item[todo'[k].id].at /\ item[todo'[k].id].rev > 0
                   /\ item[todo'[k].id].rev \in Nat /\ item[todo'[k].id].at \in Nat
        <4>1. todo'[k].id \in S /\ todo'[k] = Snapshot(todo'[k].id)
          BY <3>3
        <4>2. todo'[k].id \in Item /\ todo'[k].id \in Issue /\ item[todo'[k].id].rev > 0
          BY <3>1, <4>1
        <4> QED BY <4>1, <4>2 DEF Snapshot
      <3> QED BY <2>b, <3>2, <3>3, <3>4
    <2> QED BY <1>15, <2>a, <2>b DEF ListIssues
  <1>16. CASE IssuesDone
    BY <1>16 DEF IssuesDone
  <1>17. ASSUME NEW i \in Issue, PublishIssue(i) PROVE Goal
    <2>1. todo # << >> /\ todo' = Tail(todo) /\ UNCHANGED <<phase, item, started>>
      BY <1>17 DEF PublishIssue, AtHand
    <2> QED BY ONLY <2>1, EmitInv, PRsAreSorted, TailIsReal DEF EmitInv
  <1>18. ASSUME NEW i \in Issue, DropIssue(i) PROVE Goal
    <2>1. todo # << >> /\ todo' = Tail(todo) /\ UNCHANGED <<phase, item, started>>
      BY <1>18 DEF DropIssue, AtHand
    <2> QED BY ONLY <2>1, EmitInv, PRsAreSorted, TailIsReal DEF EmitInv
  <1>19. CASE GiveUpGitHub
    BY <1>19 DEF GiveUpGitHub
  <1>20. CASE ErrorGitHub
    BY <1>20 DEF ErrorGitHub
  <1>21. CASE FailRepo
    BY <1>21 DEF FailRepo
  <1>22. CASE FinishGitHub
    BY <1>22 DEF FinishGitHub
  <1>23. CASE KillGitHub
    BY <1>23 DEF KillGitHub
  <1>24. CASE UNCHANGED <<producerVars, githubVars>>
    BY <1>24
  <1>25. CASE SkipRepository
    BY <1>25 DEF SkipRepository
  <1> QED BY <1>1, <1>2, <1>3, <1>4, <1>5, <1>6, <1>7, <1>8, <1>9, <1>10,
             <1>11, <1>12, <1>13, <1>14, <1>15, <1>16, <1>17, <1>18, <1>19,
             <1>20, <1>21, <1>22, <1>23, <1>24, <1>25 DEF GitHubNext, CommitStep

-----------------------------------------------------------------------------
(* GitHub: nothing is missed.                                              *)

\* What the cursor promises: pull requests, issues, and commits that landed
\* when they were made.
Watched == PR \cup Issue \cup {c \in Commit : landed[c] = item[c].at}

InTodo(x) == \E k \in 1 .. Len(todo) : todo[k].id = x

StillToCome(x) ==
    \/ phase \in {"repo", "identity", "list"}
    \/ x \in Commit /\ task[x] \in {"wait", "person", "commit"}
    \/ x \in PR /\ (phase = "commits" \/ (phase = "prs" /\ InTodo(x)))
    \/ x \in Issue /\ (phase \in {"commits", "prs"} \/ (phase = "issues" /\ InTodo(x)))

RepoIsHandled ==
    phase \notin {"idle", "failed"} =>
        \A x \in Watched : Known(x) /\ item[x].at < started =>
            DoneWith(x) \/ StillToCome(x)

WindowInv ==
    /\ EmitInv /\ GitHubTypes /\ TasksEnd /\ RepoIsSound /\ PRsAreSorted
    /\ RepoIsHandled /\ GitHubMissesNothing

LEMMA DoneStays ==
  ASSUME ScanTypes, EmitsOnward, NEW x \in Item, item'[x] = item[x],
         skipped \cup lost \subseteq skipped' \cup lost', DoneWith(x)
  PROVE  DoneWith(x)'
  BY DEF ScanTypes, EmitsOnward, DoneWith, Seen

LEMMA MissedStays ==
  ASSUME ScanTypes, EmitsOnward, UNCHANGED <<item, landed, cursor>>, lost \subseteq lost',
         GitHubMissesNothing
  PROVE  GitHubMissesNothing'
  <1> SUFFICES ASSUME cursor # Never, NEW x \in Watched, Known(x), item[x].at < cursor
               PROVE  emitted'[x] = item[x].rev \/ Seen(x) \in lost'
    BY DEF GitHubMissesNothing, NothingMissed, Watched, Known, Seen
  <1>1. emitted[x] = item[x].rev \/ Seen(x) \in lost
    BY DEF GitHubMissesNothing, NothingMissed, Watched
  <1>2. x \in Item /\ emitted[x] <= emitted'[x] /\ emitted'[x] <= item[x].rev
    BY RepositoryShape DEF EmitsOnward, Watched
  <1>3. emitted[x] \in Nat /\ emitted'[x] \in Nat /\ item[x].rev \in Nat
    BY <1>2 DEF EmitsOnward, ScanTypes
  <1> QED BY <1>1, <1>2, <1>3

\* What is older than the window was seen to before.
LEMMA OldIsDone ==
  ASSUME EmitInv, GitHubMissesNothing, phase # "idle", NEW x \in Watched, Known(x),
         item[x].at < Since
  PROVE  DoneWith(x)
  <1>1. last # Never
    BY RepositoryShape DEF EmitInv, ScanTypes, Since, Watched
  <1>2. cursor # Never /\ item[x].at < cursor
    BY <1>1 DEF EmitInv, TimesAreOrdered, Since
  <1> QED BY <1>2 DEF GitHubMissesNothing, NothingMissed, Watched, DoneWith

LEMMA TailKeeps ==
  ASSUME RepoTypes, todo # << >>, todo' = Tail(todo), NEW x, InTodo(x),
         x # Head(todo).id
  PROVE  InTodo(x)'
  <1>1. PICK k \in 1 .. Len(todo) : todo[k].id = x
    BY DEF InTodo
  <1>2. /\ Head(todo) = todo[1] /\ Len(todo) \in Nat
        /\ Len(todo') = Len(todo) - 1
        /\ \A j \in 1 .. Len(todo) - 1 : todo'[j] = todo[j + 1]
    BY HeadAndTail DEF RepoTypes
  <1>3. k # 1
    BY <1>1, <1>2
  <1>4. k - 1 \in 1 .. Len(todo) - 1 /\ todo'[k - 1] = todo[(k - 1) + 1]
    BY <1>1, <1>2, <1>3
  <1>5. (k - 1) + 1 = k
    BY <1>1
  <1>6. k - 1 \in 1 .. Len(todo') /\ todo'[k - 1].id = x
    BY <1>1, <1>2, <1>4, <1>5
  <1> QED BY <1>6 DEF InTodo

LEMMA GitHubStepWindow ==
  WindowInv /\ EmitsOnward /\ [GitHubNext]_<<producerVars, githubVars>>
    => (RepoIsHandled /\ GitHubMissesNothing)'
  <1> DEFINE Goal == (RepoIsHandled /\ GitHubMissesNothing)'
  <1> SUFFICES ASSUME WindowInv /\ EmitsOnward,
                      [GitHubNext]_<<producerVars, githubVars>>
               PROVE  Goal
    OBVIOUS
  <1> USE DEF WindowInv, Goto, Drop, BudgetExhausted, EndProcess, AbortScan,
          MoveCursor, BeginScan, EndRun, TaskTo, Running, CommitsDone,
          NoTasks, worldVars, trackVars, scanVars, storeVars, producerVars,
          githubVars, runVars, repoVars
  <1>1. CASE GitHubWorld
    <2>1. /\ \A x \in Item : item'[x] = item[x]
                \/ item'[x] = [rev |-> item[x].rev + 1, at |-> now]
          /\ UNCHANGED <<phase, started, last, skipped, cursor, lost, task, todo>>
      BY <1>1, WorldEdits DEF scanVars, storeVars, runVars, EmitInv
    <2>2. \A c \in Commit : landed'[c] = landed[c] \/ landed'[c] = now
      BY <1>1
         DEF GitHubWorld, Tick, PushCommit, OpenPR, MergePR, EditItem, RepoTypes,
               EmitInv
    <2>3. \A x \in Watched' : x \in Item /\ ((x \in Watched /\ item'[x] = item[x]) \/ item'[x].at = now)
      <3> SUFFICES ASSUME NEW x \in Watched'
                   PROVE  x \in Item /\ ((x \in Watched /\ item'[x] = item[x]) \/ item'[x].at = now)
        OBVIOUS
      <3>1. x \in Item
        BY RepositoryShape DEF Watched
      <3>2. CASE item'[x] = [rev |-> item[x].rev + 1, at |-> now]
        BY <3>1, <3>2
      <3>3. CASE item'[x] = item[x]
        <4>1. x \in PR \cup Issue \/ (x \in Commit /\ landed'[x] = item[x].at)
          BY <3>3 DEF Watched
        <4> QED BY <3>1, <3>3, <4>1, <2>2 DEF Watched
      <3> QED BY <2>1, <3>1, <3>2, <3>3
    <2>4. /\ cursor # Never => cursor <= now
          /\ phase # "idle" => started <= now
          /\ now \in Nat /\ cursor \in Nat \cup {Never} /\ started \in Nat
      BY DEF EmitInv, TimesAreOrdered, ScanTypes
    <2>5. ASSUME NEW x \in Watched', x \in Watched, item'[x] = item[x], DoneWith(x)
          PROVE  DoneWith(x)'
      BY <2>1, <2>3, <2>5, DoneStays DEF EmitInv
    <2>6. RepoIsHandled'
      <3> SUFFICES ASSUME phase \notin {"idle", "failed"}, NEW x \in Watched',
                          item'[x].rev > 0, item'[x].at < started
                   PROVE  DoneWith(x)' \/ StillToCome(x)'
        BY <2>1 DEF RepoIsHandled, Known
      <3>1. x \in Watched /\ item'[x] = item[x]
        BY <2>3, <2>4
      <3>2. DoneWith(x) \/ StillToCome(x)
        BY <3>1 DEF RepoIsHandled, Known
      <3>3. StillToCome(x) => StillToCome(x)'
        BY <2>1 DEF StillToCome, InTodo
      <3> QED BY <3>1, <3>2, <3>3, <2>5
    <2>7. GitHubMissesNothing'
      <3> SUFFICES ASSUME cursor # Never, NEW x \in Watched', item'[x].rev > 0,
                          item'[x].at < cursor
                   PROVE  emitted'[x] = item'[x].rev \/ Seen(x)' \in lost
        BY <2>1 DEF GitHubMissesNothing, NothingMissed, Watched, Known
      <3>1. x \in Watched /\ item'[x] = item[x]
        BY <2>3, <2>4
      <3>2. emitted[x] = item[x].rev \/ Seen(x) \in lost
        BY <3>1 DEF GitHubMissesNothing, NothingMissed, Watched, Known
      <3>3. x \in Item /\ emitted' = emitted
        BY <1>1, <2>3, WorldEdits DEF storeVars, EmitInv
      <3> QED BY <3>1, <3>2, <3>3 DEF Seen
    <2> QED BY <2>6, <2>7
  <1>2. CASE StartGitHub
    <2>1. /\ UNCHANGED <<item, landed, cursor>>
          /\ skipped \subseteq skipped' /\ lost' = lost
      BY <1>2 DEF StartGitHub
    <2>2. GitHubMissesNothing'
      BY <2>1, MissedStays DEF EmitInv
    <2>3. Watched' = Watched /\ \A x \in Watched : x \in Item
      BY <2>1, RepositoryShape DEF Watched
    <2>4. ASSUME NEW x \in Watched, DoneWith(x) PROVE DoneWith(x)'
      BY <2>1, <2>3, <2>4, DoneStays DEF EmitInv
    <2> SUFFICES ASSUME NEW x \in Watched, Known(x), phase' # "failed"
                 PROVE  DoneWith(x)' \/ StillToCome(x)'
      BY <2>1, <2>2, <2>3 DEF RepoIsHandled, Known
    <2>5. phase' = "repo"
      BY <1>2 DEF StartGitHub
    <2> QED BY <2>5 DEF StillToCome
  <1>3. CASE PublishRepository
    <2>1. /\ UNCHANGED <<item, landed, cursor, started>>
          /\ skipped \subseteq skipped' /\ lost' = lost
      BY <1>3 DEF PublishRepository
    <2>2. GitHubMissesNothing'
      BY <2>1, MissedStays DEF EmitInv
    <2>3. Watched' = Watched /\ \A x \in Watched : x \in Item
      BY <2>1, RepositoryShape DEF Watched
    <2>4. ASSUME NEW x \in Watched, DoneWith(x) PROVE DoneWith(x)'
      BY <2>1, <2>3, <2>4, DoneStays DEF EmitInv
    <2> SUFFICES ASSUME NEW x \in Watched, Known(x), item[x].at < started,
                        phase' # "failed"
                 PROVE  DoneWith(x)' \/ StillToCome(x)'
      BY <2>1, <2>2, <2>3 DEF RepoIsHandled, Known
    <2>5. phase' \in {"identity", "list"}
      BY <1>3 DEF PublishRepository
    <2> QED BY <2>5 DEF StillToCome
  <1>4. CASE RefreshIdentity
    <2>1. /\ UNCHANGED <<item, landed, cursor, started>>
          /\ skipped \subseteq skipped' /\ lost' = lost
      BY <1>4 DEF RefreshIdentity
    <2>2. GitHubMissesNothing'
      BY <2>1, MissedStays DEF EmitInv
    <2>3. Watched' = Watched /\ \A x \in Watched : x \in Item
      BY <2>1, RepositoryShape DEF Watched
    <2>4. ASSUME NEW x \in Watched, DoneWith(x) PROVE DoneWith(x)'
      BY <2>1, <2>3, <2>4, DoneStays DEF EmitInv
    <2> SUFFICES ASSUME NEW x \in Watched, Known(x), item[x].at < started,
                        phase' # "failed"
                 PROVE  DoneWith(x)' \/ StillToCome(x)'
      BY <2>1, <2>2, <2>3 DEF RepoIsHandled, Known
    <2>5. phase' \in {"identity", "list"}
      BY <1>4 DEF RefreshIdentity
    <2> QED BY <2>5 DEF StillToCome
  <1>5. CASE ListCommits
    <2>1. /\ UNCHANGED <<item, landed, cursor, started>>
          /\ skipped \subseteq skipped' /\ lost' = lost
      BY <1>5 DEF ListCommits
    <2>2. GitHubMissesNothing'
      BY <2>1, MissedStays DEF EmitInv
    <2>3. Watched' = Watched /\ \A x \in Watched : x \in Item
      BY <2>1, RepositoryShape DEF Watched
    <2>4. ASSUME NEW x \in Watched, DoneWith(x) PROVE DoneWith(x)'
      BY <2>1, <2>3, <2>4, DoneStays DEF EmitInv
    <2> SUFFICES ASSUME NEW x \in Watched, Known(x), item[x].at < started,
                        phase' # "failed"
                 PROVE  DoneWith(x)' \/ StillToCome(x)'
      BY <2>1, <2>2, <2>3 DEF RepoIsHandled, Known
    <2>5. /\ phase' = "commits" /\ phase = "list"
          /\ task' = [c \in Commit |-> IF c \in Listed THEN "wait" ELSE "none"]
      BY <1>5 DEF ListCommits
    <2>6. CASE x \in Commit
      <3>1. landed[x] # Never
        BY <2>3, <2>6, ScanBounds, RepositoryShape DEF Watched, EmitInv, ScanTypes
      <3>2. where[x] = "main"
        BY <2>6, <3>1 DEF RepoIsSound
      <3>3. CASE item[x].at < Since
        BY <3>3, <2>4, <2>5, OldIsDone
      <3>4. CASE item[x].at >= Since
        <4>1. x \in Listed
          BY <2>6, <3>2, <3>4 DEF Listed
        <4> QED BY <4>1, <2>5, <2>6 DEF StillToCome
      <3>5. item[x].at \in Nat /\ Since \in Nat
        BY <2>3 DEF EmitInv, ScanTypes, Since
      <3> QED BY <3>3, <3>4, <3>5
    <2>7. CASE x \notin Commit
      BY <2>5, <2>7 DEF Watched, StillToCome
    <2> QED BY <2>6, <2>7
  <1>6. ASSUME NEW c \in Commit, Extract(c) PROVE Goal
    <2>1. /\ UNCHANGED <<item, landed, cursor, started, phase, todo>>
          /\ skipped \subseteq skipped' /\ lost' = lost
      BY <1>6 DEF Extract
    <2>2. GitHubMissesNothing'
      BY <2>1, MissedStays DEF EmitInv
    <2>3. Watched' = Watched /\ \A x \in Watched : x \in Item
      BY <2>1, RepositoryShape DEF Watched
    <2>4. ASSUME NEW x \in Watched, DoneWith(x) PROVE DoneWith(x)'
      BY <2>1, <2>3, <2>4, DoneStays DEF EmitInv
    <2> SUFFICES ASSUME NEW x \in Watched, Known(x), item[x].at < started,
                        phase' # "failed"
                 PROVE  DoneWith(x)' \/ StillToCome(x)'
      BY <2>1, <2>2, <2>3 DEF RepoIsHandled, Known
    <2>5. /\ phase \in {"commits", "failed"} /\ task[c] \in {"wait", "person"}
          /\ \E t \in {"person", "commit"} : task' = [task EXCEPT ![c] = t]
      BY <1>6 DEF Extract
    <2>6. DoneWith(x) \/ StillToCome(x)
      BY <2>1, <2>5 DEF RepoIsHandled
    <2>7. StillToCome(x) => StillToCome(x)'
      BY <2>1, <2>5 DEF StillToCome, InTodo, GitHubTypes
    <2> QED BY <2>4, <2>6, <2>7
  <1>7. ASSUME NEW c \in Commit, ExtractGivesUp(c) PROVE Goal
    <2>1. /\ UNCHANGED <<item, landed, cursor, started>>
          /\ skipped \subseteq skipped' /\ lost' = lost
      BY <1>7 DEF ExtractGivesUp
    <2>2. GitHubMissesNothing'
      BY <2>1, MissedStays DEF EmitInv
    <2>3. Watched' = Watched /\ \A x \in Watched : x \in Item
      BY <2>1, RepositoryShape DEF Watched
    <2>4. ASSUME NEW x \in Watched, DoneWith(x) PROVE DoneWith(x)'
      BY <2>1, <2>3, <2>4, DoneStays DEF EmitInv
    <2> SUFFICES ASSUME NEW x \in Watched, Known(x), item[x].at < started,
                        phase' # "failed"
                 PROVE  DoneWith(x)' \/ StillToCome(x)'
      BY <2>1, <2>2, <2>3 DEF RepoIsHandled, Known
    <2>5. phase' = "failed"
      BY <1>7 DEF ExtractGivesUp
    <2> QED BY <2>5
  <1>8. ASSUME NEW c \in Commit, PublishAuthor(c) PROVE Goal
    <2>1. /\ UNCHANGED <<item, landed, cursor, started, phase, todo>>
          /\ skipped \subseteq skipped' /\ lost' = lost
      BY <1>8 DEF PublishAuthor
    <2>2. GitHubMissesNothing'
      BY <2>1, MissedStays DEF EmitInv
    <2>3. Watched' = Watched /\ \A x \in Watched : x \in Item
      BY <2>1, RepositoryShape DEF Watched
    <2>4. ASSUME NEW x \in Watched, DoneWith(x) PROVE DoneWith(x)'
      BY <2>1, <2>3, <2>4, DoneStays DEF EmitInv
    <2> SUFFICES ASSUME NEW x \in Watched, Known(x), item[x].at < started,
                        phase' # "failed"
                 PROVE  DoneWith(x)' \/ StillToCome(x)'
      BY <2>1, <2>2, <2>3 DEF RepoIsHandled, Known
    <2>5. /\ phase \in {"commits", "failed"} /\ task[c] \in {"wait", "person"}
          /\ \E t \in {"person", "commit"} : task' = [task EXCEPT ![c] = t]
      BY <1>8 DEF PublishAuthor
    <2>6. DoneWith(x) \/ StillToCome(x)
      BY <2>1, <2>5 DEF RepoIsHandled
    <2>7. StillToCome(x) => StillToCome(x)'
      BY <2>1, <2>5 DEF StillToCome, InTodo, GitHubTypes
    <2> QED BY <2>4, <2>6, <2>7
  <1>9. ASSUME NEW c \in Commit, PublishCommit(c) PROVE Goal
    <2>1. /\ UNCHANGED <<item, landed, cursor, started, phase, todo>>
          /\ skipped \subseteq skipped' /\ lost' = lost
      BY <1>9 DEF PublishCommit
    <2>2. GitHubMissesNothing'
      BY <2>1, MissedStays DEF EmitInv
    <2>3. Watched' = Watched /\ \A x \in Watched : x \in Item
      BY <2>1, RepositoryShape DEF Watched
    <2>4. ASSUME NEW x \in Watched, DoneWith(x) PROVE DoneWith(x)'
      BY <2>1, <2>3, <2>4, DoneStays DEF EmitInv
    <2> SUFFICES ASSUME NEW x \in Watched, Known(x), item[x].at < started,
                        phase' # "failed"
                 PROVE  DoneWith(x)' \/ StillToCome(x)'
      BY <2>1, <2>2, <2>3 DEF RepoIsHandled, Known
    <2>5. /\ phase \in {"commits", "failed"}
          /\ task' = [task EXCEPT ![c] = "done"]
      BY <1>9 DEF PublishCommit
    <2>6. DoneWith(x) \/ StillToCome(x)
      BY <2>1, <2>5 DEF RepoIsHandled
    <2>7. DoneWith(c)'
      <3>1. emitted' = [emitted EXCEPT ![c] = Latest(emitted[c], item[c].rev)]
        BY <1>9, PublishOne, RepositoryShape
           DEF PublishCommit, Seen, EmitInv, ScanTypes
      <3>2. c \in Item /\ emitted[c] <= item[c].rev /\ emitted[c] \in Nat /\ item[c].rev \in Nat
        BY RepositoryShape DEF EmitInv, ScanTypes, TimesAreOrdered
      <3> QED BY <3>1, <3>2, <2>1 DEF Latest, DoneWith, EmitInv, ScanTypes
    <2>8. x # c /\ StillToCome(x) => StillToCome(x)'
      BY <2>1, <2>5 DEF StillToCome, InTodo, GitHubTypes
    <2> QED BY <2>4, <2>6, <2>7, <2>8
  <1>10. ASSUME NEW c \in Commit, DropCommit(c) PROVE Goal
    <2>1. /\ UNCHANGED <<item, landed, cursor, started, phase, todo>>
          /\ skipped \subseteq skipped' /\ lost' = lost
      BY <1>10 DEF DropCommit
    <2>2. GitHubMissesNothing'
      BY <2>1, MissedStays DEF EmitInv
    <2>3. Watched' = Watched /\ \A x \in Watched : x \in Item
      BY <2>1, RepositoryShape DEF Watched
    <2>4. ASSUME NEW x \in Watched, DoneWith(x) PROVE DoneWith(x)'
      BY <2>1, <2>3, <2>4, DoneStays DEF EmitInv
    <2> SUFFICES ASSUME NEW x \in Watched, Known(x), item[x].at < started,
                        phase' # "failed"
                 PROVE  DoneWith(x)' \/ StillToCome(x)'
      BY <2>1, <2>2, <2>3 DEF RepoIsHandled, Known
    <2>5. /\ phase \in {"commits", "failed"}
          /\ task' = [task EXCEPT ![c] = "done"]
      BY <1>10 DEF DropCommit
    <2>6. DoneWith(x) \/ StillToCome(x)
      BY <2>1, <2>5 DEF RepoIsHandled
    <2>7. DoneWith(c)'
      <3>1. Seen(c) \in skipped'
        BY <1>10 DEF DropCommit
      <3> QED BY <3>1, <2>1 DEF DoneWith, Seen
    <2>8. x # c /\ StillToCome(x) => StillToCome(x)'
      BY <2>1, <2>5 DEF StillToCome, InTodo, GitHubTypes
    <2> QED BY <2>4, <2>6, <2>7, <2>8
  <1>11. CASE ListPRs
    <2>1. /\ UNCHANGED <<item, landed, cursor, started>>
          /\ skipped \subseteq skipped' /\ lost' = lost
      BY <1>11 DEF ListPRs
    <2>2. GitHubMissesNothing'
      BY <2>1, MissedStays DEF EmitInv
    <2>3. Watched' = Watched /\ \A x \in Watched : x \in Item
      BY <2>1, RepositoryShape DEF Watched
    <2>4. ASSUME NEW x \in Watched, DoneWith(x) PROVE DoneWith(x)'
      BY <2>1, <2>3, <2>4, DoneStays DEF EmitInv
    <2> SUFFICES ASSUME NEW x \in Watched, Known(x), item[x].at < started,
                        phase' # "failed"
                 PROVE  DoneWith(x)' \/ StillToCome(x)'
      BY <2>1, <2>2, <2>3 DEF RepoIsHandled, Known
    <2>5. /\ phase = "commits" /\ phase' = "prs" /\ todo' \in Fetched
          /\ \A c \in Commit : task[c] \in {"none", "done"}
      BY <1>11 DEF ListPRs
    <2>6. DoneWith(x) \/ StillToCome(x)
      BY <2>5 DEF RepoIsHandled
    <2>7. ASSUME x \in PR PROVE InTodo(x)'
      <3> DEFINE S == {p \in PR : prState[p] # "none"}
      <3>1. S \in SUBSET Item /\ IsFiniteSet(S)
        BY FS_Subset, RepositoryShape
      <3>2. x \in S
        BY <2>7 DEF RepoIsSound, Known
      <3>3. todo' \in NewestFirst(S)
        BY <2>5 DEF Fetched
      <3> HIDE DEF S
      <3>4. \E k \in 1 .. Len(todo') : todo'[k] = Snapshot(x)
        BY <3>1, <3>2, <3>3, ListingIsComplete DEF EmitInv
      <3> QED BY <3>4 DEF Snapshot, InTodo
    <2>8. x \in Commit => x \notin PR \cup Issue
      BY RepositoryShape
    <2>9. x \in PR \cup Issue \cup Commit
      BY DEF Watched
    <2> QED BY <2>4, <2>5, <2>6, <2>7, <2>8, <2>9 DEF StillToCome
  <1>12. CASE StopAtOldPR
    <2>1. /\ UNCHANGED <<item, landed, cursor, started, phase>>
          /\ skipped \subseteq skipped' /\ lost' = lost
      BY <1>12 DEF StopAtOldPR
    <2>2. GitHubMissesNothing'
      BY <2>1, MissedStays DEF EmitInv
    <2>3. Watched' = Watched /\ \A x \in Watched : x \in Item
      BY <2>1, RepositoryShape DEF Watched
    <2>4. ASSUME NEW x \in Watched, DoneWith(x) PROVE DoneWith(x)'
      BY <2>1, <2>3, <2>4, DoneStays DEF EmitInv
    <2> SUFFICES ASSUME NEW x \in Watched, Known(x), item[x].at < started,
                        phase' # "failed"
                 PROVE  DoneWith(x)' \/ StillToCome(x)'
      BY <2>1, <2>2, <2>3 DEF RepoIsHandled, Known
    <2>5. phase = "prs" /\ todo # << >> /\ Head(todo).at < Since /\ task' = task
      BY <1>12 DEF StopAtOldPR
    <2>6. DoneWith(x) \/ StillToCome(x)
      BY <2>5 DEF RepoIsHandled
    <2>7. ASSUME x \in PR, InTodo(x) PROVE DoneWith(x)
      <3>1. PICK k \in 1 .. Len(todo) : todo[k].id = x
        BY <2>7 DEF InTodo
      <3>2. todo[k].at = item[x].at
        BY <3>1, <2>3 DEF TodoIsReal, EmitInv, ScanTypes
      <3>3. todo[k].at <= Head(todo).at
        <4>1. /\ 1 \in 1 .. Len(todo) /\ Head(todo) = todo[1]
              /\ Head(todo).at \in Nat
          BY <2>5, HeadAndTail, HeadIsReal DEF EmitInv, RepoTypes
        <4>2. k = 1 \/ 1 < k
          BY <3>1
        <4>3. 1 < k => Head(todo).at >= todo[k].at
          BY <4>1, <3>1, <2>5 DEF PRsAreSorted
        <4>4. todo[k].at \in Nat
          BY <3>1, TodoTypes DEF EmitInv
        <4> QED BY <4>1, <4>2, <4>3, <4>4
      <3>4. Head(todo).at \in Nat /\ Since \in Nat /\ item[x].at \in Nat
        BY <2>3, <2>5, HeadIsReal DEF EmitInv, ScanTypes, Since
      <3>5. item[x].at < Since
        BY <3>2, <3>3, <3>4, <2>5
      <3> QED BY <3>5, <2>5, OldIsDone
    <2>8. StillToCome(x) /\ ~(x \in PR /\ InTodo(x)) => StillToCome(x)'
      BY <2>1, <2>5 DEF StillToCome
    <2> QED BY <2>4, <2>6, <2>7, <2>8
  <1>13. ASSUME NEW p \in PR, PublishPR(p) PROVE Goal
    <2>1. /\ UNCHANGED <<item, landed, cursor, started, phase>>
          /\ skipped \subseteq skipped' /\ lost' = lost
      BY <1>13 DEF PublishPR, PRAtHand, AtHand, EmitPRCommits
    <2>2. GitHubMissesNothing'
      BY <2>1, MissedStays DEF EmitInv
    <2>3. Watched' = Watched /\ \A x \in Watched : x \in Item
      BY <2>1, RepositoryShape DEF Watched
    <2>4. ASSUME NEW x \in Watched, DoneWith(x) PROVE DoneWith(x)'
      BY <2>1, <2>3, <2>4, DoneStays DEF EmitInv
    <2> SUFFICES ASSUME NEW x \in Watched, Known(x), item[x].at < started,
                        phase' # "failed"
                 PROVE  DoneWith(x)' \/ StillToCome(x)'
      BY <2>1, <2>2, <2>3 DEF RepoIsHandled, Known
    <2>5. /\ todo # << >> /\ todo' = Tail(todo) /\ Head(todo).id = p /\ phase = "prs"
          /\ task' = task
      BY <1>13 DEF PublishPR, PRAtHand, AtHand, EmitPRCommits
    <2>6. DoneWith(x) \/ StillToCome(x)
      BY <2>5 DEF RepoIsHandled
    <2>7. item[p].at < started => DoneWith(p)'
      <3> SUFFICES ASSUME item[p].at < started PROVE DoneWith(p)'
        OBVIOUS
      <3>1. Head(todo).rev = item[p].rev
        BY <2>5, HeadIsReal, RepositoryShape DEF EmitInv, ScanTypes
      <3>2. emitted'[p] = item[p].rev
        <4>0. PICK out \in SUBSET Unseen(p) : Publish({Seen(c) : c \in out} \cup {RevAtHand})
          BY <1>13 DEF PublishPR
        <4> DEFINE revs == {Seen(c) : c \in out} \cup {RevAtHand}
        <4> HIDE DEF revs
        <4>1. Publish(revs) /\ revs = {Seen(c) : c \in out} \cup {RevAtHand}
          BY <4>0 DEF revs
        <4>2. out \in SUBSET Commit /\ p \notin Commit
          BY RepositoryShape DEF Unseen
        <4>9. emitted'[p] >= Head(todo).rev
          BY ONLY EmitInv, <2>1, <2>5, <4>1, <4>2, EmitMany
        <4>10. /\ p \in Item /\ emitted'[p] <= item[p].rev /\ emitted'[p] \in Nat
               /\ item[p].rev \in Nat
          BY RepositoryShape, <2>1 DEF EmitsOnward, EmitInv, ScanTypes
        <4> QED BY <3>1, <4>9, <4>10
      <3> QED BY <3>2, <2>1 DEF DoneWith
    <2>8. x # p /\ InTodo(x) => InTodo(x)'
      BY <2>5, TailKeeps DEF EmitInv
    <2>9. x # p /\ StillToCome(x) => StillToCome(x)'
      BY <2>1, <2>5, <2>8 DEF StillToCome
    <2> QED BY <2>4, <2>6, <2>7, <2>9
  <1>14. ASSUME NEW p \in PR, DropPR(p) PROVE Goal
    <2>1. /\ UNCHANGED <<item, landed, cursor, started, phase>>
          /\ skipped \subseteq skipped' /\ lost' = lost
      BY <1>14 DEF DropPR, PRAtHand, AtHand, EmitPRCommits
    <2>2. GitHubMissesNothing'
      BY <2>1, MissedStays DEF EmitInv
    <2>3. Watched' = Watched /\ \A x \in Watched : x \in Item
      BY <2>1, RepositoryShape DEF Watched
    <2>4. ASSUME NEW x \in Watched, DoneWith(x) PROVE DoneWith(x)'
      BY <2>1, <2>3, <2>4, DoneStays DEF EmitInv
    <2> SUFFICES ASSUME NEW x \in Watched, Known(x), item[x].at < started,
                        phase' # "failed"
                 PROVE  DoneWith(x)' \/ StillToCome(x)'
      BY <2>1, <2>2, <2>3 DEF RepoIsHandled, Known
    <2>5. /\ todo # << >> /\ todo' = Tail(todo) /\ Head(todo).id = p /\ phase = "prs"
          /\ task' = task
      BY <1>14 DEF DropPR, PRAtHand, AtHand, EmitPRCommits
    <2>6. DoneWith(x) \/ StillToCome(x)
      BY <2>5 DEF RepoIsHandled
    <2>7. item[p].at < started => DoneWith(p)'
      <3> SUFFICES ASSUME item[p].at < started PROVE DoneWith(p)'
        OBVIOUS
      <3>1. Head(todo).rev = item[p].rev
        BY <2>5, HeadIsReal, RepositoryShape DEF EmitInv, ScanTypes
      <3>2. <<p, item[p].rev>> \in skipped'
        BY <1>14, <2>5, <3>1 DEF DropPR, RevAtHand
      <3> QED BY <3>2, <2>1 DEF DoneWith, Seen
    <2>8. x # p /\ InTodo(x) => InTodo(x)'
      BY <2>5, TailKeeps DEF EmitInv
    <2>9. x # p /\ StillToCome(x) => StillToCome(x)'
      BY <2>1, <2>5, <2>8 DEF StillToCome
    <2> QED BY <2>4, <2>6, <2>7, <2>9
  <1>15. CASE ListIssues
    <2>1. /\ UNCHANGED <<item, landed, cursor, started>>
          /\ skipped \subseteq skipped' /\ lost' = lost
      BY <1>15 DEF ListIssues
    <2>2. GitHubMissesNothing'
      BY <2>1, MissedStays DEF EmitInv
    <2>3. Watched' = Watched /\ \A x \in Watched : x \in Item
      BY <2>1, RepositoryShape DEF Watched
    <2>4. ASSUME NEW x \in Watched, DoneWith(x) PROVE DoneWith(x)'
      BY <2>1, <2>3, <2>4, DoneStays DEF EmitInv
    <2> SUFFICES ASSUME NEW x \in Watched, Known(x), item[x].at < started,
                        phase' # "failed"
                 PROVE  DoneWith(x)' \/ StillToCome(x)'
      BY <2>1, <2>2, <2>3 DEF RepoIsHandled, Known
    <2>5. /\ phase = "prs" /\ todo = << >> /\ task' = task
          /\ \/ phase' = "issues" /\ todo' \in NewestFirst(IssueWindow)
             \/ phase' = "advance" /\ \A i \in IssueWindow : Seen(i) \in skipped'
      BY <1>15 DEF ListIssues
    <2>6. DoneWith(x) \/ StillToCome(x)
      BY <2>5 DEF RepoIsHandled
    <2>7. x \in Issue \/ DoneWith(x)
      BY <2>5, <2>6 DEF StillToCome, InTodo, TasksEnd
    <2>8. CASE x \in Issue /\ item[x].at < Since
      BY <2>4, <2>5, <2>8, OldIsDone
    <2>9. CASE x \in Issue /\ item[x].at >= Since
      <3>1. x \in IssueWindow
        BY <2>9 DEF IssueWindow
      <3>2. CASE phase' = "issues" /\ todo' \in NewestFirst(IssueWindow)
        <4>1. IssueWindow \in SUBSET Item /\ IsFiniteSet(IssueWindow)
          BY FS_Subset, RepositoryShape DEF IssueWindow
        <4>2. \E k \in 1 .. Len(todo') : todo'[k] = Snapshot(x)
          BY <3>1, <3>2, <4>1, ListingIsComplete DEF EmitInv
        <4> QED BY <2>9, <3>2, <4>2 DEF Snapshot, InTodo, StillToCome
      <3>3. CASE Seen(x) \in skipped'
        BY <2>1, <3>3 DEF DoneWith, Seen
      <3> QED BY <2>5, <3>1, <3>2, <3>3
    <2>10. item[x].at \in Nat /\ Since \in Nat
      BY <2>3 DEF EmitInv, ScanTypes, Since
    <2> QED BY <2>4, <2>7, <2>8, <2>9, <2>10
  <1>16. CASE IssuesDone
    <2>1. /\ UNCHANGED <<item, landed, cursor, started, todo, task>>
          /\ skipped \subseteq skipped' /\ lost' = lost
      BY <1>16 DEF IssuesDone
    <2>2. GitHubMissesNothing'
      BY <2>1, MissedStays DEF EmitInv
    <2>3. Watched' = Watched /\ \A x \in Watched : x \in Item
      BY <2>1, RepositoryShape DEF Watched
    <2>4. ASSUME NEW x \in Watched, DoneWith(x) PROVE DoneWith(x)'
      BY <2>1, <2>3, <2>4, DoneStays DEF EmitInv
    <2> SUFFICES ASSUME NEW x \in Watched, Known(x), item[x].at < started,
                        phase' # "failed"
                 PROVE  DoneWith(x)' \/ StillToCome(x)'
      BY <2>1, <2>2, <2>3 DEF RepoIsHandled, Known
    <2>5. phase = "issues" /\ todo = << >> /\ phase' = "advance"
      BY <1>16 DEF IssuesDone
    <2>6. DoneWith(x) \/ StillToCome(x)
      BY <2>5 DEF RepoIsHandled
    <2>7. ~StillToCome(x)
      BY <2>5 DEF StillToCome, InTodo, TasksEnd
    <2> QED BY <2>4, <2>6, <2>7
  <1>17. ASSUME NEW i \in Issue, PublishIssue(i) PROVE Goal
    <2>1. /\ UNCHANGED <<item, landed, cursor, started, phase>>
          /\ skipped \subseteq skipped' /\ lost' = lost
      BY <1>17 DEF PublishIssue, AtHand
    <2>2. GitHubMissesNothing'
      BY <2>1, MissedStays DEF EmitInv
    <2>3. Watched' = Watched /\ \A x \in Watched : x \in Item
      BY <2>1, RepositoryShape DEF Watched
    <2>4. ASSUME NEW x \in Watched, DoneWith(x) PROVE DoneWith(x)'
      BY <2>1, <2>3, <2>4, DoneStays DEF EmitInv
    <2> SUFFICES ASSUME NEW x \in Watched, Known(x), item[x].at < started,
                        phase' # "failed"
                 PROVE  DoneWith(x)' \/ StillToCome(x)'
      BY <2>1, <2>2, <2>3 DEF RepoIsHandled, Known
    <2>5. /\ todo # << >> /\ todo' = Tail(todo) /\ Head(todo).id = i /\ phase = "issues"
          /\ task' = task
      BY <1>17 DEF PublishIssue, AtHand
    <2>6. DoneWith(x) \/ StillToCome(x)
      BY <2>5 DEF RepoIsHandled
    <2>7. item[i].at < started => DoneWith(i)'
      <3> SUFFICES ASSUME item[i].at < started PROVE DoneWith(i)'
        OBVIOUS
      <3>1. Head(todo).rev = item[i].rev
        BY <2>5, HeadIsReal, RepositoryShape DEF EmitInv, ScanTypes
      <3>2. emitted'[i] = item[i].rev
        <4> DEFINE revs == {RevAtHand}
        <4> HIDE DEF revs
        <4>1. Publish(revs) /\ revs = {Seen(c) : c \in {}} \cup {RevAtHand}
          BY <1>17 DEF PublishIssue, revs
        <4>2. {} \in SUBSET Commit /\ i \notin Commit
          BY RepositoryShape
        <4>9. emitted'[i] >= Head(todo).rev
          BY ONLY EmitInv, <2>1, <2>5, <4>1, <4>2, EmitMany
        <4>10. /\ i \in Item /\ emitted'[i] <= item[i].rev /\ emitted'[i] \in Nat
               /\ item[i].rev \in Nat
          BY RepositoryShape, <2>1 DEF EmitsOnward, EmitInv, ScanTypes
        <4> QED BY <3>1, <4>9, <4>10
      <3> QED BY <3>2, <2>1 DEF DoneWith
    <2>8. x # i /\ InTodo(x) => InTodo(x)'
      BY <2>5, TailKeeps DEF EmitInv
    <2>9. x # i /\ StillToCome(x) => StillToCome(x)'
      BY <2>1, <2>5, <2>8 DEF StillToCome
    <2> QED BY <2>4, <2>6, <2>7, <2>9
  <1>18. ASSUME NEW i \in Issue, DropIssue(i) PROVE Goal
    <2>1. /\ UNCHANGED <<item, landed, cursor, started, phase>>
          /\ skipped \subseteq skipped' /\ lost' = lost
      BY <1>18 DEF DropIssue, AtHand
    <2>2. GitHubMissesNothing'
      BY <2>1, MissedStays DEF EmitInv
    <2>3. Watched' = Watched /\ \A x \in Watched : x \in Item
      BY <2>1, RepositoryShape DEF Watched
    <2>4. ASSUME NEW x \in Watched, DoneWith(x) PROVE DoneWith(x)'
      BY <2>1, <2>3, <2>4, DoneStays DEF EmitInv
    <2> SUFFICES ASSUME NEW x \in Watched, Known(x), item[x].at < started,
                        phase' # "failed"
                 PROVE  DoneWith(x)' \/ StillToCome(x)'
      BY <2>1, <2>2, <2>3 DEF RepoIsHandled, Known
    <2>5. /\ todo # << >> /\ todo' = Tail(todo) /\ Head(todo).id = i /\ phase = "issues"
          /\ task' = task
      BY <1>18 DEF DropIssue, AtHand
    <2>6. DoneWith(x) \/ StillToCome(x)
      BY <2>5 DEF RepoIsHandled
    <2>7. item[i].at < started => DoneWith(i)'
      <3> SUFFICES ASSUME item[i].at < started PROVE DoneWith(i)'
        OBVIOUS
      <3>1. Head(todo).rev = item[i].rev
        BY <2>5, HeadIsReal, RepositoryShape DEF EmitInv, ScanTypes
      <3>2. <<i, item[i].rev>> \in skipped'
        BY <1>18, <2>5, <3>1 DEF DropIssue, RevAtHand
      <3> QED BY <3>2, <2>1 DEF DoneWith, Seen
    <2>8. x # i /\ InTodo(x) => InTodo(x)'
      BY <2>5, TailKeeps DEF EmitInv
    <2>9. x # i /\ StillToCome(x) => StillToCome(x)'
      BY <2>1, <2>5, <2>8 DEF StillToCome
    <2> QED BY <2>4, <2>6, <2>7, <2>9
  <1>19. CASE GiveUpGitHub
    <2>1. /\ UNCHANGED <<item, landed, cursor, started>>
          /\ skipped \subseteq skipped' /\ lost' = lost
      BY <1>19 DEF GiveUpGitHub
    <2>2. GitHubMissesNothing'
      BY <2>1, MissedStays DEF EmitInv
    <2>3. Watched' = Watched /\ \A x \in Watched : x \in Item
      BY <2>1, RepositoryShape DEF Watched
    <2>4. ASSUME NEW x \in Watched, DoneWith(x) PROVE DoneWith(x)'
      BY <2>1, <2>3, <2>4, DoneStays DEF EmitInv
    <2> SUFFICES ASSUME NEW x \in Watched, Known(x), item[x].at < started,
                        phase' # "failed"
                 PROVE  DoneWith(x)' \/ StillToCome(x)'
      BY <2>1, <2>2, <2>3 DEF RepoIsHandled, Known
    <2>5. phase' = "failed"
      BY <1>19 DEF GiveUpGitHub
    <2> QED BY <2>5
  <1>20. CASE ErrorGitHub
    <2>1. /\ UNCHANGED <<item, landed, cursor, started>>
          /\ skipped \subseteq skipped' /\ lost' = lost
      BY <1>20 DEF ErrorGitHub
    <2>2. GitHubMissesNothing'
      BY <2>1, MissedStays DEF EmitInv
    <2>3. Watched' = Watched /\ \A x \in Watched : x \in Item
      BY <2>1, RepositoryShape DEF Watched
    <2>4. ASSUME NEW x \in Watched, DoneWith(x) PROVE DoneWith(x)'
      BY <2>1, <2>3, <2>4, DoneStays DEF EmitInv
    <2> SUFFICES ASSUME NEW x \in Watched, Known(x), item[x].at < started,
                        phase' # "failed"
                 PROVE  DoneWith(x)' \/ StillToCome(x)'
      BY <2>1, <2>2, <2>3 DEF RepoIsHandled, Known
    <2>5. phase' = "failed"
      BY <1>20 DEF ErrorGitHub
    <2> QED BY <2>5
  <1>21. CASE FailRepo
    <2>1. UNCHANGED <<item, landed, cursor, lost>> /\ phase' = "idle"
      BY <1>21 DEF FailRepo
    <2> QED BY <2>1, MissedStays DEF RepoIsHandled, EmitInv
  <1>22. CASE FinishGitHub
    <2>1. /\ phase = "advance" /\ phase' = "idle" /\ cursor' = started
          /\ lost' = lost \cup skipped /\ UNCHANGED <<item, landed, emitted>>
      BY <1>22 DEF FinishGitHub
    <2>2. \A x \in Watched : Known(x) /\ item[x].at < started => DoneWith(x)
      BY <2>1 DEF RepoIsHandled, StillToCome, TasksEnd
    <2>3. GitHubMissesNothing'
      BY <2>1, <2>2
         DEF GitHubMissesNothing, NothingMissed, Watched, DoneWith, Known, Seen
    <2> QED BY <2>1, <2>3 DEF RepoIsHandled
  <1>23. CASE KillGitHub
    <2>1. UNCHANGED <<item, landed, cursor, lost>> /\ phase' = "idle"
      BY <1>23 DEF KillGitHub
    <2> QED BY <2>1, MissedStays DEF RepoIsHandled, EmitInv
  <1>24. CASE UNCHANGED <<producerVars, githubVars>>
    BY <1>24 DEF RepoIsHandled, GitHubMissesNothing, NothingMissed, Watched, Known,
           DoneWith, Seen, StillToCome, InTodo
  <1>25. CASE SkipRepository
    <2>1. /\ UNCHANGED <<item, landed, cursor, started>> /\ phase = "repo"
          /\ phase' = "advance" /\ skipped \subseteq skipped' /\ lost' = lost
      BY <1>25 DEF SkipRepository
    <2>2. \A x \in Listed \cup PRWindow \cup IssueWindow : Seen(x) \in skipped'
      BY <1>25 DEF SkipRepository
    <2>3. GitHubMissesNothing'
      BY <2>1, MissedStays DEF EmitInv
    <2>4. Watched' = Watched /\ \A x \in Watched : x \in Item
      BY <2>1, RepositoryShape DEF Watched
    <2>5. ASSUME NEW x \in Watched, DoneWith(x) PROVE DoneWith(x)'
      BY <2>1, <2>4, <2>5, DoneStays DEF EmitInv
    <2> SUFFICES ASSUME NEW x \in Watched, Known(x) PROVE DoneWith(x)'
      BY <2>1, <2>3, <2>4 DEF RepoIsHandled, Known
    <2>6. CASE item[x].at < Since
      BY <2>1, <2>5, <2>6, OldIsDone
    <2>7. CASE ~(item[x].at < Since)
      <3>1. item[x].at \in Nat /\ item[x].rev \in Nat /\ Since \in Nat
        BY <2>1, <2>4 DEF EmitInv, ScanTypes, Since
      <3>2. item[x].at >= Since /\ item[x].rev > 0
        BY <2>7, <3>1 DEF Known
      <3>3. x \in Commit => x \in Listed
        BY <3>1, <3>2, RepositoryShape, ScanBounds DEF Watched, Listed, RepoIsSound
      <3>4. x \in PR => x \in PRWindow
        BY <3>2 DEF PRWindow, RepoIsSound
      <3>5. x \in Issue => x \in IssueWindow
        BY <3>2 DEF IssueWindow, Known
      <3>6. Seen(x) \in skipped'
        BY <2>2, <3>3, <3>4, <3>5 DEF Watched
      <3> QED BY <2>1, <3>6 DEF DoneWith, Seen
    <2> QED BY <2>6, <2>7
  <1> QED BY <1>1, <1>2, <1>3, <1>4, <1>5, <1>6, <1>7, <1>8, <1>9, <1>10,
             <1>11, <1>12, <1>13, <1>14, <1>15, <1>16, <1>17, <1>18, <1>19,
             <1>20, <1>21, <1>22, <1>23, <1>24, <1>25 DEF GitHubNext, CommitStep

LEMMA StartOfWindow == GitHubStart => WindowInv
  <1> SUFFICES ASSUME NEW existing \in SUBSET Item,
                      \A p \in PR \cap existing : CommitsOf[p] \subseteq existing,
                      ProducerInit(existing), GitHubInit(existing)
               PROVE  WindowInv
    BY DEF GitHubStart
  <1> USE RepositoryShape, ScanBounds DEF ProducerInit, GitHubInit
  <1>1. ScanTypes /\ RepoTypes
    BY DEF ScanTypes, RepoTypes
  <1>2. TimesAreOrdered
    BY DEF TimesAreOrdered
  <1>3. todo = << >> /\ Len(todo) = 0
    OBVIOUS
  <1>4. TodoIsReal /\ PRsAreSorted
    BY <1>3 DEF TodoIsReal, PRsAreSorted
  <1>5. GitHubTypes /\ TasksEnd
    BY DEF GitHubTypes, TasksEnd, NoTasks
  <1>6. RepoIsSound
    <2>1. ASSUME NEW c \in Commit
          PROVE  /\ where[c] # "local" => item[c].rev > 0
                 /\ where[c] # "main" /\ landed[c] = Never /\ task[c] = "none"
      BY DEF NoTasks
    <2>2. ASSUME NEW p \in PR
          PROVE  /\ prState[p] # "none" <=> item[p].rev > 0
                 /\ prState[p] # "none" => \A c \in CommitsOf[p] : where[c] # "local"
      OBVIOUS
    <2> QED BY <2>1, <2>2 DEF RepoIsSound, Fixed
  <1>7. RepoIsHandled /\ GitHubMissesNothing
    BY DEF RepoIsHandled, GitHubMissesNothing, NothingMissed
  <1> QED BY <1>1, <1>2, <1>4, <1>5, <1>6, <1>7 DEF WindowInv, EmitInv

LEMMA WindowInvHolds == GitHubSpec => []WindowInv
  <1>1. WindowInv /\ [GitHubNext]_<<producerVars, githubVars>> => WindowInv'
    <2> SUFFICES ASSUME WindowInv, [GitHubNext]_<<producerVars, githubVars>>
                 PROVE  WindowInv'
      OBVIOUS
    <2>1. EmitsOnward
      BY GitHubStepEmits DEF WindowInv
    <2>2. (ScanTypes /\ RepoTypes /\ TimesAreOrdered)'
      BY <2>1, GitHubStepTypes, GitHubStepTimes DEF WindowInv, EmitInv
    <2>3. (GitHubTypes /\ TasksEnd /\ RepoIsSound)'
      BY GitHubStepTasks, GitHubStepRepo DEF WindowInv, EmitInv
    <2>4. (TodoIsReal /\ PRsAreSorted)'
      BY <2>1, GitHubStepTodo DEF WindowInv, EmitInv
    <2>5. (RepoIsHandled /\ GitHubMissesNothing)'
      BY <2>1, GitHubStepWindow DEF WindowInv
    <2> QED BY <2>2, <2>3, <2>4, <2>5 DEF WindowInv, EmitInv
  <1> QED
    BY StartOfWindow, <1>1, PTL DEF GitHubSpec

\* No edit of a pull request or an issue, and no commit pushed when it was
\* made, falls between two scans of the repository, for any number of items and
\* coroutines.  That the loop over the pull requests stops at the first old one
\* is right because the listing is complete and sorted.
THEOREM GitHubScansMissNothing == GitHubSpec => []GitHubMissesNothing
  BY WindowInvHolds, PTL DEF WindowInv

-----------------------------------------------------------------------------
(* GitHub: the commits of a published pull request.                        *)

OutBefore(p) == \A c \in CommitsOf[p] : emitted[c] > 0 \/ Seen(c) \in lost
Out(p) == \A c \in CommitsOf[p] : emitted[c] > 0 \/ Seen(c) \in skipped \cup lost
LowerBound == IF cursor = Never THEN 0 ELSE cursor
InReach(p) == \E k \in 1 .. Len(todo) : todo[k].id = p /\ todo[k].at >= Since

\* A commit is in seen_commits when it is out, was dropped, or is about to go
\* out.
SeenAreHandled ==
    \A c \in seen :
        /\ Fixed(c)
        /\ emitted[c] > 0 \/ Seen(c) \in skipped \/ task[c] = "commit"

\* A scan that failed may have published a pull request and dropped one of its
\* commits, which no record shows; the next scan then lists the pull request
\* again.
LateArePublishedAgain ==
    \A p \in PR : emitted[p] > 0 => OutBefore(p) \/ item[p].at >= LowerBound

PRsAreOut ==
    phase \in {"prs", "issues", "advance"} =>
        \A p \in PR : emitted[p] > 0 => Out(p) \/ (phase = "prs" /\ InReach(p))

IncludedInv == SeenAreHandled /\ LateArePublishedAgain /\ PRsAreOut

\* What is out of its author's hands stays as it is; times only advance.
LEMMA FixedStay ==
  WindowInv /\ [GitHubNext]_<<producerVars, githubVars>>
    => /\ \A c \in Commit : Fixed(c) => Fixed(c)' /\ item'[c] = item[c]
       /\ \A x \in Item : item[x].at <= item'[x].at
  <1> DEFINE Goal == /\ \A c \in Commit : Fixed(c) => Fixed(c)' /\ item'[c] = item[c]
                     /\ \A x \in Item : item[x].at <= item'[x].at
  <1> SUFFICES ASSUME WindowInv,
                      [GitHubNext]_<<producerVars, githubVars>>
               PROVE  Goal
    OBVIOUS
  <1> USE RepositoryShape DEF WindowInv, EmitInv, ScanTypes, RepoTypes,
          TimesAreOrdered, Fixed, Goto, Drop, BudgetExhausted, EndProcess,
          AbortScan, MoveCursor, BeginScan, EndRun, TaskTo, Running,
          CommitsDone, NoTasks, worldVars, trackVars, scanVars, storeVars,
          producerVars, githubVars, runVars, repoVars
  <1>1. CASE GitHubWorld
    <2>1. ASSUME NEW c \in Commit, PushCommit(c) PROVE Goal
      BY <2>1 DEF PushCommit, Edited, WorldStep
    <2>2. ASSUME NEW p \in PR, OpenPR(p) PROVE Goal
      BY <2>2 DEF OpenPR, Edited, WorldStep
    <2>3. ASSUME NEW p \in PR, MergePR(p) PROVE Goal
      BY <2>3 DEF MergePR, Edited, WorldStep
    <2>4. ASSUME NEW x \in PR \cup Issue, EditItem(x) PROVE Goal
      BY <2>4 DEF EditItem, Edit, Edited
    <2>5. CASE Tick /\ UNCHANGED githubVars
      BY <2>5 DEF Tick
    <2> QED BY <1>1, <2>1, <2>2, <2>3, <2>4, <2>5 DEF GitHubWorld
  <1>2. CASE StartGitHub
    BY <1>2 DEF StartGitHub
  <1>3. CASE PublishRepository
    BY <1>3 DEF PublishRepository
  <1>4. CASE RefreshIdentity
    BY <1>4 DEF RefreshIdentity
  <1>5. CASE ListCommits
    BY <1>5 DEF ListCommits
  <1>6. ASSUME NEW c \in Commit, Extract(c) PROVE Goal
    BY <1>6 DEF Extract
  <1>7. ASSUME NEW c \in Commit, ExtractGivesUp(c) PROVE Goal
    BY <1>7 DEF ExtractGivesUp
  <1>8. ASSUME NEW c \in Commit, PublishAuthor(c) PROVE Goal
    BY <1>8 DEF PublishAuthor
  <1>9. ASSUME NEW c \in Commit, PublishCommit(c) PROVE Goal
    BY <1>9 DEF PublishCommit
  <1>10. ASSUME NEW c \in Commit, DropCommit(c) PROVE Goal
    BY <1>10 DEF DropCommit
  <1>11. CASE ListPRs
    BY <1>11 DEF ListPRs
  <1>12. CASE StopAtOldPR
    BY <1>12 DEF StopAtOldPR
  <1>13. ASSUME NEW p \in PR, PublishPR(p) PROVE Goal
    BY <1>13 DEF PublishPR, EmitPRCommits
  <1>14. ASSUME NEW p \in PR, DropPR(p) PROVE Goal
    BY <1>14 DEF DropPR, EmitPRCommits
  <1>15. CASE ListIssues
    BY <1>15 DEF ListIssues
  <1>16. CASE IssuesDone
    BY <1>16 DEF IssuesDone
  <1>17. ASSUME NEW i \in Issue, PublishIssue(i) PROVE Goal
    BY <1>17 DEF PublishIssue
  <1>18. ASSUME NEW i \in Issue, DropIssue(i) PROVE Goal
    BY <1>18 DEF DropIssue
  <1>19. CASE GiveUpGitHub
    BY <1>19 DEF GiveUpGitHub
  <1>20. CASE ErrorGitHub
    BY <1>20 DEF ErrorGitHub
  <1>21. CASE FailRepo
    BY <1>21 DEF FailRepo
  <1>22. CASE FinishGitHub
    BY <1>22 DEF FinishGitHub
  <1>23. CASE KillGitHub
    BY <1>23 DEF KillGitHub
  <1>24. CASE UNCHANGED <<producerVars, githubVars>>
    BY <1>24
  <1>25. CASE SkipRepository
    BY <1>25 DEF SkipRepository
  <1> QED BY <1>1, <1>2, <1>3, <1>4, <1>5, <1>6, <1>7, <1>8, <1>9, <1>10,
             <1>11, <1>12, <1>13, <1>14, <1>15, <1>16, <1>17, <1>18, <1>19,
             <1>20, <1>21, <1>22, <1>23, <1>24, <1>25 DEF GitHubNext, CommitStep

LEMMA SeenStays ==
  ASSUME WindowInv, EmitsOnward, NEW c \in Commit, Fixed(c)', item'[c] = item[c],
         skipped \subseteq skipped', task[c] = "commit" => task'[c] = "commit",
         emitted[c] > 0 \/ Seen(c) \in skipped \/ task[c] = "commit"
  PROVE  /\ Fixed(c)'
         /\ emitted'[c] > 0 \/ Seen(c)' \in skipped' \/ task'[c] = "commit"
  <1>1. c \in Item /\ emitted[c] \in Nat /\ emitted'[c] \in Nat /\ emitted[c] <= emitted'[c]
    BY RepositoryShape DEF WindowInv, EmitInv, ScanTypes, EmitsOnward
  <1> QED BY <1>1 DEF Seen

\* A pull request at hand is known, so its commits are fixed.
LEMMA AtHandIsFixed ==
  ASSUME WindowInv, todo # << >>, NEW p \in PR, Head(todo).id = p
  PROVE  \A c \in CommitsOf[p] : c \in Commit /\ Fixed(c) /\ c \in Item /\ item[c].rev > 0
  <1>1. Head(todo).rev > 0 /\ Head(todo).rev <= item[p].rev /\ Head(todo).rev \in Nat
    BY HeadIsReal DEF WindowInv, EmitInv
  <1>2. p \in Item /\ item[p].rev \in Nat
    BY RepositoryShape DEF WindowInv, EmitInv, ScanTypes
  <1>3. item[p].rev > 0 /\ RepoIsSound
    BY <1>1, <1>2 DEF WindowInv
  <1>4. prState[p] # "none"
    BY <1>3 DEF RepoIsSound
  <1> QED BY <1>3, <1>4, PullRequestsFix, FixedIsKnown, RepositoryShape

LEMMA GitHubStepSeen ==
  WindowInv /\ EmitsOnward /\ SeenAreHandled
    /\ [GitHubNext]_<<producerVars, githubVars>>
    => SeenAreHandled'
  <1> SUFFICES ASSUME WindowInv /\ EmitsOnward /\ SeenAreHandled,
                      [GitHubNext]_<<producerVars, githubVars>>
               PROVE  SeenAreHandled'
    OBVIOUS
  <1> USE DEF Seen, Goto, Drop, BudgetExhausted, EndProcess, AbortScan,
          MoveCursor, BeginScan, EndRun, TaskTo, Running, CommitsDone,
          NoTasks, worldVars, trackVars, scanVars, storeVars, producerVars,
          githubVars, runVars, repoVars
  <1>0. /\ \A c \in Commit : Fixed(c) => Fixed(c)' /\ item'[c] = item[c]
        /\ seen \subseteq Commit /\ \A c \in seen : Fixed(c)
    BY FixedStay DEF WindowInv, EmitInv, RepoTypes, SeenAreHandled
  <1>1. CASE GitHubWorld
    <2>1. seen' = seen /\ task' = task /\ skipped \subseteq skipped'
      BY <1>1, WorldEdits DEF WindowInv, EmitInv
    <2> QED BY <1>0, <2>1, SeenStays DEF SeenAreHandled, Seen
  <1>2. CASE StartGitHub
    <2>1. seen' = seen /\ task' = task /\ skipped \subseteq skipped'
      BY <1>2 DEF StartGitHub
    <2> QED BY <1>0, <2>1, SeenStays DEF SeenAreHandled, Seen
  <1>3. CASE PublishRepository
    <2>1. seen' = seen /\ task' = task /\ skipped \subseteq skipped'
      BY <1>3 DEF PublishRepository
    <2> QED BY <1>0, <2>1, SeenStays DEF SeenAreHandled, Seen
  <1>4. CASE RefreshIdentity
    <2>1. seen' = seen /\ task' = task /\ skipped \subseteq skipped'
      BY <1>4 DEF RefreshIdentity
    <2> QED BY <1>0, <2>1, SeenStays DEF SeenAreHandled, Seen
  <1>5. CASE ListCommits
    <2>1. /\ seen' = seen /\ skipped' = skipped /\ phase = "list"
      BY <1>5 DEF ListCommits
    <2>2. \A c \in Commit : task[c] # "commit"
      BY <2>1 DEF WindowInv, TasksEnd
    <2> QED BY <1>0, <2>1, <2>2, SeenStays DEF SeenAreHandled, Seen
  <1>6. ASSUME NEW c \in Commit, Extract(c) PROVE SeenAreHandled'
    <2>1. /\ task[c] = "wait" /\ skipped' = skipped
          /\ seen' = seen \/ (seen' = seen \cup {c} /\ task' = [task EXCEPT ![c] = "commit"])
      BY <1>6 DEF Extract
    <2>2. \A d \in Commit : d # c => task'[d] = task[d]
      BY <1>6 DEF WindowInv, GitHubTypes, Extract
    <2>3. ASSUME NEW d \in Commit, d # c, d \in seen
          PROVE  /\ Fixed(d)'
                 /\ emitted'[d] > 0 \/ Seen(d)' \in skipped' \/ task'[d] = "commit"
      BY <1>0, <2>1, <2>2, <2>3, SeenStays DEF SeenAreHandled
    <2>4. c \in seen' => /\ Fixed(c)'
                         /\ emitted'[c] > 0 \/ Seen(c)' \in skipped' \/ task'[c] = "commit"
      <3>1. Fixed(c)
        BY <2>1 DEF WindowInv, RepoIsSound
      <3>2. CASE seen' = seen
        BY <1>0, <2>1, <3>2, SeenStays DEF SeenAreHandled
      <3>3. CASE task' = [task EXCEPT ![c] = "commit"]
        BY <1>0, <3>1, <3>3 DEF WindowInv, GitHubTypes
      <3> QED BY <2>1, <3>2, <3>3
    <2> QED BY <1>0, <2>1, <2>3, <2>4 DEF SeenAreHandled
  <1>7. ASSUME NEW c \in Commit, ExtractGivesUp(c) PROVE SeenAreHandled'
    <2>1. /\ task[c] = "wait" /\ skipped' = skipped /\ seen' = seen
      BY <1>7 DEF ExtractGivesUp
    <2>2. \A d \in Commit : d # c => task'[d] = task[d]
      BY <1>7 DEF WindowInv, GitHubTypes, ExtractGivesUp
    <2>3. ASSUME NEW d \in Commit, d # c, d \in seen
          PROVE  /\ Fixed(d)'
                 /\ emitted'[d] > 0 \/ Seen(d)' \in skipped' \/ task'[d] = "commit"
      BY <1>0, <2>1, <2>2, <2>3, SeenStays DEF SeenAreHandled
    <2>4. c \in seen' => /\ Fixed(c)'
                         /\ emitted'[c] > 0 \/ Seen(c)' \in skipped' \/ task'[c] = "commit"
      BY <1>0, <2>1, SeenStays DEF SeenAreHandled
    <2> QED BY <1>0, <2>1, <2>3, <2>4 DEF SeenAreHandled
  <1>8. ASSUME NEW c \in Commit, PublishAuthor(c) PROVE SeenAreHandled'
    <2>1. /\ task[c] = "person" /\ skipped' = skipped /\ seen' = seen \cup {c}
          /\ task' = [task EXCEPT ![c] = "commit"]
      BY <1>8 DEF PublishAuthor
    <2>2. \A d \in Commit : d # c => task'[d] = task[d]
      BY <1>8 DEF WindowInv, GitHubTypes, PublishAuthor
    <2>3. ASSUME NEW d \in Commit, d # c, d \in seen
          PROVE  /\ Fixed(d)'
                 /\ emitted'[d] > 0 \/ Seen(d)' \in skipped' \/ task'[d] = "commit"
      BY <1>0, <2>1, <2>2, <2>3, SeenStays DEF SeenAreHandled
    <2>4. c \in seen' => /\ Fixed(c)'
                         /\ emitted'[c] > 0 \/ Seen(c)' \in skipped' \/ task'[c] = "commit"
      <3>1. Fixed(c)
        BY <2>1 DEF WindowInv, RepoIsSound
      <3> QED BY <1>0, <2>1, <3>1 DEF WindowInv, GitHubTypes
    <2> QED BY <1>0, <2>1, <2>3, <2>4 DEF SeenAreHandled
  <1>9. ASSUME NEW c \in Commit, PublishCommit(c) PROVE SeenAreHandled'
    <2>1. /\ task[c] = "commit" /\ skipped' = skipped /\ seen' = seen
          /\ Publish({<<c, item[c].rev>>})
      BY <1>9 DEF Seen, PublishCommit
    <2>2. \A d \in Commit : d # c => task'[d] = task[d]
      BY <1>9 DEF WindowInv, GitHubTypes, PublishCommit
    <2>3. ASSUME NEW d \in Commit, d # c, d \in seen
          PROVE  /\ Fixed(d)'
                 /\ emitted'[d] > 0 \/ Seen(d)' \in skipped' \/ task'[d] = "commit"
      BY <1>0, <2>1, <2>2, <2>3, SeenStays DEF SeenAreHandled
    <2>4. c \in seen' => /\ Fixed(c)'
                         /\ emitted'[c] > 0 \/ Seen(c)' \in skipped' \/ task'[c] = "commit"
      <3>1. Fixed(c) /\ RepoIsSound
        BY <2>1 DEF WindowInv, RepoIsSound
      <3>2. c \in Item /\ item[c].rev \in Nat /\ item[c].rev > 0 /\ emitted \in [Item -> Nat]
        BY <3>1, FixedIsKnown, RepositoryShape DEF WindowInv, EmitInv, ScanTypes
      <3>3. emitted' = [emitted EXCEPT ![c] = Latest(emitted[c], item[c].rev)]
        BY <2>1, <3>2, PublishOne
      <3>4. emitted'[c] > 0
        BY <3>2, <3>3 DEF Latest
      <3> QED BY <1>0, <3>1, <3>4
    <2> QED BY <1>0, <2>1, <2>3, <2>4 DEF SeenAreHandled
  <1>10. ASSUME NEW c \in Commit, DropCommit(c) PROVE SeenAreHandled'
    <2>1. /\ skipped' = skipped \cup {Seen(c)} /\ seen' = seen
          /\ task[c] \in {"wait", "person", "commit"}
      BY <1>10 DEF DropCommit, Inside
    <2>2. \A d \in Commit : d # c => task'[d] = task[d]
      BY <1>10 DEF WindowInv, GitHubTypes, DropCommit
    <2>3. ASSUME NEW d \in Commit, d # c, d \in seen
          PROVE  /\ Fixed(d)'
                 /\ emitted'[d] > 0 \/ Seen(d)' \in skipped' \/ task'[d] = "commit"
      BY <1>0, <2>1, <2>2, <2>3, SeenStays DEF SeenAreHandled
    <2>4. c \in seen' => /\ Fixed(c)'
                         /\ emitted'[c] > 0 \/ Seen(c)' \in skipped' \/ task'[c] = "commit"
      <3>1. Fixed(c)
        BY <2>1 DEF WindowInv, RepoIsSound
      <3> QED BY <1>0, <2>1, <3>1 DEF Seen
    <2> QED BY <1>0, <2>1, <2>3, <2>4 DEF SeenAreHandled
  <1>11. CASE ListPRs
    <2>1. seen' = seen /\ task' = task /\ skipped \subseteq skipped'
      BY <1>11 DEF ListPRs
    <2> QED BY <1>0, <2>1, SeenStays DEF SeenAreHandled, Seen
  <1>12. CASE StopAtOldPR
    <2>1. seen' = seen /\ task' = task /\ skipped \subseteq skipped'
      BY <1>12 DEF StopAtOldPR
    <2> QED BY <1>0, <2>1, SeenStays DEF SeenAreHandled, Seen
  <1>13. ASSUME NEW p \in PR, PublishPR(p) PROVE SeenAreHandled'
    <2>1. PICK out \in SUBSET Unseen(p) :
               /\ Publish({Seen(c) : c \in out} \cup {RevAtHand})
               /\ seen' = seen \cup out
      BY <1>13 DEF PublishPR, EmitPRCommits
    <2>2. /\ todo # << >> /\ Head(todo).id = p /\ item' = item /\ task' = task
          /\ skipped \subseteq skipped'
      BY <1>13 DEF PublishPR, PRAtHand, AtHand, EmitPRCommits
    <2>3. out \in SUBSET Commit /\ p \notin Commit
      BY RepositoryShape DEF Unseen
    <2> DEFINE revs == {Seen(c) : c \in out} \cup {RevAtHand}
    <2> HIDE DEF revs
    <2>4. Publish(revs) /\ revs = {Seen(c) : c \in out} \cup {RevAtHand}
      BY <2>1 DEF revs
    <2>5. \A c \in out : emitted'[c] = item[c].rev
      BY ONLY <2>2, <2>3, <2>4, EmitMany, WindowInv DEF WindowInv
    <2>6. ASSUME NEW c \in out PROVE Fixed(c)' /\ emitted'[c] > 0
      <3>1. c \in Commit /\ Fixed(c) /\ item[c].rev > 0
        BY <2>2, AtHandIsFixed DEF Unseen
      <3> QED BY <1>0, <2>5, <3>1
    <2>7. ASSUME NEW c \in seen
          PROVE  /\ Fixed(c)'
                 /\ emitted'[c] > 0 \/ Seen(c)' \in skipped' \/ task'[c] = "commit"
      <3>1. c \in Commit
        BY DEF WindowInv, EmitInv, RepoTypes
      <3> QED BY <1>0, <2>2, <3>1, SeenStays DEF SeenAreHandled
    <2> QED BY <2>1, <2>6, <2>7 DEF SeenAreHandled
  <1>14. ASSUME NEW p \in PR, DropPR(p) PROVE SeenAreHandled'
    <2>1. PICK out \in SUBSET Unseen(p) :
               /\ Publish({Seen(c) : c \in out})
               /\ seen' = seen \cup out
      BY <1>14 DEF DropPR, EmitPRCommits
    <2>2. /\ todo # << >> /\ Head(todo).id = p /\ item' = item /\ task' = task
          /\ skipped \subseteq skipped'
      BY <1>14 DEF DropPR, PRAtHand, AtHand, EmitPRCommits
    <2>3. out \in SUBSET Commit /\ p \notin Commit
      BY RepositoryShape DEF Unseen
    <2> DEFINE revs == {Seen(c) : c \in out} \cup {}
    <2> HIDE DEF revs
    <2>4. Publish(revs) /\ revs = {Seen(c) : c \in out} \cup {}
      BY <2>1 DEF revs
    <2>5. \A c \in out : emitted'[c] = item[c].rev
      BY ONLY <2>2, <2>3, <2>4, EmitMany, WindowInv DEF WindowInv
    <2>6. ASSUME NEW c \in out PROVE Fixed(c)' /\ emitted'[c] > 0
      <3>1. c \in Commit /\ Fixed(c) /\ item[c].rev > 0
        BY <2>2, AtHandIsFixed DEF Unseen
      <3> QED BY <1>0, <2>5, <3>1
    <2>7. ASSUME NEW c \in seen
          PROVE  /\ Fixed(c)'
                 /\ emitted'[c] > 0 \/ Seen(c)' \in skipped' \/ task'[c] = "commit"
      <3>1. c \in Commit
        BY DEF WindowInv, EmitInv, RepoTypes
      <3> QED BY <1>0, <2>2, <3>1, SeenStays DEF SeenAreHandled
    <2> QED BY <2>1, <2>6, <2>7 DEF SeenAreHandled
  <1>15. CASE ListIssues
    <2>1. seen' = seen /\ task' = task /\ skipped \subseteq skipped'
      BY <1>15 DEF ListIssues
    <2> QED BY <1>0, <2>1, SeenStays DEF SeenAreHandled, Seen
  <1>16. CASE IssuesDone
    <2>1. seen' = seen /\ task' = task /\ skipped \subseteq skipped'
      BY <1>16 DEF IssuesDone
    <2> QED BY <1>0, <2>1, SeenStays DEF SeenAreHandled, Seen
  <1>17. ASSUME NEW i \in Issue, PublishIssue(i) PROVE SeenAreHandled'
    <2>1. seen' = seen /\ task' = task /\ skipped \subseteq skipped'
      BY <1>17 DEF PublishIssue
    <2> QED BY <1>0, <2>1, SeenStays DEF SeenAreHandled, Seen
  <1>18. ASSUME NEW i \in Issue, DropIssue(i) PROVE SeenAreHandled'
    <2>1. seen' = seen /\ task' = task /\ skipped \subseteq skipped'
      BY <1>18 DEF DropIssue
    <2> QED BY <1>0, <2>1, SeenStays DEF SeenAreHandled, Seen
  <1>19. CASE GiveUpGitHub
    <2>1. seen' = seen /\ task' = task /\ skipped \subseteq skipped'
      BY <1>19 DEF GiveUpGitHub
    <2> QED BY <1>0, <2>1, SeenStays DEF SeenAreHandled, Seen
  <1>20. CASE ErrorGitHub
    <2>1. seen' = seen /\ task' = task /\ skipped \subseteq skipped'
      BY <1>20 DEF ErrorGitHub
    <2> QED BY <1>0, <2>1, SeenStays DEF SeenAreHandled, Seen
  <1>21. CASE FailRepo
    <2>1. seen' = {}
      BY <1>21 DEF FailRepo
    <2> QED BY <2>1 DEF SeenAreHandled
  <1>22. CASE FinishGitHub
    <2>1. seen' = {}
      BY <1>22 DEF FinishGitHub
    <2> QED BY <2>1 DEF SeenAreHandled
  <1>23. CASE KillGitHub
    <2>1. seen' = {}
      BY <1>23 DEF KillGitHub
    <2> QED BY <2>1 DEF SeenAreHandled
  <1>24. CASE UNCHANGED <<producerVars, githubVars>>
    <2>1. seen' = seen /\ task' = task /\ skipped \subseteq skipped'
      BY <1>24
    <2> QED BY <1>0, <2>1, SeenStays DEF SeenAreHandled
  <1>25. CASE SkipRepository
    <2>1. seen' = seen /\ task' = task /\ skipped \subseteq skipped'
      BY <1>25 DEF SkipRepository
    <2> QED BY <1>0, <2>1, SeenStays DEF SeenAreHandled, Seen
  <1> QED BY <1>1, <1>2, <1>3, <1>4, <1>5, <1>6, <1>7, <1>8, <1>9, <1>10,
             <1>11, <1>12, <1>13, <1>14, <1>15, <1>16, <1>17, <1>18, <1>19,
             <1>20, <1>21, <1>22, <1>23, <1>24, <1>25 DEF GitHubNext, CommitStep

\* Whose pull request is known, those commits are edited no more.
LEMMA CommitsStay ==
  ASSUME WindowInv, EmitsOnward, [GitHubNext]_<<producerVars, githubVars>>,
         NEW p \in PR, emitted[p] > 0
  PROVE  /\ \A c \in CommitsOf[p] :
                Seen(c)' = Seen(c) /\ (emitted[c] > 0 => emitted'[c] > 0)
         /\ item[p].at <= item'[p].at /\ item[p].at \in Nat /\ item'[p].at \in Nat
         /\ prState[p] # "none"
  <1>1. p \in Item /\ emitted[p] <= item[p].rev /\ emitted[p] \in Nat /\ item[p].rev \in Nat
        /\ item[p].at \in Nat
    BY RepositoryShape DEF WindowInv, EmitInv, ScanTypes, TimesAreOrdered
  <1>2. RepoIsSound /\ item[p].rev > 0
    BY <1>1 DEF WindowInv
  <1>3. prState[p] # "none"
    BY <1>2 DEF RepoIsSound
  <1>4. \A c \in CommitsOf[p] : c \in Commit /\ c \in Item /\ item'[c] = item[c]
    BY <1>2, <1>3, PullRequestsFix, FixedStay, RepositoryShape
  <1>5. \A c \in CommitsOf[p] :
            emitted[c] <= emitted'[c] /\ emitted[c] \in Nat /\ emitted'[c] \in Nat
    BY <1>4 DEF EmitsOnward, WindowInv, EmitInv, ScanTypes
  <1>6. item[p].at <= item'[p].at
    BY <1>1, FixedStay
  <1>7. item'[p].at \in Nat
    <2>1. (ScanTypes /\ RepoTypes)'
      BY GitHubStepTypes DEF WindowInv, EmitInv
    <2> QED BY <1>1, <2>1 DEF ScanTypes
  <1> QED BY <1>1, <1>3, <1>4, <1>5, <1>6, <1>7 DEF Seen

LEMMA LateStays ==
  ASSUME WindowInv, EmitsOnward, [GitHubNext]_<<producerVars, githubVars>>,
         cursor' = cursor, lost \subseteq lost', NEW p \in PR, emitted[p] > 0,
         OutBefore(p) \/ item[p].at >= LowerBound
  PROVE  (OutBefore(p) \/ item[p].at >= LowerBound)'
  <1>1. LowerBound \in Nat /\ LowerBound' = LowerBound
    BY DEF LowerBound, WindowInv, EmitInv, ScanTypes
  <1>2. OutBefore(p) => OutBefore(p)'
    BY CommitsStay DEF OutBefore
  <1>3. item[p].at >= LowerBound => item'[p].at >= LowerBound'
    BY <1>1, CommitsStay
  <1> QED BY <1>2, <1>3

LEMMA LateQuietly ==
  ASSUME WindowInv, EmitsOnward, [GitHubNext]_<<producerVars, githubVars>>,
         cursor' = cursor, lost \subseteq lost', \A p \in PR : emitted'[p] = emitted[p],
         LateArePublishedAgain
  PROVE  LateArePublishedAgain'
  BY LateStays DEF LateArePublishedAgain

LEMMA OutStays ==
  ASSUME WindowInv, EmitsOnward, [GitHubNext]_<<producerVars, githubVars>>,
         skipped \cup lost \subseteq skipped' \cup lost', NEW p \in PR, emitted[p] > 0, Out(p)
  PROVE  Out(p)'
  BY CommitsStay DEF Out

\* The loop sees to every commit of the pull request at hand.
LEMMA AllGoOut ==
  ASSUME WindowInv, SeenAreHandled, EmitsOnward, todo # << >>, phase = "prs",
         NEW p \in PR, Head(todo).id = p, item' = item,
         NEW out \in SUBSET Unseen(p), \A c \in out : emitted'[c] = item[c].rev,
         skipped \subseteq skipped', \A c \in Unseen(p) \ out : Seen(c) \in skipped'
  PROVE  Out(p)'
  <1> SUFFICES ASSUME NEW c \in CommitsOf[p]
               PROVE  emitted'[c] > 0 \/ Seen(c) \in skipped'
    BY DEF Out, Seen
  <1>1. c \in Commit /\ Fixed(c) /\ c \in Item /\ item[c].rev > 0
    BY AtHandIsFixed
  <1>2. task[c] # "commit"
    BY <1>1 DEF WindowInv, TasksEnd
  <1>3. emitted[c] <= emitted'[c] /\ emitted[c] \in Nat /\ emitted'[c] \in Nat
    BY <1>1 DEF EmitsOnward, WindowInv, EmitInv, ScanTypes
  <1>4. CASE c \in seen
    BY <1>2, <1>3, <1>4 DEF SeenAreHandled
  <1>5. CASE c \notin seen
    BY <1>1, <1>5 DEF Unseen
  <1> QED BY <1>4, <1>5

LEMMA ReachStays ==
  ASSUME RepoTypes, todo # << >>, todo' = Tail(todo), last' = last, NEW x, InReach(x),
         x # Head(todo).id
  PROVE  InReach(x)'
  <1>1. PICK k \in 1 .. Len(todo) : todo[k].id = x /\ todo[k].at >= Since
    BY DEF InReach
  <1>2. /\ Head(todo) = todo[1] /\ Len(todo) \in Nat
        /\ Len(todo') = Len(todo) - 1
        /\ \A j \in 1 .. Len(todo) - 1 : todo'[j] = todo[j + 1]
    BY HeadAndTail DEF RepoTypes
  <1>3. k # 1
    BY <1>1, <1>2
  <1>4. k - 1 \in 1 .. Len(todo) - 1 /\ todo'[k - 1] = todo[(k - 1) + 1]
    BY <1>1, <1>2, <1>3
  <1>5. (k - 1) + 1 = k
    BY <1>1
  <1>6. /\ k - 1 \in 1 .. Len(todo') /\ todo'[k - 1].id = x
        /\ todo'[k - 1].at >= Since
    BY <1>1, <1>2, <1>4, <1>5
  <1>7. Since' = Since
    BY DEF Since
  <1> QED BY <1>6, <1>7 DEF InReach

LEMMA GitHubStepOut ==
  WindowInv /\ EmitsOnward /\ IncludedInv
    /\ [GitHubNext]_<<producerVars, githubVars>>
    => (LateArePublishedAgain /\ PRsAreOut)'
  <1> DEFINE Goal == (LateArePublishedAgain /\ PRsAreOut)'
  <1> SUFFICES ASSUME WindowInv /\ EmitsOnward /\ IncludedInv,
                      [GitHubNext]_<<producerVars, githubVars>>
               PROVE  Goal
    OBVIOUS
  <1> USE DEF Goto, Drop, BudgetExhausted, EndProcess, AbortScan, MoveCursor,
          BeginScan, EndRun, TaskTo, Running, CommitsDone, NoTasks, worldVars,
          trackVars, scanVars, storeVars, producerVars, githubVars, runVars,
          repoVars
  <1>1. CASE GitHubWorld
    <2>1. /\ cursor' = cursor /\ lost' = lost /\ emitted' = emitted
          /\ phase' = phase /\ todo' = todo /\ last' = last /\ skipped' = skipped
      BY <1>1, WorldEdits DEF WindowInv, EmitInv
    <2>2. LateArePublishedAgain'
      BY <2>1, LateQuietly DEF IncludedInv
    <2>3. \A p \in PR : InReach(p)' <=> InReach(p)
      BY <2>1 DEF InReach, Since
    <2>4. \A p \in PR : emitted[p] > 0 /\ Out(p) => Out(p)'
      BY <2>1, OutStays
    <2> QED BY <2>1, <2>2, <2>3, <2>4 DEF PRsAreOut, IncludedInv
  <1>2. CASE StartGitHub
    <2>1. cursor' = cursor /\ lost' = lost /\ emitted' = emitted
      BY <1>2 DEF StartGitHub
    <2>2. LateArePublishedAgain'
      BY <2>1, LateQuietly DEF IncludedInv
    <2>3. phase' = "repo"
      BY <1>2 DEF StartGitHub
    <2> QED BY <2>2, <2>3 DEF PRsAreOut
  <1>3. CASE PublishRepository
    <2>1. cursor' = cursor /\ lost' = lost /\ emitted' = emitted
      BY <1>3 DEF PublishRepository
    <2>2. LateArePublishedAgain'
      BY <2>1, LateQuietly DEF IncludedInv
    <2>3. phase' \in {"identity", "list"}
      BY <1>3 DEF PublishRepository
    <2> QED BY <2>2, <2>3 DEF PRsAreOut
  <1>4. CASE RefreshIdentity
    <2>1. cursor' = cursor /\ lost' = lost /\ emitted' = emitted
      BY <1>4 DEF RefreshIdentity
    <2>2. LateArePublishedAgain'
      BY <2>1, LateQuietly DEF IncludedInv
    <2>3. phase' = "list"
      BY <1>4 DEF RefreshIdentity
    <2> QED BY <2>2, <2>3 DEF PRsAreOut
  <1>5. CASE ListCommits
    <2>1. cursor' = cursor /\ lost' = lost /\ emitted' = emitted
      BY <1>5 DEF ListCommits
    <2>2. LateArePublishedAgain'
      BY <2>1, LateQuietly DEF IncludedInv
    <2>3. phase' = "commits"
      BY <1>5 DEF ListCommits
    <2> QED BY <2>2, <2>3 DEF PRsAreOut
  <1>6. ASSUME NEW c \in Commit, Extract(c) PROVE Goal
    <2>1. cursor' = cursor /\ lost' = lost /\ emitted' = emitted
      BY <1>6 DEF Extract
    <2>2. LateArePublishedAgain'
      BY <2>1, LateQuietly DEF IncludedInv
    <2>3. phase' \in {"commits", "failed"}
      BY <1>6 DEF Extract
    <2> QED BY <2>2, <2>3 DEF PRsAreOut
  <1>7. ASSUME NEW c \in Commit, ExtractGivesUp(c) PROVE Goal
    <2>1. cursor' = cursor /\ lost' = lost /\ emitted' = emitted
      BY <1>7 DEF ExtractGivesUp
    <2>2. LateArePublishedAgain'
      BY <2>1, LateQuietly DEF IncludedInv
    <2>3. phase' = "failed"
      BY <1>7 DEF ExtractGivesUp
    <2> QED BY <2>2, <2>3 DEF PRsAreOut
  <1>8. ASSUME NEW c \in Commit, PublishAuthor(c) PROVE Goal
    <2>1. cursor' = cursor /\ lost' = lost /\ emitted' = emitted
      BY <1>8 DEF PublishAuthor
    <2>2. LateArePublishedAgain'
      BY <2>1, LateQuietly DEF IncludedInv
    <2>3. phase' \in {"commits", "failed"}
      BY <1>8 DEF PublishAuthor
    <2> QED BY <2>2, <2>3 DEF PRsAreOut
  <1>9. ASSUME NEW c \in Commit, PublishCommit(c) PROVE Goal
    <2>1. /\ cursor' = cursor /\ lost' = lost /\ Publish({Seen(c)})
          /\ phase' \in {"commits", "failed"}
      BY <1>9 DEF PublishCommit
    <2>2. c \in Item /\ item[c].rev \in Nat /\ emitted \in [Item -> Nat]
      BY RepositoryShape DEF WindowInv, EmitInv, ScanTypes
    <2>3. emitted' = [emitted EXCEPT ![c] = Latest(emitted[c], item[c].rev)]
      BY <2>1, <2>2, PublishOne DEF Seen
    <2>4. \A p \in PR : emitted'[p] = emitted[p]
      BY <2>3, RepositoryShape DEF WindowInv, EmitInv, ScanTypes
    <2>5. LateArePublishedAgain'
      BY <2>1, <2>4, LateQuietly DEF IncludedInv
    <2> QED BY <2>1, <2>5 DEF PRsAreOut
  <1>10. ASSUME NEW c \in Commit, DropCommit(c) PROVE Goal
    <2>1. cursor' = cursor /\ lost' = lost /\ emitted' = emitted
      BY <1>10 DEF DropCommit
    <2>2. LateArePublishedAgain'
      BY <2>1, LateQuietly DEF IncludedInv
    <2>3. phase' \in {"commits", "failed"}
      BY <1>10 DEF DropCommit
    <2> QED BY <2>2, <2>3 DEF PRsAreOut
  <1>11. CASE ListPRs
    <2>1. cursor' = cursor /\ lost' = lost /\ emitted' = emitted
      BY <1>11 DEF ListPRs
    <2>2. LateArePublishedAgain'
      BY <2>1, LateQuietly DEF IncludedInv
    <2>3. /\ todo' \in Fetched /\ phase' = "prs" /\ last' = last /\ skipped' = skipped
          /\ phase = "commits"
      BY <1>11 DEF ListPRs
    <2> DEFINE S == {p \in PR : prState[p] # "none"}
    <2>4. S \in SUBSET Item /\ IsFiniteSet(S) /\ todo' \in NewestFirst(S)
      BY <2>3, RepositoryShape, FS_Subset DEF Fetched
    <2>5. ASSUME NEW p \in PR, emitted[p] > 0 PROVE Out(p)' \/ InReach(p)'
      <3>1. p \in S
        BY <2>5, CommitsStay
      <3>2. CASE OutBefore(p)
        BY <2>1, <2>3, <2>5, <3>2, OutStays DEF OutBefore, Out
      <3>3. CASE item[p].at >= LowerBound
        <4>1. LowerBound = Since /\ Since' = Since
          BY <2>3 DEF LowerBound, Since, WindowInv, EmitInv, TimesAreOrdered
        <4> HIDE DEF S
        <4>2. \E k \in 1 .. Len(todo') : todo'[k] = Snapshot(p)
          BY <2>4, <3>1, ListingIsComplete DEF WindowInv, EmitInv
        <4>3. Snapshot(p).id = p /\ Snapshot(p).at = item[p].at
          BY DEF Snapshot
        <4> QED BY <3>3, <4>1, <4>2, <4>3 DEF InReach
      <3> QED BY <2>5, <3>2, <3>3 DEF IncludedInv, LateArePublishedAgain
    <2> QED BY <2>1, <2>2, <2>3, <2>5 DEF PRsAreOut
  <1>12. CASE StopAtOldPR
    <2>1. cursor' = cursor /\ lost' = lost /\ emitted' = emitted
      BY <1>12 DEF StopAtOldPR
    <2>2. LateArePublishedAgain'
      BY <2>1, LateQuietly DEF IncludedInv
    <2>3. /\ phase = "prs" /\ phase' = "prs" /\ skipped' = skipped
          /\ todo # << >> /\ Head(todo).at < Since
      BY <1>12 DEF StopAtOldPR
    <2>4. ASSUME NEW p \in PR PROVE ~InReach(p)
      <3> SUFFICES ASSUME NEW k \in 1 .. Len(todo), todo[k].at >= Since PROVE FALSE
        BY DEF InReach
      <3>1. /\ 1 \in 1 .. Len(todo) /\ Head(todo) = todo[1] /\ Head(todo).at \in Nat
        BY <2>3, HeadAndTail, HeadIsReal DEF WindowInv, EmitInv, RepoTypes
      <3>2. todo[k].at \in Nat /\ Since \in Nat
        BY TodoTypes DEF WindowInv, EmitInv, ScanTypes, Since
      <3>3. k = 1 \/ 1 < k
        OBVIOUS
      <3>4. 1 < k => Head(todo).at >= todo[k].at
        BY <3>1, <2>3 DEF PRsAreSorted, WindowInv
      <3> QED BY <2>3, <3>1, <3>2, <3>3, <3>4
    <2>5. \A p \in PR : emitted[p] > 0 => Out(p)'
      BY <2>1, <2>3, <2>4, OutStays DEF IncludedInv, PRsAreOut
    <2> QED BY <2>1, <2>2, <2>5 DEF PRsAreOut
  <1>13. ASSUME NEW p \in PR, PublishPR(p) PROVE Goal
    <2>1. PICK out \in SUBSET Unseen(p) :
               /\ Publish({Seen(c) : c \in out} \cup {RevAtHand})
               /\ \A c \in Unseen(p) \ out : Seen(c) \in skipped'
      BY <1>13 DEF PublishPR
    <2>2. /\ todo # << >> /\ Head(todo).id = p /\ item' = item /\ todo' = Tail(todo)
          /\ skipped \subseteq skipped' /\ phase = "prs" /\ phase' = "prs" /\ last' = last
          /\ cursor' = cursor /\ lost' = lost /\ Head(todo).at >= Since
      BY <1>13 DEF PublishPR, PRAtHand, AtHand, EmitPRCommits
    <2>3. out \in SUBSET Commit /\ p \notin Commit
      BY RepositoryShape DEF Unseen
    <2> DEFINE revs == {Seen(c) : c \in out} \cup {RevAtHand}
    <2> HIDE DEF revs
    <2>4. Publish(revs) /\ revs = {Seen(c) : c \in out} \cup {RevAtHand}
      BY <2>1 DEF revs
    <2>5. /\ \A c \in out : emitted'[c] = item[c].rev
          /\ \A x \in Item : emitted'[x] # emitted[x] => x \in out \/ x = p
      BY ONLY <2>2, <2>3, <2>4, EmitMany, WindowInv DEF WindowInv
    <2>6. Out(p)'
      BY ONLY <2>1, <2>2, <2>5, AllGoOut, WindowInv, EmitsOnward, IncludedInv, p \in PR
         DEF IncludedInv
    <2>7. \A q \in PR : q # p => emitted'[q] = emitted[q]
      BY <2>3, <2>5, RepositoryShape
    <2>8. item[p].at >= LowerBound /\ item' = item
      <3>1. LowerBound = Since /\ Since \in Nat
        BY <2>2
           DEF LowerBound, Since, WindowInv, EmitInv, TimesAreOrdered, ScanTypes
      <3>2. Head(todo).at <= item[p].at /\ Head(todo).at \in Nat
        BY <2>2, HeadIsReal DEF WindowInv, EmitInv
      <3>3. item[p].at \in Nat
        BY RepositoryShape DEF WindowInv, EmitInv, ScanTypes
      <3> QED BY <2>2, <3>1, <3>2, <3>3
    <2>9. (item[p].at >= LowerBound)'
      BY <2>2, <2>8 DEF LowerBound
    <2>10. LateArePublishedAgain'
      <3>1. ASSUME NEW q \in PR, q # p, emitted'[q] > 0
            PROVE  (OutBefore(q) \/ item[q].at >= LowerBound)'
        BY <2>2, <2>7, <3>1, LateStays DEF IncludedInv, LateArePublishedAgain
      <3> QED BY <2>9, <3>1 DEF LateArePublishedAgain
    <2>11. ASSUME NEW q \in PR, q # p, emitted'[q] > 0 PROVE Out(q)' \/ InReach(q)'
      <3>1. Out(q) \/ InReach(q)
        BY <2>2, <2>7, <2>11 DEF IncludedInv, PRsAreOut
      <3>2. Out(q) => Out(q)'
        BY <2>2, <2>7, <2>11, OutStays
      <3>3. InReach(q) => InReach(q)'
        BY <2>2, <2>11, ReachStays DEF WindowInv, EmitInv
      <3> QED BY <3>1, <3>2, <3>3
    <2> QED BY <2>2, <2>6, <2>10, <2>11 DEF PRsAreOut
  <1>14. ASSUME NEW p \in PR, DropPR(p) PROVE Goal
    <2>1. PICK out \in SUBSET Unseen(p) :
               /\ Publish({Seen(c) : c \in out})
               /\ \A c \in Unseen(p) \ out : Seen(c) \in skipped'
      BY <1>14 DEF DropPR
    <2>2. /\ todo # << >> /\ Head(todo).id = p /\ item' = item /\ todo' = Tail(todo)
          /\ skipped \subseteq skipped' /\ phase = "prs" /\ phase' = "prs" /\ last' = last
          /\ cursor' = cursor /\ lost' = lost /\ Head(todo).at >= Since
      BY <1>14 DEF DropPR, PRAtHand, AtHand, EmitPRCommits
    <2>3. out \in SUBSET Commit /\ p \notin Commit
      BY RepositoryShape DEF Unseen
    <2> DEFINE revs == {Seen(c) : c \in out} \cup {}
    <2> HIDE DEF revs
    <2>4. Publish(revs) /\ revs = {Seen(c) : c \in out} \cup {}
      BY <2>1 DEF revs
    <2>5. /\ \A c \in out : emitted'[c] = item[c].rev
          /\ \A x \in Item : emitted'[x] # emitted[x] => x \in out \/ x = p
      BY ONLY <2>2, <2>3, <2>4, EmitMany, WindowInv DEF WindowInv
    <2>6. Out(p)'
      BY ONLY <2>1, <2>2, <2>5, AllGoOut, WindowInv, EmitsOnward, IncludedInv, p \in PR
         DEF IncludedInv
    <2>7. \A q \in PR : q # p => emitted'[q] = emitted[q]
      BY <2>3, <2>5, RepositoryShape
    <2>8. item[p].at >= LowerBound /\ item' = item
      <3>1. LowerBound = Since /\ Since \in Nat
        BY <2>2
           DEF LowerBound, Since, WindowInv, EmitInv, TimesAreOrdered, ScanTypes
      <3>2. Head(todo).at <= item[p].at /\ Head(todo).at \in Nat
        BY <2>2, HeadIsReal DEF WindowInv, EmitInv
      <3>3. item[p].at \in Nat
        BY RepositoryShape DEF WindowInv, EmitInv, ScanTypes
      <3> QED BY <2>2, <3>1, <3>2, <3>3
    <2>9. (item[p].at >= LowerBound)'
      BY <2>2, <2>8 DEF LowerBound
    <2>10. LateArePublishedAgain'
      <3>1. ASSUME NEW q \in PR, q # p, emitted'[q] > 0
            PROVE  (OutBefore(q) \/ item[q].at >= LowerBound)'
        BY <2>2, <2>7, <3>1, LateStays DEF IncludedInv, LateArePublishedAgain
      <3> QED BY <2>9, <3>1 DEF LateArePublishedAgain
    <2>11. ASSUME NEW q \in PR, q # p, emitted'[q] > 0 PROVE Out(q)' \/ InReach(q)'
      <3>1. Out(q) \/ InReach(q)
        BY <2>2, <2>7, <2>11 DEF IncludedInv, PRsAreOut
      <3>2. Out(q) => Out(q)'
        BY <2>2, <2>7, <2>11, OutStays
      <3>3. InReach(q) => InReach(q)'
        BY <2>2, <2>11, ReachStays DEF WindowInv, EmitInv
      <3> QED BY <3>1, <3>2, <3>3
    <2> QED BY <2>2, <2>6, <2>10, <2>11 DEF PRsAreOut
  <1>15. CASE ListIssues
    <2>1. cursor' = cursor /\ lost' = lost /\ emitted' = emitted
      BY <1>15 DEF ListIssues
    <2>2. LateArePublishedAgain'
      BY <2>1, LateQuietly DEF IncludedInv
    <2>3. phase = "prs" /\ todo = << >> /\ skipped \subseteq skipped'
      BY <1>15 DEF ListIssues
    <2>4. \A p \in PR : ~InReach(p)
      BY <2>3 DEF InReach
    <2>5. \A p \in PR : emitted[p] > 0 => Out(p)'
      BY <2>1, <2>3, <2>4, OutStays DEF IncludedInv, PRsAreOut
    <2> QED BY <2>1, <2>2, <2>5 DEF PRsAreOut
  <1>16. CASE IssuesDone
    <2>1. cursor' = cursor /\ lost' = lost /\ emitted' = emitted
      BY <1>16 DEF IssuesDone
    <2>2. LateArePublishedAgain'
      BY <2>1, LateQuietly DEF IncludedInv
    <2>3. phase = "issues" /\ skipped \subseteq skipped'
      BY <1>16 DEF IssuesDone
    <2>5. \A p \in PR : emitted[p] > 0 => Out(p)'
      BY <2>1, <2>3, OutStays DEF IncludedInv, PRsAreOut
    <2> QED BY <2>1, <2>2, <2>5 DEF PRsAreOut
  <1>17. ASSUME NEW i \in Issue, PublishIssue(i) PROVE Goal
    <2>1. /\ cursor' = cursor /\ lost' = lost /\ Publish({RevAtHand}) /\ item' = item
          /\ todo # << >> /\ Head(todo).id = i /\ phase = "issues" /\ skipped' = skipped
      BY <1>17 DEF PublishIssue, AtHand
    <2> DEFINE revs == {RevAtHand}
    <2> HIDE DEF revs
    <2>2. Publish(revs) /\ revs = {Seen(c) : c \in {}} \cup {RevAtHand}
      BY <2>1 DEF revs
    <2>3. i \notin Commit /\ i \notin PR
      BY RepositoryShape
    <2>4. \A x \in Item : emitted'[x] # emitted[x] => x = i
      <3>1. EmitInv /\ {} \in SUBSET Commit /\ {RevAtHand} \in SUBSET {RevAtHand}
        BY DEF WindowInv
      <3>2. \A x \in Item : emitted'[x] # emitted[x] =>
                x \in {} \/ ({RevAtHand} # {} /\ x = Head(todo).id)
        BY ONLY <2>1, <2>2, <2>3, <3>1, EmitMany
      <3> QED BY <2>1, <3>2
    <2>5. \A p \in PR : emitted'[p] = emitted[p]
      BY <2>3, <2>4, RepositoryShape
    <2>6. LateArePublishedAgain'
      BY <2>1, <2>5, LateQuietly DEF IncludedInv
    <2>7. \A p \in PR : emitted[p] > 0 => Out(p)'
      BY <2>1, OutStays DEF IncludedInv, PRsAreOut
    <2> QED BY <2>5, <2>6, <2>7 DEF PRsAreOut
  <1>18. ASSUME NEW i \in Issue, DropIssue(i) PROVE Goal
    <2>1. cursor' = cursor /\ lost' = lost /\ emitted' = emitted
      BY <1>18 DEF DropIssue
    <2>2. LateArePublishedAgain'
      BY <2>1, LateQuietly DEF IncludedInv
    <2>3. phase = "issues" /\ skipped \subseteq skipped'
      BY <1>18 DEF DropIssue, AtHand
    <2>5. \A p \in PR : emitted[p] > 0 => Out(p)'
      BY <2>1, <2>3, OutStays DEF IncludedInv, PRsAreOut
    <2> QED BY <2>1, <2>2, <2>5 DEF PRsAreOut
  <1>19. CASE GiveUpGitHub
    <2>1. cursor' = cursor /\ lost' = lost /\ emitted' = emitted
      BY <1>19 DEF GiveUpGitHub
    <2>2. LateArePublishedAgain'
      BY <2>1, LateQuietly DEF IncludedInv
    <2>3. phase' = "failed"
      BY <1>19 DEF GiveUpGitHub
    <2> QED BY <2>2, <2>3 DEF PRsAreOut
  <1>20. CASE ErrorGitHub
    <2>1. cursor' = cursor /\ lost' = lost /\ emitted' = emitted
      BY <1>20 DEF ErrorGitHub
    <2>2. LateArePublishedAgain'
      BY <2>1, LateQuietly DEF IncludedInv
    <2>3. phase' = "failed"
      BY <1>20 DEF ErrorGitHub
    <2> QED BY <2>2, <2>3 DEF PRsAreOut
  <1>21. CASE FailRepo
    <2>1. cursor' = cursor /\ lost' = lost /\ emitted' = emitted
      BY <1>21 DEF FailRepo
    <2>2. LateArePublishedAgain'
      BY <2>1, LateQuietly DEF IncludedInv
    <2>3. phase' = "idle"
      BY <1>21 DEF FailRepo
    <2> QED BY <2>2, <2>3 DEF PRsAreOut
  <1>22. CASE FinishGitHub
    <2>1. /\ phase = "advance" /\ phase' = "idle" /\ emitted' = emitted
          /\ lost' = lost \cup skipped
      BY <1>22 DEF FinishGitHub
    <2>2. ASSUME NEW p \in PR, emitted[p] > 0 PROVE OutBefore(p)'
      <3>1. Out(p)
        BY <2>1, <2>2 DEF IncludedInv, PRsAreOut
      <3> QED BY <2>1, <2>2, <3>1, CommitsStay DEF Out, OutBefore
    <2> QED BY <2>1, <2>2 DEF PRsAreOut, LateArePublishedAgain
  <1>23. CASE KillGitHub
    <2>1. cursor' = cursor /\ lost' = lost /\ emitted' = emitted
      BY <1>23 DEF KillGitHub
    <2>2. LateArePublishedAgain'
      BY <2>1, LateQuietly DEF IncludedInv
    <2>3. phase' = "idle"
      BY <1>23 DEF KillGitHub
    <2> QED BY <2>2, <2>3 DEF PRsAreOut
  <1>24. CASE UNCHANGED <<producerVars, githubVars>>
    <2>1. /\ cursor' = cursor /\ lost' = lost /\ emitted' = emitted
          /\ phase' = phase /\ todo' = todo /\ last' = last /\ skipped' = skipped
      BY <1>24
    <2>2. LateArePublishedAgain'
      BY <2>1, LateQuietly DEF IncludedInv
    <2>3. \A p \in PR : InReach(p)' <=> InReach(p)
      BY <2>1 DEF InReach, Since
    <2>4. \A p \in PR : emitted[p] > 0 /\ Out(p) => Out(p)'
      BY <2>1, OutStays
    <2> QED BY <2>1, <2>2, <2>3, <2>4 DEF PRsAreOut, IncludedInv
  <1>25. CASE SkipRepository
    <2>1. /\ cursor' = cursor /\ lost' = lost /\ emitted' = emitted /\ item' = item
          /\ phase = "repo" /\ phase' = "advance" /\ skipped \subseteq skipped'
      BY <1>25 DEF SkipRepository
    <2>2. \A p \in PRWindow : \A c \in CommitsOf[p] : Seen(c) \in skipped'
      BY <1>25 DEF SkipRepository
    <2>3. LateArePublishedAgain'
      BY <2>1, LateQuietly DEF IncludedInv
    <2>4. ASSUME NEW p \in PR, emitted[p] > 0 PROVE Out(p)'
      <3>1. CASE OutBefore(p)
        BY <2>1, <2>4, <3>1, OutStays DEF OutBefore, Out
      <3>2. CASE item[p].at >= LowerBound
        <4>1. LowerBound = Since
          BY <2>1 DEF LowerBound, Since, WindowInv, EmitInv, TimesAreOrdered
        <4>2. p \in PRWindow
          BY <2>4, <3>2, <4>1, CommitsStay DEF PRWindow
        <4> QED BY <2>1, <2>2, <4>2 DEF Out, Seen
      <3> QED BY <2>4, <3>1, <3>2 DEF IncludedInv, LateArePublishedAgain
    <2> QED BY <2>1, <2>3, <2>4 DEF PRsAreOut
  <1> QED BY <1>1, <1>2, <1>3, <1>4, <1>5, <1>6, <1>7, <1>8, <1>9, <1>10,
             <1>11, <1>12, <1>13, <1>14, <1>15, <1>16, <1>17, <1>18, <1>19,
             <1>20, <1>21, <1>22, <1>23, <1>24, <1>25 DEF GitHubNext, CommitStep

LEMMA StartOfIncluded == GitHubStart => IncludedInv
  <1> SUFFICES ASSUME NEW existing \in SUBSET Item,
                      ProducerInit(existing), GitHubInit(existing)
               PROVE  IncludedInv
    BY DEF GitHubStart
  <1>1. seen = {} /\ phase = "idle"
    BY DEF ProducerInit, GitHubInit
  <1>2. \A p \in PR : emitted[p] = 0
    BY RepositoryShape DEF ProducerInit
  <1> QED BY <1>1, <1>2 DEF IncludedInv, SeenAreHandled, LateArePublishedAgain, PRsAreOut

\* When the cursor is about to move, the commits that a published pull request
\* includes were published, by the branch listing or with it, or an error
\* dropped them, also when the pull request went out in a scan that failed
\* before: the shared seen_commits hides no commit that nobody emitted.
THEOREM PullRequestsBringTheirCommits == GitHubSpec => []IncludedCommitsAreOut
  <1>1. WindowInv /\ IncludedInv /\ [GitHubNext]_<<producerVars, githubVars>> => IncludedInv'
    <2> SUFFICES ASSUME WindowInv, IncludedInv, [GitHubNext]_<<producerVars, githubVars>>
                 PROVE  IncludedInv'
      OBVIOUS
    <2>1. EmitsOnward
      BY GitHubStepEmits DEF WindowInv
    <2> QED BY <2>1, GitHubStepSeen, GitHubStepOut DEF IncludedInv
  <1>2. IncludedInv => IncludedCommitsAreOut
    BY DEF IncludedInv, PRsAreOut, Out, IncludedCommitsAreOut
  <1> QED
    BY <1>1, <1>2, StartOfIncluded, WindowInvHolds, PTL DEF GitHubSpec

=============================================================================
