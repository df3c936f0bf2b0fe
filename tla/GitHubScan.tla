----------------------------- MODULE GitHubScan -----------------------------
(***************************************************************************)
(* The scan of one repository by the GitHub producer: the Repository, the  *)
(* identity data (collaborators and teams) when it is due, the commits of  *)
(* the default branch in concurrent coroutines, the pull requests newest   *)
(* first with the commits the branch did not list, and the issues.         *)
(* A WbaRetryTimeoutError at any depth ends the scan; most other errors    *)
(* are logged, and what they concern is dropped.                           *)
(***************************************************************************)
EXTENDS ProducerScan, SequencesExt

CONSTANTS
    Commit, PR, Issue,   \* the items of a repository
    CommitsOf,           \* CommitsOf[p]: the commits of pull request p
    Author,              \* Author[c]: who wrote commit c
    PRPeople, IssuePeople,  \* per item, <<relation, person>> pairs
    Permits,             \* the semaphore of process_commits
    RefreshDays          \* IDENTITY_REFRESH_DAYS

ASSUME RepositoryShape ==
    /\ Commit \cup PR \cup Issue \subseteq Item
    /\ Commit \cap PR = {} /\ Commit \cap Issue = {} /\ PR \cap Issue = {}
    /\ IsFiniteSet(PR) /\ IsFiniteSet(Issue)
    /\ CommitsOf \in [PR -> SUBSET Commit]

VARIABLES
    where,      \* where[c]: "local", "pr" or "main"
    landed,     \* landed[c]: when c reached the default branch
    prState,    \* prState[p]: "none", "open" or "merged"
    task,       \* task[c]: the coroutine of commit c
    todo,       \* fetched items the loop has not reached
    seen,       \* seen_commits
    visible,    \* _user_cache: whose lookups yield a profile in this process
    named       \* history: who the signals of this scan name, but reporters

repoVars == <<where, landed, prState>>
runVars == <<task, todo, seen, visible, named>>
githubVars == <<repoVars, runVars>>

NoTasks == [c \in Commit |-> "none"]
GitHubInit(existing) ==
    /\ where = [c \in Commit |-> IF c \in existing THEN "pr" ELSE "local"]
    /\ landed = [c \in Commit |-> Never]
    /\ prState = [p \in PR |-> IF p \in existing THEN "open" ELSE "none"]
    /\ task = NoTasks /\ todo = << >> /\ seen = {} /\ visible = {} /\ named = {}

-----------------------------------------------------------------------------
(* The repository lives on while it is scanned.                            *)
WorldStep == UNCHANGED <<now, trackVars, scanVars, storeVars, runVars>>

PushCommit(c) ==
    /\ where[c] = "local"
    /\ where' = [where EXCEPT ![c] = "main"]
    /\ landed' = [landed EXCEPT ![c] = now]
    /\ Edited({c})
    /\ UNCHANGED prState /\ WorldStep

\* Two pull requests may have commits in common (one is stacked on the other,
\* or goes to another branch), and commits the default branch has already.
OpenPR(p) ==
    /\ prState[p] = "none"
    /\ prState' = [prState EXCEPT ![p] = "open"]
    /\ LET new == {c \in CommitsOf[p] : where[c] = "local"} IN
          /\ where' = [c \in Commit |-> IF c \in new THEN "pr" ELSE where[c]]
          /\ Edited(new \cup {p})
    /\ UNCHANGED landed /\ WorldStep

\* A commit keeps its date when its pull request is merged; squashed, or into
\* another branch, the merge brings the default branch none of them.
MergePR(p) ==
    /\ prState[p] = "open"
    /\ prState' = [prState EXCEPT ![p] = "merged"]
    /\ \E new \in {{}, {c \in CommitsOf[p] : where[c] = "pr"}} :
          /\ where' = [c \in Commit |-> IF c \in new THEN "main" ELSE where[c]]
          /\ landed' = [c \in Commit |-> IF c \in new THEN now ELSE landed[c]]
    /\ Edited({p})
    /\ WorldStep

EditItem(x) ==
    /\ x \in Issue \/ (x \in PR /\ Known(x))
    /\ Edit(x)
    /\ UNCHANGED githubVars

-----------------------------------------------------------------------------
EndRun == task' = NoTasks /\ todo' = << >> /\ seen' = {} /\ visible' = {} /\ named' = {}

(* A lookup is cached, whether it succeeds or fails, so that it has one    *)
(* outcome per process.                                                    *)
Contributors == {Author[c] : c \in Commit} \cup UNION {{e[2] : e \in PRPeople[p]} : p \in PR}
    \cup UNION {{e[2] : e \in {f \in IssuePeople[i] : f[1] = "COMMENTED_ON"}} : i \in Issue}
StartGitHub ==
    /\ BeginScan("repo")
    /\ \E v \in SUBSET Contributors : visible' = v
    /\ UNCHANGED <<repoVars, task, todo, seen, named>>

(* main_async: the error is recorded for the configuration; the process    *)
(* ends, and with it the coroutines that were still running.               *)
FailRepo == /\ phase = "failed"
            /\ AbortScan /\ EndRun
            /\ UNCHANGED repoVars

FinishGitHub == /\ MoveCursor /\ EndRun
                /\ UNCHANGED repoVars

KillGitHub == /\ phase # "idle"
              /\ AbortScan /\ EndRun
              /\ UNCHANGED repoVars

(* retry_with_backoff gives up somewhere in the phase.                     *)
GiveUpGitHub ==
    /\ phase \in {"repo", "identity", "list", "prs", "issues"}
    /\ BudgetExhausted("failed")
    /\ UNCHANGED githubVars

CommitsDone == phase = "commits" /\ \A c \in Commit : task[c] \in {"none", "done"}

(* Errors nothing below main_async catches.                                *)
ErrorGitHub ==
    /\ phase \in {"repo", "list"} \/ CommitsDone
    /\ Goto("failed", {})
    /\ UNCHANGED <<worldVars, storeVars, trackVars, githubVars>>

(* What was touched since the cursor: commits of the default branch by     *)
(* their own date, pull requests and issues by their last update.          *)
Listed == {c \in Commit : where[c] = "main" /\ item[c].at >= Since}
PRWindow == {p \in PR : prState[p] # "none" /\ item[p].at >= Since}
IssueWindow == {i \in Issue : Known(i) /\ item[i].at >= Since}

(* The Repository and, when it is due, the identity data.  An exhausted    *)
(* budget ends the scan; other errors of that data are swallowed.          *)
IdentityIsDue == RefreshDays = 0 \/ last = Never \/ now - last >= RefreshDays
PublishRepository ==
    /\ phase = "repo"
    /\ Goto(IF IdentityIsDue THEN "identity" ELSE "list", {})
    /\ UNCHANGED <<worldVars, storeVars, trackVars, githubVars>>

\* Without a creation date there is no Repository signal, and nothing more of
\* the repository is read; the cursor is moved all the same.
SkipRepository ==
    /\ phase = "repo"
    /\ Goto("advance", {Seen(x) : x \in Listed \cup PRWindow \cup IssueWindow
                                  \cup UNION {CommitsOf[p] : p \in PRWindow}})
    /\ UNCHANGED <<worldVars, storeVars, trackVars, githubVars>>

\* Collaborators and team members are published past the tracker.
RefreshIdentity ==
    /\ phase = "identity"
    /\ Goto("list", {})
    /\ UNCHANGED <<worldVars, storeVars, trackVars, githubVars>>

-----------------------------------------------------------------------------
(* fetch_github_user: a lookup yields a profile, or only a login when the  *)
(* user hides the rest or the call fails.                                  *)
Lookup(people) == people \cap visible

(* The relations of the three signals to people.                           *)
CommitLinks(c) == {<<"CREATED_BY", Author[c]>>}
PullRequestLinks(p) ==
    {e \in PRPeople[p] : e[1] = "MERGED_BY" => prState[p] = "merged"}
IssueLinks(i) ==
    {e \in IssuePeople[i] : e[1] = "MENTIONS" => <<"REPORTED_BY", e[2]>> \notin IssuePeople[i]}
People(links) == {e[2] : e \in {f \in links : f[1] # "REPORTED_BY"}}

ListCommits ==
    /\ phase = "list"
    /\ Goto("commits", {})
    /\ task' = [c \in Commit |-> IF c \in Listed THEN "wait" ELSE "none"]
    /\ UNCHANGED <<worldVars, storeVars, trackVars, repoVars, todo, seen, visible, named>>

Inside == {c \in Commit : task[c] \in {"person", "commit"}}

(* A coroutine runs on after another one has failed the gather, until the  *)
(* process ends.                                                           *)
Running(c, s) == phase \in {"commits", "failed"} /\ task[c] = s
TaskTo(c, s) == task' = [task EXCEPT ![c] = s]

(* Under a permit, the commit is read and its author claimed.              *)
Extract(c) ==
    /\ Running(c, "wait") /\ Cardinality(Inside) < Permits
    /\ LET known == Lookup({Author[c]}) IN
          /\ Claim({Author[c]}, known)
          /\ IF ClaimedProfiles(known) \cup ClaimedStubs({Author[c]} \ known) # {}
             THEN TaskTo(c, "person") /\ UNCHANGED seen
             ELSE TaskTo(c, "commit") /\ seen' = seen \cup {c}
    /\ UNCHANGED <<scanVars, worldVars, storeVars, settled, repoVars, todo, visible, named>>

ExtractGivesUp(c) ==
    /\ Running(c, "wait") /\ Cardinality(Inside) < Permits
    /\ BudgetExhausted("failed")
    /\ TaskTo(c, "done")
    /\ UNCHANGED <<repoVars, todo, seen, visible, named>>

PublishAuthor(c) ==
    /\ Running(c, "person")
    /\ settled' = settled \cup (profiles \cap {Author[c]})
    /\ TaskTo(c, "commit") /\ seen' = seen \cup {c}
    /\ UNCHANGED <<scanVars, worldVars, storeVars, stubs, profiles, sighted,
                   repoVars, todo, visible, named>>

\* One Commit signal, and a File signal for each file.
PublishCommit(c) ==
    /\ Running(c, "commit")
    /\ Publish({Seen(c)})
    /\ named' = named \cup People(CommitLinks(c))
    /\ TaskTo(c, "done")
    /\ UNCHANGED <<scanVars, worldVars, cursor, lost, trackVars, repoVars, todo, seen, visible>>

\* Any other exception: the commit is logged as skipped.
DropCommit(c) ==
    /\ Running(c, task[c])
    /\ c \in Inside \/ (task[c] = "wait" /\ Cardinality(Inside) < Permits)
    /\ Drop({Seen(c)})
    /\ settled' = settled \cup (IF task[c] = "person" THEN {Author[c]} ELSE {})
    /\ TaskTo(c, "done")
    /\ UNCHANGED <<worldVars, storeVars, stubs, profiles, sighted, repoVars, todo, seen,
                   visible, named>>

-----------------------------------------------------------------------------
(* Open and closed pull requests are fetched apart, then sorted together,  *)
(* newest first, so that the loop may stop at the first old one; those of  *)
(* the same time come in any order.                                        *)
Snapshot(x) == [id |-> x, rev |-> item[x].rev, at |-> item[x].at]
NewestFirst(S) == {s \in SetToSeqs({Snapshot(x) : x \in S}) :
    \A j, k \in DOMAIN s : j < k => s[j].at >= s[k].at}
MutFetched == {a \o b : a \in NewestFirst({p \in PR : prState[p] = "open"}),
                        b \in NewestFirst({p \in PR : prState[p] = "merged"})}
Fetched == NewestFirst({p \in PR : prState[p] # "none"})

ListPRs ==
    /\ CommitsDone
    /\ Goto("prs", {})
    /\ todo' \in Fetched
    /\ UNCHANGED <<worldVars, storeVars, trackVars, repoVars, task, seen, visible, named>>

StopAtOldPR ==
    /\ phase = "prs" /\ todo # << >> /\ Head(todo).at < Since
    /\ todo' = << >>
    /\ UNCHANGED <<scanVars, worldVars, storeVars, trackVars, repoVars, task, seen, visible, named>>

AtHand(ph, x) == phase = ph /\ todo # << >> /\ Head(todo).id = x
PRAtHand(p) == AtHand("prs", p) /\ Head(todo).at >= Since
RevAtHand == <<Head(todo).id, Head(todo).rev>>

(* Commits nobody emitted yet go out without a branch; an error skips one  *)
(* of them, or the rest.                                                   *)
MutUnseen(p) == {c \in CommitsOf[p] \ seen : where[c] = "main"}
Unseen(p) == CommitsOf[p] \ seen
EmitPRCommits(p, out) ==
    /\ seen' = seen \cup out
    /\ todo' = Tail(todo)
    /\ UNCHANGED <<worldVars, cursor, lost, repoVars, task, visible>>

(* Then the people, then the pull request.                                 *)
PublishPR(p) ==
    /\ PRAtHand(p)
    /\ \E out \in SUBSET Unseen(p) :
          LET links == PullRequestLinks(p) \cup UNION {CommitLinks(c) : c \in out} IN
          /\ EmitPRCommits(p, out)
          /\ Publish({Seen(c) : c \in out} \cup {RevAtHand})
          /\ Drop({Seen(c) : c \in Unseen(p) \ out})
          /\ named' = named \cup People(links)
          /\ Introduce(People(links), Lookup(People(links)), {})

\* An error among the people or before: the pull request is skipped.
DropPR(p) ==
    /\ PRAtHand(p)
    /\ \E out \in SUBSET Unseen(p) :
          LET links == UNION {CommitLinks(c) : c \in out} IN
          /\ EmitPRCommits(p, out)
          /\ Publish({Seen(c) : c \in out})
          /\ Drop({RevAtHand} \cup {Seen(c) : c \in Unseen(p) \ out})
          /\ named' = named \cup People(links)
          /\ \E failing \in SUBSET (People(PullRequestLinks(p)) \ profiles) :
                LET people == People(links) \cup failing IN
                /\ Cardinality(failing) <= 1
                /\ Introduce(people, Lookup(people), failing)

-----------------------------------------------------------------------------
(* Issues by the search or the repository endpoint; an error of the        *)
(* listing is logged, and the scan goes on without issues.                 *)
ListIssues ==
    /\ phase = "prs" /\ todo = << >>
    /\ \/ Goto("issues", {}) /\ todo' \in NewestFirst(IssueWindow)
       \/ Goto("advance", {Seen(i) : i \in IssueWindow}) /\ UNCHANGED todo
    /\ UNCHANGED <<worldVars, storeVars, trackVars, repoVars, task, seen, visible, named>>

(* Assignees, mentioned users and commenters, but not the reporter; only   *)
(* for commenters is there a user object to look up, and who has a profile *)
(* already is not looked up again.                                         *)
CommentersOf(i) == People({e \in IssuePeople[i] : e[1] = "COMMENTED_ON"}) \ profiles
MutRelated(i) == CommentersOf(i)
Related(i) == People(IssuePeople[i]) \ profiles

PublishIssue(i) ==
    /\ AtHand("issues", i)
    /\ Introduce(Related(i), Lookup(CommentersOf(i)), {})
    /\ Publish({RevAtHand})
    /\ named' = named \cup People(IssueLinks(i))
    /\ todo' = Tail(todo)
    /\ UNCHANGED <<scanVars, worldVars, cursor, lost, repoVars, task, seen, visible>>

DropIssue(i) ==
    /\ AtHand("issues", i)
    /\ Drop({RevAtHand})
    /\ \/ UNCHANGED trackVars
       \/ \E q \in Related(i) :
             Introduce({q}, Lookup({q} \cap CommentersOf(i)), {q})
    /\ todo' = Tail(todo)
    /\ UNCHANGED <<worldVars, storeVars, repoVars, task, seen, visible, named>>

IssuesDone ==
    /\ phase = "issues" /\ todo = << >>
    /\ Goto("advance", {})
    /\ UNCHANGED <<worldVars, storeVars, trackVars, githubVars>>

-----------------------------------------------------------------------------
GitHubWorld ==
    \/ Tick /\ UNCHANGED githubVars
    \/ \E c \in Commit : PushCommit(c)
    \/ \E p \in PR : OpenPR(p) \/ MergePR(p)
    \/ \E x \in PR \cup Issue : EditItem(x)

CommitStep(c) ==
    \/ Extract(c) \/ ExtractGivesUp(c)
    \/ PublishAuthor(c) \/ PublishCommit(c) \/ DropCommit(c)

GitHubNext ==
    \/ GitHubWorld
    \/ StartGitHub \/ PublishRepository \/ SkipRepository \/ RefreshIdentity
    \/ ListCommits \/ \E c \in Commit : CommitStep(c)
    \/ ListPRs \/ StopAtOldPR \/ \E p \in PR : PublishPR(p) \/ DropPR(p)
    \/ ListIssues \/ IssuesDone \/ \E i \in Issue : PublishIssue(i) \/ DropIssue(i)
    \/ GiveUpGitHub \/ ErrorGitHub \/ FailRepo \/ FinishGitHub \/ KillGitHub

(* A pull request is there with its commits.                               *)
GitHubStart == \E existing \in SUBSET Item :
    /\ \A p \in PR \cap existing : CommitsOf[p] \subseteq existing
    /\ ProducerInit(existing) /\ GitHubInit(existing)
GitHubSpec == GitHubStart /\ [][GitHubNext]_<<producerVars, githubVars>>

-----------------------------------------------------------------------------
(* No edit of a pull request or an issue, and no commit pushed when it was *)
(* made, falls between two scans, though edits go on while a scan lists    *)
(* and publishes.                                                          *)
GitHubMissesNothing ==
    NothingMissed(PR \cup Issue \cup {c \in Commit : landed[c] = item[c].at})

(* When the cursor is about to move, the commits a published pull request  *)
(* includes were published, by the branch listing or by the pull request,  *)
(* or an error dropped them: the shared seen_commits hides no commit that  *)
(* nobody emitted.                                                         *)
IncludedCommitsAreOut ==
    phase = "advance" => \A p \in PR : emitted[p] > 0 =>
        \A c \in CommitsOf[p] : emitted[c] > 0 \/ Seen(c) \in skipped \cup lost

(* Everyone a published signal names, except reporters, was claimed in the *)
(* scan and so published, or the publisher failed.                         *)
NamedPeopleAreIntroduced ==
    named \subseteq stubs \cup profiles

=============================================================================
