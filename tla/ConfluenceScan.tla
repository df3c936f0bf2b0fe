--------------------------- MODULE ConfluenceScan ---------------------------
(***************************************************************************)
(* The scan of one Confluence account.  Comments and likes do not touch a  *)
(* page, so every scan lists the pages modified within the lookback window *)
(* and reads their comments and likes; the body is read only if the page   *)
(* was modified since the cursor.  A space whose listing fails is skipped. *)
(* The people named by any page are looked up and published at the end;    *)
(* whom a page names, no property tells apart.                             *)
(***************************************************************************)
EXTENDS ProducerScan

CONSTANTS
    Page, Space,
    SpaceOf,        \* SpaceOf[x]: the space of page x
    Discussed,      \* bound: the pages that get comments
    Lookback        \* CONFLUENCE_LOOKBACK_DAYS

ASSUME SpacesHavePages ==
    Page \subseteq Item /\ SpaceOf \in [Page -> Space] /\ Lookback \in Nat

VARIABLES
    talk,      \* talk[x]: when page x was last commented on
    heard,     \* heard[x]: the latest comment of x that a scan read, or
               \* failed to read and went on
    spaces,    \* spaces the scan has not reached
    pages,     \* listed pages of the space the scan has not reached
    gap        \* history: a scan began later than the window reaches back

confluenceRunVars == <<spaces, pages>>
confluenceVars == <<talk, heard, confluenceRunVars, gap>>

ConfluenceInit ==
    /\ talk = [x \in Page |-> 0] /\ heard = [x \in Page |-> 0]
    /\ spaces = {} /\ pages = {} /\ gap = FALSE

EndPages == spaces' = {} /\ pages' = {}

EditPage(x) == Edit(x) /\ UNCHANGED confluenceVars

Comment(x) ==
    /\ Known(x) /\ x \in Discussed /\ now > 0
    /\ talk' = [talk EXCEPT ![x] = now]
    /\ UNCHANGED <<producerVars, heard, confluenceRunVars, gap>>

StartConfluence ==
    /\ BeginScan("spaces")
    /\ gap' = (gap \/ now > (IF cursor = Never THEN 0 ELSE cursor) + Lookback)
    /\ UNCHANGED <<talk, heard, confluenceRunVars>>

FailConfluence == /\ phase = "failed" /\ AbortScan /\ EndPages
                  /\ UNCHANGED <<talk, heard, gap>>
FinishConfluence == /\ MoveCursor /\ EndPages
                    /\ UNCHANGED <<talk, heard, gap>>
KillConfluence == /\ phase # "idle" /\ AbortScan /\ EndPages
                  /\ UNCHANGED <<talk, heard, gap>>

GiveUpConfluence ==
    /\ phase \in {"spaces", "pages", "people"}
    /\ BudgetExhausted("failed")
    /\ UNCHANGED confluenceVars

(* A body, the likes, a person or the publisher: nothing catches it below  *)
(* main_async.                                                             *)
ErrorConfluence ==
    /\ phase \in {"spaces", "pages", "people"}
    /\ Goto("failed", {})
    /\ UNCHANGED <<worldVars, storeVars, trackVars, confluenceVars>>

ListSpaces ==
    /\ phase = "spaces"
    /\ Goto("pages", {})
    /\ spaces' = Space
    /\ UNCHANGED <<worldVars, storeVars, trackVars, talk, heard, pages, gap>>

-----------------------------------------------------------------------------
(* The window of every scan is the lookback: it reaches back from the      *)
(* start of the scan, and ignores the cursor.                              *)
MutSinceDate == Since
SinceDate == IF started > Lookback THEN started - Lookback ELSE 0
InWindow(s) == {x \in Page : SpaceOf[x] = s /\ Known(x) /\ item[x].at >= SinceDate}

(* Snapshots of the pages; an HTTP error skips the space, and so does a    *)
(* Space signal that is not valid.                                         *)
ListSpace(s) ==
    /\ phase = "pages" /\ pages = {} /\ s \in spaces
    /\ spaces' = spaces \ {s}
    /\ \/ /\ pages' = {[id |-> x, rev |-> item[x].rev, at |-> item[x].at] : x \in InWindow(s)}
          /\ Drop({}) /\ UNCHANGED heard
       \/ /\ Drop({Seen(x) : x \in InWindow(s)})
          /\ heard' = [x \in Page |-> IF x \in InWindow(s) THEN talk[x] ELSE heard[x]]
          /\ UNCHANGED pages
    /\ UNCHANGED <<worldVars, storeVars, trackVars, talk, gap>>

(* The body if the page was modified since the cursor; the comments, or    *)
(* none after an error; the likes.                                         *)
MutBodyIsDue(c) == c.at > (IF last = Never THEN SinceDate ELSE last)
BodyIsDue(c) == ~ c.at < (IF last = Never THEN SinceDate ELSE last)
PublishPage(c) ==
    /\ phase = "pages" /\ c \in pages
    /\ pages' = pages \ {c}
    /\ IF BodyIsDue(c) THEN Publish({<<c.id, c.rev>>}) ELSE UNCHANGED emitted
    /\ heard' = [heard EXCEPT ![c.id] = talk[c.id]]
    /\ UNCHANGED <<scanVars, worldVars, cursor, lost, trackVars, talk, spaces, gap>>

(* No signal can be built, for want of a title: all that was read of the   *)
(* page is left out.                                                       *)
SkipPage(c) ==
    /\ phase = "pages" /\ c \in pages
    /\ pages' = pages \ {c}
    /\ Drop({<<c.id, c.rev>>})
    /\ heard' = [heard EXCEPT ![c.id] = talk[c.id]]
    /\ UNCHANGED <<worldVars, storeVars, trackVars, talk, spaces, gap>>

SpacesDone ==
    /\ phase = "pages" /\ spaces = {} /\ pages = {}
    /\ Goto("people", {})
    /\ UNCHANGED <<worldVars, storeVars, trackVars, confluenceVars>>

PublishPeople ==
    /\ phase = "people"
    /\ Goto("advance", {})
    /\ UNCHANGED <<worldVars, storeVars, trackVars, confluenceVars>>

ConfluenceNext ==
    \/ Tick /\ UNCHANGED confluenceVars
    \/ \E x \in Page : EditPage(x) \/ Comment(x)
    \/ StartConfluence \/ ListSpaces \/ \E s \in Space : ListSpace(s)
    \/ \E c \in pages : PublishPage(c) \/ SkipPage(c)
    \/ SpacesDone \/ PublishPeople
    \/ GiveUpConfluence \/ ErrorConfluence \/ FailConfluence
    \/ FinishConfluence \/ KillConfluence

ConfluenceStart == (\E existing \in SUBSET Item : ProducerInit(existing)) /\ ConfluenceInit
ConfluenceSpec ==
    ConfluenceStart /\ [][ConfluenceNext]_<<producerVars, confluenceVars>>

-----------------------------------------------------------------------------
(* While no scan came later than the lookback reaches, the body of every   *)
(* edited page is published, though listing and body use two bounds.       *)
ConfluenceMissesNothing == ~ gap => NothingMissed(Page)

(* Once a scan has moved the cursor, every older comment on a page that    *)
(* was in its window has been read, though it did not touch the page.      *)
CommentsAreHeard ==
    cursor # Never => \A x \in Page :
        Known(x) /\ item[x].at + Lookback >= cursor /\ item[x].at < cursor /\ talk[x] < cursor =>
            heard[x] = talk[x]

=============================================================================
