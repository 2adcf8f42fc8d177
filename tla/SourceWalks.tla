----------------------------- MODULE SourceWalks -----------------------------
(***************************************************************************)
(* How the external connectors walk their source page by page             *)
(* (app/ingestion/connectors), together with the three things the sync     *)
(* keeps between pages and between runs (app/ingestion/service.py):        *)
(* `last_synced_at`, the `_ingestion_checkpoint` and the `_resume_token`.  *)
(*                                                                         *)
(* A connector walks a fixed list of places (repository phases, channels,  *)
(* sites, projects, spaces), one page a call.  Three families:             *)
(*   listed     the page is a slice of a listing that the source computes  *)
(*              anew at every call: Azure DevOps and Confluence order it   *)
(*              oldest change first, GitHub newest first;                  *)
(*   continued  the source hands out an opaque token that continues one    *)
(*              listing: Slack, Jira, Teams in a full sync;                *)
(*   delta      Microsoft Graph's change feed: Teams in an incremental     *)
(*              sync, SharePoint always.  The link that ends a walk is     *)
(*              kept for the next sync.                                    *)
(* Meanwhile people go on editing the source (Change): the walk never sees *)
(* one state of it.  `clock` numbers the edits and the ends of syncs, and  *)
(* an item's version is the time of its last edit.                         *)
(*                                                                         *)
(* Definitions named X_Y are X with a plausible mistake, see Ingestion.    *)
(***************************************************************************)
EXTENDS Naturals, FiniteSets

CONSTANTS
    Items,       \* what the source holds
    Home,        \* the place of every item, [Items -> 1..NumPlaces]
    Number,      \* orders what was last edited at the same time, [Items -> Nat]
    NumPlaces,   \* places the connector is configured with
    PageSize,    \* _BATCH_SIZE, _SEARCH_PAGE_SIZE, _PULLS_PAGE_SIZE...
    MaxClock     \* bound on edits and syncs

ASSUME WalkConstants ==
    /\ IsFiniteSet(Items)
    /\ Number \in [Items -> Nat] /\ \A i, j \in Items : Number[i] = Number[j] => i = j
    /\ NumPlaces \in Nat \ {0}
    /\ PageSize \in Nat \ {0}
    /\ Home \in [Items -> 1..NumPlaces]
    /\ MaxClock \in Nat \ {0}

VARIABLES
    source,      \* the connector's source_name, fixed
    clock,
    changed,     \* the time of every item's last edit
    held,        \* the version of every item that is ingested, 0 for none
    lastSynced,  \* last_synced_at, 0 for never
    tokens,      \* _resume_token: the delta link of every place, 0 for none
    checkpoint,  \* _ingestion_checkpoint, or NoCheckpoint
    sync,        \* the running sync, or Idle
    excused,     \* items edited while a sync's window was open, and files
                 \* whose download failed
    linked,      \* Teams: the first delta link of every channel
    mislinked,   \* TRUE once a failed sync has written _resume_token
    shifted      \* OldestFirst: places with an edit while a window was open

walkVars == <<source, clock, changed, held, lastSynced, tokens, checkpoint,
              sync, excused, linked, mislinked, shifted>>

Sources == {"azure_devops", "confluence", "github", "jira", "slack", "teams",
            "sharepoint"}
OldestFirst == {"azure_devops", "confluence"}
Places  == 1..NumPlaces
Times   == 0..MaxClock
NoLinks == [p \in Places |-> 0]
Late    == [i \in Items |-> 0]
NoCheckpoint == [stage |-> "none"]
Idle         == [stage |-> "idle"]

\* A position: the place, the page or the opaque link within it (`rest` is
\* what a continuation still has to list, `at` the page number, the offset or
\* the time the feed was opened).
FirstPosition == [place |-> 1, at |-> 0, rest |-> {}]
Positions == [place : 1..(NumPlaces + 1), at : Nat, rest : SUBSET Items]

\* A sync knows its window, where the walk is, the links it started from and
\* has collected (client.resume_state), the token it will save
\* (latest_resume_token, NoLinks for none), and the page in its hands.
TypeOKWalks ==
    /\ source \in Sources /\ clock \in Times
    /\ changed \in [Items -> Times] /\ held \in [Items -> Times]
    /\ lastSynced \in Times
    /\ tokens \in [Places -> Times]
    /\ checkpoint = NoCheckpoint \/ checkpoint \in
         [stage : {"saved"}, full : BOOLEAN, since : Times, cursor : Positions,
          latest : [Places -> Times]]
    /\ sync = Idle \/ sync \in
         [stage : {"fetch", "items"}, full : BOOLEAN, since : Times,
          cursor : Positions, state : [Places -> Times],
          latest : [Places -> Times], page : [Items -> Times], more : BOOLEAN]

-----------------------------------------------------------------------------
(* What a call returns.                                                    *)

At(p) == {i \in Items : Home[i] = p}
Matching(p, since) == {i \in At(p) : changed[i] # 0 /\ changed[i] >= since}

\* The listing the source computes for the window; GitHub's of pull requests has no
\* window (the first place stands for them).
Listing(p, since) == Matching(p, IF source = "github" /\ p = 1 THEN 0 ELSE since)

\* Azure DevOps's WIQL query and Confluence's CQL search are oldest first, GitHub's
\* listings newest first; edits of the same time come in the same order at every call.
Precedes(j, i) ==
    \/ IF source \in OldestFirst THEN changed[j] < changed[i] ELSE changed[j] > changed[i]
    \/ changed[j] = changed[i] /\ Number[j] < Number[i]

\* How many come before i.
Rank(i, p, since) == Cardinality({j \in Listing(p, since) : Precedes(j, i)})

Slice(c, since) ==
    {i \in Listing(c.place, since) :
        Rank(i, c.place, since) \in c.at..(c.at + PageSize - 1)}

\* A pull request older than the window ends the phase: nothing from it on is
\* taken.  In the other listings everything is in the window.
Taken(got, since) == {i \in got : changed[i] >= since}

\* Azure DevOps compares the offset with the length of the list it queried;
\* Confluence and GitHub take a short page for the last one.
Exhausted_ExactPage(c, since) == Cardinality(Slice(c, since)) <= PageSize

Exhausted(c, since) ==
    LET got == Slice(c, since)
    IN IF source = "azure_devops"
       THEN c.at + Cardinality(got) >= Cardinality(Listing(c.place, since))
       ELSE Cardinality(got) < PageSize \/ \E i \in got : changed[i] < since

\* The next place, at its beginning.
NextPlace(p) == [place |-> p + 1, at |-> 0, rest |-> {}]

ListedPage(c, since) ==
    [items |-> Taken(Slice(c, since), since), failed |-> {}, link |-> 0,
     next  |-> IF Exhausted(c, since) THEN NextPlace(c.place)
               ELSE [c EXCEPT !.at = @ + Cardinality(Slice(c, since))]]

\* A continuation lists what matched when it was opened (the place's cursor
\* holds no link yet), a page at a time; the last page leaves the time the
\* continuation was opened as its link.
Continuation(c, matched) ==
    LET rest   == IF c.at = 0 THEN matched ELSE c.rest
        opened == IF c.at = 0 THEN clock ELSE c.at
    IN {[items |-> got, failed |-> {},
         next  |-> IF rest = got THEN NextPlace(c.place)
                   ELSE [place |-> c.place, at |-> opened, rest |-> rest \ got],
         link  |-> IF rest = got THEN opened ELSE 0] :
            got \in {s \in SUBSET rest :
                        /\ Cardinality(s) <= PageSize
                        /\ s # rest => Cardinality(s) = PageSize}}

\* Graph's feed from the saved link; without one Teams filters on the server
\* by `since` and SharePoint enumerates the library.
Feed(c, s) ==
    LET saved == s.state[c.place]
        from  == IF saved # 0 THEN saved
                 ELSE IF source = "teams" THEN s.since ELSE 0
    IN Continuation(c, {i \in At(c.place) : changed[i] > from})

\* SharePoint drops from a page of the feed what `since` calls old, and the
\* files it fails to download; the feed moves on all the same.
Filtered(page, since) ==
    LET recent == {i \in page.items : changed[i] >= since}
    IN {[page EXCEPT !.items = recent \ failed, !.failed = failed] :
            failed \in SUBSET recent}

\* fetch_batch of every connector: the pages the call can return.  Only a
\* walk of the feed leaves a link.
AzureDevOpsPages(c, s) == {ListedPage(c, s.since)}
ConfluencePages(c, s)  == {ListedPage(c, s.since)}
GitHubPages(c, s)      == {ListedPage(c, s.since)}

Unlinked(pages) == {[page EXCEPT !.link = 0] : page \in pages}

JiraPages(c, s)  == Unlinked(Continuation(c, Matching(c.place, s.since)))
SlackPages(c, s) == Unlinked(Continuation(c, Matching(c.place, s.since)))

TeamsFullPages(c, s) == Unlinked(Continuation(c, Matching(c.place, s.since)))
TeamsPages(c, s) == IF s.since = 0 THEN TeamsFullPages(c, s) ELSE Feed(c, s)

SharePointPages(c, s) == UNION {Filtered(page, s.since) : page \in Feed(c, s)}

FetchBatch(c, s) ==
    CASE source = "azure_devops" -> AzureDevOpsPages(c, s)
      [] source = "confluence"   -> ConfluencePages(c, s)
      [] source = "github"       -> GitHubPages(c, s)
      [] source = "jira"         -> JiraPages(c, s)
      [] source = "slack"        -> SlackPages(c, s)
      [] source = "teams"        -> TeamsPages(c, s)
      [] source = "sharepoint"   -> SharePointPages(c, s)

-----------------------------------------------------------------------------
(* The source.                                                             *)

\* An edit, or a new item.  Slack lists messages by the time they were
\* posted, an edited one is not listed again: there only posts count.
\* `excused` remembers the items edited while a sync that is running, or
\* that a checkpoint will continue, has its window open, and `shifted` the
\* places where such an edit moved an item to the end of the listing.
Change(i) ==
    /\ clock < MaxClock
    /\ source = "slack" => changed[i] = 0
    /\ clock' = clock + 1
    /\ changed' = [changed EXCEPT ![i] = clock']
    /\ excused' = IF sync = Idle /\ checkpoint = NoCheckpoint THEN excused \ {i}
                ELSE excused \cup {i}
    /\ shifted' = IF source \in OldestFirst /\ i \in excused'
                  THEN shifted \cup {Home[i]} ELSE shifted
    /\ UNCHANGED <<source, held, lastSynced, tokens, checkpoint, sync, linked,
                   mislinked>>

-----------------------------------------------------------------------------
(* The sync.                                                               *)

\* A sync continues the checkpoint of a sync of its own kind, unless it is
\* too old or the connector's settings changed; its links then replace the
\* saved ones, when it has any.  Otherwise it opens a new window.
Begin(full, since, cursor, state, latest) ==
    sync' = [stage |-> "fetch", full |-> full, since |-> since,
             cursor |-> cursor, state |-> state, latest |-> latest,
             page |-> Late, more |-> TRUE]

StartSync(full) ==
    /\ sync = Idle
    /\ Begin(full, IF full THEN 0 ELSE lastSynced, FirstPosition, tokens, NoLinks)
    /\ UNCHANGED <<source, clock, changed, held, lastSynced, tokens,
                   checkpoint, excused, linked, mislinked, shifted>>

ContinueSync(full) ==
    /\ sync = Idle
    /\ checkpoint # NoCheckpoint /\ checkpoint.full = full
    /\ Begin(full, checkpoint.since, checkpoint.cursor,
             IF checkpoint.latest # NoLinks THEN checkpoint.latest ELSE tokens,
             checkpoint.latest)
    /\ UNCHANGED <<source, clock, changed, held, lastSynced, tokens,
                   checkpoint, excused, linked, mislinked, shifted>>

\* One call of fetch_batch.  A link it returns is put down as the token to be
\* saved before the page's items are processed.
Collected(s, page) ==
    IF page.link = 0 THEN s
    ELSE LET state == [s.state EXCEPT ![s.cursor.place] = page.link]
         IN [s EXCEPT !.state = state, !.latest = state]

FetchPage_SavesCursor ==
    /\ sync.stage = "fetch"
    /\ \E page \in FetchBatch(sync.cursor, sync) :
        LET next == [Collected(sync, page) EXCEPT
                        !.stage  = "items",
                        !.cursor = page.next,
                        !.page   = [i \in Items |-> IF i \in page.items
                                                    THEN changed[i] ELSE 0],
                        !.more   = page.next.place <= NumPlaces]
        IN /\ sync' = next
           /\ excused' = excused \cup page.failed
           /\ checkpoint' = IF ~next.more THEN checkpoint ELSE
                   [stage |-> "saved", full |-> next.full, since |-> next.since,
                    cursor |-> next.cursor, latest |-> next.latest]
    /\ UNCHANGED <<source, clock, changed, held, lastSynced, tokens, linked,
                   mislinked, shifted>>

FetchPage ==
    /\ sync.stage = "fetch"
    /\ \E page \in FetchBatch(sync.cursor, sync) :
        /\ sync' = [Collected(sync, page) EXCEPT
                    !.stage  = "items",
                    !.cursor = page.next,
                    !.page   = [i \in Items |-> IF i \in page.items
                                                THEN changed[i] ELSE 0],
                    !.more   = page.next.place <= NumPlaces]
        /\ excused' = excused \cup page.failed
    /\ UNCHANGED <<source, clock, changed, held, lastSynced, tokens,
                   checkpoint, linked, mislinked, shifted>>

\* The documents of the first items of a page, each committed by itself.
Ingested(done) == [i \in Items |-> IF i \in done THEN sync.page[i] ELSE held[i]]
OnPage == {i \in Items : sync.page[i] # 0}

\* All items of a page that is not the last are durable: the checkpoint names
\* the next position.
SavePage ==
    /\ sync.stage = "items" /\ sync.more
    /\ held' = Ingested(OnPage)
    /\ checkpoint' = [stage |-> "saved", full |-> sync.full, since |-> sync.since,
                      cursor |-> sync.cursor, latest |-> sync.latest]
    /\ sync' = [sync EXCEPT !.stage = "fetch", !.page = Late]
    /\ UNCHANGED <<source, clock, changed, lastSynced, tokens, excused, linked,
                   mislinked, shifted>>

\* config["_resume_token"], kept when the sync has collected none.
Saved(links) == IF links = NoLinks THEN tokens ELSE links
FirstLinks(links) ==
    IF source = "teams"
    THEN [p \in Places |-> IF linked[p] = 0 THEN links[p] ELSE linked[p]]
    ELSE NoLinks

\* The last page: the next window opens at the time this sync ends.
Finish ==
    /\ sync.stage = "items" /\ ~sync.more /\ clock < MaxClock
    /\ held' = Ingested(OnPage)
    /\ clock' = clock + 1
    /\ lastSynced' = clock'
    /\ checkpoint' = NoCheckpoint
    /\ tokens' = Saved(sync.latest)
    /\ linked' = FirstLinks(tokens')
    /\ sync' = Idle
    /\ UNCHANGED <<source, changed, excused, mislinked, shifted>>

\* A call or an item fails for good, or arq cancels the job: the items
\* committed before it stay, and the links collected so far are saved.
Fail(done) ==
    /\ sync # Idle
    /\ done \subseteq OnPage
    /\ held' = Ingested(done)
    /\ tokens' = Saved(sync.latest)
    /\ linked' = FirstLinks(tokens')
    /\ mislinked' = (mislinked \/ sync.latest # NoLinks)
    /\ sync' = Idle
    /\ UNCHANGED <<source, clock, changed, lastSynced, checkpoint, excused, shifted>>

\* The worker is lost: nothing more is written.
Crash(done) ==
    /\ sync # Idle
    /\ done \subseteq OnPage
    /\ held' = Ingested(done)
    /\ sync' = Idle
    /\ UNCHANGED <<source, clock, changed, lastSynced, tokens, checkpoint,
                   excused, linked, mislinked, shifted>>

WalkInit ==
    /\ source \in Sources
    /\ clock = 1
    /\ changed = [i \in Items |-> IF source = "slack" THEN 0 ELSE 1]
    /\ held = Late
    /\ lastSynced = 0
    /\ tokens = NoLinks
    /\ checkpoint = NoCheckpoint
    /\ sync = Idle
    /\ excused = {}
    /\ linked = NoLinks
    /\ mislinked = FALSE
    /\ shifted = {}

WalkNext ==
    \/ \E i \in Items : Change(i)
    \/ \E full \in BOOLEAN : StartSync(full) \/ ContinueSync(full)
    \/ FetchPage \/ SavePage \/ Finish
    \/ \E done \in SUBSET Items : Fail(done) \/ Crash(done)

WalkSpec == WalkInit /\ [][WalkNext]_walkVars

-----------------------------------------------------------------------------
(* Properties.                                                             *)

Stale(i) == held[i] # changed[i]

\* What a walk must bring in: after a sync, an item that is out of date is one
\* the next window will list, or one that was edited while a sync had its
\* window open.  Pages, positions and checkpoints may repeat items over
\* failures, crashes and retries but lose none: for the sources that continue
\* a token, and for GitHub, whose newest-first listing only shifts towards the
\* pages still to come.  An oldest-first listing shifts towards the pages that
\* were listed: it is complete only in places where nothing was edited
\* meanwhile.
NothingSlipsThrough ==
    (source \notin {"teams", "sharepoint"} /\ lastSynced # 0) =>
        \A i \in Items : Stale(i) =>
            changed[i] > lastSynced \/ i \in excused \/ Home[i] \in shifted

\* Between the first delta link of a channel or site and the link saved now,
\* every edit is ingested, whenever syncs fail, crash or are repeated: unless a
\* failing sync wrote the links it had collected.  (SharePoint also filters by
\* `since` and skips failed downloads: these items are excused.)
Earned ==
    source \in {"teams", "sharepoint"} =>
        \A i \in Items :
            LET p == Home[i]
            IN (linked[p] < changed[i] /\ changed[i] <= tokens[p]) =>
                 ~Stale(i) \/ (source = "sharepoint" /\ i \in excused)

LinksAreEarned == mislinked \/ Earned

\* What a walk leaves behind, in checkpoints and links, passes over nothing.
WalksPassOverNothing == NothingSlipsThrough /\ LinksAreEarned

\* Expected to fail: the failure path's comment, "Safe even on failure: a
\* site/channel whose walk didn't reach completion this run simply keeps
\* whatever token it already had".
LinksAreEarnedOnFailure == Earned
=============================================================================
