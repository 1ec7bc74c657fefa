----------------------------- MODULE ContactSync -----------------------------
(***************************************************************************)
(* The contact sync job: the crawl of Zalo's contact list                  *)
(* (_sync_contacts_sync of app/zalo_driver.py), which scrolls through a    *)
(* virtualised list until it believes to have seen all of it, and the      *)
(* storing of what it saw (persist_synced_contacts of app/services.py), by *)
(* which contacts become active and inactive.                              *)
(*                                                                         *)
(* The list is a sequence of contacts of which the page has loaded a       *)
(* prefix, and shows the rows that meet its viewport.  Row i reaches from  *)
(* pixel RowEdge[i - 1] to RowEdge[i].  A contact enters as its identity   *)
(* key alone.  One pass of the crawl is two steps, the snapshot and what   *)
(* is done about it; the page works between any two steps.                 *)
(***************************************************************************)
EXTENDS Integers, Sequences, FiniteSets

CONSTANTS Keys,         \* identity keys of contacts
          Lists,        \* the lists Zalo may show, sequences of keys
          RowEdge,      \* where rows end, in pixels
          ClientHeight, \* the viewport, in pixels
          MaxPasses,    \* max_passes: 160 in the code
          Sites         \* what Zalo's page, and the database, may be like:
                        \* rows that are loaded at a time, snapshots that may
                        \* precede their arrival, whether things break

ASSUME ListsAssumption ==
  /\ Lists \subseteq Seq(Keys)
  /\ \A l \in Lists : 0..Len(l) \subseteq DOMAIN RowEdge
ASSUME LayoutAssumption ==
  /\ DOMAIN RowEdge \subseteq Nat
  /\ \A i \in DOMAIN RowEdge : RowEdge[i] \in Nat
  /\ \A i, j \in DOMAIN RowEdge : i < j => RowEdge[i] < RowEdge[j]
  /\ 0 \in DOMAIN RowEdge /\ RowEdge[0] = 0
  /\ ClientHeight \in Nat \ {0}
ASSUME BoundsAssumption ==
  MaxPasses \in Nat /\ Sites \subseteq [rows : Nat \ {0}, lag : Nat, breaks : BOOLEAN]

VARIABLES site,      \* what the page and the database are like
          list,      \* what Zalo lists
          loaded,    \* how many rows of it the page has loaded
          top,       \* scrollTop of the container
          due,       \* requested rows arrive before so many more snapshots
          attached,  \* the selector of the container still finds it
          tab,       \* the tab of Zalo's side bar the page shows
          job,       \* the contact_sync job
          phase,     \* of the crawl
          step,      \* within a pass
          passes,    \* passes made
          aggregate, \* keys collected
          found,     \* the last snapshot showed new contacts
          atBottom,  \* the last snapshot was one of the list's end
          stable,    \* bottom_stable_passes
          backfill,  \* backfill_found_new_contacts
          outcome,   \* sync_status of the result
          contact,   \* contact[k]: the row of the contacts table
          run        \* the last row of contact_sync_runs

page == <<site, list, loaded, top, due, attached>>
crawl == <<passes, aggregate, found, atBottom, stable, backfill>>
store == <<contact, run>>
vars == <<page, tab, job, phase, step, crawl, outcome, store>>

Crawling == {"forward", "stabilize_bottom", "backfill_up", "backfill_collect_up",
             "backfill_collect_down"}
Statuses == {"success", "partial", "empty", "scrape_failed", "view_not_found",
             "container_not_found"}

TypeOK ==
  /\ site \in Sites
  /\ list \in Lists
  /\ loaded \in 0..Len(list)
  /\ top \in Nat
  /\ due \in 0..(site.lag + 1)
  /\ attached \in BOOLEAN
  /\ tab \in {"messages", "contacts", "other"}
  /\ job \in {"none", "running", "succeeded", "failed"}
  /\ phase \in Crawling \cup {"idle", "opening", "opened", "ended"}
  /\ step \in {"snapshot", "act"}
  /\ passes \in 0..MaxPasses
  /\ aggregate \subseteq Keys
  /\ found \in BOOLEAN
  /\ atBottom \in BOOLEAN
  /\ stable \in 0..2
  /\ backfill \in BOOLEAN
  /\ outcome \in Statuses \cup {"none"}
  /\ contact \in [Keys -> {"absent", "active", "inactive"}]
  /\ run \in [status : Statuses \cup {"none"}, count : Nat, stored : Nat]

Init ==
  /\ site \in Sites
  /\ list \in Lists
  /\ loaded = 0 /\ top = 0 /\ due = 0 /\ attached = FALSE
  /\ tab = "messages"
  /\ job = "none" /\ phase = "idle" /\ step = "snapshot"
  /\ passes = 0 /\ aggregate = {} /\ found = FALSE /\ atBottom = FALSE
  /\ stable = 0 /\ backfill = FALSE
  /\ outcome = "none"
  /\ contact = [k \in Keys |-> "absent"]
  /\ run = [status |-> "none", count |-> 0, stored |-> 0]

-----------------------------------------------------------------------------
(***************************************************************************)
(* The page.                                                               *)
(***************************************************************************)

Least(a, b) == IF a < b THEN a ELSE b
Greatest(a, b) == IF a > b THEN a ELSE b

Height(rows) == Greatest(ClientHeight, RowEdge[rows])
LastTop == Height(loaded) - ClientHeight

\* The rows of the list that the page has rendered.
Visible == {i \in 1..loaded : RowEdge[i - 1] < top + ClientHeight /\ top < RowEdge[i]}

\* A page whose end is in view asks for more rows.
Asked(t, rows, waiting) ==
  IF waiting = 0 /\ rows < Len(list) /\ t + ClientHeight >= Height(rows)
  THEN site.lag + 1 ELSE waiting

RowsArrive ==
  /\ due > 0
  /\ loaded' = Least(Len(list), loaded + site.rows)
  /\ due' = Asked(top, loaded', 0)
  /\ UNCHANGED <<site, list, top, attached, tab, job, phase, step, crawl, outcome, store>>

\* Zalo rebuilds the list: the mark that _tag_contact_list_context has set on
\* its container is gone.
ContainerIsReplaced ==
  /\ site.breaks
  /\ attached
  /\ attached' = FALSE
  /\ UNCHANGED <<site, list, loaded, top, due, tab, job, phase, step, crawl, outcome, store>>

\* Friends come and go between syncs.
ListChanges ==
  /\ phase = "idle"
  /\ list' \in Lists
  /\ UNCHANGED <<site, loaded, top, due, attached, tab, job, phase, step, crawl, outcome, store>>

\* element.scrollTop = position: the browser keeps it within the list.
ScrollTo(position) ==
  /\ top' = IF attached THEN Greatest(0, Least(position, LastTop)) ELSE top
  /\ due' = Asked(top', loaded, due)
  /\ UNCHANGED <<site, list, loaded, attached>>

\* _adaptive_scroll_delta: most of the viewport.
ScrollDelta == Greatest(240, Least((ClientHeight * 85) \div 100, 960))
UpwardDelta == Greatest((ClientHeight * 3) \div 2, 360)

\* The browser is closed and the crawl's locals are gone.
Leaves ==
  /\ phase' = "idle" /\ step' = "snapshot"
  /\ loaded' = 0 /\ top' = 0 /\ due' = 0 /\ attached' = FALSE
  /\ tab' = "messages"
  /\ passes' = 0 /\ aggregate' = {} /\ found' = FALSE /\ atBottom' = FALSE
  /\ stable' = 0 /\ backfill' = FALSE
  /\ outcome' = "none"
  /\ UNCHANGED <<site, list>>

-----------------------------------------------------------------------------
(***************************************************************************)
(* Opening the contact view.                                               *)
(***************************************************************************)

\* The worker claims a job; _worker_page opens Zalo on one of its tabs.
StartSync ==
  /\ phase = "idle"
  /\ job' = "running"
  /\ phase' = "opening"
  /\ tab' \in {"messages", "contacts", "other"}
  /\ UNCHANGED <<page, step, crawl, outcome, store>>

\* Rows of contacts are in the page's container, whatever tab is selected.
ListIsThere == Len(list) > 0

\* _contact_view_matches: not the tab of messages, and a list of contacts.  (Its
\* markers include the search box, which every tab shows.)
ContactViewMatches == tab # "messages" /\ ListIsThere

\* _navigate_to_contact_view: a click on one of the selectors of the strategies
\* changes the tab, or hits something else ...
Navigate ==
  /\ phase = "opening"
  /\ ~ContactViewMatches
  /\ tab' \in {"messages", "contacts", "other"}
  /\ UNCHANGED <<page, job, phase, step, crawl, outcome, store>>

\* ... until the contacts are in view.
ViewOpens ==
  /\ phase = "opening"
  /\ ContactViewMatches
  /\ phase' = "opened"
  /\ UNCHANGED <<page, tab, job, step, crawl, outcome, store>>

Ends(status) == phase' = "ended" /\ outcome' = status

\* No selector helped.
ViewNotFound ==
  /\ phase = "opening"
  /\ ~ContactViewMatches
  /\ Ends("view_not_found")
  /\ UNCHANGED <<page, tab, job, step, crawl, store>>

ContainerNotFound ==
  /\ phase = "opened"
  /\ site.breaks
  /\ Ends("container_not_found")
  /\ UNCHANGED <<page, tab, job, step, crawl, store>>

\* _find_contact_list_context marks the container; the crawl begins.
ContainerFound ==
  /\ phase = "opened"
  /\ attached' = TRUE
  /\ loaded' = Least(Len(list), site.rows)
  /\ due' = Asked(0, loaded', 0)
  /\ phase' = "forward"
  /\ UNCHANGED <<site, list, top, tab, job, step, crawl, outcome, store>>

-----------------------------------------------------------------------------
(***************************************************************************)
(* A pass.                                                                 *)
(***************************************************************************)

\* Deliberate error: an exact comparison, from which rounding cannot excuse.
AtEndExactly == top + ClientHeight > Height(loaded)
\* The snapshot shows the end of the list, give or take 12 pixels.
AtEnd == top + ClientHeight >= Height(loaded) - 12

\* Contacts of one identity key are one contact.
Merged(shown) == aggregate \cup shown

\* _collect_contact_candidates, and the merge of what is shown.
Snapshot ==
  /\ phase \in Crawling /\ step = "snapshot"
  /\ passes < MaxPasses
  /\ due # 1
  /\ due' = IF due = 0 THEN 0 ELSE due - 1
  /\ passes' = passes + 1
  /\ LET shown == IF attached THEN {list[i] : i \in Visible} ELSE {} IN
       /\ aggregate' = Merged(shown)
       /\ found' = ~(shown \subseteq aggregate)
  /\ atBottom' = (attached /\ AtEnd)
  /\ step' = "act"
  /\ UNCHANGED <<site, list, loaded, top, attached, tab, job, phase, stable, backfill,
                 outcome, store>>

Acts(p) == phase = p /\ step = "act" /\ step' = "snapshot"
Kept == UNCHANGED <<tab, job, passes, aggregate, found, atBottom, store>>

Forward ==
  /\ Acts("forward")
  /\ IF atBottom
     THEN /\ phase' = "stabilize_bottom"
          /\ stable' = IF found THEN 0 ELSE 1
          /\ UNCHANGED page
     ELSE /\ ScrollTo(top + ScrollDelta)
          /\ UNCHANGED <<phase, stable>>
  /\ Kept /\ UNCHANGED <<backfill, outcome>>

StabilizeBottom ==
  /\ Acts("stabilize_bottom")
  /\ stable' = IF found THEN 0 ELSE stable + 1
  /\ IF stable' >= 2
     THEN phase' = "backfill_up" /\ UNCHANGED page
     ELSE ScrollTo(LastTop) /\ UNCHANGED phase
  /\ Kept /\ UNCHANGED <<backfill, outcome>>

BackfillUp ==
  /\ Acts("backfill_up")
  /\ ScrollTo(top - UpwardDelta)
  /\ phase' = "backfill_collect_up"
  /\ Kept /\ UNCHANGED <<stable, backfill, outcome>>

BackfillCollectUp ==
  /\ Acts("backfill_collect_up")
  /\ backfill' = found
  /\ ScrollTo(LastTop)
  /\ phase' = "backfill_collect_down"
  /\ Kept /\ UNCHANGED <<stable, outcome>>

\* Deliberate error: what the way up has found is not looked at.
BackfillCollectDownOnly ==
  /\ Acts("backfill_collect_down")
  /\ IF aggregate # {} THEN Ends("success") ELSE Ends("empty") \/ Ends("scrape_failed")
  /\ UNCHANGED <<page, stable, backfill>>
  /\ Kept

\* Nothing new on the way up and down again: the list is complete.
BackfillCollectDown ==
  /\ Acts("backfill_collect_down")
  /\ IF found \/ backfill
     THEN /\ backfill' = FALSE
          /\ stable' = 0
          /\ phase' = "stabilize_bottom"
          /\ ScrollTo(LastTop)
          /\ UNCHANGED outcome
     ELSE /\ IF aggregate # {} THEN Ends("success")
             ELSE Ends("empty") \/ Ends("scrape_failed")
          /\ UNCHANGED <<page, stable, backfill>>
  /\ Kept

\* Time, or the number of passes, has run out.
CrawlIsCut ==
  /\ phase \in Crawling /\ step = "snapshot"
  /\ site.breaks \/ passes = MaxPasses
  /\ IF aggregate # {} THEN Ends("partial")
     ELSE Ends("empty") \/ Ends("scrape_failed")
  /\ UNCHANGED <<page, tab, job, step, crawl, store>>

\* A Playwright call raises: the job fails and nothing is stored.
CrawlBreaks ==
  /\ site.breaks
  /\ phase \in Crawling \cup {"opening", "opened"}
  /\ job' = "failed"
  /\ Leaves
  /\ UNCHANGED store

-----------------------------------------------------------------------------
(***************************************************************************)
(* persist_synced_contacts, and the end of the job.                        *)
(***************************************************************************)

Active(table) == {k \in Keys : table[k] = "active"}
\* Deliberate error: a contact that is known stays as it is.
SeenIfNew == [k \in Keys |-> IF k \in aggregate /\ contact[k] = "absent" THEN "active"
                             ELSE contact[k]]
Seen == [k \in Keys |-> IF k \in aggregate THEN "active" ELSE contact[k]]

\* Deliberate error: a sync that saw part of the list deactivates the rest.
UnseenOfAll(table) ==
  IF outcome \in {"success", "partial"}
  THEN [k \in Keys |-> IF k \notin aggregate /\ table[k] = "active" THEN "inactive"
                       ELSE table[k]]
  ELSE table

\* Only a complete sync deactivates what it has not seen.
Unseen(table) ==
  IF outcome = "success"
  THEN [k \in Keys |-> IF k \notin aggregate /\ table[k] = "active" THEN "inactive"
                       ELSE table[k]]
  ELSE table

\* Rows and run are written in one transaction.  The count of stored contacts
\* is taken before the session flushes the rows of the contacts it has seen.
Persist ==
  /\ phase = "ended"
  /\ job' = "succeeded"
  /\ contact' = Unseen(Seen)
  /\ run' = [status |-> outcome, count |-> Cardinality(aggregate),
             stored |-> Cardinality(Active(Unseen(contact)))]
  /\ Leaves

PersistFails ==
  /\ site.breaks
  /\ phase = "ended"
  /\ job' = "failed"
  /\ Leaves
  /\ UNCHANGED store

-----------------------------------------------------------------------------

Crawl ==
  \/ Snapshot \/ Forward \/ StabilizeBottom
  \/ BackfillUp \/ BackfillCollectUp \/ BackfillCollectDown
  \/ CrawlIsCut

Open == Navigate \/ ViewOpens \/ ViewNotFound \/ ContainerNotFound \/ ContainerFound

Next ==
  \/ ListChanges \/ RowsArrive \/ ContainerIsReplaced
  \/ StartSync \/ Open \/ Crawl \/ CrawlBreaks
  \/ Persist \/ PersistFails

Spec == Init /\ [][Next]_vars

-----------------------------------------------------------------------------
(***************************************************************************)
(* Properties.                                                             *)
(***************************************************************************)

Listed == {list[i] : i \in DOMAIN list}

\* "Synced N contact(s) completely": a sync that says so has seen every contact
\* that Zalo lists.
SuccessIsComplete == phase = "ended" /\ outcome = "success" => Listed \subseteq aggregate

\* A sync deactivates a contact only if Zalo no longer lists it, however the
\* crawl ended.
ListedContactsStayActive ==
  [][\A k \in Listed : contact[k] = "active" => contact'[k] = "active"]_vars

\* After a complete sync the active contacts are those that Zalo lists.
SuccessMirrorsList ==
  [][phase = "ended" /\ outcome = "success" /\ job' = "succeeded"
       => Active(contact') = Listed]_vars

\* A list that stays as it is, on a page that works and loads its rows at once,
\* is synced completely: neither verification nor the limit of passes cuts the
\* crawl short.
StillListsSucceed ==
  /\ phase = "ended" /\ tab = "contacts" /\ ListIsThere
  /\ ~site.breaks /\ site.lag = 0
  => outcome = "success"

=============================================================================
