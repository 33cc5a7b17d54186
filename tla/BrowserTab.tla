------------------------------ MODULE BrowserTab ------------------------------
(***************************************************************************)
(* One browser tab of the application shell against the API: the SWR cache *)
(* entry of one query, the pages that mount it, the server's changes to    *)
(* the tables it reads, the events that announce them, and the edits the   *)
(* tab makes itself.                                                       *)
(*                                                                         *)
(* Entries of different keys never read one another, so the behaviour of   *)
(* the whole cache is the behaviour of each entry; query is any of them.   *)
(* data and an answer on its way are compared with what the server holds   *)
(* now: "new" when equal, "old" when a change has overtaken them.          *)
(***************************************************************************)
EXTENDS Naturals, Pages

CONSTANTS NoEdit, NoChange,
          MaxWrites,    \* changes and edits in a behaviour
          MaxFaults,    \* failed requests and lost events
          MaxMoves      \* navigations, page turns and opened sheets

ASSUME BoundsOK == MaxWrites \in Nat /\ MaxFaults \in Nat /\ MaxMoves \in Nat

Keys == DOMAIN QueryOf

PageNames == DOMAIN PageOf

Changes == DOMAIN ChangeOf

Edits == DOMAIN EditOf

ASSUME SentinelsOK == NoEdit \notin Edits /\ NoChange \notin Changes

\* An edit asks for one of the changes; one that paints its list refreshes it, too.
ASSUME EditsOK ==
  \A e \in Edits :
    /\ EditOf[e].change.name \in Changes
    /\ EditOf[e].paints => EditOf[e].refreshes \cap QueryOf[EditOf[e].on].prefixes # {}

VARIABLES query,        \* the key of the entry
          version,      \* how often the server has changed what the query reads
          bridge,       \* whether something carries late events to the browser
          page, part,   \* the page, and whether its "part" panels are mounted
          data, err,    \* the entry's data and error
          req,          \* the latest request: "idle", "asked", or its answer on the way
          recent,       \* SWR's request marker, which deduplicates mounts
          mail,         \* events on their way to the tab
          due,          \* a change announced or answered, not yet committed
          excuse,       \* why the copy may be old with nothing under way to renew it
          edit, phase,  \* the last edit and where it is
          before,       \* the data an edit captured when it painted over them
          writes, faults, moves

world == <<query, bridge>>
scene == <<page, part>>
entry == <<data, err, req, recent>>
news == <<mail, due, excuse, version>>
editing == <<edit, phase, before>>
budget == <<writes, faults, moves>>
vars == <<world, scene, entry, news, editing, budget>>

\* What never varies.  Concerns: c rewrites a table that k's answer is read from.
Concerns ==
  [k \in Keys |-> [c \in Changes |-> ChangeOf[c].writes \cap QueryOf[k].reads # {}]]

Events(c) == ChangeOf[c].early \cup ChangeOf[c].hasty \cup ChangeOf[c].late

\* c is announced, or answered, before it commits.
InTwoSteps(c) == ChangeOf[c].early \cup ChangeOf[c].hasty # {}

\* The panels of p that show k, the events on which p invalidates k, and the edits p
\* offers that change what k reads, invalidate k or sit in its rows.
Panels ==
  [k \in Keys |-> [p \in PageNames |-> {panel \in PageOf[p].panels : panel.key = k}]]

Heard ==
  [k \in Keys |-> [p \in PageNames |->
     UNION {HeardBy(hook, QueryOf[k]) : hook \in PageOf[p].hooks}]]

\* The top bar is the same on every page.
ASSUME ShellOK ==
  \A k \in Keys, p \in PageNames : \A panel \in Panels[k][p] :
    /\ panel.place \in {"page", "part", "shell"}
    /\ panel.place = "shell" => \A other \in PageNames : panel \in Panels[k][other]

Offers ==
  [k \in Keys |-> [p \in PageNames |->
     {e.name : e \in {x \in PageOf[p].edits :
        \/ Concerns[k][x.change.name] \/ x.on = k
        \/ x.refreshes \cap QueryOf[k].prefixes # {}}}]]

\* The events of c on which some page invalidates k; the others are lost on it.
Told ==
  [k \in Keys |->
     LET heard == UNION {Heard[k][p] : p \in PageNames}
     IN [c \in Changes |-> [early |-> ChangeOf[c].early \cap heard,
                            hasty |-> ChangeOf[c].hasty \cap heard,
                            late |-> ChangeOf[c].late \cap heard]]]

\* Whether k reads what c writes, and when k is told by which events.  Changes that agree
\* on this are one change to the query; those that do neither do not matter to it.
Effect(k, c) == <<Concerns[k][c], InTwoSteps(c), Told[k][c]>>

Mattering ==
  [k \in Keys |->
     LET like(c) == CHOOSE d \in Changes : Effect(k, d) = Effect(k, c)
     IN {like(c) : c \in {d \in Changes :
           Concerns[k][d] \/ \E time \in DOMAIN Told[k][d] : Told[k][d][time] # {}}}]

\* Pages that agree on their panels, ears and edits are one page to the query.
Role(k, p) == <<Panels[k][p], Heard[k][p], Offers[k][p]>>

Nearby ==
  [k \in Keys |->
     {CHOOSE p \in PageNames : Role(k, p) = role : role \in {Role(k, p) : p \in PageNames}}]

\* Whether the page, with its parts on screen or not, renders a panel of the query.
Mounts(p, parts) == \E panel \in Panels[query][p] : panel.place = "part" => parts

Mounted == Mounts(page, part)

\* The top bar outlives navigation: only these panels mount with the page.
MountsAnew(p) == \E panel \in Panels[query][p] : panel.place = "page"

-------------------------------------------------------------------------------
(* The cache entry *)

Init ==
  /\ query \in Keys /\ bridge \in BOOLEAN
  /\ page \in Nearby[query] /\ part = FALSE
  /\ data = "none" /\ err = FALSE
  /\ recent = Mounted
  /\ req = IF Mounted THEN "asked" ELSE "idle"
  /\ mail = {} /\ due = NoChange /\ excuse = "none" /\ version = 0
  /\ edit = NoEdit /\ phase = "idle" /\ before = "none"
  /\ writes = 0 /\ faults = 0 /\ moves = 0

\* A component that mounts asks, unless a request of the last seconds is still marked.
AskUnlessRecent ==
  /\ recent' = TRUE
  /\ req' = IF recent THEN req ELSE "asked"
  /\ UNCHANGED <<data, err>>

\* Mutant: the refetch is deduplicated against the request in flight.
RenewDeduped(mounted) ==
  /\ recent' = mounted
  /\ req' = IF mounted /\ req = "idle" THEN "asked" ELSE req

\* Mutant: the refetch is left to the next mount.
RenewLazy(mounted) == recent' = FALSE /\ req' = "idle"

\* Mutant: the request is disowned and its marker kept.
RenewMarked(mounted) ==
  /\ recent' = TRUE
  /\ req' = IF mounted THEN "asked" ELSE "idle"

\* mutate(filter): the request in flight is disowned; a mounted key asks again at once.
Renew(mounted) ==
  /\ recent' = mounted
  /\ req' = IF mounted THEN "asked" ELSE "idle"

Invalidate == Renew(Mounted) /\ UNCHANGED <<data, err>>

\* What is on screen, or on its way there, once the server holds something newer.
Aged(copy) == IF copy = "new" THEN "old" ELSE IF copy = "readNew" THEN "readOld" ELSE copy

\* The tab shows, or is about to show, something else than the server holds.
Behind == data \in {"old", "own"} \/ req = "readOld"

\* The endpoint answers from what is committed.
Read ==
  /\ req = "asked" /\ QueryOf[query].answer # "missing"
  /\ req' = "readNew"
  /\ UNCHANGED <<world, scene, data, err, recent, news, editing, budget>>

\* Mutant: the response is cached as it came.
DeliverRaw ==
  /\ req \in {"readNew", "readOld"}
  /\ data' = req /\ err' = FALSE /\ req' = "idle"
  /\ UNCHANGED <<world, scene, recent, news, editing, budget>>

Deliver ==
  /\ req \in {"readNew", "readOld"}
  /\ data' = IF req = "readNew" THEN "new" ELSE "old"
  /\ err' = FALSE /\ req' = "idle"
  /\ excuse' = IF req = "readNew" THEN "none" ELSE excuse
  /\ UNCHANGED <<world, scene, recent, mail, due, version, editing, budget>>

\* Mutant: a failure clears what was shown.
FailedBlank ==
  /\ data' = "none" /\ err' = TRUE /\ req' = "idle" /\ recent' = FALSE
  /\ UNCHANGED <<world, scene, news, editing, writes, moves>>

\* Mutant: a failure keeps the marker for the rest of the interval.
FailedMarked ==
  /\ err' = TRUE /\ req' = "idle"
  /\ excuse' = IF Behind THEN "failed" ELSE excuse
  /\ UNCHANGED <<world, scene, data, recent, mail, due, version, editing, writes, moves>>

\* A failure clears the marker at once; the data stay.
Failed ==
  /\ err' = TRUE /\ req' = "idle" /\ recent' = FALSE
  /\ excuse' = IF Behind THEN "failed" ELSE excuse
  /\ UNCHANGED <<world, scene, data, mail, due, version, editing, writes, moves>>

NotFound ==
  /\ req = "asked" /\ QueryOf[query].answer = "missing"
  /\ Failed /\ UNCHANGED faults

Fail ==
  /\ req # "idle" /\ faults < MaxFaults
  /\ Failed /\ faults' = faults + 1

\* onErrorRetry, or the panel's own retry.
Retry ==
  /\ err /\ Mounted /\ req = "idle"
  /\ AskUnlessRecent
  /\ UNCHANGED <<world, scene, news, editing, budget>>

\* The browser is online again: revalidateOnReconnect is left at SWR's default, true.
Reconnect ==
  /\ Mounted /\ ~recent
  /\ AskUnlessRecent
  /\ UNCHANGED <<world, scene, news, editing, budget>>

\* dedupingInterval after a request has been answered.
MarkerEnds ==
  /\ recent /\ req = "idle"
  /\ recent' = FALSE
  /\ UNCHANGED <<world, scene, data, err, req, news, editing, budget>>

-------------------------------------------------------------------------------
(* The user moves about *)

Moves == moves < MaxMoves /\ moves' = moves + 1

Visit(p) ==
  /\ p # page /\ Moves
  /\ page' = p /\ part' = FALSE
  /\ IF MountsAnew(p) THEN AskUnlessRecent ELSE UNCHANGED entry
  /\ UNCHANGED <<world, news, editing, writes, faults>>

\* Another page of the table, another tab, a sheet opened or closed.
Turn ==
  /\ (\E panel \in Panels[query][page] : panel.place = "part") /\ Moves
  /\ part' = ~part
  /\ IF part THEN UNCHANGED entry ELSE AskUnlessRecent
  /\ UNCHANGED <<world, page, news, editing, writes, faults>>

-------------------------------------------------------------------------------
(* The server changes, and says so *)

Fresh == data = "new" \/ req = "readNew"

\* The events sent before c commits.
Foretold(c) == Told[query][c].early \cup IF bridge THEN Told[query][c].hasty ELSE {}

\* The events sent after it.
Aftertold(c) == IF bridge THEN Told[query][c].late ELSE {}

\* A change commits: copies age, its late events are queued, and whoever is not told
\* has an excuse.
Lands(c) ==
  /\ mail' = mail \cup Aftertold(c)
  /\ IF Concerns[query][c]
       THEN /\ version' = version + 1
            /\ data' = Aged(data) /\ req' = Aged(req) /\ before' = Aged(before)
            /\ excuse' = IF ~Fresh \/ Aftertold(c) # {} THEN excuse
                         ELSE IF Foretold(c) # {} THEN "early" ELSE "lost"
       ELSE UNCHANGED <<version, data, req, before, excuse>>
  /\ UNCHANGED <<world, scene, err, recent>>

Writes == writes < MaxWrites /\ writes' = writes + 1 /\ UNCHANGED <<faults, moves>>

Commit(c) ==
  /\ ~InTwoSteps(c) /\ c \in Mattering[query]
  /\ Writes /\ Lands(c)
  /\ UNCHANGED <<due, edit, phase>>

\* The transaction is left open with its first events sent.
Opens(c) ==
  /\ due = NoChange
  /\ due' = c /\ mail' = mail \cup Foretold(c)
  /\ UNCHANGED <<excuse, version>>

\* The outbox row is written and Redis told, or the queue filled, before the commit.
Announce(c) ==
  /\ InTwoSteps(c) /\ c \in Mattering[query]
  /\ Writes /\ Opens(c)
  /\ UNCHANGED <<world, scene, entry, editing>>

CommitDue ==
  /\ due # NoChange
  /\ Lands(due) /\ due' = NoChange
  /\ UNCHANGED <<edit, phase, budget>>

RollBack ==
  /\ due # NoChange
  /\ due' = NoChange
  /\ UNCHANGED <<world, scene, entry, mail, excuse, version, editing, budget>>

Telling(event) == \E c \in Changes : Concerns[query][c] /\ event \in Events(c)

Hear(event) ==
  /\ event \in mail
  /\ mail' = mail \ {event}
  /\ IF event \in Heard[query][page]
       THEN Invalidate /\ UNCHANGED excuse
       ELSE /\ excuse' = IF Behind /\ Telling(event) THEN "deaf" ELSE excuse
            /\ UNCHANGED entry
  /\ UNCHANGED <<world, scene, due, version, editing, budget>>

Lose(event) ==
  /\ event \in mail /\ faults < MaxFaults
  /\ mail' = mail \ {event} /\ faults' = faults + 1
  /\ excuse' = IF Behind /\ Telling(event) THEN "lost" ELSE excuse
  /\ UNCHANGED <<world, scene, entry, due, version, editing, writes, moves>>

-------------------------------------------------------------------------------
(* The user edits *)

Refreshes(e) == EditOf[e].refreshes \cap QueryOf[query].prefixes # {}

Paints(e) == e # NoEdit /\ EditOf[e].paints /\ EditOf[e].on = query

\* The control is on screen.
AtHand(e) == EditOf[e].on = query => Mounted /\ data # "none"

\* A control that claims success on the spot: nothing but its own switch has changed.
ActLocally(e) ==
  /\ ~EditOf[e].sends /\ phase = "idle" /\ AtHand(e)
  /\ Writes
  /\ UNCHANGED <<world, scene, entry, news, editing>>

\* The request leaves; an optimistic control paints the cache first, which disowns the
\* request in flight, and an eager one has the keys fetched at once.
Act(e) ==
  /\ EditOf[e].sends /\ phase = "idle" /\ AtHand(e)
  /\ Writes
  /\ edit' = e /\ phase' = "sent"
  /\ IF Paints(e)
       THEN data' = "own" /\ before' = data /\ err' = FALSE
       ELSE UNCHANGED <<data, before, err>>
  /\ IF EditOf[e].eager /\ Refreshes(e) THEN Renew(Mounted)
     ELSE req' = (IF Paints(e) THEN "idle" ELSE req) /\ UNCHANGED recent
  /\ UNCHANGED <<world, scene, news>>

Asked == EditOf[edit].change.name

\* The server answers once it has committed what it was asked ...
CommitFirst ==
  /\ phase = "sent" /\ Performs(EditOf[edit].answer) /\ ~InTwoSteps(Asked)
  /\ phase' = "stored" /\ Lands(Asked)
  /\ UNCHANGED <<due, edit, budget>>

\* ... or answers first and leaves it for its session to commit ...
AnswerFirst ==
  /\ phase = "sent" /\ Performs(EditOf[edit].answer) /\ InTwoSteps(Asked)
  /\ phase' = "stored" /\ Opens(Asked)
  /\ UNCHANGED <<world, scene, entry, edit, before, budget>>

\* ... or refuses.
Refuse ==
  /\ phase = "sent" /\ ~Performs(EditOf[edit].answer)
  /\ phase' = "refused"
  /\ UNCHANGED <<world, scene, entry, news, edit, before, budget>>

Serve == CommitFirst \/ AnswerFirst \/ Refuse

\* The connection breaks before the server has the request, or before it has answered.
Break ==
  /\ phase \in {"sent", "stored"} /\ faults < MaxFaults
  /\ phase' = "broken" /\ faults' = faults + 1
  /\ UNCHANGED <<world, scene, entry, news, edit, before, writes, moves>>

Fulfilled == phase = "stored" /\ Fulfils(EditOf[edit].answer)

\* What the page tells the user then.
Reported == IF Fulfilled THEN "done" ELSE IF EditOf[edit].silent THEN "none" ELSE "failed"

\* The promise resolves: the page reports, refreshes what it thinks it changed, and an
\* optimistic control keeps its guess or puts back what it had captured.
Settle ==
  /\ phase \in {"stored", "refused", "broken"}
  /\ phase' = "idle" /\ edit' = NoEdit /\ before' = "none"
  /\ IF Paints(edit)
       THEN /\ data' = IF Fulfilled \/ EditOf[edit].eager THEN "own" ELSE before
            /\ err' = FALSE
            /\ excuse' = IF Fulfilled \/ EditOf[edit].eager THEN excuse ELSE "restored"
       ELSE UNCHANGED <<data, err, excuse>>
  /\ IF Refreshes(edit) /\ (Fulfilled \/ EditOf[edit].eager) THEN Renew(Mounted)
     ELSE req' = (IF Paints(edit) THEN "idle" ELSE req) /\ UNCHANGED recent
  /\ UNCHANGED <<world, scene, mail, due, version, budget>>
-------------------------------------------------------------------------------
Fetching == Read \/ Deliver \/ NotFound \/ Fail \/ Retry \/ Reconnect \/ MarkerEnds

Moving == Turn \/ \E p \in Nearby[query] : Visit(p)

Changing ==
  \/ \E c \in Mattering[query] : Commit(c) \/ Announce(c)
  \/ CommitDue \/ RollBack
  \/ \E event \in mail : Hear(event) \/ Lose(event)

Editing ==
  \/ \E e \in Offers[query][page] : ActLocally(e) \/ Act(e)
  \/ Serve \/ Break \/ Settle

Next == Fetching \/ Moving \/ Changing \/ Editing

Spec == Init /\ [][Next]_vars

\* Requests are answered, transactions end, events arrive, SWR retries what failed.
FairSpec ==
  /\ Spec
  /\ WF_vars(Read \/ Deliver \/ NotFound \/ Retry)
  /\ WF_vars(CommitDue \/ RollBack) /\ WF_vars(\E event \in mail : Hear(event))
  /\ WF_vars(Serve \/ Settle)
-------------------------------------------------------------------------------
(* Properties *)

Copies == {"none", "old", "new", "own"}

EntryOK ==
  /\ data \in Copies /\ err \in BOOLEAN /\ recent \in BOOLEAN
  /\ req \in {"idle", "asked", "readNew", "readOld"}

NewsOK ==
  /\ due \in Changes \cup {NoChange} /\ version \in Nat
  /\ excuse \in {"none", "lost", "early", "deaf", "failed", "restored"}

EditingOK ==
  /\ edit \in Edits \cup {NoEdit} /\ before \in Copies
  /\ phase \in {"idle", "sent", "stored", "refused", "broken"}
  /\ phase # "idle" => edit \in Edits

BudgetOK ==
  writes \in 0 .. MaxWrites /\ faults \in 0 .. MaxFaults /\ moves \in 0 .. MaxMoves

\* The entry, the news, the edit and the budgets hold what the code can put there.
TypeOK ==
  /\ query \in Keys /\ bridge \in BOOLEAN /\ page \in PageNames /\ part \in BOOLEAN
  /\ EntryOK /\ NewsOK /\ EditingOK /\ BudgetOK

\* Nothing is under way that could renew the copy.
AtRest == req = "idle" /\ mail = {} /\ due = NoChange /\ phase = "idle"

\* A mounted panel left showing an old copy, or the user's own guess, was failed by one
\* of the known gaps since it last was right: its event was never sent or got lost, it or
\* the answer came before the commit, it reached a page that does not listen, a request
\* failed, or an optimistic edit put back what it had captured.
StaleIsExplained == Mounted /\ AtRest /\ data \in {"old", "own"} => excuse # "none"

\* A panel that has an error branch says that there is nothing only when it has been
\* told so: never while its data are missing, whatever was deduplicated or disowned.
EmptyIsKnown ==
  \A panel \in Panels[query][page] :
    /\ panel.place = "part" => part
    /\ panel.gate \in {"errorFirst", "loadingFirst"}
    => Screen(panel.gate, data, err, req # "idle") # "empty"

Copy == INSTANCE PanelCopy WITH
          shown <- data, editing <- phase # "idle" /\ Paints(edit)

\* The entry implements the copy a panel promises: what it shows goes back in time only
\* because the server changed or an optimistic edit of its own is over, not because
\* answers, events and remounts came in another order.
KeepsCopy == Copy!Spec

\* An old copy that none of the gaps explains is replaced, or its panel left.
NewsArrives ==
  Mounted /\ data = "old" /\ excuse = "none"
    ~> ~Mounted \/ data = "new" \/ excuse # "none"

\* A panel whose endpoint exists does not stay without data or on an error.
PanelsFill ==
  Mounted /\ QueryOf[query].answer # "missing" ~> ~Mounted \/ (data # "none" /\ ~err)

\* An edit that the server has carried out and answered is not reported as failed.
FailuresAreReal ==
  [][phase = "stored" /\ phase' = "idle" => Reported # "failed"]_vars
===============================================================================
