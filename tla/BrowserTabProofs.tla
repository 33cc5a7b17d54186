--------------------------- MODULE BrowserTabProofs ---------------------------
(***************************************************************************)
(* The cache entry of any query, on any pages, for every bound: its types, *)
(* the copy it keeps, and when it may be empty or out of date.             *)
(***************************************************************************)
EXTENDS BrowserTab, TLAPS

-------------------------------------------------------------------------------
(* What the tables yield *)

LEMMA PagesNearby == ASSUME NEW k \in Keys PROVE Nearby[k] \subseteq PageNames
  <1>1. SUFFICES ASSUME NEW role \in {Role(k, p) : p \in PageNames}
                 PROVE  (CHOOSE p \in PageNames : Role(k, p) = role) \in PageNames
    BY DEF Nearby
  <1>2. \E p \in PageNames : Role(k, p) = role
    BY <1>1
  <1> QED
    BY <1>2

LEMMA ChangesMatter == ASSUME NEW k \in Keys PROVE Mattering[k] \subseteq Changes
  <1>1. SUFFICES ASSUME NEW c \in Changes
                 PROVE  (CHOOSE d \in Changes : Effect(k, d) = Effect(k, c)) \in Changes
    BY DEF Mattering
  <1> QED
    BY <1>1

LEMMA EditsOffered ==
  ASSUME NEW k \in Keys, NEW p \in PageNames PROVE Offers[k][p] \subseteq Edits
  <1>1. PageOf[p] \in AllPages
    BY DEF PageOf, Named, PageNames
  <1>2. \A e \in PageOf[p].edits : e.name \in Edits
    BY <1>1 DEF Edits, EditOf, Named
  <1> QED
    BY <1>2 DEF Offers

-------------------------------------------------------------------------------
(* Types *)

LEMMA AgedCopies ==
  /\ \A copy \in Copies : Aged(copy) \in Copies
  /\ \A answer \in {"idle", "asked", "readNew", "readOld"} :
       Aged(answer) \in {"idle", "asked", "readNew", "readOld"}
  BY DEF Aged, Copies

LEMMA LandsTypes ==
  ASSUME TypeOK, NEW c \in Changes, Lands(c)
  PROVE  /\ EntryOK' /\ version' \in Nat /\ before' \in Copies
         /\ excuse' \in {"none", "lost", "early", "deaf", "failed", "restored"}
  <1>1. CASE Concerns[query][c]
    BY <1>1, AgedCopies DEF TypeOK, EntryOK, NewsOK, EditingOK, Lands
  <1>2. CASE ~Concerns[query][c]
    BY <1>2 DEF TypeOK, EntryOK, NewsOK, EditingOK, Lands
  <1> QED
    BY <1>1, <1>2

\* The copy and the request stay in their sets, whatever is asked, answered or painted.
LEMMA EntryTypes == TypeOK /\ [Next]_vars => EntryOK'
  <1> SUFFICES ASSUME TypeOK, [Next]_vars PROVE EntryOK'
    OBVIOUS
  <1> USE DEF TypeOK, EntryOK, entry
  <1>1. CASE Fetching
    BY <1>1 DEF Fetching, Read, Deliver, NotFound, Fail, Failed, Retry, Reconnect, AskUnlessRecent,
                MarkerEnds, Copies
  <1>2. CASE Moving
    BY <1>2 DEF Moving, Turn, Visit, AskUnlessRecent
  <1>3. CASE Changing
    <2>1. ASSUME NEW c \in Mattering[query], Commit(c) PROVE EntryOK'
      BY <2>1, ChangesMatter, LandsTypes DEF Commit
    <2>2. ASSUME NEW c \in Mattering[query], Announce(c) PROVE EntryOK'
      BY <2>2 DEF Announce, Opens
    <2>3. CASE CommitDue
      BY <2>3, LandsTypes DEF CommitDue, NewsOK
    <2>4. CASE RollBack
      BY <2>4 DEF RollBack
    <2>5. ASSUME NEW event \in mail, Hear(event) PROVE EntryOK'
      BY <2>5 DEF Hear, Invalidate, Renew, Mounted, Mounts
    <2>6. ASSUME NEW event \in mail, Lose(event) PROVE EntryOK'
      BY <2>6 DEF Lose
    <2> QED
      BY <1>3, <2>1, <2>2, <2>3, <2>4, <2>5, <2>6 DEF Changing

  <1>4. CASE Editing
    <2>1. ASSUME NEW e \in Offers[query][page], ActLocally(e) PROVE EntryOK'
      BY <2>1 DEF ActLocally
    <2>2. ASSUME NEW e \in Offers[query][page], Act(e) PROVE EntryOK'
      BY <2>2 DEF Act, Renew, Mounted, Mounts, Copies
    <2>3. CASE Serve
      BY <2>3, LandsTypes, EditsOK DEF Serve, CommitFirst, AnswerFirst, Refuse, Opens, Asked,
                                         EditingOK
    <2>4. CASE Break
      BY <2>4 DEF Break
    <2>5. CASE Settle
      BY <2>5 DEF Settle, EditingOK, Renew, Mounted, Mounts, Copies
    <2> QED
      BY <1>4, <2>1, <2>2, <2>3, <2>4, <2>5 DEF Editing
  <1>5. CASE UNCHANGED vars
    BY <1>5 DEF vars
  <1> QED
    BY <1>1, <1>2, <1>3, <1>4, <1>5 DEF Next

LEMMA NewsTypes == TypeOK /\ [Next]_vars => NewsOK'
  <1> SUFFICES ASSUME TypeOK, [Next]_vars PROVE NewsOK'
    OBVIOUS
  <1> USE DEF TypeOK, NewsOK, news
  <1>1. CASE Fetching
    BY <1>1 DEF Fetching, Read, Deliver, NotFound, Fail, Failed, Retry, Reconnect, MarkerEnds
  <1>2. CASE Moving
    BY <1>2 DEF Moving, Turn, Visit
  <1>3. CASE Changing
    <2>1. ASSUME NEW c \in Mattering[query], Commit(c) PROVE NewsOK'
      BY <2>1, ChangesMatter, LandsTypes DEF Commit
    <2>2. ASSUME NEW c \in Mattering[query], Announce(c) PROVE NewsOK'
      BY <2>2, ChangesMatter DEF Announce, Opens
    <2>3. CASE CommitDue
      BY <2>3, LandsTypes DEF CommitDue
    <2>4. CASE RollBack
      BY <2>4 DEF RollBack
    <2>5. ASSUME NEW event \in mail, Hear(event) PROVE NewsOK'
      BY <2>5 DEF Hear
    <2>6. ASSUME NEW event \in mail, Lose(event) PROVE NewsOK'
      BY <2>6 DEF Lose
    <2> QED
      BY <1>3, <2>1, <2>2, <2>3, <2>4, <2>5, <2>6 DEF Changing
  <1>4. CASE Editing
    <2>1. ASSUME NEW e \in Offers[query][page], ActLocally(e) PROVE NewsOK'
      BY <2>1 DEF ActLocally
    <2>2. ASSUME NEW e \in Offers[query][page], Act(e) PROVE NewsOK'
      BY <2>2 DEF Act
    <2>3. CASE Serve
      BY <2>3, LandsTypes, EditsOK DEF Serve, CommitFirst, AnswerFirst, Refuse, Opens, Asked,
                                         EditingOK
    <2>4. CASE Break
      BY <2>4 DEF Break
    <2>5. CASE Settle
      BY <2>5 DEF Settle
    <2> QED
      BY <1>4, <2>1, <2>2, <2>3, <2>4, <2>5 DEF Editing
  <1>5. CASE UNCHANGED vars
    BY <1>5 DEF vars
  <1> QED
    BY <1>1, <1>2, <1>3, <1>4, <1>5 DEF Next

LEMMA EditingTypes == TypeOK /\ [Next]_vars => EditingOK'
  <1> SUFFICES ASSUME TypeOK, [Next]_vars PROVE EditingOK'
    OBVIOUS
  <1> USE DEF TypeOK, EditingOK, editing
  <1>1. CASE Fetching
    BY <1>1 DEF Fetching, Read, Deliver, NotFound, Fail, Failed, Retry, Reconnect, MarkerEnds
  <1>2. CASE Moving
    BY <1>2 DEF Moving, Turn, Visit
  <1>3. CASE Changing
    <2>1. ASSUME NEW c \in Mattering[query], Commit(c) PROVE EditingOK'
      BY <2>1, ChangesMatter, LandsTypes DEF Commit
    <2>2. ASSUME NEW c \in Mattering[query], Announce(c) PROVE EditingOK'
      BY <2>2 DEF Announce
    <2>3. CASE CommitDue
      BY <2>3, LandsTypes DEF CommitDue, NewsOK
    <2>4. CASE RollBack
      BY <2>4 DEF RollBack
    <2>5. ASSUME NEW event \in mail, Hear(event) PROVE EditingOK'
      BY <2>5 DEF Hear
    <2>6. ASSUME NEW event \in mail, Lose(event) PROVE EditingOK'
      BY <2>6 DEF Lose
    <2> QED
      BY <1>3, <2>1, <2>2, <2>3, <2>4, <2>5, <2>6 DEF Changing
  <1>4. CASE Editing
    <2>1. ASSUME NEW e \in Offers[query][page], ActLocally(e) PROVE EditingOK'
      BY <2>1 DEF ActLocally
    <2>2. ASSUME NEW e \in Offers[query][page], Act(e) PROVE EditingOK'
      BY <2>2, EditsOffered DEF Act, EntryOK
    <2>3. CASE Serve
      BY <2>3, LandsTypes, EditsOK DEF Serve, CommitFirst, AnswerFirst, Refuse, Opens, Asked
    <2>4. CASE Break
      BY <2>4 DEF Break
    <2>5. CASE Settle
      BY <2>5 DEF Settle, Copies
    <2> QED
      BY <1>4, <2>1, <2>2, <2>3, <2>4, <2>5 DEF Editing
  <1>5. CASE UNCHANGED vars
    BY <1>5 DEF vars
  <1> QED
    BY <1>1, <1>2, <1>3, <1>4, <1>5 DEF Next

LEMMA BudgetTypes == TypeOK /\ [Next]_vars => BudgetOK'
  <1> SUFFICES ASSUME TypeOK, [Next]_vars PROVE BudgetOK'
    OBVIOUS
  <1> USE BoundsOK DEF TypeOK, BudgetOK, budget
  <1>1. CASE Fetching
    BY <1>1 DEF Fetching, Read, Deliver, NotFound, Fail, Failed, Retry, Reconnect, MarkerEnds
  <1>2. CASE Moving
    BY <1>2 DEF Moving, Turn, Visit, Moves
  <1>3. CASE Changing
    BY <1>3 DEF Changing, Commit, Announce, CommitDue, RollBack, Hear, Lose, Writes
  <1>4. CASE Editing
    BY <1>4 DEF Editing, ActLocally, Act, Serve, CommitFirst, AnswerFirst, Refuse,
                Break, Settle, Writes
  <1>5. CASE UNCHANGED vars
    BY <1>5 DEF vars
  <1> QED
    BY <1>1, <1>2, <1>3, <1>4, <1>5 DEF Next

LEMMA SceneTypes ==
  TypeOK /\ [Next]_vars => /\ query' \in Keys /\ bridge' \in BOOLEAN
                           /\ page' \in PageNames /\ part' \in BOOLEAN
  <1> SUFFICES ASSUME TypeOK, [Next]_vars
               PROVE  /\ query' \in Keys /\ bridge' \in BOOLEAN
                      /\ page' \in PageNames /\ part' \in BOOLEAN
    OBVIOUS
  <1> USE DEF TypeOK, world, scene
  <1>1. CASE Fetching
    BY <1>1 DEF Fetching, Read, Deliver, NotFound, Fail, Failed, Retry, Reconnect, MarkerEnds
  <1>2. CASE Moving
    BY <1>2, PagesNearby DEF Moving, Turn, Visit
  <1>3. CASE Changing
    BY <1>3 DEF Changing, Commit, Announce, CommitDue, RollBack, Hear, Lose, Lands
  <1>4. CASE Editing
    BY <1>4 DEF Editing, ActLocally, Act, Serve, CommitFirst, AnswerFirst, Refuse,
                Break, Settle, Lands
  <1>5. CASE UNCHANGED vars
    BY <1>5 DEF vars
  <1> QED
    BY <1>1, <1>2, <1>3, <1>4, <1>5 DEF Next

LEMMA InitTypes == Init => TypeOK
  <1> SUFFICES ASSUME Init PROVE TypeOK
    OBVIOUS
  <1>1. recent \in BOOLEAN
    BY DEF Init, Mounted, Mounts
  <1>2. data = "none" /\ err = FALSE /\ req \in {"idle", "asked"}
    BY DEF Init
  <1>3. EntryOK
    BY <1>1, <1>2 DEF EntryOK, Copies
  <1>4. NewsOK
    BY DEF Init, NewsOK
  <1>6. EditingOK
    BY DEF Init, EditingOK, Copies
  <1>7. BudgetOK
    BY BoundsOK DEF Init, BudgetOK
  <1>5. page \in PageNames
    BY PagesNearby DEF Init
  <1> QED
    BY <1>3, <1>4, <1>5, <1>6, <1>7 DEF Init, TypeOK

\* Whatever is fetched, visited, changed, heard or edited, in whatever order, the entry,
\* the news, the edit and the budgets stay in their types.
THEOREM TypeCorrect == Spec => []TypeOK
  <1>1. TypeOK /\ [Next]_vars => TypeOK'
    BY EntryTypes, NewsTypes, EditingTypes, BudgetTypes, SceneTypes DEF TypeOK
  <1> QED
    BY InitTypes, <1>1, PTL DEF Spec

-------------------------------------------------------------------------------
(* The inductive invariant *)

\* An overtaken answer is on its way only over data that are no newer.
NothingNewer == req = "readOld" => data # "new"

\* What an edit has painted, and what it would put back, is something.
GuessKept == phase # "idle" /\ Paints(edit) => before # "none" /\ data # "none"

\* A panel without data or error is waiting for an answer, and so is a request marker
\* without data: it is never left behind by a request that was disowned or failed.
Waiting ==
  /\ Mounted /\ data = "none" /\ ~err => req # "idle"
  /\ recent /\ data = "none" => req # "idle"

\* What will renew the copy: an answer that no change has overtaken, an event, the end of
\* an edit that painted it, or the next mount, which no marker holds back.
Renewing ==
  \/ req \in {"asked", "readNew"}
  \/ \E event \in mail : Telling(event)
  \/ phase # "idle" /\ Paints(edit)
  \/ ~Mounted /\ ~recent

Explained == Behind /\ excuse = "none" => Renewing

IInv == TypeOK /\ NothingNewer /\ GuessKept /\ Waiting /\ Explained

LEMMA SameScene ==
  ASSUME UNCHANGED <<world, scene>>
  PROVE  Mounted' <=> Mounted
  BY DEF world, scene, Mounted, Mounts

\* Moving to a page mounts the panel, unless the top bar already had.
LEMMA Arrival ==
  ASSUME TypeOK, NEW p \in PageNames, Mounts(p, FALSE), ~Mounted
  PROVE  MountsAnew(p)
  <1>1. PICK panel \in Panels[query][p] : panel.place # "part"
    BY DEF Mounts
  <1>2. CASE panel.place = "shell"
    <2>1. panel \in Panels[query][page]
      BY <1>2, ShellOK DEF TypeOK
    <2> QED
      BY <1>2, <2>1 DEF Mounted, Mounts
  <1>3. CASE panel.place = "page"
    BY <1>3 DEF MountsAnew
  <1> QED
    BY <1>1, <1>2, <1>3, ShellOK DEF TypeOK

LEMMA FetchingInv == IInv /\ Fetching => (NothingNewer /\ GuessKept /\ Waiting /\ Explained)'
  <1> SUFFICES ASSUME IInv, Fetching PROVE (NothingNewer /\ GuessKept /\ Waiting /\ Explained)'
    OBVIOUS
  <1>0. Mounted' <=> Mounted
    BY SameScene DEF Fetching, Read, Deliver, NotFound, Fail, Failed, Retry, Reconnect, MarkerEnds
  <1> USE <1>0 DEF IInv, TypeOK, EntryOK, NothingNewer, GuessKept, Waiting, Explained, Renewing,
                   Behind, Paints, Telling, world, scene, entry, news, editing
  <1>1. CASE Read
    BY <1>1 DEF Read
  <1>2. CASE Deliver
    BY <1>2 DEF Deliver
  <1>3. CASE NotFound \/ Fail
    BY <1>3 DEF NotFound, Fail, Failed
  <1>4. CASE Retry \/ Reconnect
    BY <1>4 DEF Retry, Reconnect, AskUnlessRecent
  <1>5. CASE MarkerEnds
    BY <1>5 DEF MarkerEnds
  <1> QED
    BY <1>1, <1>2, <1>3, <1>4, <1>5 DEF Fetching

LEMMA MovingInv == IInv /\ Moving => (NothingNewer /\ GuessKept /\ Waiting /\ Explained)'
  <1> SUFFICES ASSUME IInv, Moving PROVE (NothingNewer /\ GuessKept /\ Waiting /\ Explained)'
    OBVIOUS
  <1> USE DEF IInv, NothingNewer, GuessKept, Waiting, Explained, Renewing, Behind, Paints,
              Telling, AskUnlessRecent, world, scene, entry, news, editing
  <1>1. CASE Turn
    <2>1. part /\ Mounted' => Mounted
      BY <1>1 DEF Turn, Mounted, Mounts
    <2> QED
      BY <1>1, <2>1 DEF Turn, TypeOK
  <1>2. ASSUME NEW p \in Nearby[query], Visit(p)
        PROVE  (NothingNewer /\ GuessKept /\ Waiting /\ Explained)'
    <2>1. Mounted' /\ ~Mounted => MountsAnew(p)
      <3>1. p \in PageNames
        BY PagesNearby DEF TypeOK
      <3>2. Mounted' => Mounts(p, FALSE)
        BY <1>2 DEF Visit, Mounted, Mounts
      <3> QED
        BY <3>1, <3>2, Arrival
    <2> QED
      BY <1>2, <2>1 DEF Visit, TypeOK
  <1> QED
    BY <1>1, <1>2 DEF Moving

LEMMA LandsInv ==
  ASSUME IInv, NEW c \in Changes, Lands(c), edit' = edit, phase' = "idle" <=> phase = "idle"
  PROVE  (NothingNewer /\ GuessKept /\ Waiting /\ Explained)'
  <1>0. Mounted' <=> Mounted
    BY SameScene DEF Lands
  <1> USE <1>0 DEF IInv, TypeOK, EntryOK, EditingOK, Copies, NothingNewer, GuessKept, Waiting,
                   Explained, Renewing, Behind, Paints, Telling, Events, Aged, world, scene
  <1>1. CASE Concerns[query][c]
    <2>1. (NothingNewer /\ GuessKept /\ Waiting)'
      BY <1>1 DEF Lands
    <2>2. CASE ~Fresh
      BY <1>1, <2>2 DEF Lands, Fresh
    <2>3. CASE Aftertold(c) # {}
      <3>1. PICK event \in Aftertold(c) : event \in mail'
        BY <2>3 DEF Lands
      <3>2. event \in ChangeOf[c].late
        BY <3>1 DEF Aftertold, Told
      <3>3. Telling(event)'
        BY <1>1, <3>2 DEF Lands
      <3> QED
        BY <2>1, <3>1, <3>3
    <2>4. CASE Fresh /\ Aftertold(c) = {}
      <3>1. excuse' # "none"
        BY <1>1, <2>4 DEF Lands
      <3> QED
        BY <2>1, <3>1
    <2> QED
      BY <2>2, <2>3, <2>4
  <1>2. CASE ~Concerns[query][c]
    BY <1>2 DEF Lands
  <1> QED
    BY <1>1, <1>2

LEMMA ChangingInv == IInv /\ Changing => (NothingNewer /\ GuessKept /\ Waiting /\ Explained)'
  <1> SUFFICES ASSUME IInv, Changing PROVE (NothingNewer /\ GuessKept /\ Waiting /\ Explained)'
    OBVIOUS
  <1>0. Mounted' <=> Mounted
    BY SameScene DEF Changing, Commit, Announce, CommitDue, RollBack, Hear, Lose, Lands
  <1>1. ASSUME NEW c \in Mattering[query], Commit(c)
        PROVE  (NothingNewer /\ GuessKept /\ Waiting /\ Explained)'
    BY <1>1, ChangesMatter, LandsInv DEF Commit, IInv, TypeOK
  <1>2. CASE CommitDue
    BY <1>2, LandsInv DEF CommitDue, IInv, TypeOK, NewsOK
  <1> USE <1>0 DEF IInv, TypeOK, EntryOK, NothingNewer, GuessKept, Waiting, Explained, Renewing,
                   Behind, Paints, Telling, world, scene, entry, news, editing
  <1>3. ASSUME NEW c \in Mattering[query], Announce(c)
        PROVE  (NothingNewer /\ GuessKept /\ Waiting /\ Explained)'
    BY <1>3 DEF Announce, Opens
  <1>4. CASE RollBack
    BY <1>4 DEF RollBack
  <1>5. ASSUME NEW event \in mail, Hear(event)
        PROVE  (NothingNewer /\ GuessKept /\ Waiting /\ Explained)'
    <2>1. CASE event \in Heard[query][page]
      BY <1>5, <2>1 DEF Hear, Invalidate, Renew
    <2>2. CASE event \notin Heard[query][page]
      BY <1>5, <2>2 DEF Hear
    <2> QED
      BY <2>1, <2>2
  <1>6. ASSUME NEW event \in mail, Lose(event)
        PROVE  (NothingNewer /\ GuessKept /\ Waiting /\ Explained)'
    BY <1>6 DEF Lose
  <1> QED
    BY <1>1, <1>2, <1>3, <1>4, <1>5, <1>6 DEF Changing

LEMMA EditingInv == IInv /\ Editing => (NothingNewer /\ GuessKept /\ Waiting /\ Explained)'
  <1> SUFFICES ASSUME IInv, Editing PROVE (NothingNewer /\ GuessKept /\ Waiting /\ Explained)'
    OBVIOUS
  <1>0. Mounted' <=> Mounted
    BY SameScene DEF Editing, ActLocally, Act, Serve, CommitFirst, AnswerFirst, Refuse,
                Break, Settle, Lands
  <1>1. CASE CommitFirst
    BY <1>1, EditsOK, LandsInv DEF CommitFirst, Asked, IInv, TypeOK, EditingOK
  <1> USE <1>0 DEF IInv, TypeOK, EntryOK, EditingOK, NothingNewer, GuessKept, Waiting,
                   Explained, Renewing, Behind, Paints, Telling, Renew, world, scene, entry, news
  <1>2. CASE AnswerFirst \/ Refuse
    BY <1>2 DEF AnswerFirst, Refuse, Opens
  <1>3. ASSUME NEW e \in Offers[query][page], ActLocally(e)
        PROVE  (NothingNewer /\ GuessKept /\ Waiting /\ Explained)'
    BY <1>3 DEF ActLocally, editing
  <1>4. ASSUME NEW e \in Offers[query][page], Act(e)
        PROVE  (NothingNewer /\ GuessKept /\ Waiting /\ Explained)'
    <2>1. e \in Edits
      BY EditsOffered
    <2>2. CASE Paints(e)
      BY <1>4, <2>1, <2>2, SentinelsOK DEF Act, AtHand
    <2>3. CASE ~Paints(e)
      BY <1>4, <2>1, <2>3, SentinelsOK DEF Act
    <2> QED
      BY <2>2, <2>3
  <1>5. CASE Break
    BY <1>5 DEF Break
  <1>6. CASE Settle
    <2>1. CASE Paints(edit) /\ (Fulfilled \/ EditOf[edit].eager)
      <3>1. Refreshes(edit)
        BY <2>1, EditsOK DEF Refreshes
      <3> QED
        BY <1>6, <2>1, <3>1 DEF Settle
    <2>2. CASE Paints(edit) /\ ~(Fulfilled \/ EditOf[edit].eager)
      BY <1>6, <2>2 DEF Settle
    <2>3. CASE ~Paints(edit)
      BY <1>6, <2>3 DEF Settle
    <2> QED
      BY <2>1, <2>2, <2>3
  <1> QED
    BY <1>1, <1>2, <1>3, <1>4, <1>5, <1>6 DEF Editing, Serve

LEMMA InitInv == Init => IInv
  <1> SUFFICES ASSUME Init PROVE IInv
    OBVIOUS
  <1>1. /\ req \in {"idle", "asked"} /\ phase = "idle" /\ data = "none"
        /\ Mounted <=> recent
        /\ Mounted => req = "asked"
    BY DEF Init, Mounted, Mounts
  <1> QED
    BY <1>1, InitTypes DEF IInv, NothingNewer, GuessKept, Waiting, Explained, Behind

LEMMA Invariance == Spec => []IInv
  <1>1. IInv /\ [Next]_vars => IInv'
    <2> SUFFICES ASSUME IInv, [Next]_vars PROVE IInv'
      OBVIOUS
    <2>1. TypeOK'
      BY EntryTypes, NewsTypes, EditingTypes, BudgetTypes, SceneTypes DEF IInv, TypeOK
    <2>2. CASE UNCHANGED vars
      <3>1. Mounted' <=> Mounted
        BY <2>2, SameScene DEF vars
      <3> QED
        BY <2>1, <2>2, <3>1
           DEF IInv, NothingNewer, GuessKept, Waiting, Explained, Renewing, Behind, Paints,
               Telling, vars, world, scene, entry, news, editing
    <2> QED
      BY <2>1, <2>2, FetchingInv, MovingInv, ChangingInv, EditingInv DEF IInv, Next
  <1> QED
    BY InitInv, <1>1, PTL DEF Spec

-------------------------------------------------------------------------------
(* What it gives *)

\* A mounted panel is left with an old copy, or with the user's own guess, only when one
\* of the known gaps has been met: an event that was never sent, lost, early or unheard, a
\* failed request, or a restored capture.
THEOREM StalenessExplained == Spec => []StaleIsExplained
  <1>1. IInv => StaleIsExplained
    <2> SUFFICES ASSUME IInv, Mounted, AtRest, data \in {"old", "own"}, excuse = "none"
                 PROVE  FALSE
      BY DEF StaleIsExplained
    <2>1. Renewing
      BY DEF IInv, Explained, Behind
    <2> QED
      BY <2>1 DEF Renewing, AtRest
  <1> QED
    BY Invariance, <1>1, PTL

\* Panels with an error branch never call a list empty that was only not fetched.
THEOREM EmptinessKnown == Spec => []EmptyIsKnown
  <1>1. IInv => EmptyIsKnown
    <2> SUFFICES ASSUME IInv, NEW panel \in Panels[query][page], panel.place = "part" => part,
                        panel.gate \in {"errorFirst", "loadingFirst"}
                 PROVE  Screen(panel.gate, data, err, req # "idle") # "empty"
      BY DEF EmptyIsKnown
    <2>1. Mounted
      BY DEF Mounted, Mounts
    <2>2. data = "none" /\ ~err => req # "idle"
      BY <2>1 DEF IInv, Waiting
    <2>3. CASE panel.gate = "errorFirst"
      BY <2>2, <2>3 DEF Screen, Rows
    <2>4. CASE panel.gate = "loadingFirst"
      BY <2>2, <2>4 DEF Screen, Rows
    <2> QED
      BY <2>3, <2>4
  <1> QED
    BY Invariance, <1>1, PTL

-------------------------------------------------------------------------------
(* The entry implements the copy *)

CopyVars == <<version, data, phase # "idle" /\ Paints(edit)>>

LEMMA SameEdit ==
  ASSUME UNCHANGED query, UNCHANGED edit, (phase' = "idle") <=> (phase = "idle")
  PROVE  UNCHANGED (phase # "idle" /\ Paints(edit))
  BY DEF Paints

LEMMA Deliveries ==
  ASSUME IInv, Deliver PROVE Copy!Refresh \/ Copy!Overtaken
  <1>1. UNCHANGED (phase # "idle" /\ Paints(edit))
    BY SameEdit DEF Deliver, world, editing
  <1> QED
    BY <1>1 DEF Deliver, IInv, NothingNewer, Copy!Refresh, Copy!Overtaken

LEMMA Landings ==
  ASSUME IInv, NEW c \in Changes, Lands(c), edit' = edit, (phase' = "idle") <=> (phase = "idle")
  PROVE  Copy!Change \/ UNCHANGED CopyVars
  <1>1. UNCHANGED (phase # "idle" /\ Paints(edit))
    BY SameEdit DEF Lands, world
  <1>2. CASE Concerns[query][c]
    <2>1. data' = IF data = "new" THEN "old" ELSE data
      BY <1>2 DEF Lands, Aged, IInv, TypeOK, EntryOK, Copies
    <2> QED
      BY <1>1, <1>2, <2>1 DEF Lands, Copy!Change
  <1>3. CASE ~Concerns[query][c]
    BY <1>1, <1>3 DEF Lands, CopyVars
  <1> QED
    BY <1>2, <1>3

LEMMA Acts ==
  ASSUME IInv, NEW e \in Edits, Act(e) PROVE Copy!Paint \/ UNCHANGED CopyVars
  <1>1. e # NoEdit /\ phase = "idle" /\ phase' = "sent" /\ edit' = e /\ query' = query
    BY SentinelsOK DEF Act, world
  <1>2. CASE Paints(e)
    <2>1. (phase # "idle" /\ Paints(edit))' = TRUE
      BY <1>1, <1>2 DEF Paints
    <2>2. data # "none" /\ data' = "own" /\ version' = version
      BY <1>2 DEF Act, AtHand, Paints, news
    <2> QED
      BY <1>1, <2>1, <2>2 DEF Copy!Paint
  <1>3. CASE ~Paints(e)
    <2>1. UNCHANGED (phase # "idle" /\ Paints(edit))
      BY <1>1, <1>3 DEF Paints
    <2> QED
      BY <1>3, <2>1 DEF Act, news, CopyVars
  <1> QED
    BY <1>2, <1>3

LEMMA Settlements ==
  ASSUME IInv, Settle PROVE Copy!Settle \/ UNCHANGED CopyVars
  <1>1. phase # "idle" /\ phase' = "idle"
    BY DEF Settle
  <1>2. (phase # "idle" /\ Paints(edit))' = FALSE
    BY <1>1
  <1>3. version' = version
    BY DEF Settle
  <1>4. CASE Paints(edit)
    <2>1. data' \in {"own", "old", "new"}
      BY <1>1, <1>4 DEF Settle, IInv, GuessKept, TypeOK, EditingOK, Copies
    <2> QED
      BY <1>1, <1>2, <1>3, <1>4, <2>1 DEF Copy!Settle
  <1>5. CASE ~Paints(edit)
    <2>1. UNCHANGED (phase # "idle" /\ Paints(edit))
      BY <1>2, <1>5
    <2>2. data' = data
      BY <1>5 DEF Settle
    <2> QED
      BY <1>3, <2>1, <2>2 DEF CopyVars
  <1> QED
    BY <1>4, <1>5

\* Whatever is fetched, missed, heard or edited, in whatever order, what a panel shows
\* gives way to an older copy only when the server changes or an edit of its own is over.
THEOREM KeepsItsCopy == Spec => KeepsCopy
  <1>1. Init => Copy!Init
    <2>1. Init => (phase # "idle" /\ Paints(edit)) = FALSE
      BY DEF Init
    <2> QED
      BY <2>1 DEF Init, Copy!Init
  <1>2. IInv /\ [Next]_vars => [Copy!Next]_CopyVars
    <2> SUFFICES ASSUME IInv, [Next]_vars PROVE Copy!Next \/ UNCHANGED CopyVars
      BY DEF CopyVars
    <2>1. CASE Deliver
      BY <2>1, Deliveries DEF Copy!Next
    <2>2. CASE \/ Read \/ NotFound \/ Fail \/ Retry \/ Reconnect \/ MarkerEnds
               \/ Moving \/ UNCHANGED vars
      <3>1. UNCHANGED <<version, data, query, edit, phase>>
        BY <2>2 DEF Read, NotFound, Fail, Failed, Retry, Reconnect, MarkerEnds, Moving, Turn, Visit,
                    AskUnlessRecent, vars, world, entry, news, editing
      <3> QED
        BY <3>1, SameEdit DEF CopyVars
    <2>3. ASSUME NEW c \in Mattering[query], Commit(c) PROVE Copy!Next \/ UNCHANGED CopyVars
      BY <2>3, ChangesMatter, Landings DEF Commit, IInv, TypeOK, Copy!Next
    <2>4. CASE CommitDue
      BY <2>4, Landings DEF CommitDue, IInv, TypeOK, NewsOK, Copy!Next
    <2>5. CASE RollBack \/ Break \/ AnswerFirst \/ Refuse
      <3>1. UNCHANGED <<version, data, query, edit>> /\ ((phase' = "idle") <=> (phase = "idle"))
        BY <2>5 DEF RollBack, Break, AnswerFirst, Refuse, Opens, world, entry, news, editing
      <3> QED
        BY <3>1, SameEdit DEF CopyVars
    <2>6. ASSUME NEW c \in Mattering[query], Announce(c) PROVE UNCHANGED CopyVars
      <3>1. UNCHANGED <<version, data, query, edit, phase>>
        BY <2>6 DEF Announce, Opens, world, entry, editing
      <3> QED
        BY <3>1, SameEdit DEF CopyVars
    <2>7. ASSUME NEW event \in mail, Hear(event) \/ Lose(event) PROVE UNCHANGED CopyVars
      <3>1. UNCHANGED <<version, data, query, edit, phase>>
        BY <2>7 DEF Hear, Lose, Invalidate, world, entry, editing
      <3> QED
        BY <3>1, SameEdit DEF CopyVars
    <2>8. ASSUME NEW e \in Offers[query][page], ActLocally(e) PROVE UNCHANGED CopyVars
      <3>1. UNCHANGED <<version, data, query, edit, phase>>
        BY <2>8 DEF ActLocally, world, entry, news, editing
      <3> QED
        BY <3>1, SameEdit DEF CopyVars
    <2>9. ASSUME NEW e \in Offers[query][page], Act(e) PROVE Copy!Next \/ UNCHANGED CopyVars
      BY <2>9, EditsOffered, Acts DEF IInv, TypeOK, Copy!Next
    <2>10. CASE CommitFirst
      BY <2>10, EditsOK, Landings DEF CommitFirst, Asked, IInv, TypeOK, EditingOK, Copy!Next
    <2>11. CASE Settle
      BY <2>11, Settlements DEF Copy!Next
    <2> QED
      BY <2>1, <2>2, <2>3, <2>4, <2>5, <2>6, <2>7, <2>8, <2>9, <2>10, <2>11
         DEF Next, Fetching, Changing, Editing, Serve
  <1> QED
    BY Invariance, <1>1, <1>2, PTL DEF Spec, KeepsCopy, Copy!Spec, CopyVars
===============================================================================
