----------------------------- MODULE Onboarding -----------------------------
(***************************************************************************)
(* The first-run wizard: browser tabs that show it, other members who call *)
(* the same endpoints, and the organisation's row.  A request reads the    *)
(* row, computes its writes with the pure state machine, flushes them      *)
(* (which takes the row's lock), answers, and only then commits: the       *)
(* session dependency ends after the response is sent.                     *)
(***************************************************************************)
EXTENDS Naturals, Sequences, FiniteSets

CONSTANTS Tabs,         \* browser tabs
          Others,       \* members without a tab: requests in any order
          Owners,       \* callers who may seed sample data
          Names,        \* names of the organisation
          Placeholder,  \* the name given at registration, "...'s Org"
          Personas,
          None,
          MaxSamples,   \* bound on how often sample data is asked for
          MaxFaults     \* bound on lost answers, lost commits and failed fetches

Callers == Tabs \cup Others

ASSUME CallersAssumption ==
  /\ Tabs \cap Others = {} /\ Owners \subseteq Callers
  /\ Placeholder \in Names /\ None \notin Names \cup Personas \cup Callers
  /\ MaxSamples \in Nat /\ MaxFaults \in Nat

VARIABLES org,          \* [name, persona, completed, samples]; completed stands for the time
                        \* stamp, named by the caller who set it
          call,         \* call[c]: the request of c
          commit,       \* commit[c]: the answered but uncommitted writes of c
          tab,          \* tab[t]: the page, its override, the cached state, the handler
          fetch,        \* fetch[t]: GET /onboarding/state under way, or what it will return
          faults,
          lost          \* history: a commit was lost

vars == <<org, call, commit, tab, fetch, faults, lost>>
client == <<tab, fetch>>
server == <<org, call, commit>>

\* The columns an UPDATE sets, and whether sample rows are inserted; kind is history.
NoWrites == [name |-> None, persona |-> None, completed |-> None, sample |-> FALSE,
             kind |-> "none"]

NoFetch == [pc |-> "none", reply |-> None]

NewFetch == [pc |-> "sent", reply |-> None]

NoCall == [pc |-> "none", kind |-> "none", arg |-> None, ok |-> FALSE, writes |-> NoWrites]

At(page, step) == [page |-> page, step |-> step]

\* data is the SWR cache, todo the awaits the handler has left, goal where it then goes.
NewTab == [page |-> "wizard", step |-> 0, data |-> None, error |-> FALSE,
           todo |-> <<>>, goal |-> At("wizard", 0)]

Init ==
  /\ org = [name |-> Placeholder, persona |-> None, completed |-> None, samples |-> 0]
  /\ call = [c \in Callers |-> NoCall]
  /\ commit = [c \in Callers |-> NoWrites]
  /\ tab = [t \in Tabs |-> NewTab]
  /\ fetch = [t \in Tabs |-> NoFetch]
  /\ faults = 0 /\ lost = FALSE
-------------------------------------------------------------------------------
(* The state machine *)

\* Mutant of Capture: a posted persona does not make step 1 count as done.
CaptureByName(o) ==
  [name |-> IF o.name # Placeholder THEN o.name ELSE None, persona |-> o.persona]

\* _capture_from_org; the currency and the fiscal year go with the name.
Capture(o) ==
  [name |-> IF o.name # Placeholder \/ o.persona # None THEN o.name ELSE None,
   persona |-> o.persona]

Resolve(o) ==
  LET capture == Capture(o)
  IN IF o.completed # None THEN 4
     ELSE IF capture.persona # None THEN 3
     ELSE IF capture.name # None THEN 2 ELSE 1

\* Mutant of IsComplete: the persona is not looked at.
IsCompleteByName(capture) == capture.name # None

\* The data choice is filled in by the endpoint.
IsComplete(capture) == capture.name # None /\ capture.persona # None

NextCapture(capture, kind, arg) ==
  CASE kind = "org" -> [capture EXCEPT !.name = arg]
    [] kind = "persona" -> [capture EXCEPT !.persona = arg]
    [] OTHER -> capture

\* Mutant of Changed: the UPDATE sets every column that is captured.
ChangedAll(new, old) == new

\* The ORM updates only the columns whose value differs from the one it loaded.
Changed(new, old) == IF new = old THEN None ELSE new

StepWrites(o, kind, arg) ==
  LET capture == NextCapture(Capture(o), kind, arg)
  IN [NoWrites EXCEPT !.name = Changed(capture.name, o.name),
                      !.persona = Changed(capture.persona, o.persona)]
-------------------------------------------------------------------------------
(* The endpoints *)

\* Nobody waits for the answers to the others.
Answered(c, ok) == IF c \in Tabs THEN [NoCall EXCEPT !.pc = "answered", !.ok = ok] ELSE NoCall

Refuse(c) == call' = [call EXCEPT ![c] = Answered(c, FALSE)]

Accept(c, kind, writes) ==
  call' = [call EXCEPT ![c] =
             IF writes = NoWrites THEN Answered(c, TRUE)
             ELSE [NoCall EXCEPT !.pc = "flush", !.writes = [writes EXCEPT !.kind = kind]]]

PostStep(c, kind, arg) ==
  IF org.completed # None \/ kind = "mismatch" THEN Refuse(c)
  ELSE Accept(c, kind, StepWrites(org, kind, arg))

PostComplete(c) ==
  IF org.completed # None THEN Accept(c, "complete", NoWrites)
  ELSE IF IsComplete(Capture(org)) THEN Accept(c, "complete", [NoWrites EXCEPT !.completed = c])
  ELSE Refuse(c)

PostSeed(c) ==
  IF c \in Owners THEN Accept(c, "seed", [NoWrites EXCEPT !.sample = TRUE]) ELSE Refuse(c)

\* The handler of a request up to its flush, on the row as its dependency loads it.
Handle(c, kind, arg) ==
  /\ CASE kind = "complete" -> PostComplete(c)
       [] kind = "seed" -> PostSeed(c)
       [] OTHER -> PostStep(c, kind, arg)
  /\ UNCHANGED <<org, commit, client, faults, lost>>

Read(t) == call[t].pc = "sent" /\ Handle(t, call[t].kind, call[t].arg)

\* Whose uncommitted UPDATE holds the row.
Holders == {c \in Callers : commit[c].kind \notin {"none", "seed"}}

\* Mutant of Flush: the row's lock is not waited for.
FlushUnlocked(c) ==
  /\ call[c].pc = "flush" /\ commit[c] = NoWrites
  /\ commit' = [commit EXCEPT ![c] = call[c].writes]
  /\ call' = [call EXCEPT ![c] = Answered(c, TRUE)]
  /\ UNCHANGED <<org, client, faults, lost>>

\* The flush, and the answer.  Bound: a caller has one uncommitted answer.
Flush(c) ==
  /\ call[c].pc = "flush" /\ commit[c] = NoWrites
  /\ call[c].writes.sample \/ Holders = {}
  /\ commit' = [commit EXCEPT ![c] = call[c].writes]
  /\ call' = [call EXCEPT ![c] = Answered(c, TRUE)]
  /\ UNCHANGED <<org, client, faults, lost>>

Updated(new, old) == IF new = None THEN old ELSE new

Commit(c) ==
  LET w == commit[c] IN
  /\ w # NoWrites
  /\ org' = [name |-> Updated(w.name, org.name), persona |-> Updated(w.persona, org.persona),
             completed |-> Updated(w.completed, org.completed),
             samples |-> org.samples + IF w.sample THEN 1 ELSE 0]
  /\ commit' = [commit EXCEPT ![c] = NoWrites]
  /\ UNCHANGED <<call, client, faults, lost>>

Fault == faults < MaxFaults /\ faults' = faults + 1

LoseCommit(c) ==
  /\ commit[c] # NoWrites
  /\ commit' = [commit EXCEPT ![c] = NoWrites]
  /\ Fault /\ lost' = TRUE
  /\ UNCHANGED <<org, call, client>>

\* GET /onboarding/state.
ReadState(t) ==
  /\ fetch[t] = NewFetch
  /\ fetch' = [fetch EXCEPT ![t] = [pc |-> "back", reply |-> [step |-> Resolve(org),
                                                            done |-> org.completed # None]]]
  /\ UNCHANGED <<server, tab, faults, lost>>
-------------------------------------------------------------------------------
(* The other members *)

\* A payload for another step than the one in the path is a mismatch.
Kinds == {"org", "persona", "data", "mismatch", "seed", "complete"}

Asked == {c \in Callers : "seed" \in {call[c].kind, call[c].writes.kind, commit[c].kind}}

\* Bound: sample data is not asked for beyond MaxSamples.
MaySeed == org.samples + Cardinality(Asked) < MaxSamples

Args(kind) == CASE kind = "org" -> Names [] kind = "persona" -> Personas [] OTHER -> {None}

Request(c) ==
  /\ call[c] = NoCall
  /\ \E kind \in Kinds : \E arg \in Args(kind) :
       (kind = "seed" => MaySeed) /\ Handle(c, kind, arg)
-------------------------------------------------------------------------------
(* The tab *)

\* The override in the URL, or what the server resolved.
Idle(t) == tab[t].page = "wizard" /\ tab[t].data # None /\ tab[t].todo = <<>>

ActiveStep(t) == IF tab[t].step # 0 THEN tab[t].step ELSE tab[t].data.step

\* An onboarded user without an override is sent to the dashboard instead.
Shown(t, n) ==
  /\ Idle(t) /\ ActiveStep(t) = n
  /\ tab[t].step # 0 \/ ~tab[t].data.done

Post(t, kind, arg) ==
  call' = [call EXCEPT ![t] = [NoCall EXCEPT !.pc = "sent", !.kind = kind, !.arg = arg]]

\* A handler: the requests it awaits in turn, refresh() and the navigation.
Submit(t, todo, arg, goal) ==
  /\ tab' = [tab EXCEPT ![t].todo = Append(todo, "refresh"), ![t].goal = goal]
  /\ Post(t, Head(todo), arg)
  /\ UNCHANGED <<org, commit, fetch, faults, lost>>

SubmitOrg(t) == Shown(t, 1) /\ \E name \in Names : Submit(t, <<"org">>, name, At("wizard", 2))

SubmitPersona(t) == Shown(t, 2) /\ \E p \in Personas : Submit(t, <<"persona">>, p, At("wizard", 3))

SeedSample(t) == Shown(t, 3) /\ MaySeed /\ Submit(t, <<"seed", "data">>, None, At("wizard", 4))

ImportCsv(t) == Shown(t, 3) /\ Submit(t, <<"data">>, None, At("import", 0))

StartEmpty(t) == Shown(t, 3) /\ Submit(t, <<"data">>, None, At("wizard", 4))

GoToDashboard(t) == Shown(t, 4) /\ Submit(t, <<"complete">>, None, At("dashboard", 0))

Back(t) ==
  /\ Shown(t, 2) \/ Shown(t, 3)
  /\ tab' = [tab EXCEPT ![t].step = ActiveStep(t) - 1]
  /\ UNCHANGED <<server, fetch, faults, lost>>

Fail(t) ==
  /\ tab' = [tab EXCEPT ![t].todo = <<>>, ![t].goal = At("wizard", 0)]
  /\ call' = [call EXCEPT ![t] = NoCall]

\* An answer: the next await of the handler, or its error message.
Receive(t) ==
  LET rest == Tail(tab[t].todo) IN
  /\ call[t].pc = "answered"
  /\ IF ~call[t].ok THEN Fail(t) /\ UNCHANGED fetch
     ELSE /\ tab' = [tab EXCEPT ![t].todo = rest]
          /\ IF Head(rest) = "refresh"
             THEN call' = [call EXCEPT ![t] = NoCall] /\ fetch' = [fetch EXCEPT ![t] = NewFetch]
             ELSE Post(t, Head(rest), None) /\ UNCHANGED fetch
  /\ UNCHANGED <<org, commit, faults, lost>>

\* The request or its answer is lost.
LoseAnswer(t) ==
  /\ call[t].pc \in {"sent", "answered"}
  /\ Fail(t) /\ Fault
  /\ UNCHANGED <<org, commit, fetch, lost>>

\* On mount, on reconnection, on reload.
Revalidate(t) ==
  /\ fetch[t] = NoFetch
  /\ fetch' = [fetch EXCEPT ![t] = NewFetch]
  /\ UNCHANGED <<server, tab, faults, lost>>

\* What follows refresh(): setStep, or router.push to a page behind the gate.
Navigated(s) ==
  IF s.todo # <<"refresh">> THEN s
  ELSE LET page == IF s.goal.page = "wizard" THEN s.page ELSE s.goal.page
       IN [s EXCEPT !.todo = <<>>, !.goal = At("wizard", 0), !.page = page,
                    !.step = IF page = "wizard" THEN s.goal.step ELSE 0]

Deliver(t) ==
  /\ fetch[t].pc = "back"
  /\ tab' = [tab EXCEPT ![t] = Navigated([tab[t] EXCEPT !.data = fetch[t].reply, !.error = FALSE])]
  /\ fetch' = [fetch EXCEPT ![t] = NoFetch]
  /\ UNCHANGED <<server, faults, lost>>

FetchFails(t) ==
  /\ fetch[t] # NoFetch
  /\ tab' = [tab EXCEPT ![t] = Navigated([tab[t] EXCEPT !.error = TRUE])]
  /\ fetch' = [fetch EXCEPT ![t] = NoFetch]
  /\ Fault /\ UNCHANGED <<server, lost>>

\* OnboardingGate, around every page but the wizard.
Gate(t) ==
  /\ tab[t].page # "wizard" /\ tab[t].data # None /\ ~tab[t].error /\ ~tab[t].data.done
  /\ tab' = [tab EXCEPT ![t].page = "wizard", ![t].step = 0]
  /\ UNCHANGED <<server, fetch, faults, lost>>

\* The wizard sends onboarded users back.
Home(t) ==
  /\ tab[t].page = "wizard" /\ tab[t].step = 0 /\ tab[t].data # None /\ tab[t].data.done
  /\ tab' = [tab EXCEPT ![t].page = "dashboard"]
  /\ UNCHANGED <<server, fetch, faults, lost>>

\* Empty pages link to the wizard: "Seed sample data", "Set starting cash & inflows".
OpenLink(t) ==
  /\ tab[t].page = "dashboard" /\ org.samples = 0
  /\ \E n \in {1, 3} : tab' = [tab EXCEPT ![t].page = "wizard", ![t].step = n]
  /\ UNCHANGED <<server, fetch, faults, lost>>

Next ==
  \/ \E c \in Callers : Flush(c) \/ Commit(c) \/ LoseCommit(c)
  \/ \E c \in Others : Request(c)
  \/ \E t \in Tabs :
       \/ SubmitOrg(t) \/ SubmitPersona(t) \/ SeedSample(t) \/ ImportCsv(t) \/ StartEmpty(t)
       \/ GoToDashboard(t) \/ Back(t) \/ Receive(t) \/ LoseAnswer(t)
       \/ Read(t) \/ ReadState(t) \/ Revalidate(t) \/ Deliver(t) \/ FetchFails(t)
       \/ Gate(t) \/ Home(t) \/ OpenLink(t)

\* Requests are served and answered, a tab reloads, and its user presses the button that
\* leads on whenever it keeps coming back.
Fairness ==
  /\ \A c \in Callers : WF_vars(Commit(c))
  /\ \A t \in Tabs :
       /\ WF_vars(Read(t) \/ Receive(t)) /\ SF_vars(Flush(t))
       /\ WF_vars(Revalidate(t) \/ ReadState(t) \/ Deliver(t)) /\ WF_vars(Gate(t))
       /\ SF_vars(SubmitOrg(t)) /\ SF_vars(SubmitPersona(t))
       /\ SF_vars(StartEmpty(t)) /\ SF_vars(GoToDashboard(t))

Spec == Init /\ [][Next]_vars

FairSpec == Spec /\ Fairness
-------------------------------------------------------------------------------
(* Properties *)

\* One uncommitted UPDATE at most holds the row, and a handler awaits either its request or
\* its refresh.
TypeOK ==
  /\ org.name \in Names /\ org.persona \in Personas \cup {None}
  /\ org.completed \in Callers \cup {None}
  /\ Cardinality(Holders) <= 1
  /\ \A t \in Tabs :
       LET s == tab[t]
       IN /\ s.page \in {"wizard", "import", "dashboard"} /\ s.step \in 0..4
          /\ (call[t] = NoCall) <=> (s.todo \in {<<>>, <<"refresh">>})
          /\ s.todo = <<"refresh">> => fetch[t] # NoFetch

\* "The state machine guards against completing with missing captures" (the router): an
\* onboarded organisation has a persona, in whatever order steps are posted and whatever
\* is read before another's commit.
CompletedHasPersona == org.completed # None => org.persona # None

\* The router writes every captured column back to the row, yet a request for one step never
\* undoes what a concurrent request stored for another: the name changes only by a request
\* for step 1, the persona only by one for step 2.
StepsKeepToTheirColumns ==
  [][\A c \in Callers :
       commit[c] # NoWrites /\ commit'[c] = NoWrites
         => /\ org'.name # org.name => commit[c].kind = "org"
            /\ org'.persona # org.persona => commit[c].kind = "persona"]_vars

\* However the tab and the others interleave, and whatever answers are lost, onboarding is
\* completed in the end, unless a commit fails after its success was answered.
WizardFinishes == <>(org.completed # None \/ lost)
===============================================================================
