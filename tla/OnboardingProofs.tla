--------------------------- MODULE OnboardingProofs ---------------------------
(***************************************************************************)
(* Proofs about Onboarding, for any number of tabs, members, names and     *)
(* personas: IInv is inductive, hence an onboarded organisation has a      *)
(* persona and no step undoes another's column.  The second part follows   *)
(* the requests of a tab's handler, one after the other: the types.        *)
(***************************************************************************)
EXTENDS Onboarding, SequenceTheorems, FiniteSetTheorems, TLAPS

\* Uncommitted writes set only the column of their step, and a stamp only when the persona
\* is already committed.
Sound(w) ==
  /\ w.name # None => w.kind = "org"
  /\ w.persona # None => w.kind = "persona"
  /\ w.completed # None => org.persona # None

\* The inductive invariant: what is computed, and what is flushed, is sound.
IInv ==
  /\ call = [c \in Callers |-> call[c]]
  /\ commit = [c \in Callers |-> commit[c]]
  /\ \A c \in Callers : Sound(call[c].writes) /\ Sound(commit[c])
  /\ CompletedHasPersona

LEMMA InitHolds == Init => IInv
<1> SUFFICES ASSUME Init PROVE IInv
  OBVIOUS
<1>1. Sound(NoWrites)
  BY CallersAssumption DEF Sound, NoWrites
<1>2. NoCall.writes = NoWrites
  BY DEF NoCall
<1> QED
  BY <1>1, <1>2 DEF Init, IInv, CompletedHasPersona

\* No request is in two minds: what a caller has computed is replaced by sound writes while
\* the row and what is flushed stay.
LEMMA CallKeeps ==
  ASSUME IInv, NEW c \in Callers, NEW r, Sound(r.writes), call' = [call EXCEPT ![c] = r],
         UNCHANGED <<org, commit>>
  PROVE  IInv'
<1>1. \A d \in Callers : call'[d] = IF d = c THEN r ELSE call[d]
  BY DEF IInv
<1>2. \A d \in Callers : Sound(call[d].writes)' /\ Sound(commit[d])'
  BY <1>1 DEF IInv, Sound
<1> QED
  BY <1>2 DEF IInv, CompletedHasPersona

\* What is flushed is replaced while the row stays.
LEMMA CommitKeeps ==
  ASSUME IInv, NEW c \in Callers, NEW w, Sound(w), commit' = [commit EXCEPT ![c] = w],
         UNCHANGED <<org, call>>
  PROVE  IInv'
<1>1. \A d \in Callers : commit'[d] = IF d = c THEN w ELSE commit[d]
  BY DEF IInv
<1>2. \A d \in Callers : Sound(call[d].writes)' /\ Sound(commit[d])'
  BY <1>1 DEF IInv, Sound
<1> QED
  BY <1>2 DEF IInv, CompletedHasPersona

LEMMA NothingWritten == NoCall.writes = NoWrites /\ Sound(NoWrites)
  BY CallersAssumption DEF NoCall, Sound, NoWrites

LEMMA AnswerIsSound ==
  ASSUME NEW c, NEW ok
  PROVE  Sound(Answered(c, ok).writes)
<1>1. Answered(c, ok).writes = NoWrites
  BY DEF Answered, NoCall
<1> QED
  BY <1>1, NothingWritten

\* The state machine writes only the column of the step.
LEMMA StepIsSound ==
  ASSUME NEW kind, NEW arg, NEW w, w = StepWrites(org, kind, arg)
  PROVE  Sound([w EXCEPT !.kind = kind])
<1> DEFINE capture == Capture(org)
           next == NextCapture(capture, kind, arg)
<1>1. kind # "org" => next.name = capture.name
  BY DEF NextCapture, Capture
<1>2. kind # "persona" => next.persona = capture.persona
  BY DEF NextCapture, Capture
<1>3. capture.name \in {org.name, None} /\ capture.persona = org.persona
  BY DEF Capture
<1>4. kind # "org" => Changed(next.name, org.name) = None
  BY <1>1, <1>3 DEF Changed
<1>5. kind # "persona" => Changed(next.persona, org.persona) = None
  BY <1>2, <1>3 DEF Changed
<1>6. /\ [w EXCEPT !.kind = kind].name = Changed(next.name, org.name)
      /\ [w EXCEPT !.kind = kind].persona = Changed(next.persona, org.persona)
      /\ [w EXCEPT !.kind = kind].completed = None
      /\ [w EXCEPT !.kind = kind].kind = kind
  BY DEF StepWrites, NoWrites
<1> QED
  BY <1>4, <1>5, <1>6 DEF Sound

LEMMA AcceptKeeps ==
  ASSUME IInv, NEW c \in Callers, NEW kind, NEW w, Accept(c, kind, w),
         Sound([w EXCEPT !.kind = kind]), UNCHANGED <<org, commit>>
  PROVE  IInv'
<1>1. CASE w = NoWrites
  BY <1>1, AnswerIsSound, CallKeeps DEF Accept
<1>2. CASE w # NoWrites
  <2> DEFINE r == [NoCall EXCEPT !.pc = "flush", !.writes = [w EXCEPT !.kind = kind]]
  <2>1. r.writes = [w EXCEPT !.kind = kind]
    BY DEF NoCall
  <2>2. call' = [call EXCEPT ![c] = r]
    BY <1>2 DEF Accept
  <2>3. Sound(r.writes)
    BY <2>1
  <2> HIDE DEF r
  <2> QED
    BY <2>2, <2>3, CallKeeps
<1> QED
  BY <1>1, <1>2

LEMMA HandleKeeps ==
  ASSUME IInv, NEW c \in Callers, NEW kind, NEW arg, Handle(c, kind, arg)
  PROVE  IInv'
<1> USE DEF Handle
<1>1. ASSUME Refuse(c) PROVE IInv'
  BY <1>1, AnswerIsSound, CallKeeps DEF Refuse
<1>2. CASE kind = "complete"
  <2>1. CASE org.completed # None
    <3>1. Sound([NoWrites EXCEPT !.kind = "complete"])
      BY CallersAssumption DEF Sound, NoWrites
    <3> QED
      BY <1>2, <2>1, <3>1, AcceptKeeps DEF PostComplete
  <2>2. CASE org.completed = None /\ IsComplete(Capture(org))
    <3> DEFINE w == [NoWrites EXCEPT !.completed = c]
    <3>1. org.persona # None
      BY <2>2 DEF IsComplete, Capture
    <3>2. Sound([w EXCEPT !.kind = "complete"])
      BY <3>1 DEF Sound, NoWrites
    <3>3. Accept(c, "complete", w)
      BY <1>2, <2>2 DEF PostComplete
    <3> QED
      BY <3>2, <3>3, AcceptKeeps
  <2>3. CASE org.completed = None /\ ~IsComplete(Capture(org))
    BY <1>1, <1>2, <2>3 DEF PostComplete
  <2> QED
    BY <2>1, <2>2, <2>3
<1>3. CASE kind = "seed"
  <2> DEFINE w == [NoWrites EXCEPT !.sample = TRUE]
  <2>1. Sound([w EXCEPT !.kind = "seed"])
    BY DEF Sound, NoWrites
  <2>2. Accept(c, "seed", w) \/ Refuse(c)
    BY <1>3 DEF PostSeed
  <2> QED
    BY <1>1, <2>1, <2>2, AcceptKeeps
<1>4. CASE kind \notin {"complete", "seed"}
  <2>1. Refuse(c) \/ Accept(c, kind, StepWrites(org, kind, arg))
    BY <1>4 DEF PostStep
  <2>2. Sound([StepWrites(org, kind, arg) EXCEPT !.kind = kind])
    BY StepIsSound
  <2> QED
    BY <1>1, <2>1, <2>2, AcceptKeeps
<1> QED
  BY <1>2, <1>3, <1>4

LEMMA FlushKeeps ==
  ASSUME IInv, NEW c \in Callers, Flush(c)
  PROVE  IInv'
<1> USE DEF Flush
<1>1. \A d \in Callers : commit'[d] = IF d = c THEN call[c].writes ELSE commit[d]
  BY DEF IInv
<1>2. \A d \in Callers : call'[d] = IF d = c THEN Answered(c, TRUE) ELSE call[d]
  BY DEF IInv
<1>3. \A d \in Callers : Sound(call'[d].writes) /\ Sound(commit'[d])
  BY <1>1, <1>2, AnswerIsSound DEF IInv
<1>4. \A d \in Callers : Sound(call[d].writes)' /\ Sound(commit[d])'
  BY <1>3 DEF Sound
<1> QED
  BY <1>4 DEF IInv, CompletedHasPersona

LEMMA CommitRowKeeps ==
  ASSUME IInv, NEW c \in Callers, Commit(c)
  PROVE  IInv'
<1> USE DEF Commit
<1>1. org'.persona = Updated(commit[c].persona, org.persona)
  OBVIOUS
<1>2. org'.completed = Updated(commit[c].completed, org.completed)
  OBVIOUS
<1>3. org.persona # None => org'.persona # None
  BY <1>1 DEF Updated
<1>4. CompletedHasPersona'
  BY <1>2, <1>3 DEF IInv, CompletedHasPersona, Sound, Updated
<1>5. \A d \in Callers : commit'[d] = IF d = c THEN NoWrites ELSE commit[d]
  BY DEF IInv
<1>6. \A d \in Callers : Sound(call[d].writes)' /\ Sound(commit[d])'
  BY <1>3, <1>5, NothingWritten DEF IInv, Sound
<1> QED
  BY <1>4, <1>6 DEF IInv

LEMMA PostKeeps ==
  ASSUME IInv, NEW t \in Tabs, NEW kind, NEW arg, Post(t, kind, arg), UNCHANGED <<org, commit>>
  PROVE  IInv'
<1> DEFINE r == [NoCall EXCEPT !.pc = "sent", !.kind = kind, !.arg = arg]
<1>1. r.writes = NoWrites
  BY DEF NoCall
<1>2. call' = [call EXCEPT ![t] = r]
  BY DEF Post
<1> QED
  BY <1>1, <1>2, NothingWritten, CallKeeps DEF Callers

LEMMA FreeKeeps ==
  ASSUME IInv, NEW t \in Tabs, call' = [call EXCEPT ![t] = NoCall], UNCHANGED <<org, commit>>
  PROVE  IInv'
  BY NothingWritten, CallKeeps DEF Callers

\* A step that touches neither the row nor a request.
LEMMA ClientKeeps ==
  ASSUME IInv, UNCHANGED server
  PROVE  IInv'
  BY DEF IInv, server, Sound, CompletedHasPersona

LEMMA SubmitKeeps ==
  ASSUME IInv, NEW t \in Tabs, NEW todo, NEW arg, NEW goal, Submit(t, todo, arg, goal)
  PROVE  IInv'
  BY PostKeeps DEF Submit

LEMMA NextKeeps == IInv /\ [Next]_vars => IInv'
<1> SUFFICES ASSUME IInv, [Next]_vars PROVE IInv'
  OBVIOUS
<1>1. ASSUME NEW c \in Callers, Flush(c) PROVE IInv'
  BY <1>1, FlushKeeps
<1>2. ASSUME NEW c \in Callers, Commit(c) PROVE IInv'
  BY <1>2, CommitRowKeeps
<1>3. ASSUME NEW c \in Callers, LoseCommit(c) PROVE IInv'
  BY <1>3, CommitKeeps, NothingWritten DEF LoseCommit
<1>4. ASSUME NEW c \in Others, Request(c) PROVE IInv'
  BY <1>4, HandleKeeps DEF Request, Callers
<1>5. ASSUME NEW t \in Tabs, Read(t) PROVE IInv'
  BY <1>5, HandleKeeps DEF Read, Callers
<1>6. ASSUME NEW t \in Tabs,
             SubmitOrg(t) \/ SubmitPersona(t) \/ SeedSample(t) \/ ImportCsv(t)
               \/ StartEmpty(t) \/ GoToDashboard(t)
      PROVE IInv'
  BY <1>6, SubmitKeeps
  DEF SubmitOrg, SubmitPersona, SeedSample, ImportCsv, StartEmpty, GoToDashboard
<1>7. ASSUME NEW t \in Tabs, Receive(t) PROVE IInv'
  BY <1>7, PostKeeps, FreeKeeps DEF Receive, Fail
<1>8. ASSUME NEW t \in Tabs, LoseAnswer(t) PROVE IInv'
  BY <1>8, FreeKeeps DEF LoseAnswer, Fail
<1>9. ASSUME NEW t \in Tabs,
             Back(t) \/ ReadState(t) \/ Revalidate(t) \/ Deliver(t) \/ FetchFails(t)
               \/ Gate(t) \/ Home(t) \/ OpenLink(t)
      PROVE IInv'
  BY <1>9, ClientKeeps
  DEF Back, ReadState, Revalidate, Deliver, FetchFails, Gate, Home, OpenLink
<1>10. CASE UNCHANGED vars
  BY <1>10, ClientKeeps DEF vars, server
<1> QED
  BY <1>1, <1>2, <1>3, <1>4, <1>5, <1>6, <1>7, <1>8, <1>9, <1>10 DEF Next

\* The inductive invariant holds in every reachable state.
THEOREM AlwaysSound == Spec => []IInv
  BY InitHolds, NextKeeps, PTL DEF Spec

\* An onboarded organisation has a persona, in whatever order the steps are posted.
THEOREM CompletedHasPersonaHolds == Spec => []CompletedHasPersona
<1>1. IInv => CompletedHasPersona
  BY DEF IInv
<1> QED
  BY <1>1, AlwaysSound, PTL

\* Nothing but a commit changes the row.
LEMMA OnlyCommitsWrite ==
  ASSUME [Next]_vars, org' # org
  PROVE  \E d \in Callers : Commit(d)
<1>1. CASE UNCHANGED vars
  BY <1>1 DEF vars
<1>2. CASE \E d \in Callers : Flush(d) \/ LoseCommit(d)
  BY <1>2 DEF Flush, LoseCommit
<1>3. CASE \E d \in Others : Request(d)
  BY <1>3 DEF Request, Handle
<1>4. ASSUME NEW t \in Tabs,
             SubmitOrg(t) \/ SubmitPersona(t) \/ SeedSample(t) \/ ImportCsv(t)
               \/ StartEmpty(t) \/ GoToDashboard(t)
      PROVE FALSE
  BY <1>4
  DEF SubmitOrg, SubmitPersona, SeedSample, ImportCsv, StartEmpty, GoToDashboard, Submit
<1>5. ASSUME NEW t \in Tabs, Receive(t) \/ LoseAnswer(t) \/ Read(t) PROVE FALSE
  BY <1>5 DEF Receive, LoseAnswer, Read, Handle
<1>6. ASSUME NEW t \in Tabs,
             Back(t) \/ ReadState(t) \/ Revalidate(t) \/ Deliver(t) \/ FetchFails(t)
               \/ Gate(t) \/ Home(t) \/ OpenLink(t)
      PROVE FALSE
  BY <1>6
  DEF Back, ReadState, Revalidate, Deliver, FetchFails, Gate, Home, OpenLink, server
<1> QED
  BY <1>1, <1>2, <1>3, <1>4, <1>5, <1>6 DEF Next

\* A commit changes only the column of its step.
LEMMA CommitsKeepToTheirColumns ==
  ASSUME IInv, [Next]_vars, NEW c \in Callers, commit[c] # NoWrites, commit'[c] = NoWrites
  PROVE  /\ org'.name # org.name => commit[c].kind = "org"
         /\ org'.persona # org.persona => commit[c].kind = "persona"
<1> SUFFICES ASSUME org' # org
             PROVE  /\ org'.name # org.name => commit[c].kind = "org"
                    /\ org'.persona # org.persona => commit[c].kind = "persona"
  OBVIOUS
<1>1. PICK d \in Callers : Commit(d)
  BY OnlyCommitsWrite
<1>2. d = c
  BY <1>1 DEF Commit, IInv
<1>3. /\ org'.name = Updated(commit[c].name, org.name)
      /\ org'.persona = Updated(commit[c].persona, org.persona)
  BY <1>1, <1>2 DEF Commit
<1> QED
  BY <1>3 DEF IInv, Sound, Updated

\* The name changes only by a request for step 1, the persona only by one for step 2, whatever
\* the requests in between wrote.
THEOREM StepsKeepToTheirColumnsHolds == Spec => StepsKeepToTheirColumns
<1> DEFINE Kept ==
      \A c \in Callers :
        commit[c] # NoWrites /\ commit'[c] = NoWrites
          => /\ org'.name # org.name => commit[c].kind = "org"
             /\ org'.persona # org.persona => commit[c].kind = "persona"
<1>1. IInv /\ [Next]_vars => [Kept]_vars
  BY CommitsKeepToTheirColumns
<1> QED
  BY <1>1, AlwaysSound, PTL DEF Spec, StepsKeepToTheirColumns-------------------------------------------------------------------------------
(* Type correctness: the row, the requests and the tabs in step with them *)

WriteOK(w) ==
  /\ w.name \in Names \cup {None} /\ w.persona \in Personas \cup {None}
  /\ w.completed \in Callers \cup {None} /\ (w.sample => w.kind = "seed")

ArgOK(kind, arg) == (kind = "org" => arg \in Names) /\ (kind = "persona" => arg \in Personas)

RequestOK(r) == WriteOK(r.writes) /\ (r.pc = "sent" => ArgOK(r.kind, r.arg))

Todos ==
  {<<>>, <<"refresh">>, <<"org", "refresh">>, <<"persona", "refresh">>, <<"data", "refresh">>,
   <<"complete", "refresh">>, <<"seed", "data", "refresh">>}

TabPages == {"wizard", "import", "dashboard"}

TabOK(s) ==
  /\ DOMAIN s = {"page", "step", "data", "error", "todo", "goal"}
  /\ s.page \in TabPages /\ s.step \in 0..4
  /\ s.goal.page \in TabPages /\ s.goal.step \in 0..4 /\ s.todo \in Todos

\* A handler awaits either its request or its refresh.
InStep(s, r, f) ==
  /\ (r = NoCall) <=> (s.todo \in {<<>>, <<"refresh">>})
  /\ s.todo = <<"refresh">> => f # NoFetch

Rows ==
  /\ org.name \in Names /\ org.persona \in Personas \cup {None}
  /\ org.completed \in Callers \cup {None}
  /\ \A c \in Callers : RequestOK(call[c]) /\ WriteOK(commit[c])
  /\ \A c, d \in Holders : c = d

TabsOK ==
  /\ tab = [t \in Tabs |-> tab[t]] /\ fetch = [t \in Tabs |-> fetch[t]]
  /\ \A t \in Tabs : TabOK(tab[t]) /\ InStep(tab[t], call[t], fetch[t])

Typed == IInv /\ Rows /\ TabsOK

LEMMA NoCallIs ==
  /\ NoCall.pc = "none" /\ NoCall.writes = NoWrites /\ WriteOK(NoWrites) /\ RequestOK(NoCall)
  /\ NoWrites.kind = "none" /\ ~NoWrites.sample
BY DEF NoCall, WriteOK, RequestOK, NoWrites

LEMMA InitTyped == Init => Typed
<1> SUFFICES ASSUME Init PROVE Typed
  OBVIOUS
<1>1. Rows
  <2>1. org.name = Placeholder /\ org.persona = None /\ org.completed = None
    BY DEF Init
  <2>2. \A c \in Callers : call[c] = NoCall /\ commit[c] = NoWrites
    BY DEF Init
  <2>3. Holders = {}
    BY <2>2, NoCallIs DEF Holders
  <2> QED BY <2>1, <2>2, <2>3, NoCallIs, CallersAssumption DEF Rows
<1>2. TabsOK
  <2>1. \A t \in Tabs : tab[t] = NewTab /\ call[t] = NoCall
    BY DEF Init, Callers
  <2>2. /\ DOMAIN NewTab = {"page", "step", "data", "error", "todo", "goal"}
        /\ NewTab.page = "wizard" /\ NewTab.step = 0 /\ NewTab.todo = <<>>
        /\ NewTab.goal.page = "wizard" /\ NewTab.goal.step = 0
    BY DEF NewTab, At
  <2>3. TabOK(NewTab)
    BY <2>2 DEF TabOK, TabPages, Todos
  <2>4. <<>> # <<"refresh">>
    OBVIOUS
  <2>5. \A f : InStep(NewTab, NoCall, f)
    BY <2>2, <2>4 DEF InStep
  <2>6. tab = [t \in Tabs |-> tab[t]] /\ fetch = [t \in Tabs |-> fetch[t]]
    BY DEF Init
  <2> QED BY <2>1, <2>3, <2>5, <2>6 DEF TabsOK
<1> QED
  BY <1>1, <1>2, InitHolds DEF Typed

\* One request is replaced while the row stays.
LEMMA RequestTyped ==
  ASSUME Typed, NEW c \in Callers, NEW r, RequestOK(r), call' = [call EXCEPT ![c] = r],
         UNCHANGED <<org, commit>>
  PROVE  Rows'
<1>1. \A d \in Callers : call'[d] = IF d = c THEN r ELSE call[d]
  BY DEF Typed, IInv
<1>2. Holders' = Holders
  BY DEF Holders
<1> QED
  BY <1>1, <1>2 DEF Typed, Rows

\* A request moves on while its tab waits for it.
LEMMA ServedTyped ==
  ASSUME Typed, NEW c \in Callers, NEW r, c \in Tabs => (r # NoCall /\ call[c] # NoCall),
         call' = [call EXCEPT ![c] = r], UNCHANGED <<tab, fetch>>
  PROVE  TabsOK'
<1>1. \A t \in Tabs : call'[t] = IF t = c THEN r ELSE call[t]
  BY DEF Typed, IInv, Callers
<1>2. ASSUME NEW t \in Tabs PROVE InStep(tab[t], call'[t], fetch[t])
  BY <1>1 DEF Typed, TabsOK, InStep
<1> QED
  BY <1>2 DEF Typed, TabsOK

\* One tab is replaced, with its request and its fetch.
LEMMA TabTyped ==
  ASSUME Typed, NEW t \in Tabs, NEW s, NEW r, NEW f, TabOK(s), InStep(s, r, f),
         tab' = [tab EXCEPT ![t] = s], call' = [call EXCEPT ![t] = r],
         fetch' = [fetch EXCEPT ![t] = f]
  PROVE  TabsOK'
<1>1. \A u \in Tabs : /\ tab'[u] = IF u = t THEN s ELSE tab[u]
                      /\ call'[u] = IF u = t THEN r ELSE call[u]
                      /\ fetch'[u] = IF u = t THEN f ELSE fetch[u]
  BY DEF Typed, TabsOK, IInv, Callers
<1>2. tab' = [u \in Tabs |-> tab'[u]] /\ fetch' = [u \in Tabs |-> fetch'[u]]
  BY DEF Typed, TabsOK
<1>3. ASSUME NEW u \in Tabs PROVE TabOK(tab'[u]) /\ InStep(tab'[u], call'[u], fetch'[u])
  <2>1. CASE u = t
    BY <1>1, <2>1
  <2>2. CASE u # t
    BY <1>1, <2>2 DEF Typed, TabsOK
  <2> QED BY <2>1, <2>2
<1> QED
  BY <1>2, <1>3 DEF TabsOK

\* Only the tab and its fetch are replaced, or one of them.
LEMMA PageTyped ==
  ASSUME Typed, NEW t \in Tabs, NEW s, NEW f, TabOK(s), InStep(s, call[t], f),
         tab' = [tab EXCEPT ![t] = s], fetch' = [fetch EXCEPT ![t] = f], UNCHANGED server
  PROVE  Rows' /\ TabsOK'
<1>1. Rows'
  BY DEF server, Typed, Rows, Holders
<1>2. call' = [call EXCEPT ![t] = call[t]]
  BY DEF server, Typed, IInv
<1> QED
  BY <1>1, <1>2, TabTyped

LEMMA AnsweredIs ==
  ASSUME NEW c, NEW ok
  PROVE  /\ RequestOK(Answered(c, ok)) /\ (c \in Tabs => Answered(c, ok).pc = "answered")
         /\ (c \in Tabs => Answered(c, ok) # NoCall)
<1>1. /\ Answered(c, ok).writes = NoWrites
      /\ c \in Tabs => Answered(c, ok).pc = "answered"
      /\ c \notin Tabs => Answered(c, ok).pc = "none"
  BY DEF Answered, NoCall
<1> QED
  BY <1>1, NoCallIs DEF RequestOK

LEMMA AcceptIs ==
  ASSUME NEW c, NEW kind, NEW w, Accept(c, kind, w),
         WriteOK([w EXCEPT !.kind = kind])
  PROVE  \E r : /\ call' = [call EXCEPT ![c] = r] /\ RequestOK(r)
                /\ c \in Tabs => r # NoCall
<1>1. CASE w = NoWrites
  BY <1>1, AnsweredIs DEF Accept
<1>2. CASE w # NoWrites
  <2> DEFINE r == [NoCall EXCEPT !.pc = "flush", !.writes = [w EXCEPT !.kind = kind]]
  <2>1. r.pc = "flush" /\ r.writes = [w EXCEPT !.kind = kind]
    BY DEF NoCall
  <2>2. call' = [call EXCEPT ![c] = r]
    BY <1>2 DEF Accept
  <2> HIDE DEF r
  <2> QED BY <2>1, <2>2, NoCallIs DEF RequestOK
<1> QED
  BY <1>1, <1>2

\* The endpoints write names, personas and callers, and sample rows only for a seed.
LEMMA HandleIs ==
  ASSUME Typed, NEW c \in Callers, NEW kind, NEW arg, ArgOK(kind, arg), Handle(c, kind, arg)
  PROVE  /\ UNCHANGED <<org, commit, tab, fetch>>
         /\ \E r : /\ call' = [call EXCEPT ![c] = r] /\ RequestOK(r)
                   /\ c \in Tabs => r # NoCall
<1>1. UNCHANGED <<org, commit, tab, fetch>>
  BY DEF Handle, client
<1>2. \A w : /\ [NoWrites EXCEPT !.kind = w].name = None
             /\ [NoWrites EXCEPT !.kind = w].persona = None
             /\ [NoWrites EXCEPT !.kind = w].completed = None
             /\ ~[NoWrites EXCEPT !.kind = w].sample
  BY DEF NoWrites
<1>3. CASE Refuse(c)
  BY <1>1, <1>3, AnsweredIs DEF Refuse
<1>4. CASE kind = "complete"
  <2>1. WriteOK([NoWrites EXCEPT !.kind = "complete"])
    BY <1>2 DEF WriteOK
  <2>2. WriteOK([[NoWrites EXCEPT !.completed = c] EXCEPT !.kind = "complete"])
    BY DEF WriteOK, NoWrites
  <2>3. \/ Accept(c, "complete", NoWrites) \/ Refuse(c)
        \/ Accept(c, "complete", [NoWrites EXCEPT !.completed = c])
    BY <1>4 DEF Handle, PostComplete
  <2> QED BY <1>1, <1>3, <2>1, <2>2, <2>3, AcceptIs
<1>5. CASE kind = "seed"
  <2>1. WriteOK([[NoWrites EXCEPT !.sample = TRUE] EXCEPT !.kind = "seed"])
    BY DEF WriteOK, NoWrites
  <2>2. Accept(c, "seed", [NoWrites EXCEPT !.sample = TRUE]) \/ Refuse(c)
    BY <1>5 DEF Handle, PostSeed
  <2> QED BY <1>1, <1>3, <2>1, <2>2, AcceptIs
<1>6. CASE kind \notin {"complete", "seed"}
  <2> DEFINE capture == Capture(org)
             next == NextCapture(capture, kind, arg)
  <2>1. capture.name \in Names \cup {None} /\ capture.persona \in Personas \cup {None}
    BY DEF Capture, Typed, Rows
  <2>2. next.name \in Names \cup {None}
    BY <2>1 DEF NextCapture, ArgOK, Capture
  <2>3. next.persona \in Personas \cup {None}
    BY <2>1 DEF NextCapture, ArgOK, Capture
  <2>4. /\ [StepWrites(org, kind, arg) EXCEPT !.kind = kind].name = Changed(next.name, org.name)
        /\ [StepWrites(org, kind, arg) EXCEPT !.kind = kind].persona
             = Changed(next.persona, org.persona)
        /\ [StepWrites(org, kind, arg) EXCEPT !.kind = kind].completed = None
        /\ ~[StepWrites(org, kind, arg) EXCEPT !.kind = kind].sample
    BY DEF StepWrites, NoWrites
  <2> HIDE DEF capture, next
  <2>5. WriteOK([StepWrites(org, kind, arg) EXCEPT !.kind = kind])
    BY <2>2, <2>3, <2>4 DEF WriteOK, Changed
  <2>6. Accept(c, kind, StepWrites(org, kind, arg)) \/ Refuse(c)
    BY <1>6 DEF Handle, PostStep
  <2> QED BY <1>1, <1>3, <2>5, <2>6, AcceptIs
<1> QED
  BY <1>4, <1>5, <1>6
\* What is left of a handler after one of its requests.
LEMMA TodoIs ==
  ASSUME NEW todo \in Todos, todo \notin {<<>>, <<"refresh">>}
  PROVE  \/ Tail(todo) = <<"refresh">> /\ Head(Tail(todo)) = "refresh"
         \/ Tail(todo) = <<"data", "refresh">> /\ Head(Tail(todo)) = "data"
<1>1. \/ todo = <<"org", "refresh">> \/ todo = <<"persona", "refresh">>
      \/ todo = <<"data", "refresh">> \/ todo = <<"complete", "refresh">>
      \/ todo = <<"seed", "data", "refresh">>
  BY DEF Todos
<1>2. /\ Tail(<<"org", "refresh">>) = <<"refresh">>
      /\ Tail(<<"persona", "refresh">>) = <<"refresh">>
      /\ Tail(<<"data", "refresh">>) = <<"refresh">>
      /\ Tail(<<"complete", "refresh">>) = <<"refresh">>
      /\ Tail(<<"seed", "data", "refresh">>) = <<"data", "refresh">>
  OBVIOUS
<1>3. Head(<<"refresh">>) = "refresh" /\ Head(<<"data", "refresh">>) = "data"
  OBVIOUS
<1> QED
  BY <1>1, <1>2, <1>3

LEMMA TodosDiffer ==
  /\ \A todo \in Todos :
       todo \in {<<>>, <<"refresh">>} \/ (todo # <<>> /\ todo # <<"refresh">>)
  /\ \A k \in {"org", "persona", "data", "complete"} :
       /\ Append(<<k>>, "refresh") \in Todos /\ Append(<<k>>, "refresh") # <<>>
       /\ Append(<<k>>, "refresh") # <<"refresh">> /\ Head(<<k>>) = k
  /\ Append(<<"seed", "data">>, "refresh") \in Todos
  /\ Append(<<"seed", "data">>, "refresh") # <<>>
  /\ Append(<<"seed", "data">>, "refresh") # <<"refresh">> /\ Head(<<"seed", "data">>) = "seed"
  /\ <<"data", "refresh">> \in Todos /\ <<"data", "refresh">> # <<>>
  /\ <<"data", "refresh">> # <<"refresh">> /\ <<>> \in Todos /\ <<"refresh">> \in Todos
  /\ <<"refresh">> # <<>>
<1>1. \A k : Append(<<k>>, "refresh") = <<k, "refresh">> /\ Head(<<k>>) = k
  <2> TAKE k
  <2> DEFINE S == {k, "refresh"}
  <2>1. <<k>> \in Seq(S) /\ "refresh" \in S
    OBVIOUS
  <2>2. /\ Append(<<k>>, "refresh") \in Seq(S) /\ Len(Append(<<k>>, "refresh")) = 2
        /\ Append(<<k>>, "refresh")[1] = k /\ Append(<<k>>, "refresh")[2] = "refresh"
    BY <2>1, AppendProperties
  <2> DEFINE a == Append(<<k>>, "refresh")
             b == <<k, "refresh">>
  <2>3. b \in Seq(S) /\ Len(b) = 2 /\ b[1] = k /\ b[2] = "refresh" /\ Head(<<k>>) = k
    OBVIOUS
  <2> HIDE DEF S, a, b
  <2>4. \A i \in 1..Len(a) : a[i] = b[i]
    BY <2>2, <2>3 DEF a
  <2>5. a = b
    BY <2>2, <2>3, <2>4, SeqEqual DEF a
  <2> QED BY <2>3, <2>5 DEF a, b
<1>2. Append(<<"seed", "data">>, "refresh") = <<"seed", "data", "refresh">>
  <2> DEFINE S == {"seed", "data", "refresh"}
  <2>1. <<"seed", "data">> \in Seq(S) /\ "refresh" \in S
    OBVIOUS
  <2>2. /\ Append(<<"seed", "data">>, "refresh") \in Seq(S)
        /\ Len(Append(<<"seed", "data">>, "refresh")) = 3
        /\ Append(<<"seed", "data">>, "refresh")[1] = "seed"
        /\ Append(<<"seed", "data">>, "refresh")[2] = "data"
        /\ Append(<<"seed", "data">>, "refresh")[3] = "refresh"
    BY <2>1, AppendProperties
  <2> DEFINE a == Append(<<"seed", "data">>, "refresh")
             b == <<"seed", "data", "refresh">>
  <2>3. b \in Seq(S) /\ Len(b) = 3 /\ b[1] = "seed" /\ b[2] = "data" /\ b[3] = "refresh"
    OBVIOUS
  <2> HIDE DEF S, a, b
  <2>4. \A i \in 1..Len(a) : a[i] = b[i]
    BY <2>2, <2>3 DEF a
  <2>5. a = b
    BY <2>2, <2>3, <2>4, SeqEqual DEF a
  <2> QED BY <2>5 DEF a, b
<1>3. Head(<<"seed", "data">>) = "seed"
  OBVIOUS
<1>4. \A k, l : <<k, l>> # <<>> /\ <<k, l>> # <<"refresh">>
  OBVIOUS
<1>5. \A k, l, m : <<k, l, m>> # <<>> /\ <<k, l, m>> # <<"refresh">>
  OBVIOUS
<1>6. <<"refresh">> # <<>>
  OBVIOUS
<1> QED
  BY <1>1, <1>2, <1>3, <1>4, <1>5, <1>6 DEF Todos

\* A request of a tab that is sent.
LEMMA PostIs ==
  ASSUME NEW t, NEW kind, NEW arg, Post(t, kind, arg), ArgOK(kind, arg)
  PROVE  \E r : call' = [call EXCEPT ![t] = r] /\ RequestOK(r) /\ r # NoCall
<1> DEFINE r == [NoCall EXCEPT !.pc = "sent", !.kind = kind, !.arg = arg]
<1>1. r.pc = "sent" /\ r.kind = kind /\ r.arg = arg /\ r.writes = NoWrites
  BY DEF NoCall
<1>2. call' = [call EXCEPT ![t] = r]
  BY DEF Post
<1> HIDE DEF r
<1> QED
  BY <1>1, <1>2, NoCallIs DEF RequestOK

LEMMA SubmitTyped ==
  ASSUME Typed, NEW t \in Tabs, Idle(t), NEW todo, NEW arg, NEW goal, Submit(t, todo, arg, goal),
         Append(todo, "refresh") \in Todos, Append(todo, "refresh") # <<>>,
         Append(todo, "refresh") # <<"refresh">>, ArgOK(Head(todo), arg),
         goal.page \in TabPages, goal.step \in 0..4
  PROVE  Rows' /\ TabsOK'
<1> DEFINE s == [tab[t] EXCEPT !.todo = Append(todo, "refresh"), !.goal = goal]
<1>1. tab' = [tab EXCEPT ![t] = s] /\ Post(t, Head(todo), arg) /\ UNCHANGED <<org, commit, fetch>>
  BY DEF Submit
<1>2. PICK r : call' = [call EXCEPT ![t] = r] /\ RequestOK(r) /\ r # NoCall
  BY <1>1, PostIs
<1>3. TabOK(tab[t]) /\ fetch' = [fetch EXCEPT ![t] = fetch[t]]
  BY <1>1 DEF Typed, TabsOK
<1>4. /\ DOMAIN s = DOMAIN tab[t] /\ s.todo = Append(todo, "refresh") /\ s.goal = goal
      /\ s.page = tab[t].page /\ s.step = tab[t].step
  BY <1>3 DEF TabOK
<1> HIDE DEF s
<1>5. TabOK(s)
  BY <1>3, <1>4 DEF TabOK
<1>6. InStep(s, r, fetch[t])
  BY <1>2, <1>4 DEF InStep
<1>7. TabsOK'
  BY <1>1, <1>2, <1>3, <1>5, <1>6, TabTyped
<1> QED
  BY <1>1, <1>2, <1>7, RequestTyped DEF Callers

LEMMA ButtonsTyped ==
  ASSUME Typed, NEW t \in Tabs,
         SubmitOrg(t) \/ SubmitPersona(t) \/ SeedSample(t) \/ ImportCsv(t) \/ StartEmpty(t)
           \/ GoToDashboard(t)
  PROVE  Rows' /\ TabsOK'
<1>1. Idle(t)
  BY DEF SubmitOrg, SubmitPersona, SeedSample, ImportCsv, StartEmpty, GoToDashboard, Shown
<1>2. \A page \in TabPages, step \in 0..4 : At(page, step).page = page /\ At(page, step).step = step
  BY DEF At
<1>3. "wizard" \in TabPages /\ "import" \in TabPages /\ "dashboard" \in TabPages
  BY DEF TabPages
<1>4. \/ \E name \in Names : Submit(t, <<"org">>, name, At("wizard", 2))
      \/ \E p \in Personas : Submit(t, <<"persona">>, p, At("wizard", 3))
      \/ Submit(t, <<"seed", "data">>, None, At("wizard", 4))
      \/ \E goal \in {At("import", 0), At("wizard", 4)} : Submit(t, <<"data">>, None, goal)
      \/ Submit(t, <<"complete">>, None, At("dashboard", 0))
  BY DEF SubmitOrg, SubmitPersona, SeedSample, ImportCsv, StartEmpty, GoToDashboard
<1>5. ASSUME NEW name \in Names, Submit(t, <<"org">>, name, At("wizard", 2))
      PROVE  Rows' /\ TabsOK'
  <2>1. ArgOK(Head(<<"org">>), name)
    BY TodosDiffer DEF ArgOK
  <2>2. /\ Append(<<"org">>, "refresh") \in Todos /\ Append(<<"org">>, "refresh") # <<>>
        /\ Append(<<"org">>, "refresh") # <<"refresh">>
    BY TodosDiffer
  <2>3. At("wizard", 2).page \in TabPages /\ At("wizard", 2).step \in 0..4
    BY <1>2, <1>3
  <2> QED BY <1>1, <1>5, <2>1, <2>2, <2>3, SubmitTyped
<1>6. ASSUME NEW p \in Personas, Submit(t, <<"persona">>, p, At("wizard", 3))
      PROVE  Rows' /\ TabsOK'
  <2>1. ArgOK(Head(<<"persona">>), p)
    BY TodosDiffer DEF ArgOK
  <2>2. /\ Append(<<"persona">>, "refresh") \in Todos /\ Append(<<"persona">>, "refresh") # <<>>
        /\ Append(<<"persona">>, "refresh") # <<"refresh">>
    BY TodosDiffer
  <2>3. At("wizard", 3).page \in TabPages /\ At("wizard", 3).step \in 0..4
    BY <1>2, <1>3
  <2> QED BY <1>1, <1>6, <2>1, <2>2, <2>3, SubmitTyped
<1>7. CASE Submit(t, <<"seed", "data">>, None, At("wizard", 4))
  <2>1. ArgOK(Head(<<"seed", "data">>), None)
    BY TodosDiffer DEF ArgOK
  <2>2. /\ Append(<<"seed", "data">>, "refresh") \in Todos /\ Append(<<"seed", "data">>, "refresh") # <<>>
        /\ Append(<<"seed", "data">>, "refresh") # <<"refresh">>
    BY TodosDiffer
  <2>3. At("wizard", 4).page \in TabPages /\ At("wizard", 4).step \in 0..4
    BY <1>2, <1>3
  <2> QED BY <1>1, <1>7, <2>1, <2>2, <2>3, SubmitTyped
<1>8. ASSUME NEW goal \in {At("import", 0), At("wizard", 4)}, Submit(t, <<"data">>, None, goal)
      PROVE  Rows' /\ TabsOK'
  <2>1. ArgOK(Head(<<"data">>), None)
    BY TodosDiffer DEF ArgOK
  <2>2. /\ Append(<<"data">>, "refresh") \in Todos /\ Append(<<"data">>, "refresh") # <<>>
        /\ Append(<<"data">>, "refresh") # <<"refresh">>
    BY TodosDiffer
  <2>3. goal.page \in TabPages /\ goal.step \in 0..4
    BY <1>2, <1>3
  <2> QED BY <1>1, <1>8, <2>1, <2>2, <2>3, SubmitTyped
<1>9. CASE Submit(t, <<"complete">>, None, At("dashboard", 0))
  <2>1. ArgOK(Head(<<"complete">>), None)
    BY TodosDiffer DEF ArgOK
  <2>2. /\ Append(<<"complete">>, "refresh") \in Todos /\ Append(<<"complete">>, "refresh") # <<>>
        /\ Append(<<"complete">>, "refresh") # <<"refresh">>
    BY TodosDiffer
  <2>3. At("dashboard", 0).page \in TabPages /\ At("dashboard", 0).step \in 0..4
    BY <1>2, <1>3
  <2> QED BY <1>1, <1>9, <2>1, <2>2, <2>3, SubmitTyped
<1> QED
  BY <1>4, <1>5, <1>6, <1>7, <1>8, <1>9

\* A handler that gives up.
LEMMA FailTyped ==
  ASSUME Typed, NEW t \in Tabs, Fail(t), UNCHANGED <<org, commit, fetch>>
  PROVE  Rows' /\ TabsOK'
<1> DEFINE s == [tab[t] EXCEPT !.todo = <<>>, !.goal = At("wizard", 0)]
<1>1. tab' = [tab EXCEPT ![t] = s] /\ call' = [call EXCEPT ![t] = NoCall]
  BY DEF Fail
<1>2. TabOK(tab[t]) /\ fetch' = [fetch EXCEPT ![t] = fetch[t]]
  BY DEF Typed, TabsOK
<1>3. /\ DOMAIN s = DOMAIN tab[t] /\ s.todo = <<>> /\ s.page = tab[t].page
      /\ s.step = tab[t].step /\ s.goal.page = "wizard" /\ s.goal.step = 0
  BY <1>2 DEF TabOK, At
<1> HIDE DEF s
<1>4. TabOK(s) /\ InStep(s, NoCall, fetch[t])
  BY <1>2, <1>3, TodosDiffer DEF TabOK, InStep, TabPages
<1>5. TabsOK'
  BY <1>1, <1>2, <1>4, TabTyped
<1> QED
  BY <1>1, <1>5, NoCallIs, RequestTyped DEF Callers

LEMMA ReceiveTyped ==
  ASSUME Typed, NEW t \in Tabs, Receive(t)
  PROVE  Rows' /\ TabsOK'
<1> DEFINE rest == Tail(tab[t].todo)
           s == [tab[t] EXCEPT !.todo = rest]
<1>1. call[t].pc = "answered" /\ UNCHANGED <<org, commit>>
  BY DEF Receive
<1>2. CASE ~call[t].ok
  BY <1>1, <1>2, FailTyped DEF Receive
<1>3. CASE call[t].ok
  <2>1. tab' = [tab EXCEPT ![t] = s]
    BY <1>3 DEF Receive
  <2>2. IF Head(rest) = "refresh"
        THEN call' = [call EXCEPT ![t] = NoCall] /\ fetch' = [fetch EXCEPT ![t] = NewFetch]
        ELSE Post(t, Head(rest), None) /\ UNCHANGED fetch
    BY <1>3 DEF Receive
  <2>3. TabOK(tab[t]) /\ InStep(tab[t], call[t], fetch[t]) /\ call[t] # NoCall
    BY <1>1, NoCallIs DEF Typed, TabsOK
  <2>4. tab[t].todo \in Todos /\ tab[t].todo \notin {<<>>, <<"refresh">>}
    BY <2>3 DEF TabOK, InStep
  <2>5. \/ rest = <<"refresh">> /\ Head(rest) = "refresh"
        \/ rest = <<"data", "refresh">> /\ Head(rest) = "data"
    BY <2>4, TodoIs
  <2>6. /\ DOMAIN s = DOMAIN tab[t] /\ s.todo = rest /\ s.page = tab[t].page
        /\ s.step = tab[t].step /\ s.goal = tab[t].goal
    BY <2>3 DEF TabOK
  <2> HIDE DEF rest, s
  <2>7. TabOK(s)
    BY <2>3, <2>5, <2>6, TodosDiffer DEF TabOK
  <2>8. CASE rest = <<"refresh">> /\ Head(rest) = "refresh"
    <3>1. InStep(s, NoCall, NewFetch)
      BY <2>6, <2>8 DEF InStep, NewFetch, NoFetch
    <3>2. TabsOK'
      BY <2>1, <2>2, <2>7, <2>8, <3>1, TabTyped
    <3> QED BY <1>1, <2>2, <2>8, <3>2, NoCallIs, RequestTyped DEF Callers
  <2>9. CASE rest = <<"data", "refresh">> /\ Head(rest) = "data"
    <3>1. Post(t, "data", None) /\ UNCHANGED fetch
      BY <2>2, <2>9
    <3>2. PICK r : call' = [call EXCEPT ![t] = r] /\ RequestOK(r) /\ r # NoCall
      BY <3>1, PostIs DEF ArgOK
    <3>3. InStep(s, r, fetch[t])
      BY <2>6, <2>9, <3>2, TodosDiffer DEF InStep
    <3>4. fetch' = [fetch EXCEPT ![t] = fetch[t]]
      BY <3>1 DEF Typed, TabsOK
    <3>5. TabsOK'
      BY <2>1, <2>7, <3>2, <3>3, <3>4, TabTyped
    <3> QED BY <1>1, <3>2, <3>5, RequestTyped DEF Callers
  <2> QED BY <2>5, <2>8, <2>9
<1> QED
  BY <1>2, <1>3
\* What a page does by itself or by a click, without a request.
LEMMA PageMoves ==
  ASSUME Typed, NEW t \in Tabs,
         Back(t) \/ Gate(t) \/ Home(t) \/ OpenLink(t)
  PROVE  Rows' /\ TabsOK'
<1>1. UNCHANGED <<server, fetch>>
  BY DEF Back, Gate, Home, OpenLink
<1>2. TabOK(tab[t]) /\ InStep(tab[t], call[t], fetch[t])
  BY DEF Typed, TabsOK
<1>3. \E s : tab' = [tab EXCEPT ![t] = s] /\ TabOK(s) /\ s.todo = tab[t].todo
  <2>1. ASSUME NEW s, DOMAIN s = DOMAIN tab[t], s.page \in TabPages, s.step \in 0..4,
               s.todo = tab[t].todo, s.goal = tab[t].goal
        PROVE  TabOK(s)
    BY <1>2, <2>1 DEF TabOK
  <2>2. CASE Back(t)
    <3> DEFINE n == ActiveStep(t) - 1
               s == [tab[t] EXCEPT !.step = n]
    <3>1. n \in 0..4 /\ tab' = [tab EXCEPT ![t] = s]
      BY <2>2 DEF Back, Shown
    <3> HIDE DEF n
    <3>2. /\ DOMAIN s = DOMAIN tab[t] /\ s.page \in TabPages /\ s.step \in 0..4
          /\ s.todo = tab[t].todo /\ s.goal = tab[t].goal
      BY <1>2, <3>1 DEF TabOK
    <3> HIDE DEF s
    <3> QED BY <2>1, <3>1, <3>2
  <2>3. CASE Gate(t)
    <3> DEFINE s == [tab[t] EXCEPT !.page = "wizard", !.step = 0]
    <3>1. tab' = [tab EXCEPT ![t] = s]
      BY <2>3 DEF Gate, Typed, TabsOK
    <3>2. /\ DOMAIN s = DOMAIN tab[t] /\ s.page \in TabPages /\ s.step \in 0..4
          /\ s.todo = tab[t].todo /\ s.goal = tab[t].goal
      BY <1>2 DEF TabOK, TabPages
    <3> HIDE DEF s
    <3> QED BY <2>1, <3>1, <3>2
  <2>4. CASE Home(t)
    <3> DEFINE s == [tab[t] EXCEPT !.page = "dashboard"]
    <3>1. tab' = [tab EXCEPT ![t] = s]
      BY <2>4 DEF Home
    <3>2. /\ DOMAIN s = DOMAIN tab[t] /\ s.page \in TabPages /\ s.step \in 0..4
          /\ s.todo = tab[t].todo /\ s.goal = tab[t].goal
      BY <1>2 DEF TabOK, TabPages
    <3> HIDE DEF s
    <3> QED BY <2>1, <3>1, <3>2
  <2>5. CASE OpenLink(t)
    <3>1. PICK n \in {1, 3} : tab' = [tab EXCEPT ![t].page = "wizard", ![t].step = n]
      BY <2>5 DEF OpenLink
    <3> DEFINE s == [tab[t] EXCEPT !.page = "wizard", !.step = n]
    <3>2. tab' = [tab EXCEPT ![t] = s]
      BY <3>1 DEF Typed, TabsOK
    <3>3. /\ DOMAIN s = DOMAIN tab[t] /\ s.page \in TabPages /\ s.step \in 0..4
          /\ s.todo = tab[t].todo /\ s.goal = tab[t].goal
      BY <1>2 DEF TabOK, TabPages
    <3> HIDE DEF s
    <3> QED BY <2>1, <3>2, <3>3
  <2> QED BY <2>2, <2>3, <2>4, <2>5
<1>4. PICK s : tab' = [tab EXCEPT ![t] = s] /\ TabOK(s) /\ s.todo = tab[t].todo
  BY <1>3
<1>5. InStep(s, call[t], fetch[t])
  BY <1>2, <1>4 DEF InStep
<1>6. fetch' = [fetch EXCEPT ![t] = fetch[t]]
  BY <1>1 DEF Typed, TabsOK
<1> QED
  BY <1>1, <1>4, <1>5, <1>6, PageTyped

\* After a refresh the handler is through, wherever it goes.
LEMMA NavigatedIs ==
  ASSUME NEW s, TabOK(s), NEW e, e = Navigated(s)
  PROVE  /\ TabOK(e)
         /\ s.todo = <<"refresh">> => e.todo = <<>>
         /\ s.todo # <<"refresh">> => e.todo = s.todo
<1>1. CASE s.todo # <<"refresh">>
  BY <1>1 DEF Navigated
<1>2. CASE s.todo = <<"refresh">>
  <2> DEFINE page == IF s.goal.page = "wizard" THEN s.page ELSE s.goal.page
             step == IF page = "wizard" THEN s.goal.step ELSE 0
  <2>1. page \in TabPages /\ step \in 0..4
    BY DEF TabOK
  <2>2. e = [s EXCEPT !.todo = <<>>, !.goal = At("wizard", 0), !.page = page, !.step = step]
    BY <1>2 DEF Navigated
  <2> HIDE DEF page, step
  <2>3. /\ DOMAIN e = DOMAIN s /\ e.todo = <<>> /\ e.page = page /\ e.step = step
        /\ e.goal.page = "wizard" /\ e.goal.step = 0
    BY <2>2 DEF TabOK, At
  <2> QED BY <1>2, <2>1, <2>3, TodosDiffer DEF TabOK, TabPages
<1> QED
  BY <1>1, <1>2

\* The state arrives, or its fetch fails.
LEMMA FetchedTyped ==
  ASSUME Typed, NEW t \in Tabs, Deliver(t) \/ FetchFails(t)
  PROVE  Rows' /\ TabsOK'
<1>1. UNCHANGED server /\ fetch' = [fetch EXCEPT ![t] = NoFetch]
  BY DEF Deliver, FetchFails
<1>2. TabOK(tab[t]) /\ InStep(tab[t], call[t], fetch[t])
  BY DEF Typed, TabsOK
<1>3. \E data, error : tab' = [tab EXCEPT ![t] = Navigated([tab[t] EXCEPT !.data = data, !.error = error])]
  <2>1. CASE Deliver(t)
    BY <2>1 DEF Deliver
  <2>2. CASE FetchFails(t)
    <3>1. [tab[t] EXCEPT !.data = tab[t].data, !.error = TRUE] = [tab[t] EXCEPT !.error = TRUE]
      BY <1>2 DEF TabOK
    <3> QED BY <2>2, <3>1 DEF FetchFails
  <2> QED BY <2>1, <2>2
<1>4. PICK data, error :
        tab' = [tab EXCEPT ![t] = Navigated([tab[t] EXCEPT !.data = data, !.error = error])]
  BY <1>3
<1> DEFINE s == [tab[t] EXCEPT !.data = data, !.error = error]
<1>5. /\ DOMAIN s = DOMAIN tab[t] /\ s.todo = tab[t].todo /\ s.page = tab[t].page
      /\ s.step = tab[t].step /\ s.goal = tab[t].goal
  BY <1>2 DEF TabOK
<1> HIDE DEF s
<1>6. TabOK(s)
  BY <1>2, <1>5 DEF TabOK
<1>7. PICK e : e = Navigated(s)
  OBVIOUS
<1>8. /\ TabOK(e) /\ (s.todo = <<"refresh">> => e.todo = <<>>)
      /\ (s.todo # <<"refresh">> => e.todo = s.todo)
  BY <1>6, <1>7, NavigatedIs
<1>9. InStep(e, call[t], NoFetch)
  BY <1>2, <1>5, <1>8, TodosDiffer DEF InStep
<1>10. tab' = [tab EXCEPT ![t] = e]
  BY <1>4, <1>7 DEF s
<1> QED
  BY <1>1, <1>8, <1>9, <1>10, PageTyped

\* A fetch is sent, or answered.
LEMMA FetchTyped ==
  ASSUME Typed, NEW t \in Tabs, ReadState(t) \/ Revalidate(t)
  PROVE  Rows' /\ TabsOK'
<1>1. UNCHANGED <<server, tab>>
  BY DEF ReadState, Revalidate
<1>2. \E f : f # NoFetch /\ fetch' = [fetch EXCEPT ![t] = f]
  <2>1. NewFetch # NoFetch
    BY DEF NewFetch, NoFetch
  <2>2. \A reply : [pc |-> "back", reply |-> reply] # NoFetch
    BY DEF NoFetch
  <2>3. CASE Revalidate(t)
    BY <2>1, <2>3 DEF Revalidate
  <2>4. CASE ReadState(t)
    BY <2>2, <2>4 DEF ReadState
  <2> QED BY <2>3, <2>4
<1>3. PICK f : f # NoFetch /\ fetch' = [fetch EXCEPT ![t] = f]
  BY <1>2
<1>4. TabOK(tab[t]) /\ InStep(tab[t], call[t], f) /\ tab' = [tab EXCEPT ![t] = tab[t]]
  BY <1>1, <1>3 DEF Typed, TabsOK, InStep
<1> QED
  BY <1>1, <1>3, <1>4, PageTyped
-------------------------------------------------------------------------------
(* Type correctness: the server *)

LEMMA HandleTyped ==
  ASSUME Typed, NEW c \in Callers, NEW kind, NEW arg, ArgOK(kind, arg), Handle(c, kind, arg),
         c \in Tabs => call[c] # NoCall
  PROVE  Rows' /\ TabsOK'
<1>1. UNCHANGED <<org, commit, tab, fetch>>
  BY HandleIs
<1>2. PICK r : call' = [call EXCEPT ![c] = r] /\ RequestOK(r) /\ (c \in Tabs => r # NoCall)
  BY HandleIs
<1> QED
  BY <1>1, <1>2, RequestTyped, ServedTyped

LEMMA ReadTyped == ASSUME Typed, NEW t \in Tabs, Read(t) PROVE Rows' /\ TabsOK'
<1>1. call[t].pc = "sent" /\ Handle(t, call[t].kind, call[t].arg) /\ t \in Callers
  BY DEF Read, Callers
<1>2. ArgOK(call[t].kind, call[t].arg)
  BY <1>1 DEF Typed, Rows, RequestOK
<1>3. call[t] # NoCall
  BY <1>1, NoCallIs
<1> QED
  BY <1>1, <1>2, <1>3, HandleTyped

LEMMA RequestsTyped == ASSUME Typed, NEW c \in Others, Request(c) PROVE Rows' /\ TabsOK'
<1>1. PICK kind \in Kinds : \E arg \in Args(kind) : Handle(c, kind, arg)
  BY DEF Request
<1>2. PICK arg \in Args(kind) : Handle(c, kind, arg)
  BY <1>1
<1>3. ArgOK(kind, arg)
  <2>1. Args(kind) = CASE kind = "org" -> Names [] kind = "persona" -> Personas [] OTHER -> {None}
    BY DEF Args
  <2> QED BY <1>2, <2>1 DEF ArgOK
<1>4. c \in Callers /\ c \notin Tabs
  BY CallersAssumption DEF Callers
<1> QED
  BY <1>2, <1>3, <1>4, HandleTyped

\* What is flushed but not committed is replaced while the row stays.
LEMMA FlushTyped == ASSUME Typed, NEW c \in Callers, Flush(c) PROVE Rows' /\ TabsOK'
<1> DEFINE w == call[c].writes
<1>1. /\ call[c].pc = "flush" /\ (w.sample \/ Holders = {})
      /\ commit' = [commit EXCEPT ![c] = w] /\ call' = [call EXCEPT ![c] = Answered(c, TRUE)]
      /\ UNCHANGED <<org, tab, fetch>>
  BY DEF Flush, client
<1>2. WriteOK(w)
  BY DEF Typed, Rows, RequestOK
<1>3. \A d \in Callers : /\ commit'[d] = IF d = c THEN w ELSE commit[d]
                         /\ call'[d] = IF d = c THEN Answered(c, TRUE) ELSE call[d]
  BY <1>1 DEF Typed, IInv
<1>4. RequestOK(Answered(c, TRUE)) /\ (c \in Tabs => Answered(c, TRUE) # NoCall)
  BY AnsweredIs
<1>5. \A d, e \in Holders' : d = e
  <2>1. CASE Holders = {}
    BY <1>3, <2>1 DEF Holders
  <2>2. CASE w.sample
    <3>1. w.kind = "seed"
      BY <1>2, <2>2 DEF WriteOK
    <3>2. Holders' \subseteq Holders
      BY <1>3, <3>1 DEF Holders
    <3> QED BY <3>2 DEF Typed, Rows
  <2> QED BY <1>1, <2>1, <2>2
<1>6. Rows'
  BY <1>1, <1>2, <1>3, <1>4, <1>5 DEF Typed, Rows
<1>7. call[c] # NoCall
  BY <1>1, NoCallIs
<1> QED
  BY <1>1, <1>4, <1>6, <1>7, ServedTyped

\* The row takes what a commit sets, or the commit is lost.
LEMMA CommitTyped ==
  ASSUME Typed, NEW c \in Callers, Commit(c) \/ LoseCommit(c)
  PROVE  Rows' /\ TabsOK'
<1>1. commit' = [commit EXCEPT ![c] = NoWrites] /\ UNCHANGED <<call, tab, fetch>>
  BY DEF Commit, LoseCommit, client
<1>2. \A d \in Callers : commit'[d] = IF d = c THEN NoWrites ELSE commit[d]
  BY <1>1 DEF Typed, IInv
<1>3. Holders' \subseteq Holders
  BY <1>2, NoCallIs DEF Holders
<1>4. /\ org'.name \in Names /\ org'.persona \in Personas \cup {None}
      /\ org'.completed \in Callers \cup {None}
  <2>1. CASE LoseCommit(c)
    BY <2>1 DEF LoseCommit, Typed, Rows
  <2>2. CASE Commit(c)
    <3>1. /\ org'.name = Updated(commit[c].name, org.name)
          /\ org'.persona = Updated(commit[c].persona, org.persona)
          /\ org'.completed = Updated(commit[c].completed, org.completed)
      BY <2>2 DEF Commit
    <3>2. WriteOK(commit[c])
      BY DEF Typed, Rows
    <3> QED BY <3>1, <3>2 DEF Typed, Rows, WriteOK, Updated
  <2> QED BY <2>1, <2>2
<1>5. Rows'
  BY <1>1, <1>2, <1>3, <1>4, NoCallIs DEF Typed, Rows
<1> QED
  BY <1>1, <1>5 DEF Typed, TabsOK

LEMMA NextTyped == Typed /\ [Next]_vars => Typed'
<1> SUFFICES ASSUME Typed, [Next]_vars PROVE Rows' /\ TabsOK'
  BY NextKeeps DEF Typed
<1>1. ASSUME NEW c \in Callers, Flush(c) \/ Commit(c) \/ LoseCommit(c) PROVE Rows' /\ TabsOK'
  BY <1>1, FlushTyped, CommitTyped
<1>2. ASSUME NEW c \in Others, Request(c) PROVE Rows' /\ TabsOK'
  BY <1>2, RequestsTyped
<1>3. ASSUME NEW t \in Tabs,
             SubmitOrg(t) \/ SubmitPersona(t) \/ SeedSample(t) \/ ImportCsv(t)
               \/ StartEmpty(t) \/ GoToDashboard(t)
      PROVE  Rows' /\ TabsOK'
  BY <1>3, ButtonsTyped
<1>4. ASSUME NEW t \in Tabs, Back(t) \/ Gate(t) \/ Home(t) \/ OpenLink(t)
      PROVE  Rows' /\ TabsOK'
  BY <1>4, PageMoves
<1>5. ASSUME NEW t \in Tabs, Receive(t) \/ Read(t) PROVE Rows' /\ TabsOK'
  BY <1>5, ReceiveTyped, ReadTyped
<1>6. ASSUME NEW t \in Tabs, LoseAnswer(t) PROVE Rows' /\ TabsOK'
  BY <1>6, FailTyped DEF LoseAnswer
<1>7. ASSUME NEW t \in Tabs, ReadState(t) \/ Revalidate(t) \/ Deliver(t) \/ FetchFails(t)
      PROVE  Rows' /\ TabsOK'
  BY <1>7, FetchTyped, FetchedTyped
<1>8. CASE UNCHANGED vars
  BY <1>8 DEF vars, Typed, Rows, TabsOK, Holders
<1> QED
  BY <1>1, <1>2, <1>3, <1>4, <1>5, <1>6, <1>7, <1>8 DEF Next

\* The types hold throughout; one uncommitted UPDATE at most holds the organisation's row, and
\* the handler of a tab awaits its request or its refresh, never both and never neither.
THEOREM TypeCorrect == Spec => []TypeOK
<1>1. Typed => TypeOK
  <2> SUFFICES ASSUME Typed PROVE TypeOK
    OBVIOUS
  <2>1. Cardinality(Holders) <= 1
    <3>1. CASE Holders = {}
      BY <3>1, FS_EmptySet
    <3>2. CASE Holders # {}
      <4>1. PICK c : c \in Holders
        BY <3>2
      <4>2. Holders = {c}
        BY <4>1 DEF Typed, Rows
      <4> QED BY <4>2, FS_Singleton
    <3> QED BY <3>1, <3>2
  <2>2. \A t \in Tabs :
          /\ tab[t].page \in {"wizard", "import", "dashboard"} /\ tab[t].step \in 0..4
          /\ (call[t] = NoCall) <=> (tab[t].todo \in {<<>>, <<"refresh">>})
          /\ tab[t].todo = <<"refresh">> => fetch[t] # NoFetch
    BY DEF Typed, TabsOK, TabOK, TabPages, InStep
  <2> QED BY <2>1, <2>2 DEF Typed, Rows, TypeOK
<1> QED
  BY <1>1, InitTyped, NextTyped, PTL DEF Spec
===============================================================================
