------------------------------ MODULE EventStream ------------------------------
(***************************************************************************)
(* Realtime events of one organisation, from the transactions that publish *)
(* them to the handlers of one browser tab.                                *)
(*                                                                         *)
(* A publisher (an API request or a worker's import) numbers an event,     *)
(* flushes its outbox row and sends it to Redis, all before its            *)
(* transaction commits.  The tab holds an EventSource, remembers the last  *)
(* number it saw, and asks /events/replay for what follows it before it    *)
(* opens a new EventSource.                                                *)
(***************************************************************************)
EXTENDS Naturals, Sequences, FiniteSets, SequencesExt

CONSTANTS Txs,          \* transactions that publish
          ProcOf,       \* ProcOf[t]: the process that runs t
          Synchronous,  \* processes that run one transaction at a time (workers)
          Conns,        \* EventSource objects that may exist at a time
          Faults,       \* whether Redis and replay requests may fail
          MaxEvents,    \* bound: events published by one transaction
          MaxClock,     \* bound: the clock, in milliseconds
          MaxMounts,    \* bound: times the application shell is mounted
          MaxBreaks,    \* bound: connections that fail
          PageSize,     \* rows of one replay answer (500 in the code)
          None

Procs == {ProcOf[t] : t \in Txs}

ASSUME BoundsOK ==
  /\ {MaxEvents, MaxClock, MaxMounts, MaxBreaks, PageSize} \subseteq Nat /\ PageSize > 0
  /\ Synchronous \subseteq Procs /\ Faults \in BOOLEAN
  /\ None \notin Conns \cup [ms : Nat, n : Nat, tx : Txs]

VARIABLES clock, counter,   \* wall clock; counter[p]: the process's itertools.count()
          txState,          \* "open", "committed" or "rolledback"
          rows,             \* rows[t]: the outbox rows t has flushed
          due,              \* due[t]: the event flushed but not yet sent to Redis
          sent,             \* history: the events in the order of their PUBLISH
          outbox,           \* committed rows of events_outbox
          conn, sub,        \* conn[c]: state of EventSource c; sub[c]: what Redis holds for it
          breaks,           \* how many connections have failed
          es, timer,        \* this.es; this.reconnectTimer: "none", "armed" or "stale"
          lastSeq,          \* this.lastSeq
          call,             \* the connect() that awaits its replay
          mounts, mounted,  \* whether the shell is on the page, and how often it was put there
          dispatched        \* events handed to the handlers

server == <<clock, counter, txState, rows, due, sent, outbox>>
client == <<es, timer, lastSeq, call, mounts, mounted, dispatched>>
vars == <<server, conn, sub, breaks, client>>

-------------------------------------------------------------------------------
(* Sequence numbers *)

\* Order of the strings "{millis:015d}-{counter:09d}".
Before(a, b) == a.ms < b.ms \/ (a.ms = b.ms /\ a.n < b.n)

\* The event that t publishes next.
NextSeq(t) == [ms |-> clock, n |-> counter[ProcOf[t]], tx |-> t]

\* ORDER BY seq LIMIT PageSize: rows of one number come in any order.
Lowest(events) ==
  {page \in SUBSET events :
     /\ Cardinality(page) = IF Cardinality(events) < PageSize THEN Cardinality(events) ELSE PageSize
     /\ \A d \in page, e \in events \ page : ~Before(e, d)}

\* Mutant of Pages: rows at the cursor are sent again.
PagesInclusive(since) == Lowest({e \in outbox : ~Before(e, since)})

\* What /events/replay may answer: WHERE seq > since.
Pages(since) == Lowest({e \in outbox : Before(since, e)})
-------------------------------------------------------------------------------
(* Publishers *)

Tick ==
  /\ clock < MaxClock
  /\ clock' = clock + 1
  /\ UNCHANGED <<counter, txState, rows, due, sent, outbox, conn, sub, breaks, client>>

\* A task that has begun on process p and not finished.
Busy(u, p) == ProcOf[u] = p /\ txState[u] = "open" /\ rows[u] # {}

\* The event gets its number and its row is flushed, invisible to others until Commit.
Persist(t) ==
  /\ txState[t] = "open" /\ due[t] = None /\ Cardinality(rows[t]) < MaxEvents
  /\ ProcOf[t] \in Synchronous => \A u \in Txs \ {t} : ~Busy(u, ProcOf[t])
  /\ counter' = [counter EXCEPT ![ProcOf[t]] = @ + 1]
  /\ rows' = [rows EXCEPT ![t] = @ \cup {NextSeq(t)}]
  /\ due' = [due EXCEPT ![t] = NextSeq(t)]
  /\ UNCHANGED <<clock, txState, sent, outbox, conn, sub, breaks, client>>

\* PUBLISH reaches the connections subscribed at that moment; when Redis is down
\* the failure is logged and nobody gets it.
Fanout(t) ==
  /\ due[t] # None
  /\ due' = [due EXCEPT ![t] = None] /\ sent' = Append(sent, due[t])
  /\ \/ sub' = [c \in Conns |-> IF conn[c] = "open" THEN Append(sub[c], due[t]) ELSE sub[c]]
     \/ Faults /\ UNCHANGED sub
  /\ UNCHANGED <<clock, counter, txState, rows, outbox, conn, breaks, client>>

\* Mutant of Commit: the transaction commits before its last event is sent.
CommitUnsent(t) ==
  /\ txState[t] = "open"
  /\ txState' = [txState EXCEPT ![t] = "committed"]
  /\ outbox' = outbox \cup rows[t]
  /\ UNCHANGED <<clock, counter, rows, due, sent, conn, sub, breaks, client>>

Commit(t) ==
  /\ txState[t] = "open" /\ due[t] = None
  /\ txState' = [txState EXCEPT ![t] = "committed"]
  /\ outbox' = outbox \cup rows[t]
  /\ UNCHANGED <<clock, counter, rows, due, sent, conn, sub, breaks, client>>

\* The request or the import fails after it has published.
Abort(t) ==
  /\ txState[t] = "open" /\ due[t] = None
  /\ txState' = [txState EXCEPT ![t] = "rolledback"]
  /\ UNCHANGED <<clock, counter, rows, due, sent, outbox, conn, sub, breaks, client>>
-------------------------------------------------------------------------------
(* The connections *)

\* The server has subscribed to the channel and sent ": connected".
Accept(c) ==
  /\ conn[c] = "connecting"
  /\ conn' = [conn EXCEPT ![c] = "open"]
  /\ sub' = [sub EXCEPT ![c] = <<>>]
  /\ UNCHANGED <<server, breaks, client>>

\* onmessage: the cursor takes the number of whatever has arrived.
Receive(c) ==
  /\ conn[c] = "open" /\ sub[c] # <<>>
  /\ lastSeq' = Head(sub[c])
  /\ dispatched' = dispatched \cup {Head(sub[c])}
  /\ sub' = [sub EXCEPT ![c] = Tail(@)]
  /\ UNCHANGED <<server, conn, breaks, es, timer, call, mounts, mounted>>

\* scheduleReconnect: at most one timer.
ScheduleReconnect == timer' = IF timer = "none" THEN "armed" ELSE timer

Fails(c) ==
  /\ conn[c] # "closed" /\ breaks < MaxBreaks
  /\ breaks' = breaks + 1
  /\ es' = None /\ ScheduleReconnect
  /\ UNCHANGED <<server, sub, lastSeq, call, mounts, mounted, dispatched>>

\* Mutant of Break: the broken EventSource is forgotten without being closed.
BreakUnclosed(c) ==
  /\ Fails(c)
  /\ conn' = [conn EXCEPT ![c] = "connecting"]

\* onerror of c closes whatever this.es is now; an EventSource that is not this.es
\* is reconnected by the browser.
Break(c) ==
  /\ Fails(c)
  /\ conn' = [d \in Conns |-> IF d = es THEN "closed"
                              ELSE IF d = c THEN "connecting" ELSE conn[d]]
-------------------------------------------------------------------------------
(* connect() and disconnect() *)

Open ==
  \E c \in Conns : /\ conn[c] = "closed"
                  /\ es' = c
                  /\ conn' = [conn EXCEPT ![c] = "connecting"]

\* connect() up to its first await: nothing to do, a replay to wait for, or a new stream.
Connect ==
  \/ es # None /\ UNCHANGED <<conn, es, call>>
  \/ /\ es = None /\ lastSeq # None
     /\ call' = Append(call, [since |-> lastSeq, answer |-> None])
     /\ UNCHANGED <<conn, es>>
  \/ es = None /\ lastSeq = None /\ Open /\ UNCHANGED call

Mount ==
  /\ ~mounted /\ mounts < MaxMounts
  /\ mounted' = TRUE /\ mounts' = mounts + 1
  /\ Connect
  /\ UNCHANGED <<server, sub, breaks, timer, lastSeq, dispatched>>

\* Mutant of TimerFires: reconnectTimer keeps the id of the timer that has fired.
TimerFiresStale ==
  /\ timer = "armed"
  /\ timer' = "stale"
  /\ Connect
  /\ UNCHANGED <<server, sub, breaks, lastSeq, mounts, mounted, dispatched>>

TimerFires ==
  /\ timer = "armed"
  /\ timer' = "none"
  /\ Connect
  /\ UNCHANGED <<server, sub, breaks, lastSeq, mounts, mounted, dispatched>>

\* The database answers the k-th replay request, or the request fails.
ReplayRead(k) ==
  /\ call[k].answer = None
  /\ \E answer \in Pages(call[k].since) \cup (IF Faults THEN {{}} ELSE {}) :
       call' = [call EXCEPT ![k].answer = answer]
  /\ UNCHANGED <<server, conn, sub, breaks, es, timer, lastSeq, mounts, mounted, dispatched>>

\* connect() resumes after its await and opens a stream, whatever happened meanwhile; the
\* cursor is left at the last row, one that no other exceeds.
ReplayDone(k) ==
  LET answer == call[k].answer
  IN /\ answer # None
     /\ dispatched' = dispatched \cup answer
     /\ IF answer = {} THEN UNCHANGED lastSeq
        ELSE lastSeq' \in {e \in answer : \A d \in answer : ~Before(e, d)}
     /\ call' = RemoveAt(call, k)
     /\ Open
     /\ UNCHANGED <<server, sub, breaks, timer, mounts, mounted>>

\* Mutant of Unmount: this.es keeps the closed EventSource.
UnmountKeepsEs ==
  /\ mounted /\ mounted' = FALSE
  /\ conn' = IF es = None THEN conn ELSE [conn EXCEPT ![es] = "closed"]
  /\ timer' = "none"
  /\ UNCHANGED <<server, sub, breaks, es, lastSeq, call, mounts, dispatched>>

\* disconnect() clears the stream and the timer, and knows nothing of call.
Unmount ==
  /\ mounted /\ mounted' = FALSE
  /\ conn' = IF es = None THEN conn ELSE [conn EXCEPT ![es] = "closed"]
  /\ es' = None /\ timer' = "none"
  /\ UNCHANGED <<server, sub, breaks, lastSeq, call, mounts, dispatched>>
-------------------------------------------------------------------------------
Init ==
  /\ clock = 0 /\ counter = [p \in Procs |-> 0]
  /\ txState = [t \in Txs |-> "open"] /\ rows = [t \in Txs |-> {}]
  /\ due = [t \in Txs |-> None] /\ sent = <<>> /\ outbox = {}
  /\ conn = [c \in Conns |-> "closed"] /\ sub = [c \in Conns |-> <<>>] /\ breaks = 0
  /\ es = None /\ timer = "none" /\ lastSeq = None /\ call = <<>>
  /\ mounts = 0 /\ mounted = FALSE /\ dispatched = {}

Publish(t) == Persist(t) \/ Fanout(t) \/ Commit(t) \/ Abort(t)

Replay == \E k \in DOMAIN call : ReplayRead(k) \/ ReplayDone(k)

Next ==
  \/ Tick
  \/ \E t \in Txs : Publish(t)
  \/ \E c \in Conns : Accept(c) \/ Receive(c) \/ Break(c)
  \/ Mount \/ TimerFires \/ Replay \/ Unmount

Spec == Init /\ [][Next]_vars

\* Timers fire, requests are answered or fail, and a connection attempt that does not
\* break is accepted; nobody has to publish, break a connection or leave the page.
FairSpec ==
  /\ Spec
  /\ WF_vars(TimerFires) /\ WF_vars(Replay)
  /\ \A c \in Conns : WF_vars(Accept(c))
-------------------------------------------------------------------------------
(* Properties *)

Live == {c \in Conns : conn[c] # "closed"}

Event == [ms : 0..MaxClock, n : Nat, tx : Txs]

\* The variables stay within their types, and this.es is never a closed EventSource.
TypeOK ==
  /\ \A t \in Txs : rows[t] \subseteq Event /\ due[t] \in Event \cup {None}
  /\ outbox \subseteq Event /\ dispatched \subseteq Event /\ ToSet(sent) \subseteq Event
  /\ conn \in [Conns -> {"closed", "connecting", "open"}]
  /\ es # None => es \in Live
  /\ timer \in {"none", "armed"}
  /\ lastSeq \in Event \cup {None}

\* One mount of the shell never has two streams, or a stream and a reconnect on its way
\* (hooks.ts: "opens the EventSource once and re-uses it").
OneStream ==
  mounts <= 1 =>
  Cardinality(Live) + Len(call) + (IF timer = "armed" THEN 1 ELSE 0) <= 1

\* The events were sent to Redis in this order.
SentBefore(a, b) == \E i, j \in DOMAIN sent : i < j /\ sent[i] = a /\ sent[j] = b

\* What a stream delivers is new to the tab, whichever processes publish: an event is sent
\* before it can be replayed, and a stream is subscribed after the replay was handed over.
\* Publishing after the commit, or opening the stream first, would deliver events twice.
StreamBringsNews ==
  [][\A c \in Conns :
        mounts <= 1 /\ conn[c] = "open" /\ sub[c] # <<>> /\ sub'[c] = Tail(sub[c])
          => Head(sub[c]) \notin dispatched]_sub

\* A replay repeats an event only because the cursor went back: after that event another
\* one with a lower number was sent, and handled.  Processes number by counters of their
\* own, so this happens; as long as events are sent in the order of their numbers, a replay
\* repeats none.
RepeatsExplained ==
  mounts <= 1 =>
  \A k \in DOMAIN call :
     call[k].answer # None =>
       \A e \in call[k].answer \cap dispatched :
          \E d \in dispatched : Before(d, e) /\ SentBefore(e, d)

\* Whatever breaks, a tab that stays on the page has an open stream again.
Reattaches ==
  [](mounted => <>(~mounted \/ (es # None /\ conn[es] = "open")))

\* "Clients reconnecting can replay any events they missed" (events_outbox.py): a
\* committed event is not left behind the cursor, unseen and no longer on its way.
InFlight == UNION ({ToSet(sub[c]) : c \in {d \in Conns : conn[d] = "open"}}
                   \cup {call[k].answer : k \in {j \in DOMAIN call : call[j].answer # None}})

NothingSkipped ==
  \A e \in outbox \ (dispatched \cup InFlight) :
     (\E d \in dispatched : Before(d, e)) => Before(lastSeq, e)
===============================================================================
