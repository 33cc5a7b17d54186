--------------------------- MODULE EventStreamProofs ---------------------------
(***************************************************************************)
(* Proofs about EventStream, for any number of processes, transactions,    *)
(* EventSources and events, any page size and clock: the types, the single *)
(* stream of a mount, and what the order in which events are sent promises *)
(* the tab: a stream brings only news, and a replay repeats an event only  *)
(* when one with a lower number was sent after it.                         *)
(***************************************************************************)
EXTENDS EventStream, SequenceTheorems, FiniteSetTheorems, TLAPS

Connecting == [since : Event, answer : (SUBSET Event) \cup {None}]

Typed ==
  /\ clock \in 0..MaxClock /\ counter \in [Procs -> Nat]
  /\ rows \in [Txs -> SUBSET Event] /\ due \in [Txs -> Event \cup {None}]
  /\ outbox \subseteq Event /\ dispatched \subseteq Event /\ sent \in Seq(Event)
  /\ conn \in [Conns -> {"closed", "connecting", "open"}] /\ sub \in [Conns -> Seq(Event)]
  /\ es \in Conns \cup {None} /\ (es # None => es \in Live)
  /\ timer \in {"none", "armed"} /\ lastSeq \in Event \cup {None}
  /\ call \in Seq(Connecting) /\ mounts \in Nat

LEMMA RemoveAtIs ==
  ASSUME NEW S, NEW s \in Seq(S), NEW k \in 1..Len(s)
  PROVE  /\ RemoveAt(s, k) \in Seq(S) /\ Len(RemoveAt(s, k)) = Len(s) - 1
         /\ \A i \in 1..(Len(s) - 1) : RemoveAt(s, k)[i] = s[IF i < k THEN i ELSE i + 1]
<1> DEFINE a == SubSeq(s, 1, k - 1)
           b == SubSeq(s, k + 1, Len(s))
<1>0. Len(s) \in Nat /\ k \in Nat
  BY LenProperties
<1>1. a \in Seq(S) /\ Len(a) = k - 1 /\ \A i \in 1..(k - 1) : a[i] = s[i]
  BY <1>0
<1>2. b \in Seq(S) /\ Len(b) = Len(s) - k /\ \A i \in 1..(Len(s) - k) : b[i] = s[k + i]
  BY <1>0
<1>3. RemoveAt(s, k) = a \o b
  BY DEF RemoveAt
<1> HIDE DEF a, b
<1>4. /\ a \o b \in Seq(S) /\ Len(a \o b) = Len(a) + Len(b)
      /\ \A i \in 1..(Len(a) + Len(b)) : (a \o b)[i] = IF i <= Len(a) THEN a[i] ELSE b[i - Len(a)]
  BY <1>1, <1>2, ConcatProperties
<1>5. ASSUME NEW i \in 1..(Len(s) - 1) PROVE RemoveAt(s, k)[i] = s[IF i < k THEN i ELSE i + 1]
  <2>1. CASE i < k
    BY <1>0, <1>1, <1>2, <1>3, <1>4, <2>1
  <2>2. CASE i >= k
    <3> DEFINE j == i - (k - 1)
    <3>1. j \in 1..(Len(s) - k) /\ k + j = i + 1
      BY <1>0, <2>2
    <3>2. i \in 1..(Len(a) + Len(b)) /\ ~(i <= Len(a)) /\ i - Len(a) = j /\ ~(i < k)
      BY <1>0, <1>1, <1>2, <2>2
    <3> HIDE DEF j
    <3>3. (a \o b)[i] = b[j]
      BY <1>4, <3>2
    <3>4. b[j] = s[i + 1]
      BY <1>2, <3>1
    <3> QED BY <1>3, <3>2, <3>3, <3>4
  <2> QED BY <1>0, <2>1, <2>2
<1> QED
  BY <1>0, <1>1, <1>2, <1>3, <1>4, <1>5

LEMMA PageIs ==
  ASSUME NEW since, NEW page \in Pages(since)
  PROVE  page \subseteq outbox /\ \A e \in page : Before(since, e)
BY DEF Pages, Lowest

\* connect() opens a stream, or asks for a replay, or does nothing.
LEMMA ConnectIs ==
  ASSUME Typed, Connect
  PROVE  \/ es # None /\ UNCHANGED <<conn, es, call>>
         \/ /\ es = None /\ lastSeq # None /\ UNCHANGED <<conn, es>>
            /\ call' = Append(call, [since |-> lastSeq, answer |-> None])
            /\ call' \in Seq(Connecting)
         \/ /\ es = None /\ lastSeq = None /\ UNCHANGED call
            /\ \E c \in Conns : /\ conn[c] = "closed" /\ es' = c
                                /\ conn' = [conn EXCEPT ![c] = "connecting"]
<1>1. CASE lastSeq # None
  <2>1. [since |-> lastSeq, answer |-> None] \in Connecting
    BY <1>1 DEF Typed, Connecting
  <2>2. Append(call, [since |-> lastSeq, answer |-> None]) \in Seq(Connecting)
    BY <2>1, AppendProperties DEF Typed
  <2> QED BY <2>2 DEF Connect, Open
<1>2. CASE lastSeq = None
  BY <1>2 DEF Connect, Open
<1> QED
  BY <1>1, <1>2
-------------------------------------------------------------------------------
(* Types *)

LEMMA InitTyped == Init => Typed
<1> SUFFICES ASSUME Init PROVE Typed
  OBVIOUS
<1>1. sub \in [Conns -> Seq(Event)] /\ call \in Seq(Connecting) /\ sent \in Seq(Event)
  BY DEF Init
<1> QED
  BY <1>1, BoundsOK DEF Init, Typed, Live

LEMMA ServerTyped ==
  ASSUME Typed, Tick \/ \E t \in Txs : Publish(t)
  PROVE  Typed'
<1>1. UNCHANGED client /\ UNCHANGED <<conn, breaks>>
  BY DEF Tick, Publish, Persist, Fanout, Commit, Abort, client
<1>2. ASSUME Tick PROVE Typed'
  BY <1>1, <1>2, BoundsOK DEF Tick, Typed, Live, client
<1>3. ASSUME NEW t \in Txs, Persist(t) PROVE Typed'
  <2>1. ProcOf[t] \in Procs
    BY DEF Procs
  <2>2. NextSeq(t) \in Event
    BY <2>1 DEF NextSeq, Event, Typed
  <2>3. counter' \in [Procs -> Nat] /\ rows' \in [Txs -> SUBSET Event]
        /\ due' \in [Txs -> Event \cup {None}]
    BY <1>3, <2>1, <2>2 DEF Persist, Typed
  <2>4. UNCHANGED <<clock, outbox, sub, sent>>
    BY <1>3 DEF Persist
  <2> QED BY <1>1, <2>3, <2>4 DEF Typed, Live, client
<1>4. ASSUME NEW t \in Txs, Fanout(t) PROVE Typed'
  <2>1. due[t] \in Event /\ due' \in [Txs -> Event \cup {None}]
    BY <1>4 DEF Fanout, Typed
  <2>2. \A c \in Conns : Append(sub[c], due[t]) \in Seq(Event) /\ sub[c] \in Seq(Event)
    BY <2>1, AppendProperties DEF Typed
  <2>3. sub' \in [Conns -> Seq(Event)]
    BY <1>4, <2>2 DEF Fanout, Typed
  <2>4. UNCHANGED <<clock, counter, rows, outbox>> /\ sent' \in Seq(Event)
    BY <1>4, <2>1, AppendProperties DEF Fanout, Typed
  <2> QED BY <1>1, <2>1, <2>3, <2>4 DEF Typed, Live, client
<1>5. ASSUME NEW t \in Txs, Commit(t) \/ Abort(t) PROVE Typed'
  <2>1. UNCHANGED <<clock, counter, rows, due, sub, sent>> /\ outbox' \subseteq outbox \cup rows[t]
    BY <1>5 DEF Commit, Abort
  <2> QED BY <1>1, <2>1 DEF Typed, Live, client
<1> QED
  BY <1>2, <1>3, <1>4, <1>5 DEF Publish

LEMMA ConnsTyped ==
  ASSUME Typed, NEW c \in Conns, Accept(c) \/ Receive(c) \/ Break(c)
  PROVE  Typed'
<1>1. UNCHANGED server
  BY DEF Accept, Receive, Break, Fails
<1>2. ASSUME Accept(c) PROVE Typed'
  <2>1. /\ conn' \in [Conns -> {"closed", "connecting", "open"}] /\ Live' = Live
        /\ UNCHANGED client
    BY <1>2 DEF Accept, Typed, Live
  <2>2. sub' \in [Conns -> Seq(Event)]
    BY <1>2 DEF Accept, Typed
  <2> QED BY <1>1, <2>1, <2>2 DEF Typed, client, server
<1>3. ASSUME Receive(c) PROVE Typed'
  <2>1. sub[c] \in Seq(Event) /\ sub[c] # <<>>
    BY <1>3 DEF Receive, Typed
  <2>2. Head(sub[c]) \in Event /\ Tail(sub[c]) \in Seq(Event)
    BY <2>1
  <2>3. /\ lastSeq' \in Event /\ dispatched' \subseteq Event /\ sub' \in [Conns -> Seq(Event)]
        /\ UNCHANGED <<conn, es, timer, call, mounts>>
    BY <1>3, <2>2 DEF Receive, Typed
  <2> QED BY <1>1, <2>3 DEF Typed, Live, server
<1>4. ASSUME Break(c) PROVE Typed'
  <2>1. /\ conn' \in [Conns -> {"closed", "connecting", "open"}] /\ es' = None
        /\ timer' \in {"none", "armed"} /\ UNCHANGED <<sub, lastSeq, call, mounts, dispatched>>
    BY <1>4 DEF Break, Fails, ScheduleReconnect, Typed
  <2> QED BY <1>1, <2>1 DEF Typed, server
<1> QED
  BY <1>2, <1>3, <1>4

\* What connect() leaves: types, and this.es at a live stream.
LEMMA ConnectTyped ==
  ASSUME Typed, Connect
  PROVE  /\ conn' \in [Conns -> {"closed", "connecting", "open"}] /\ call' \in Seq(Connecting)
         /\ es' \in Conns \cup {None} /\ (es' # None => es' \in Live')
<1>1. CASE UNCHANGED <<conn, es, call>>
  BY <1>1 DEF Typed, Live
<1>2. CASE UNCHANGED <<conn, es>> /\ call' \in Seq(Connecting)
  BY <1>2 DEF Typed, Live
<1>3. CASE /\ UNCHANGED call
           /\ \E c \in Conns : /\ conn[c] = "closed" /\ es' = c
                               /\ conn' = [conn EXCEPT ![c] = "connecting"]
  BY <1>3 DEF Typed, Live
<1> QED
  BY <1>1, <1>2, <1>3, ConnectIs

LEMMA ClientTyped ==
  ASSUME Typed, Mount \/ TimerFires \/ Replay \/ Unmount
  PROVE  Typed'
<1>1. UNCHANGED <<server, sub>>
  BY DEF Mount, TimerFires, Replay, ReplayRead, ReplayDone, Unmount
<1>2. ASSUME Mount \/ TimerFires PROVE Typed'
  <2>1. Connect /\ timer' \in {"none", "armed"} /\ mounts' \in Nat /\ UNCHANGED <<lastSeq, dispatched>>
    BY <1>2 DEF Mount, TimerFires, Typed
  <2> QED BY <1>1, <2>1, ConnectTyped DEF Typed, server
<1>3. ASSUME Unmount PROVE Typed'
  <2>1. /\ conn' \in [Conns -> {"closed", "connecting", "open"}] /\ es' = None /\ timer' = "none"
        /\ UNCHANGED <<lastSeq, call, mounts, dispatched>>
    BY <1>3 DEF Unmount, Typed
  <2> QED BY <1>1, <2>1 DEF Typed, server
<1>4. ASSUME NEW k \in DOMAIN call, ReplayRead(k) PROVE Typed'
  <2>1. PICK answer \in Pages(call[k].since) \cup {{}} : call' = [call EXCEPT ![k].answer = answer]
    BY <1>4 DEF ReplayRead
  <2>2. answer \subseteq Event
    BY <2>1, PageIs DEF Typed
  <2>3. call[k] \in Connecting /\ k \in 1..Len(call)
    BY DEF Typed
  <2>4. [call[k] EXCEPT !.answer = answer] \in Connecting
    BY <2>2, <2>3 DEF Connecting
  <2>5. call' \in Seq(Connecting)
    BY <2>1, <2>3, <2>4 DEF Typed
  <2>6. UNCHANGED <<conn, es, timer, lastSeq, mounts, dispatched>>
    BY <1>4 DEF ReplayRead
  <2> QED BY <1>1, <2>5, <2>6 DEF Typed, Live, server
<1>5. ASSUME NEW k \in DOMAIN call, ReplayDone(k) PROVE Typed'
  <2>1. call[k] \in Connecting /\ k \in 1..Len(call) /\ call[k].answer # None
    BY <1>5 DEF Typed, ReplayDone
  <2>2. call[k].answer \subseteq Event
    BY <2>1 DEF Connecting
  <2>3. dispatched' \subseteq Event /\ lastSeq' \in Event \cup {None}
    BY <1>5, <2>2 DEF ReplayDone, Typed
  <2>4. call' \in Seq(Connecting)
    BY <1>5, <2>1, RemoveAtIs DEF ReplayDone, Typed
  <2>5. PICK c \in Conns : conn[c] = "closed" /\ es' = c /\ conn' = [conn EXCEPT ![c] = "connecting"]
    BY <1>5 DEF ReplayDone, Open
  <2>6. conn' \in [Conns -> {"closed", "connecting", "open"}] /\ es' \in Live'
    BY <2>5 DEF Typed, Live
  <2>7. UNCHANGED <<timer, mounts>>
    BY <1>5 DEF ReplayDone
  <2> QED BY <1>1, <2>3, <2>4, <2>5, <2>6, <2>7 DEF Typed, server
<1> QED
  BY <1>2, <1>3, <1>4, <1>5 DEF Replay

LEMMA NextTyped == Typed /\ [Next]_vars => Typed'
<1> SUFFICES ASSUME Typed, [Next]_vars PROVE Typed'
  OBVIOUS
<1>1. CASE UNCHANGED vars
  BY <1>1 DEF vars, server, client, Typed, Live
<1> QED
  BY <1>1, ServerTyped, ConnsTyped, ClientTyped DEF Next

\* The variables stay within their types and this.es is never a closed EventSource, with any
\* number of connections, mounts and pending calls of connect().
THEOREM TypeCorrect == Spec => []TypeOK
<1>1. Typed => TypeOK
  BY DEF Typed, TypeOK, ToSet
<1> QED
  BY <1>1, InitTyped, NextTyped, PTL DEF Spec
-------------------------------------------------------------------------------
(* One stream: of a mount's stream, replay and timer there is one at a time *)

\* At most one call of connect() waits, and then there is neither a stream nor a timer; the
\* only EventSource that is not closed is this.es.
Solo ==
  /\ mounts = 0 => es = None /\ call = <<>> /\ timer = "none"
  /\ mounts <= 1 =>
       /\ \A c \in Live : c = es
       /\ es # None => call = <<>> /\ timer = "none"
       /\ timer = "armed" => call = <<>>
       /\ Len(call) <= 1

OneLane == Typed /\ Solo

\* A stream is opened when there is none, no call and no timer.
LEMMA OpenSolo ==
  ASSUME Typed, NEW c \in Conns, conn[c] = "closed", es' = c,
         conn' = [conn EXCEPT ![c] = "connecting"], \A d \in Live : d = es, es = None
  PROVE  \A d \in Live' : d = es'
<1>1. \A d \in Conns : conn[d] = "closed"
  BY BoundsOK DEF Live
<1>2. \A d \in Conns : conn'[d] = IF d = c THEN "connecting" ELSE conn[d]
  BY DEF Typed
<1> QED
  BY <1>1, <1>2 DEF Live

LEMMA EmptyOrOne ==
  ASSUME Typed
  PROVE  /\ Len(call) \in Nat /\ (call = <<>> <=> Len(call) = 0)
         /\ \A k \in DOMAIN call : k \in 1..Len(call)
BY DEF Typed

LEMMA ConnectSolo ==
  ASSUME Typed, Connect, \A c \in Live : c = es, call = <<>>
  PROVE  /\ \A c \in Live' : c = es'
         /\ es' # None => call' = <<>>
         /\ Len(call') <= 1
<1>1. CASE es # None /\ UNCHANGED <<conn, es, call>>
  BY <1>1 DEF Live
<1>2. CASE /\ es = None /\ UNCHANGED <<conn, es>>
           /\ call' = Append(call, [since |-> lastSeq, answer |-> None])
  <2>1. Len(call') = 1
    BY <1>2
  <2> QED BY <1>2, <2>1 DEF Live
<1>3. CASE /\ es = None /\ UNCHANGED call
           /\ \E c \in Conns : /\ conn[c] = "closed" /\ es' = c
                               /\ conn' = [conn EXCEPT ![c] = "connecting"]
  <2>1. Len(call') <= 1 /\ call' = <<>>
    BY <1>3
  <2>2. \A c \in Live' : c = es'
    BY <1>3, OpenSolo
  <2> QED BY <2>1, <2>2
<1> QED
  BY <1>1, <1>2, <1>3, ConnectIs

LEMMA InitSolo == Init => Solo
  BY DEF Init, Solo, Live

LEMMA NextSolo ==
  ASSUME OneLane, [Next]_vars
  PROVE  Solo'
<1>0. Typed /\ Solo /\ Typed' /\ mounts \in Nat
  BY NextTyped DEF OneLane, Typed
<1>1. ASSUME UNCHANGED <<conn, es, timer, call, mounts>> PROVE Solo'
  BY <1>0, <1>1 DEF Solo, Live
<1>2. ASSUME Tick \/ \E t \in Txs : Publish(t) PROVE Solo'
  BY <1>1, <1>2 DEF Tick, Publish, Persist, Fanout, Commit, Abort, client
<1>3. ASSUME NEW c \in Conns, Accept(c) PROVE Solo'
  <2>1. UNCHANGED <<es, timer, call, mounts>> /\ Live' = Live
    BY <1>0, <1>3 DEF Accept, client, Live, Typed
  <2> QED BY <1>0, <2>1 DEF Solo
<1>4. ASSUME NEW c \in Conns, Receive(c) PROVE Solo'
  BY <1>1, <1>4 DEF Receive
<1>5. ASSUME NEW c \in Conns, Break(c) PROVE Solo'
  <2>1. /\ c \in Live /\ es' = None /\ UNCHANGED <<call, mounts>>
        /\ timer' = IF timer = "none" THEN "armed" ELSE timer
        /\ conn' = [d \in Conns |-> IF d = es THEN "closed"
                                    ELSE IF d = c THEN "connecting" ELSE conn[d]]
    BY <1>5 DEF Break, Fails, ScheduleReconnect, Live
  <2>2. mounts <= 1 => c = es /\ es # None
    BY <1>0, <2>1, BoundsOK DEF Solo
  <2>3. mounts <= 1 => Live' = {} /\ call = <<>> /\ timer = "none"
    BY <1>0, <2>1, <2>2 DEF Solo, Live
  <2>4. mounts # 0
    BY <1>0, <2>1, <2>2 DEF Solo
  <2> QED BY <1>0, <2>1, <2>3, <2>4 DEF Solo
<1>6. ASSUME Mount PROVE Solo'
  <2>1. Connect /\ mounts' = mounts + 1 /\ timer' = timer
    BY <1>6 DEF Mount
  <2>2. CASE mounts = 0
    <3>1. es = None /\ call = <<>> /\ timer = "none" /\ \A c \in Live : c = es
      BY <1>0, <2>2 DEF Solo
    <3> QED BY <1>0, <2>1, <3>1, ConnectSolo DEF Solo
  <2>3. CASE mounts # 0
    BY <1>0, <2>1, <2>3 DEF Solo
  <2> QED BY <2>2, <2>3
<1>7. ASSUME TimerFires PROVE Solo'
  <2>1. timer = "armed" /\ timer' = "none" /\ Connect /\ mounts' = mounts
    BY <1>7 DEF TimerFires
  <2>2. mounts # 0
    BY <1>0, <2>1 DEF Solo
  <2>3. CASE mounts <= 1
    <3>1. call = <<>> /\ \A c \in Live : c = es
      BY <1>0, <2>1, <2>3 DEF Solo
    <3> QED BY <1>0, <2>1, <2>2, <3>1, ConnectSolo DEF Solo
  <2> QED BY <1>0, <2>1, <2>2, <2>3 DEF Solo
<1>8. ASSUME NEW k \in DOMAIN call, ReplayRead(k) PROVE Solo'
  <2>1. PICK answer : call' = [call EXCEPT ![k].answer = answer]
    BY <1>8 DEF ReplayRead
  <2>2. UNCHANGED <<conn, es, timer, mounts>>
    BY <1>8 DEF ReplayRead
  <2>3. Len(call') = Len(call) /\ Len(call) \in Nat /\ k \in 1..Len(call)
    BY <1>0, <2>1, EmptyOrOne DEF Typed
  <2>4. call # <<>> /\ mounts # 0
    BY <1>0, <2>3, EmptyOrOne DEF Solo
  <2> QED BY <1>0, <2>2, <2>3, <2>4 DEF Solo, Live
<1>9. ASSUME NEW k \in DOMAIN call, ReplayDone(k) PROVE Solo'
  <2>1. k \in 1..Len(call) /\ Len(call) \in Nat /\ call # <<>>
    BY <1>0, EmptyOrOne
  <2>2. Len(call') = Len(call) - 1 /\ UNCHANGED <<timer, mounts>>
    BY <1>0, <1>9, <2>1, RemoveAtIs DEF ReplayDone, Typed
  <2>3. PICK c \in Conns : conn[c] = "closed" /\ es' = c /\ conn' = [conn EXCEPT ![c] = "connecting"]
    BY <1>9 DEF ReplayDone, Open
  <2>4. mounts # 0
    BY <1>0, <2>1 DEF Solo
  <2>5. CASE mounts <= 1
    <3>1. es = None /\ timer = "none" /\ Len(call) = 1 /\ \A d \in Live : d = es
      <4>1. timer \in {"none", "armed"}
        BY <1>0 DEF Typed
      <4>2. /\ \A d \in Live : d = es
            /\ es # None => call = <<>>
            /\ timer = "armed" => call = <<>>
            /\ Len(call) <= 1
        BY <1>0, <2>5 DEF Solo
      <4>3. call # <<>>
        BY <2>1
      <4>4. es = None /\ timer = "none" /\ \A d \in Live : d = es
        BY <4>1, <4>2, <4>3
      <4>5. Len(call) <= 1 /\ Len(call) # 0 /\ Len(call) \in Nat
        BY <1>0, <4>2, <4>3, EmptyOrOne
      <4> QED BY <4>4, <4>5
    <3>2. Len(call') = 0 /\ call' = <<>>
      <4>1. call' \in Seq(Connecting) /\ Len(call') = 0
        BY <1>0, <1>9, <2>1, <2>2, <3>1, RemoveAtIs DEF ReplayDone, Typed
      <4> QED BY <4>1
    <3>3. \A d \in Live' : d = es'
      BY <1>0, <2>3, <3>1, OpenSolo
    <3> QED BY <2>2, <2>4, <3>1, <3>2, <3>3 DEF Solo
  <2> QED BY <1>0, <2>2, <2>4, <2>5 DEF Solo
<1>10. ASSUME Unmount PROVE Solo'
  <2>1. /\ es' = None /\ timer' = "none" /\ UNCHANGED <<call, mounts>>
        /\ conn' = IF es = None THEN conn ELSE [conn EXCEPT ![es] = "closed"]
    BY <1>10 DEF Unmount
  <2>2. mounts <= 1 => Live' = {}
    <3> SUFFICES ASSUME mounts <= 1 PROVE Live' = {}
      OBVIOUS
    <3>1. CASE es = None
      BY <1>0, <2>1, <3>1, BoundsOK DEF Solo, Live
    <3>2. CASE es # None
      BY <1>0, <2>1, <3>2 DEF Solo, Live, Typed
    <3> QED BY <3>1, <3>2
  <2> QED BY <1>0, <2>1, <2>2 DEF Solo
<1>11. ASSUME UNCHANGED vars PROVE Solo'
  BY <1>1, <1>11 DEF vars, client
<1> QED
  BY <1>2, <1>3, <1>4, <1>5, <1>6, <1>7, <1>8, <1>9, <1>10, <1>11 DEF Next, Replay

LEMMA OneLaneHolds == Spec => []OneLane
<1>1. Init => OneLane
  BY InitTyped, InitSolo DEF OneLane
<1>2. OneLane /\ [Next]_vars => OneLane'
  BY NextTyped, NextSolo DEF OneLane
<1> QED
  BY <1>1, <1>2, PTL DEF Spec

\* One mount of the shell never has two streams, a stream and a replay, or a stream and a
\* reconnect on its way, however connections break and answers are late.
THEOREM OneStreamHolds == Spec => []OneStream
<1>1. OneLane => OneStream
  <2> SUFFICES ASSUME OneLane, mounts <= 1
               PROVE  Cardinality(Live) + Len(call) + (IF timer = "armed" THEN 1 ELSE 0) <= 1
    BY DEF OneStream
  <2>1. /\ \A c \in Live : c = es
        /\ es # None => call = <<>> /\ timer = "none"
        /\ timer = "armed" => call = <<>>
        /\ Len(call) <= 1 /\ Len(call) \in Nat /\ (call = <<>> <=> Len(call) = 0)
    BY EmptyOrOne DEF OneLane, Solo
  <2>2. CASE Live = {}
    BY <2>1, <2>2, FS_EmptySet
  <2>3. CASE Live # {}
    <3>1. Live = {es} /\ es # None
      BY <2>1, <2>3, BoundsOK DEF Live
    <3>2. Cardinality(Live) = 1
      BY <3>1, FS_Singleton
    <3> QED BY <2>1, <3>1, <3>2
  <2> QED BY <2>2, <2>3
<1> QED
  BY <1>1, OneLaneHolds, PTL
-------------------------------------------------------------------------------
(* The order of sending *)

\* Both are in s, and a comes first.
Precedes(s, a, b) == \E i, j \in DOMAIN s : i < j /\ s[i] = a /\ s[j] = b

\* Every event is of its transaction, below the counter of its process, and sent once at most;
\* only the last event that a transaction flushed may still have to be sent.
Numbering ==
  /\ \A t \in Txs : \A e \in rows[t] :
       /\ e.tx = t /\ e.n < counter[ProcOf[t]]
       /\ e \in ToSet(sent) \/ (due[t] # None /\ e = due[t])
  /\ \A t \in Txs : due[t] # None => due[t] \in rows[t] /\ due[t] \notin ToSet(sent)
  /\ \A i \in DOMAIN sent : sent[i] \in rows[sent[i].tx]
  /\ \A i, j \in DOMAIN sent : sent[i] = sent[j] => i = j

\* Nothing is committed, on its way or handled before it is sent.
AfterSent ==
  /\ outbox \subseteq ToSet(sent) /\ dispatched \subseteq ToSet(sent)
  /\ \A c \in Conns : \A i \in 1..Len(sub[c]) : sub[c][i] \in ToSet(sent)
  /\ \A k \in 1..Len(call) : call[k].answer # None => call[k].answer \subseteq ToSet(sent)

\* During one mount a stream holds, in the order of sending, what was sent after all that was
\* handled; a replay brings what is numbered above the cursor; and an event above the cursor
\* was handled only if one numbered below it was sent after it.
News ==
  mounts <= 1 =>
    /\ \A c \in Conns : conn[c] = "open" =>
         \A i \in 1..Len(sub[c]) :
           /\ \A j \in 1..Len(sub[c]) : i < j => Precedes(sent, sub[c][i], sub[c][j])
           /\ \A d \in dispatched : Precedes(sent, d, sub[c][i])
    /\ \A k \in 1..Len(call) :
         /\ call[k].since = lastSeq /\ lastSeq # None
         /\ call[k].answer # None => \A e \in call[k].answer : Before(lastSeq, e)
    /\ \A e \in dispatched :
         Before(lastSeq, e) => \E d \in dispatched : Before(d, e) /\ Precedes(sent, e, d)

Delivery == OneLane /\ Numbering /\ AfterSent /\ News

\* What sending one more event does to the order.
LEMMA AppendIs ==
  ASSUME NEW S, NEW s \in Seq(S), NEW e \in S
  PROVE  /\ Len(s) \in Nat /\ Len(Append(s, e)) = Len(s) + 1
         /\ DOMAIN s = 1..Len(s) /\ DOMAIN Append(s, e) = 1..(Len(s) + 1)
         /\ Append(s, e)[Len(s) + 1] = e /\ \A i \in 1..Len(s) : Append(s, e)[i] = s[i]
         /\ ToSet(Append(s, e)) = ToSet(s) \cup {e}
         /\ \A a, b : Precedes(s, a, b) => Precedes(Append(s, e), a, b)
         /\ \A a \in ToSet(s) : Precedes(Append(s, e), a, e)
<1>1. /\ Len(s) \in Nat /\ Len(Append(s, e)) = Len(s) + 1 /\ DOMAIN s = 1..Len(s)
      /\ Append(s, e)[Len(s) + 1] = e /\ \A i \in 1..Len(s) : Append(s, e)[i] = s[i]
  BY AppendProperties, LenProperties
<1>2. DOMAIN Append(s, e) = 1..(Len(s) + 1)
  BY <1>1, AppendProperties, LenProperties
<1> DEFINE z == Append(s, e)
<1> HIDE DEF z
<1>3. z = Append(s, e)
  BY DEF z
<1>4. \A i \in 1..(Len(s) + 1) : i \in 1..Len(s) \/ i = Len(s) + 1
  BY <1>1
<1>5. ToSet(z) = ToSet(s) \cup {e}
  BY <1>1, <1>2, <1>3, <1>4 DEF ToSet
<1>6. \A a, b : Precedes(s, a, b) => Precedes(z, a, b)
  BY <1>1, <1>2, <1>3 DEF Precedes
<1>7. ASSUME NEW a \in ToSet(s) PROVE Precedes(z, a, e)
  <2>1. PICK i \in 1..Len(s) : s[i] = a
    BY <1>1 DEF ToSet
  <2>2. i \in DOMAIN z /\ Len(s) + 1 \in DOMAIN z /\ i < Len(s) + 1
        /\ z[i] = a /\ z[Len(s) + 1] = e
    BY <1>1, <1>2, <1>3, <2>1
  <2> QED BY <2>2 DEF Precedes
<1> QED
  BY <1>1, <1>2, <1>3, <1>5, <1>6, <1>7

LEMMA BeforeTransitive ==
  ASSUME NEW a \in Event, NEW b \in Event, NEW c \in Event, Before(a, b), Before(b, c)
  PROVE  Before(a, c)
<1>1. /\ a.ms \in Nat /\ b.ms \in Nat /\ c.ms \in Nat
      /\ a.n \in Nat /\ b.n \in Nat /\ c.n \in Nat
  BY BoundsOK DEF Event
<1> QED
  BY <1>1 DEF Before

LEMMA EventIs == Event \subseteq [ms : Nat, n : Nat, tx : Txs]
BY BoundsOK DEF Event

LEMMA InitDelivery == Init => Numbering /\ AfterSent /\ News
<1> SUFFICES ASSUME Init PROVE Numbering /\ AfterSent /\ News
  OBVIOUS
<1>1. /\ outbox = {} /\ dispatched = {} /\ call = <<>> /\ sent = <<>>
      /\ \A c \in Conns : sub[c] = <<>>
      /\ \A t \in Txs : rows[t] = {} /\ due[t] = None
  BY DEF Init
<1>2. Len(<<>>) = 0 /\ DOMAIN <<>> = {}
  OBVIOUS
<1>3. Numbering
  BY <1>1, <1>2 DEF Numbering
<1>4. AfterSent
  BY <1>1, <1>2 DEF AfterSent
<1>5. News
  BY <1>1, <1>2 DEF News
<1> QED
  BY <1>3, <1>4, <1>5

\* An event takes a number that no event of its process has.
LEMMA PersistNumbers ==
  ASSUME Typed, Numbering, NEW t \in Txs, Persist(t)
  PROVE  Numbering'
<1> DEFINE e == NextSeq(t)
           p == ProcOf[t]
<1>1. /\ due[t] = None /\ counter' = [counter EXCEPT ![p] = @ + 1]
      /\ rows' = [rows EXCEPT ![t] = @ \cup {e}] /\ due' = [due EXCEPT ![t] = e]
      /\ sent' = sent
  BY DEF Persist
<1>2. p \in Procs /\ \A u \in Txs : ProcOf[u] \in Procs
  BY DEF Procs
<1>3. e.n = counter[p] /\ e.tx = t /\ e \in Event
  BY <1>2 DEF NextSeq, Event, Typed
<1>4. \A q \in Procs : counter[q] \in Nat /\ counter'[q] = IF q = p THEN counter[q] + 1 ELSE counter[q]
  BY <1>1, <1>2 DEF Typed
<1>5. p = ProcOf[t]
  OBVIOUS
<1> HIDE DEF e, p
<1>6. \A u \in Txs : /\ rows'[u] = IF u = t THEN rows[t] \cup {e} ELSE rows[u]
                     /\ due'[u] = IF u = t THEN e ELSE due[u]
  BY <1>1 DEF Typed
<1>7. e \notin rows[t] /\ e # None
  <2>1. e \in rows[t] => e.n < counter[p]
    BY <1>5 DEF Numbering
  <2>2. e \notin rows[t]
    BY <1>2, <1>3, <1>4, <2>1
  <2>3. e # None
    BY <1>3, EventIs, BoundsOK
  <2> QED BY <2>2, <2>3
<1>8. e \notin ToSet(sent)
  <2>1. ASSUME NEW i \in DOMAIN sent, sent[i] = e PROVE FALSE
    <3>1. e \in rows[e.tx]
      BY <2>1 DEF Numbering
    <3> QED BY <1>3, <1>7, <3>1
  <2> QED BY <2>1 DEF ToSet
<1>9. ASSUME NEW u \in Txs, NEW a \in rows'[u]
      PROVE  /\ a.tx = u /\ a.n < counter'[ProcOf[u]]
             /\ a \in ToSet(sent) \/ (due'[u] # None /\ a = due'[u])
  <2>1. CASE a \in rows[u]
    <3>1. a.tx = u /\ a.n < counter[ProcOf[u]] /\ a \in Event
      BY <2>1 DEF Numbering, Typed
    <3>2. a.n < counter'[ProcOf[u]]
      <4>1. a.n \in Nat /\ counter[ProcOf[u]] \in Nat
        BY <1>2, <1>4, <3>1 DEF Event
      <4> QED BY <1>2, <1>4, <3>1, <4>1
    <3>3. a \in ToSet(sent) \/ (due'[u] # None /\ a = due'[u])
      BY <1>1, <1>6, <2>1 DEF Numbering
    <3> QED BY <3>1, <3>2, <3>3
  <2>2. CASE u = t /\ a = e
    BY <1>2, <1>3, <1>4, <1>5, <1>6, <1>7, <2>2
  <2> QED BY <1>6, <2>1, <2>2
<1>10. \A u \in Txs : due'[u] # None => due'[u] \in rows'[u] /\ due'[u] \notin ToSet(sent)
  BY <1>6, <1>8 DEF Numbering
<1>11. \A i \in DOMAIN sent : sent[i] \in rows'[sent[i].tx]
  <2>1. \A i \in DOMAIN sent : sent[i] \in Event
    BY DEF Typed
  <2>2. \A i \in DOMAIN sent : sent[i].tx \in Txs
    BY <2>1 DEF Event
  <2> QED BY <1>6, <2>2 DEF Numbering
<1>12. \A i, j \in DOMAIN sent : sent[i] = sent[j] => i = j
  BY DEF Numbering
<1> QED
  BY <1>1, <1>9, <1>10, <1>11, <1>12 DEF Numbering

\* The event that was due is sent, after all others.
LEMMA FanoutNumbers ==
  ASSUME Typed, Numbering, NEW t \in Txs, Fanout(t)
  PROVE  Numbering'
<1> DEFINE e == due[t]
<1>1. /\ e # None /\ e \in Event /\ due' = [due EXCEPT ![t] = None] /\ sent' = Append(sent, e)
      /\ UNCHANGED <<counter, rows>>
  BY DEF Fanout, Typed
<1>2. e \in rows[t] /\ e \notin ToSet(sent) /\ e.tx = t
  BY <1>1 DEF Numbering
<1>3. e = due[t]
  OBVIOUS
<1> HIDE DEF e
<1>4. \A u \in Txs : due'[u] = IF u = t THEN None ELSE due[u]
  BY <1>1 DEF Typed
<1>5. sent \in Seq(Event)
  BY DEF Typed
<1>6. /\ Len(sent) \in Nat /\ DOMAIN sent = 1..Len(sent) /\ DOMAIN sent' = 1..(Len(sent) + 1)
      /\ sent'[Len(sent) + 1] = e /\ \A i \in 1..Len(sent) : sent'[i] = sent[i]
      /\ ToSet(sent') = ToSet(sent) \cup {e}
  BY <1>1, <1>5, AppendIs
<1>7. \A i \in DOMAIN sent' : i \in DOMAIN sent \/ i = Len(sent) + 1
  BY <1>6
<1>8. \A i \in DOMAIN sent : sent[i] # e
  BY <1>2 DEF ToSet
<1>9. ASSUME NEW u \in Txs, NEW a \in rows'[u]
      PROVE  /\ a.tx = u /\ a.n < counter'[ProcOf[u]]
             /\ a \in ToSet(sent') \/ (due'[u] # None /\ a = due'[u])
  BY <1>1, <1>3, <1>4, <1>6 DEF Numbering
<1>10. ASSUME NEW u \in Txs, due'[u] # None PROVE due'[u] \in rows'[u] /\ due'[u] \notin ToSet(sent')
  <2>1. u # t /\ due'[u] = due[u] /\ due[u] \in rows[u] /\ due[u] \notin ToSet(sent) /\ due[u].tx = u
    BY <1>4, <1>10 DEF Numbering
  <2> QED BY <1>1, <1>2, <1>6, <2>1
<1>11. \A i \in DOMAIN sent' : sent'[i] \in rows'[sent'[i].tx]
  <2>1. \A i \in DOMAIN sent : sent'[i] \in rows'[sent'[i].tx]
    BY <1>1, <1>6 DEF Numbering
  <2>2. sent'[Len(sent) + 1] \in rows'[sent'[Len(sent) + 1].tx]
    BY <1>1, <1>2, <1>6
  <2> QED BY <1>7, <2>1, <2>2
<1>12. \A i, j \in DOMAIN sent' : sent'[i] = sent'[j] => i = j
  BY <1>6, <1>7, <1>8 DEF Numbering
<1> QED
  BY <1>9, <1>10, <1>11, <1>12 DEF Numbering

\* Steps that neither number an event nor send one.
LEMMA NumberingStays ==
  ASSUME Numbering, UNCHANGED <<rows, due, counter, sent>>
  PROVE  Numbering'
BY DEF Numbering
-------------------------------------------------------------------------------
(* The order of sending: what is on its way to the handlers *)

\* Nothing is sent, added to a connection or a replay, or handled.
LEMMA NothingArrives ==
  ASSUME AfterSent, News, outbox' \subseteq ToSet(sent),
         UNCHANGED <<sent, dispatched, call, lastSeq, mounts>>,
         \A c \in Conns : \/ sub'[c] = <<>>
                          \/ sub'[c] = sub[c] /\ (conn'[c] = "open" => conn[c] = "open")
  PROVE  AfterSent' /\ News'
<1>1. Len(<<>>) = 0
  OBVIOUS
<1>2. AfterSent'
  <2>1. \A c \in Conns : \A i \in 1..Len(sub'[c]) : sub'[c][i] \in ToSet(sent)
    BY <1>1 DEF AfterSent
  <2> QED BY <2>1 DEF AfterSent
<1>3. News'
  BY <1>1 DEF News
<1> QED
  BY <1>2, <1>3

\* An event that is sent comes after all that was sent, hence after all a stream holds and all
\* that was handled.
LEMMA FanoutArrives ==
  ASSUME Delivery, NEW t \in Txs, Fanout(t)
  PROVE  AfterSent' /\ News'
<1> DEFINE e == due[t]
<1>0. Typed /\ AfterSent /\ News
  BY DEF Delivery, OneLane
<1>1. e \in Event /\ sent' = Append(sent, e) /\ UNCHANGED <<outbox, conn, call, lastSeq, mounts, dispatched>>
  BY <1>0 DEF Fanout, Typed, client
<1>2. \A c \in Conns : sub'[c] = sub[c] \/ (sub'[c] = Append(sub[c], e) /\ conn[c] = "open")
  BY DEF Fanout
<1>3. sent \in Seq(Event) /\ \A c \in Conns : sub[c] \in Seq(Event)
  BY <1>0 DEF Typed
<1> HIDE DEF e
<1>4. /\ ToSet(sent') = ToSet(sent) \cup {e}
      /\ \A a, b : Precedes(sent, a, b) => Precedes(sent', a, b)
      /\ \A a \in ToSet(sent) : Precedes(sent', a, e)
  BY <1>1, <1>3, AppendIs
<1>5. \A c \in Conns :
        /\ Len(sub[c]) \in Nat /\ Len(Append(sub[c], e)) = Len(sub[c]) + 1
        /\ Append(sub[c], e)[Len(sub[c]) + 1] = e
        /\ \A i \in 1..Len(sub[c]) : Append(sub[c], e)[i] = sub[c][i]
  BY <1>1, <1>3, AppendIs
<1>6. \A c \in Conns : \A i \in 1..Len(sub'[c]) :
        \/ i \in 1..Len(sub[c]) /\ sub'[c][i] = sub[c][i]
        \/ i = Len(sub[c]) + 1 /\ sub'[c][i] = e
  <2> TAKE c \in Conns
  <2>1. CASE sub'[c] = sub[c]
    BY <2>1
  <2>2. CASE sub'[c] = Append(sub[c], e)
    <3>1. Len(sub'[c]) = Len(sub[c]) + 1 /\ Len(sub[c]) \in Nat
      BY <1>5, <2>2
    <3>2. \A i \in 1..(Len(sub[c]) + 1) : i \in 1..Len(sub[c]) \/ i = Len(sub[c]) + 1
      BY <3>1
    <3> QED BY <1>5, <2>2, <3>1, <3>2
  <2> QED BY <1>2, <2>1, <2>2
<1>7. AfterSent'
  <2>1. \A c \in Conns : \A i \in 1..Len(sub'[c]) : sub'[c][i] \in ToSet(sent')
    BY <1>0, <1>4, <1>6 DEF AfterSent
  <2>2. \A k \in 1..Len(call') : call'[k].answer # None => call'[k].answer \subseteq ToSet(sent')
    BY <1>0, <1>1, <1>4 DEF AfterSent
  <2>3. outbox' \subseteq ToSet(sent') /\ dispatched' \subseteq ToSet(sent')
    BY <1>0, <1>1, <1>4 DEF AfterSent
  <2> QED BY <2>1, <2>2, <2>3 DEF AfterSent
<1>8. ASSUME mounts <= 1, NEW c \in Conns, conn[c] = "open", NEW i \in 1..Len(sub'[c])
      PROVE  /\ \A j \in 1..Len(sub'[c]) : i < j => Precedes(sent', sub'[c][i], sub'[c][j])
             /\ \A d \in dispatched : Precedes(sent', d, sub'[c][i])
  <2>1. \A j \in 1..Len(sub'[c]) : i < j => Precedes(sent', sub'[c][i], sub'[c][j])
    <3> SUFFICES ASSUME NEW j \in 1..Len(sub'[c]), i < j
                 PROVE  Precedes(sent', sub'[c][i], sub'[c][j])
      OBVIOUS
    <3>1. i \in 1..Len(sub[c]) /\ sub'[c][i] = sub[c][i]
      <4>1. j \in 1..Len(sub[c]) \/ j = Len(sub[c]) + 1
        BY <1>6
      <4>2. i # Len(sub[c]) + 1
        BY <1>5, <4>1
      <4> QED BY <1>6, <4>2
    <3>2. CASE j \in 1..Len(sub[c]) /\ sub'[c][j] = sub[c][j]
      BY <1>0, <1>4, <1>8, <3>1, <3>2 DEF News
    <3>3. CASE sub'[c][j] = e
      BY <1>0, <1>4, <3>1, <3>3 DEF AfterSent
    <3> QED BY <1>6, <3>2, <3>3
  <2>2. \A d \in dispatched : Precedes(sent', d, sub'[c][i])
    <3>1. CASE i \in 1..Len(sub[c]) /\ sub'[c][i] = sub[c][i]
      BY <1>0, <1>4, <1>8, <3>1 DEF News
    <3>2. CASE sub'[c][i] = e
      BY <1>0, <1>4, <3>2 DEF AfterSent
    <3> QED BY <1>6, <3>1, <3>2
  <2> QED BY <2>1, <2>2
<1>9. ASSUME mounts <= 1, NEW x \in dispatched, Before(lastSeq, x)
      PROVE  \E d \in dispatched : Before(d, x) /\ Precedes(sent', x, d)
  <2>1. PICK d \in dispatched : Before(d, x) /\ Precedes(sent, x, d)
    BY <1>0, <1>9 DEF News
  <2> QED BY <1>4, <2>1
<1>10. News'
  <2>1. mounts <= 1 => \A k \in 1..Len(call) :
          /\ call[k].since = lastSeq /\ lastSeq # None
          /\ call[k].answer # None => \A x \in call[k].answer : Before(lastSeq, x)
    BY <1>0 DEF News
  <2> QED BY <1>1, <1>8, <1>9, <2>1 DEF News
<1> QED
  BY <1>7, <1>10

LEMMA ServerDelivers ==
  ASSUME Delivery, Tick \/ \E t \in Txs : Publish(t)
  PROVE  Numbering' /\ AfterSent' /\ News'
<1>0. Typed /\ Numbering /\ AfterSent /\ News
  BY DEF Delivery, OneLane
<1>1. ASSUME NEW t \in Txs, Fanout(t) PROVE Numbering' /\ AfterSent' /\ News'
  BY <1>0, <1>1, FanoutNumbers, FanoutArrives
<1>2. ASSUME Tick \/ \E t \in Txs : Persist(t) \/ Commit(t) \/ Abort(t)
      PROVE  Numbering' /\ AfterSent' /\ News'
  <2>1. UNCHANGED <<sent, sub, conn, call, lastSeq, mounts, dispatched>>
    BY <1>2 DEF Tick, Persist, Commit, Abort, client
  <2>2. outbox' \subseteq ToSet(sent)
    <3>1. ASSUME NEW t \in Txs, Commit(t) PROVE outbox' \subseteq ToSet(sent)
      <4>1. due[t] = None /\ outbox' = outbox \cup rows[t]
        BY <3>1 DEF Commit
      <4>2. rows[t] \subseteq ToSet(sent)
        BY <1>0, <4>1 DEF Numbering
      <4> QED BY <1>0, <4>1, <4>2 DEF AfterSent
    <3>2. ASSUME Tick \/ \E t \in Txs : Persist(t) \/ Abort(t) PROVE outbox' = outbox
      BY <3>2 DEF Tick, Persist, Abort
    <3>3. outbox \subseteq ToSet(sent)
      BY <1>0 DEF AfterSent
    <3> QED BY <1>2, <3>1, <3>2, <3>3
  <2>3. AfterSent' /\ News'
    BY <1>0, <2>1, <2>2, NothingArrives
  <2>4. Numbering'
    <3>1. ASSUME Tick \/ \E t \in Txs : Commit(t) \/ Abort(t)
          PROVE  UNCHANGED <<rows, due, counter, sent>>
      BY <3>1 DEF Tick, Commit, Abort
    <3> QED BY <1>0, <1>2, <3>1, PersistNumbers, NumberingStays
  <2> QED BY <2>3, <2>4
<1> QED
  BY <1>1, <1>2 DEF Publish

\* A message that arrives is the first of those the one stream holds.
LEMMA ReceiveDelivers ==
  ASSUME Delivery, NEW c \in Conns, Receive(c)
  PROVE  AfterSent' /\ News'
<1> DEFINE s == sub[c]
           h == Head(sub[c])
<1>0. Typed /\ Solo /\ AfterSent /\ News
  BY DEF Delivery, OneLane
<1>1. /\ conn[c] = "open" /\ s # <<>> /\ lastSeq' = h /\ dispatched' = dispatched \cup {h}
      /\ sub' = [sub EXCEPT ![c] = Tail(s)] /\ UNCHANGED <<sent, outbox, conn, call, mounts>>
  BY DEF Receive, server
<1>2. s \in Seq(Event) /\ s # <<>>
  BY <1>0, <1>1 DEF Typed
<1>3. /\ Len(s) \in Nat /\ Len(s) >= 1 /\ h = s[1] /\ 1 \in 1..Len(s)
      /\ Len(Tail(s)) = Len(s) - 1
      /\ \A i \in 1..(Len(s) - 1) : Tail(s)[i] = s[i + 1] /\ i + 1 \in 1..Len(s) /\ 1 < i + 1
  BY <1>2, HeadTailProperties
<1>4. \A d \in Conns : sub'[d] = IF d = c THEN Tail(s) ELSE sub[d]
  BY <1>0, <1>1 DEF Typed
<1>5. h \in ToSet(sent)
  BY <1>0, <1>3 DEF AfterSent
<1> HIDE DEF s, h
<1>7. AfterSent'
  <2>1. \A i \in 1..Len(s) : s[i] \in ToSet(sent)
    BY <1>0 DEF AfterSent, s
  <2>2. \A d \in Conns : \A i \in 1..Len(sub'[d]) : sub'[d][i] \in ToSet(sent)
    BY <1>0, <1>3, <1>4, <2>1 DEF AfterSent
  <2>3. /\ \A k \in 1..Len(call') : call'[k].answer # None => call'[k].answer \subseteq ToSet(sent)
        /\ outbox' \subseteq ToSet(sent) /\ dispatched' \subseteq ToSet(sent)
    BY <1>0, <1>1, <1>5 DEF AfterSent
  <2> QED BY <1>1, <2>2, <2>3 DEF AfterSent
<1>8. ASSUME mounts <= 1
      PROVE  /\ \A d \in Conns : conn[d] = "open" =>
                  \A i \in 1..Len(sub'[d]) :
                    /\ \A j \in 1..Len(sub'[d]) : i < j => Precedes(sent, sub'[d][i], sub'[d][j])
                    /\ \A x \in dispatched' : Precedes(sent, x, sub'[d][i])
             /\ 1..Len(call) = {}
             /\ \A x \in dispatched' : Before(h, x) =>
                  \E d \in dispatched' : Before(d, x) /\ Precedes(sent, x, d)
  <2>1. c \in Live
    BY <1>1 DEF Live
  <2>2. c = es /\ call = <<>> /\ \A d \in Live : d = c
    BY <1>0, <1>8, <2>1, BoundsOK DEF Solo
  <2>3. /\ \A d \in dispatched : \A i \in 1..Len(s) : Precedes(sent, d, s[i])
        /\ \A i, j \in 1..Len(s) : i < j => Precedes(sent, s[i], s[j])
    BY <1>0, <1>1, <1>8 DEF News, s
  <2>4. ASSUME NEW d \in Conns, conn[d] = "open", NEW i \in 1..Len(sub'[d])
        PROVE  /\ \A j \in 1..Len(sub'[d]) : i < j => Precedes(sent, sub'[d][i], sub'[d][j])
               /\ \A x \in dispatched' : Precedes(sent, x, sub'[d][i])
    <3>1. d = c /\ sub'[d] = Tail(s)
      BY <1>4, <2>2, <2>4 DEF Live
    <3>2. i \in 1..(Len(s) - 1) /\ sub'[d][i] = s[i + 1]
      BY <1>3, <2>4, <3>1
    <3>3. \A j \in 1..Len(sub'[d]) : i < j => Precedes(sent, sub'[d][i], sub'[d][j])
      <4> TAKE j \in 1..Len(sub'[d])
      <4>1. j \in 1..(Len(s) - 1) /\ sub'[d][j] = s[j + 1] /\ j + 1 \in 1..Len(s)
        BY <1>3, <3>1
      <4>2. i + 1 \in 1..Len(s) /\ (i < j => i + 1 < j + 1)
        BY <1>3, <3>2, <4>1
      <4> QED BY <2>3, <3>2, <4>1, <4>2
    <3>4. i + 1 \in 1..Len(s) /\ 1 \in 1..Len(s) /\ 1 < i + 1
      BY <1>3, <3>2
    <3>5. Precedes(sent, h, s[i + 1])
      BY <1>3, <2>3, <3>4
    <3>6. \A x \in dispatched : Precedes(sent, x, s[i + 1])
      BY <2>3, <3>4
    <3> QED BY <1>1, <3>2, <3>3, <3>5, <3>6
  <2>5. 1..Len(call) = {}
    BY <2>2
  <2>6. ASSUME NEW x \in dispatched', Before(h, x)
        PROVE  \E d \in dispatched' : Before(d, x) /\ Precedes(sent, x, d)
    <3>1. x # h
      <4>1. h \in Event
        BY <1>2, <1>3
      <4>2. h.ms \in Nat /\ h.n \in Nat
        BY <4>1, BoundsOK DEF Event
      <4> QED BY <2>6, <4>2 DEF Before
    <3>2. x \in dispatched /\ Precedes(sent, x, h)
      BY <1>1, <1>3, <2>3, <2>6, <3>1
    <3> QED BY <1>1, <2>6, <3>2
  <2> QED BY <2>4, <2>5, <2>6
<1>9. News'
  BY <1>1, <1>8 DEF News
<1> QED
  BY <1>7, <1>9

LEMMA ConnsDeliver ==
  ASSUME Delivery, NEW c \in Conns, Accept(c) \/ Receive(c) \/ Break(c)
  PROVE  Numbering' /\ AfterSent' /\ News'
<1>0. Typed /\ Numbering /\ AfterSent /\ News
  BY DEF Delivery, OneLane
<1>1. UNCHANGED server
  BY DEF Accept, Receive, Break, Fails
<1>2. Numbering' /\ outbox' \subseteq ToSet(sent) /\ sent' = sent
  BY <1>0, <1>1, NumberingStays DEF server, AfterSent
<1>3. ASSUME Accept(c) PROVE AfterSent' /\ News'
  <2>1. /\ UNCHANGED <<dispatched, call, lastSeq, mounts>>
        /\ conn' = [conn EXCEPT ![c] = "open"] /\ sub' = [sub EXCEPT ![c] = <<>>]
    BY <1>3 DEF Accept, client
  <2>2. \A d \in Conns : \/ sub'[d] = <<>>
                         \/ sub'[d] = sub[d] /\ (conn'[d] = "open" => conn[d] = "open")
    BY <1>0, <2>1 DEF Typed
  <2> QED BY <1>0, <1>2, <2>1, <2>2, NothingArrives
<1>4. ASSUME Break(c) PROVE AfterSent' /\ News'
  <2>1. /\ UNCHANGED <<sub, dispatched, call, lastSeq, mounts>>
        /\ conn' = [d \in Conns |-> IF d = es THEN "closed"
                                    ELSE IF d = c THEN "connecting" ELSE conn[d]]
    BY <1>4 DEF Break, Fails
  <2>2. \A d \in Conns : conn'[d] = "open" => conn[d] = "open"
    BY <2>1
  <2> QED BY <1>0, <1>2, <2>1, <2>2, NothingArrives
<1> QED
  BY <1>2, <1>3, <1>4, ReceiveDelivers
-------------------------------------------------------------------------------
(* The order of sending: connect() and its replay *)

\* connect() awaits a replay from the cursor, or opens a stream that holds nothing yet.
LEMMA ConnectDelivers ==
  ASSUME Delivery, Connect, UNCHANGED <<server, sub, lastSeq, dispatched>>,
         mounts' \in Nat, mounts' <= 1 => mounts <= 1
  PROVE  AfterSent' /\ News'
<1>0. Typed /\ AfterSent /\ News /\ UNCHANGED <<sent, outbox>>
  BY DEF Delivery, OneLane, server
<1>1. Len(call) \in Nat
  BY <1>0, EmptyOrOne
<1>2. \A c \in Conns : conn'[c] = "open" => conn[c] = "open"
  BY <1>0, ConnectIs DEF Typed
<1>3. \A k \in 1..Len(call') :
        \/ k \in 1..Len(call) /\ call'[k] = call[k]
        \/ lastSeq # None /\ call'[k] = [since |-> lastSeq, answer |-> None]
  <2>1. CASE UNCHANGED call
    BY <2>1
  <2>2. CASE lastSeq # None /\ call' = Append(call, [since |-> lastSeq, answer |-> None])
    <3> DEFINE r == [since |-> lastSeq, answer |-> None]
    <3>1. call \in Seq(Connecting) /\ r \in Connecting
      BY <1>0, <2>2 DEF Typed, Connecting
    <3>2. call' = Append(call, r)
      BY <2>2
    <3>3. lastSeq # None /\ r = [since |-> lastSeq, answer |-> None]
      BY <2>2
    <3> HIDE DEF r
    <3>4. /\ Len(call') = Len(call) + 1 /\ call'[Len(call) + 1] = r
          /\ \A k \in 1..Len(call) : call'[k] = call[k]
      BY <3>1, <3>2, AppendProperties
    <3>5. \A k \in 1..Len(call') : k \in 1..Len(call) \/ k = Len(call) + 1
      BY <1>1, <3>4
    <3> QED BY <3>3, <3>4, <3>5
  <2> QED BY <1>0, <2>1, <2>2, ConnectIs
<1>4. \A k \in 1..Len(call') :
        call'[k].answer # None => k \in 1..Len(call) /\ call'[k] = call[k]
  BY <1>3
<1>5. AfterSent'
  <2>1. \A k \in 1..Len(call') : call'[k].answer # None => call'[k].answer \subseteq ToSet(sent)
    BY <1>0, <1>4 DEF AfterSent
  <2>2. \A c \in Conns : \A i \in 1..Len(sub'[c]) : sub'[c][i] \in ToSet(sent)
    BY <1>0 DEF AfterSent
  <2>3. outbox' \subseteq ToSet(sent) /\ dispatched' \subseteq ToSet(sent)
    BY <1>0 DEF AfterSent
  <2> QED BY <1>0, <2>1, <2>2, <2>3 DEF AfterSent
<1>6. News'
  <2>1. ASSUME mounts <= 1, NEW k \in 1..Len(call')
        PROVE  /\ call'[k].since = lastSeq /\ lastSeq # None
               /\ call'[k].answer # None => \A e \in call'[k].answer : Before(lastSeq, e)
    <3>1. CASE k \in 1..Len(call) /\ call'[k] = call[k]
      BY <1>0, <2>1, <3>1 DEF News
    <3>2. CASE lastSeq # None /\ call'[k] = [since |-> lastSeq, answer |-> None]
      BY <3>2
    <3> QED BY <1>3, <3>1, <3>2
  <2> QED BY <1>0, <1>2, <2>1 DEF News
<1> QED
  BY <1>5, <1>6

\* A replay answers with committed events above the cursor.
LEMMA ReplayReadDelivers ==
  ASSUME Delivery, NEW k \in DOMAIN call, ReplayRead(k)
  PROVE  AfterSent' /\ News'
<1>0. Typed /\ AfterSent /\ News /\ k \in 1..Len(call)
  BY EmptyOrOne DEF Delivery, OneLane
<1>1. UNCHANGED <<sent, outbox, conn, sub, lastSeq, mounts, dispatched>>
  BY DEF ReplayRead, server
<1>2. PICK answer \in Pages(call[k].since) \cup {{}} : call' = [call EXCEPT ![k].answer = answer]
  BY DEF ReplayRead
<1>3. answer \subseteq outbox /\ \A e \in answer : Before(call[k].since, e)
  BY <1>2, PageIs
<1>4. answer \subseteq ToSet(sent)
  BY <1>0, <1>3 DEF AfterSent
<1>5. Len(call') = Len(call) /\ \A j \in 1..Len(call) :
        call'[j] = IF j = k THEN [call[k] EXCEPT !.answer = answer] ELSE call[j]
  BY <1>0, <1>2 DEF Typed
<1>6. call[k] \in Connecting
  BY <1>0 DEF Typed
<1>7. call'[k].since = call[k].since /\ call'[k].answer = answer
  BY <1>0, <1>5, <1>6 DEF Connecting
<1>8. \A j \in 1..Len(call) : j # k => call'[j] = call[j]
  BY <1>5
<1>9. AfterSent'
  <2>1. \A j \in 1..Len(call') : call'[j].answer # None => call'[j].answer \subseteq ToSet(sent)
    BY <1>0, <1>4, <1>5, <1>7, <1>8 DEF AfterSent
  <2> QED BY <1>0, <1>1, <2>1 DEF AfterSent
<1>10. News'
  <2>1. ASSUME mounts <= 1, NEW j \in 1..Len(call)
        PROVE  /\ call'[j].since = lastSeq /\ lastSeq # None
               /\ call'[j].answer # None => \A e \in call'[j].answer : Before(lastSeq, e)
    <3>1. CASE j = k
      BY <1>0, <1>3, <1>7, <2>1, <3>1 DEF News
    <3>2. CASE j # k
      BY <1>0, <1>8, <2>1, <3>2 DEF News
    <3> QED BY <3>1, <3>2
  <2> QED BY <1>0, <1>1, <1>5, <2>1 DEF News
<1> QED
  BY <1>9, <1>10

\* connect() hands over its replay when there is no stream; the cursor goes up to the highest
\* event of it, or stays.
LEMMA ReplayDoneDelivers ==
  ASSUME Delivery, NEW k \in DOMAIN call, ReplayDone(k)
  PROVE  AfterSent' /\ News'
<1> DEFINE answer == call[k].answer
<1>0. Typed /\ Solo /\ AfterSent /\ News /\ k \in 1..Len(call) /\ Len(call) \in Nat
  BY EmptyOrOne DEF Delivery, OneLane
<1>1. /\ UNCHANGED <<sent, outbox, sub, mounts>> /\ dispatched' = dispatched \cup answer
      /\ call' = RemoveAt(call, k) /\ answer # None
      /\ \E c \in Conns : conn' = [conn EXCEPT ![c] = "connecting"]
      /\ \/ answer = {} /\ lastSeq' = lastSeq
         \/ lastSeq' \in answer /\ \A d \in answer : ~Before(lastSeq', d)
  BY DEF ReplayDone, Open, server
<1>2. /\ call \in Seq(Connecting) /\ Len(call') = Len(call) - 1
      /\ \A j \in 1..(Len(call) - 1) : call'[j] = call[IF j < k THEN j ELSE j + 1]
  BY <1>0, <1>1, RemoveAtIs DEF Typed
<1>3. \A j \in 1..Len(call') : \E i \in 1..Len(call) : call'[j] = call[i]
  <2> TAKE j \in 1..Len(call')
  <2>1. CASE j < k
    BY <1>0, <1>2, <2>1
  <2>2. CASE ~(j < k)
    BY <1>0, <1>2, <2>2
  <2> QED BY <2>1, <2>2
<1>4. answer \subseteq ToSet(sent) /\ answer \subseteq Event
  <2>1. call[k] \in Connecting
    BY <1>0 DEF Typed
  <2>2. answer \subseteq Event
    BY <1>1, <2>1 DEF Connecting
  <2>3. answer \subseteq ToSet(sent)
    BY <1>0, <1>1 DEF AfterSent
  <2> QED BY <2>2, <2>3
<1>5. mounts <= 1 =>
        lastSeq # None /\ lastSeq \in Event /\ \A e \in answer : Before(lastSeq, e)
  BY <1>0, <1>1 DEF News, Typed
<1> HIDE DEF answer
<1>6. AfterSent'
  <2>1. \A j \in 1..Len(call') : call'[j].answer # None => call'[j].answer \subseteq ToSet(sent)
    BY <1>0, <1>3 DEF AfterSent
  <2>2. \A c \in Conns : \A i \in 1..Len(sub'[c]) : sub'[c][i] \in ToSet(sent)
    BY <1>0, <1>1 DEF AfterSent
  <2>3. outbox' \subseteq ToSet(sent) /\ dispatched' \subseteq ToSet(sent)
    BY <1>0, <1>1, <1>4 DEF AfterSent
  <2> QED BY <1>1, <2>1, <2>2, <2>3 DEF AfterSent
<1>7. ASSUME mounts <= 1
      PROVE  /\ \A c \in Conns : conn'[c] # "open"
             /\ Len(call') = 0
  <2>1. Len(call) <= 1
    BY <1>0, <1>7 DEF Solo
  <2>2. Len(call) = 1 /\ Len(call') = 0
    BY <1>0, <1>2, <2>1
  <2>3. call # <<>>
    BY <1>0, <2>2, EmptyOrOne
  <2>4. \A c \in Conns : conn[c] = "closed"
    BY <1>0, <1>7, <2>3, BoundsOK DEF Solo, Live
  <2>5. \A c \in Conns : conn'[c] # "open"
    BY <1>0, <1>1, <2>4 DEF Typed
  <2> QED BY <2>2, <2>5
<1>8. ASSUME mounts <= 1, NEW e \in dispatched', Before(lastSeq', e)
      PROVE  \E d \in dispatched' : Before(d, e) /\ Precedes(sent, e, d)
  <2>1. e \in dispatched
    <3>1. CASE answer = {}
      BY <1>1, <3>1
    <3>2. CASE \A d \in answer : ~Before(lastSeq', d)
      BY <1>1, <1>8, <3>2
    <3> QED BY <1>1, <3>1, <3>2
  <2>2. Before(lastSeq, e)
    <3>1. CASE lastSeq' = lastSeq
      BY <1>8, <3>1
    <3>2. CASE lastSeq' \in answer
      <4>1. lastSeq \in Event /\ lastSeq' \in Event /\ e \in Event /\ Before(lastSeq, lastSeq')
        BY <1>0, <1>4, <1>5, <1>8, <2>1, <3>2 DEF Typed
      <4> QED BY <1>8, <4>1, BeforeTransitive
    <3> QED BY <1>1, <3>1, <3>2
  <2>3. PICK d \in dispatched : Before(d, e) /\ Precedes(sent, e, d)
    BY <1>0, <1>8, <2>1, <2>2 DEF News
  <2> QED BY <1>1, <2>3
<1>9. News'
  <2>1. Len(call') = 0 => 1..Len(call') = {}
    OBVIOUS
  <2> QED BY <1>1, <1>7, <1>8, <2>1 DEF News
<1> QED
  BY <1>6, <1>9

LEMMA ClientDelivers ==
  ASSUME Delivery, Mount \/ TimerFires \/ Replay \/ Unmount
  PROVE  Numbering' /\ AfterSent' /\ News'
<1>0. Typed /\ Numbering /\ AfterSent /\ News
  BY DEF Delivery, OneLane
<1>1. UNCHANGED server
  BY DEF Mount, TimerFires, Replay, ReplayRead, ReplayDone, Unmount
<1>2. Numbering' /\ outbox' \subseteq ToSet(sent) /\ sent' = sent
  BY <1>0, <1>1, NumberingStays DEF server, AfterSent
<1>3. ASSUME Mount \/ TimerFires PROVE AfterSent' /\ News'
  <2>1. /\ Connect /\ UNCHANGED <<sub, lastSeq, dispatched>>
        /\ mounts' = mounts \/ mounts' = mounts + 1
    BY <1>3 DEF Mount, TimerFires
  <2>2. mounts' \in Nat /\ (mounts' <= 1 => mounts <= 1)
    BY <1>0, <2>1 DEF Typed
  <2> QED BY <1>1, <2>1, <2>2, ConnectDelivers
<1>4. ASSUME Unmount PROVE AfterSent' /\ News'
  <2>1. /\ UNCHANGED <<sub, dispatched, call, lastSeq, mounts>>
        /\ conn' = IF es = None THEN conn ELSE [conn EXCEPT ![es] = "closed"]
    BY <1>4 DEF Unmount
  <2>2. \A d \in Conns : conn'[d] = "open" => conn[d] = "open"
    BY <1>0, <2>1 DEF Typed
  <2> QED BY <1>0, <1>2, <2>1, <2>2, NothingArrives
<1> QED
  BY <1>2, <1>3, <1>4, ReplayReadDelivers, ReplayDoneDelivers DEF Replay

LEMMA NextDelivery == Delivery /\ [Next]_vars => Delivery'
<1> SUFFICES ASSUME Delivery, [Next]_vars PROVE Delivery'
  OBVIOUS
<1>1. OneLane'
  BY NextTyped, NextSolo DEF Delivery, OneLane
<1>2. CASE UNCHANGED vars
  <2>1. Numbering' /\ AfterSent'
    BY <1>2, NumberingStays DEF Delivery, AfterSent, vars, server, client
  <2>2. News'
    BY <1>2 DEF Delivery, News, vars, server, client
  <2> QED BY <1>1, <2>1, <2>2 DEF Delivery
<1>3. CASE Next
  BY <1>1, <1>3, ServerDelivers, ConnsDeliver, ClientDelivers DEF Next, Delivery
<1> QED
  BY <1>2, <1>3

\* Whichever processes publish: an event is numbered and sent once, before it is committed,
\* carried or handled; a stream holds, in the order of sending, what was sent after all that
\* was handled; and what lies above the cursor was handled only if the cursor went back.
THEOREM DeliveryHolds == Spec => []Delivery
<1>1. Init => Delivery
  BY InitTyped, InitSolo, InitDelivery DEF Delivery, OneLane
<1> QED
  BY <1>1, NextDelivery, PTL DEF Spec

\* What a stream delivers during one mount was not handled before, by a replay or live,
\* whichever processes publish and however connections break.
THEOREM StreamBringsNewsHolds == Spec => StreamBringsNews
<1>1. ASSUME Delivery, mounts <= 1, NEW c \in Conns, conn[c] = "open", sub[c] # <<>>
      PROVE  Head(sub[c]) \notin dispatched
  <2>1. Typed /\ Numbering /\ News
    BY <1>1 DEF Delivery, OneLane
  <2>2. 1 \in 1..Len(sub[c]) /\ Head(sub[c]) = sub[c][1]
    BY <1>1, <2>1 DEF Typed
  <2>3. \A d \in dispatched : Precedes(sent, d, Head(sub[c]))
    BY <1>1, <2>1, <2>2 DEF News
  <2>4. ASSUME NEW e, Precedes(sent, e, e) PROVE FALSE
    <3>1. PICK i, j \in DOMAIN sent : i < j /\ sent[i] = e /\ sent[j] = e
      BY <2>4 DEF Precedes
    <3>2. i = j /\ i \in Nat
      BY <2>1, <3>1 DEF Numbering, Typed
    <3> QED BY <3>1, <3>2
  <2> QED BY <2>3, <2>4
<1>2. Delivery =>
        [\A c \in Conns :
           mounts <= 1 /\ conn[c] = "open" /\ sub[c] # <<>> /\ sub'[c] = Tail(sub[c])
             => Head(sub[c]) \notin dispatched]_sub
  BY <1>1
<1> QED
  BY <1>2, DeliveryHolds, PTL DEF StreamBringsNews

\* A replay repeats an event during one mount only if another one with a lower number was
\* sent after it and handled, whichever processes publish.
THEOREM RepeatsAreExplained == Spec => []RepeatsExplained
<1>1. Delivery => RepeatsExplained
  <2> SUFFICES ASSUME Delivery, mounts <= 1, NEW k \in DOMAIN call, call[k].answer # None,
                      NEW e \in call[k].answer \cap dispatched
               PROVE  \E d \in dispatched : Before(d, e) /\ SentBefore(e, d)
    BY DEF RepeatsExplained
  <2>1. k \in 1..Len(call) /\ News
    BY EmptyOrOne DEF Delivery, OneLane
  <2>2. Before(lastSeq, e)
    BY <2>1 DEF News
  <2>3. PICK d \in dispatched : Before(d, e) /\ Precedes(sent, e, d)
    BY <2>1, <2>2 DEF News
  <2>4. SentBefore(e, d)
    BY <2>3 DEF SentBefore, Precedes
  <2> QED BY <2>3, <2>4
<1> QED
  BY <1>1, DeliveryHolds, PTL
===============================================================================
