----------------------------- MODULE RunStream -----------------------------
(***************************************************************************)
(* How the web page follows a run: the run's events in the store, the      *)
(* stream a server connection reads from it (events of                     *)
(* web/routes/agent.py), and the page that consumes the stream, reconnects *)
(* and resumes after a reload (consume and boot of useWorkbench.ts, the    *)
(* reducer of state.ts).                                                   *)
(*                                                                         *)
(* The page runs one callback at a time, so a step of the page is what it  *)
(* does between two awaits.  Messages, tokens and titles are left out, and *)
(* so is the heartbeat, which the page ignores.                            *)
(***************************************************************************)
EXTENDS Integers, Sequences, FiniteSets, SequencesExt

CONSTANTS
    Runs,           \* run ids
    Chats,          \* threads a run can be sent to
    MaxEvents,      \* bound: seq of an event
    MaxAppends,     \* bound: events of all runs together when another is appended
    Asks,           \* which of them ask for an approval; the others carry text
    Keep,           \* retained_events_per_run
    Window,         \* MAX_RETAINED_EVENTS
    Tries,          \* attempts of one consume
    MaxTrouble      \* bound: reloads, selections and consumes that lose a connection

VARIABLES
    log,            \* number of events a run ever stored, which is the seq of its newest
    status,         \* of the run's row
    chat,           \* thread of the run
    conn,           \* the server's end of the page's connection
    consumer,       \* the consume that is not aborted
    sleepers,       \* runs whose consume was aborted in its pause
    cursor,         \* cursorRef
    page,           \* state of the reducer
    saved,          \* activeRun and runSeq in window.history.state
    posted,         \* runs whose POST is not answered
    asked,          \* what a selection or a boot waits for
    seen,           \* history: events given to the reducer of this page,
    shown,          \*   those that changed what it shows, and more than once
    repeated,
    replayed, cut,  \* history: runs resumed after a reload; those whose replay was one page of many
    trouble

vars == <<log, status, chat, conn, consumer, sleepers, cursor, page, saved,
          posted, asked, seen, shown, repeated, replayed, cut, trouble>>

None == 0       \* no run, no thread

Events == [run : Runs, seq : 1..MaxEvents]
Kind(e) ==
    IF status[e.run] = "closed" /\ e.seq = log[e.run] THEN "end"
    ELSE IF e.seq \in Asks THEN "ask" ELSE "text"

NoConn     == [at |-> "none", cursor |-> 0, batch |-> 0, got |-> FALSE]
NoConsumer == [run |-> None, at |-> "off", tries |-> 0]
NotSaved   == [run |-> None, seq |-> 0]
Fresh      == [thread |-> None, active |-> None, connected |-> FALSE, held |-> <<>>, approvals |-> {}]
Nothing    == [what |-> "none", id |-> None, events |-> <<>>, after |-> 0]
-----------------------------------------------------------------------------
(* The store *)

\* Events after n that the trim of _append_event_tx left
Stored(r, n) ==
    LET low == log[r] - Keep
        from == IF low > n THEN low ELSE n
    IN  [k \in 1..(log[r] - from) |-> [run |-> r, seq |-> from + k]]

\* list_events: the rows that fit a page, one at least
PagesOf(r, n) ==
    LET all == Stored(r, n)
    IN  IF all = <<>> THEN {<<>>} ELSE {SubSeq(all, 1, k) : k \in 1..Len(all)}

RunsOf(t) == {r \in Runs : status[r] # "none" /\ chat[r] = t}

\* list_thread_events, in the order the runs were created
ThreadEvents(t) == FlattenSeq([i \in 1..Cardinality(Runs) |->
    IF i \in RunsOf(t) THEN Stored(i, 0) ELSE <<>>])

\* Of all runs
StoredEvents == FoldFunction(+, 0, log)

Ended(r) == status[r] \in {"ended", "closed"}
-----------------------------------------------------------------------------
(* The reducer *)

CapEvents(s) == IF Len(s) <= Window THEN s ELSE SubSeq(s, Len(s) - Window + 1, Len(s))

Sorted(s) == FlattenSeq([k \in 1..MaxEvents |-> SelectSeq(s, LAMBDA e : e.seq = k)])

Known(p, e) == \E i \in DOMAIN p.held : p.held[i] = e

\* case "event"
Received(p, e) ==
    LET q == [p EXCEPT !.held = CapEvents(Sorted(Append(p.held, e)))]
    IN  IF Known(p, e) THEN p
        ELSE CASE Kind(e) = "text" -> q
               [] Kind(e) = "ask"  -> [q EXCEPT !.approvals = @ \union {e}]
               [] Kind(e) = "end"  -> [q EXCEPT !.active = None, !.connected = FALSE, !.approvals = {}]

\* case "run"
RunShown(p, r) == [p EXCEPT !.active = r, !.approvals = {}]

\* case "select"
Selected(p, t, events) ==
    [thread |-> t, held |-> CapEvents(events), approvals |-> {},
     active |-> IF t = p.thread THEN p.active ELSE None,
     connected |-> t = p.thread /\ p.connected]

\* case "stream_ended"
StreamEnded(p, r) ==
    IF p.active \notin {None, r} THEN p
    ELSE [p EXCEPT !.active = None, !.connected = FALSE]

\* Events given to the reducer one after the other; news are those that
\* change the view
Given(p, events) ==
    FoldLeft(LAMBDA acc, e : [page |-> Received(acc.page, e),
                              news |-> IF Known(acc.page, e) THEN acc.news ELSE acc.news \union {e}],
             [page |-> p, news |-> {}], events)

Note(events, news) ==
    /\ seen' = seen \union ToSet(events)
    /\ shown' = shown \union news
    /\ repeated' = repeated \union (shown \intersect news)
-----------------------------------------------------------------------------
Init ==
    /\ log = [r \in Runs |-> 0]
    /\ status = [r \in Runs |-> "none"]
    /\ chat = [r \in Runs |-> None]
    /\ conn = NoConn /\ consumer = NoConsumer /\ sleepers = {} /\ cursor = 0
    /\ page = Fresh
    /\ saved = NotSaved
    /\ posted = {} /\ asked = Nothing
    /\ seen = {} /\ shown = {} /\ repeated = {}
    /\ replayed = {} /\ cut = {} /\ trouble = 0

history == <<seen, shown, repeated, replayed, cut>>
network == <<conn, consumer, sleepers, cursor>>
-----------------------------------------------------------------------------
(* The run *)

\* append_event of a run at work; room is left for its last event
RunAppends(r) ==
    /\ status[r] = "running" /\ log[r] < MaxEvents - 1 /\ StoredEvents < MaxAppends
    /\ log' = [log EXCEPT ![r] = @ + 1]
    /\ UNCHANGED <<status, chat, network, page, saved, posted, asked, history, trouble>>

\* The transition to a terminal status, a transaction of its own ...
RunEnds(r) ==
    /\ status[r] = "running"
    /\ status' = [status EXCEPT ![r] = "ended"]
    /\ UNCHANGED <<log, chat, network, page, saved, posted, asked, history, trouble>>

\* ... before that of run.completed, run.failed, run.cancelled or run.rejected
RunTells(r) ==
    /\ status[r] = "ended"
    /\ status' = [status EXCEPT ![r] = "closed"]
    /\ log' = [log EXCEPT ![r] = @ + 1]
    /\ UNCHANGED <<chat, network, page, saved, posted, asked, history, trouble>>
-----------------------------------------------------------------------------
(* The stream: generate() of the events route *)

StreamLists ==
    /\ conn.at = "list"
    /\ \E b \in PagesOf(consumer.run, conn.cursor) :
         conn' = [conn EXCEPT !.at = IF b = <<>> THEN "look" ELSE "yield",
                              !.batch = Len(b), !.got = b # <<>>,
                              !.cursor = IF b = <<>> THEN @ ELSE Head(b).seq - 1]
    /\ UNCHANGED <<log, status, chat, consumer, sleepers, cursor, page, saved, posted, asked, history, trouble>>

\* What if: the cursor of the page is left where the consume began
OnEventForgets(e) ==
    /\ UNCHANGED cursor
    /\ saved' = [run |-> e.run, seq |-> cursor']
    /\ LET g == Given(page, <<e>>) IN page' = g.page /\ Note(<<e>>, g.news)

\* A frame reaches onEvent
OnEvent(e) ==
    /\ cursor' = IF e.seq > cursor THEN e.seq ELSE cursor
    /\ saved' = [run |-> e.run, seq |-> cursor']
    /\ LET g == Given(page, <<e>>) IN page' = g.page /\ Note(<<e>>, g.news)

StreamYields ==
    /\ conn.at = "yield"
    /\ OnEvent([run |-> consumer.run, seq |-> conn.cursor + 1])
    /\ conn' = [conn EXCEPT !.cursor = @ + 1, !.batch = @ - 1,
                            !.at = IF conn.batch = 1 THEN "look" ELSE "yield"]
    /\ UNCHANGED <<log, status, chat, consumer, sleepers, posted, asked, replayed, cut, trouble>>

\* What consume does after its loop; a runSeq without a run is never read
Leave(r) ==
    /\ saved' = NotSaved
    /\ page' = StreamEnded([page EXCEPT !.connected = FALSE], r)

Closes == Ended(consumer.run) /\ ~conn.got

\* The row is read after the events, so what is stored in between is not
\* part of got; a run that is deleted meanwhile is left out
StreamLooks ==
    /\ conn.at = "look"
    /\ IF Closes
         THEN conn' = NoConn /\ consumer' = NoConsumer /\ Leave(consumer.run)
         ELSE conn' = [conn EXCEPT !.at = "list"] /\ UNCHANGED <<consumer, saved, page>>
    /\ UNCHANGED <<log, status, chat, sleepers, cursor, posted, asked, history, trouble>>
-----------------------------------------------------------------------------
(* consume *)

\* Its start: the one before it returns at once, or when its pause is over
Follow(r, after) ==
    /\ sleepers' = IF consumer.at = "pause" THEN sleepers \union {consumer.run} ELSE sleepers
    /\ consumer' = [run |-> r, at |-> "connect", tries |-> 1]
    /\ conn' = NoConn
    /\ cursor' = after

Connect ==
    /\ consumer.at = "connect"
    /\ consumer' = [consumer EXCEPT !.at = "stream"]
    /\ conn' = [NoConn EXCEPT !.at = "list", !.cursor = cursor]
    /\ UNCHANGED <<log, status, chat, sleepers, cursor, page, saved, posted, asked, history, trouble>>

\* The connection is refused or lost
Disconnect ==
    /\ consumer.at \in {"connect", "stream"}
    /\ \/ consumer.tries = 1 /\ trouble < MaxTrouble /\ trouble' = trouble + 1
       \/ consumer.tries > 1 /\ UNCHANGED trouble
    /\ consumer' = [consumer EXCEPT !.at = "pause"]
    /\ conn' = NoConn
    /\ UNCHANGED <<log, status, chat, sleepers, cursor, page, saved, posted, asked, history>>

PauseEnds ==
    /\ consumer.at = "pause"
    /\ IF consumer.tries < Tries
         THEN /\ consumer' = [consumer EXCEPT !.at = "connect", !.tries = @ + 1]
              /\ UNCHANGED <<page, saved>>
         ELSE consumer' = NoConsumer /\ Leave(consumer.run)
    /\ UNCHANGED <<log, status, chat, conn, sleepers, cursor, posted, asked, history, trouble>>

\* An aborted consume finds its loop over and goes on behind it
SleeperWakes(r) ==
    /\ r \in sleepers
    /\ sleepers' = sleepers \ {r}
    /\ Leave(r)
    /\ UNCHANGED <<log, status, chat, conn, consumer, cursor, posted, asked, history, trouble>>
-----------------------------------------------------------------------------
(* The person at the page *)

\* send: to the selected thread or to a new one.  create_run stores the
\* row with its first event
Send(r, t) ==
    /\ \/ t = page.thread /\ UNCHANGED page
       \/ page.thread = None /\ RunsOf(t) = {} /\ page' = Selected(page, t, <<>>)
    /\ status[r] = "none" /\ \A s \in Runs : s < r => status[s] # "none"
    /\ status' = [status EXCEPT ![r] = "running"]
    /\ log' = [log EXCEPT ![r] = 1]
    /\ chat' = [chat EXCEPT ![r] = t]
    /\ posted' = posted \union {r}
    /\ UNCHANGED <<network, saved, asked, history, trouble>>

Sent(r) ==
    /\ r \in posted
    /\ posted' = posted \ {r}
    /\ saved' = [run |-> r, seq |-> 0]
    /\ page' = [RunShown(page, r) EXCEPT !.connected = TRUE]
    /\ Follow(r, 0)
    /\ UNCHANGED <<log, status, chat, asked, history, trouble>>

Decide(e) ==
    /\ e \in page.approvals /\ page.active = e.run
    /\ page' = [page EXCEPT !.approvals = @ \ {e}]
    /\ UNCHANGED <<log, status, chat, network, saved, posted, asked, history, trouble>>

\* selectThread: the answer is shown when it comes
Choose(t) ==
    /\ asked = Nothing /\ trouble < MaxTrouble
    /\ trouble' = trouble + 1
    /\ asked' = [Nothing EXCEPT !.what = "thread", !.id = t, !.events = ThreadEvents(t)]
    /\ UNCHANGED <<log, status, chat, network, page, saved, posted, history>>

Chosen ==
    /\ asked.what = "thread"
    /\ page' = Selected(page, asked.id, asked.events)
    /\ asked' = Nothing
    /\ UNCHANGED <<log, status, chat, network, saved, posted, history, trouble>>

\* The page is loaded again: only window.history.state stays
Reload ==
    /\ trouble < MaxTrouble
    /\ trouble' = trouble + 1
    /\ conn' = NoConn /\ consumer' = NoConsumer /\ sleepers' = {} /\ cursor' = 0
    /\ page' = Fresh /\ posted' = {}
    /\ asked' = [Nothing EXCEPT !.what = "boot"]
    /\ seen' = {} /\ shown' = {} /\ repeated' = {} /\ replayed' = {} /\ cut' = {}
    /\ UNCHANGED <<log, status, chat, saved>>

\* boot: the run to resume and the first page of its events ...
BootAsks ==
    /\ asked.what = "boot"
    /\ IF saved.run = None
         THEN asked' = Nothing
         ELSE \E h \in PagesOf(saved.run, 0) :
                asked' = [what |-> "history", id |-> saved.run, events |-> h, after |-> saved.seq]
    /\ UNCHANGED <<log, status, chat, network, page, saved, posted, history, trouble>>

\* ... are shown, and the stream is followed from where the page was
BootResumes ==
    /\ asked.what = "history"
    /\ LET g == Given(RunShown(page, asked.id), asked.events)
       IN  page' = [g.page EXCEPT !.connected = TRUE] /\ Note(asked.events, g.news)
    /\ Follow(asked.id, asked.after)
    /\ replayed' = replayed \union {asked.id}
    /\ cut' = IF Len(asked.events) < Len(Stored(asked.id, 0)) THEN cut \union {asked.id} ELSE cut
    /\ asked' = Nothing
    /\ UNCHANGED <<log, status, chat, saved, posted, trouble>>

BootFails ==
    /\ asked.what = "history"
    /\ saved' = NotSaved
    /\ asked' = Nothing
    /\ UNCHANGED <<log, status, chat, network, page, posted, history, trouble>>
-----------------------------------------------------------------------------
RunSteps  == \E r \in Runs : RunEnds(r) \/ RunTells(r) \/ RunAppends(r)
Following == StreamLists \/ StreamYields \/ StreamLooks \/ Connect \/ PauseEnds
PageSteps ==
    \/ \E r \in Runs : Sent(r) \/ SleeperWakes(r) \/ \E t \in Chats : Send(r, t)
    \/ \E e \in Events : Decide(e)
    \/ \E t \in Chats : Choose(t)
    \/ Chosen \/ Reload \/ BootAsks \/ BootResumes \/ BootFails \/ Disconnect

Next == RunSteps \/ Following \/ PageSteps

Spec == Init /\ [][Next]_vars
-----------------------------------------------------------------------------
(* Properties *)

TypeOK ==
    /\ status \in [Runs -> {"none", "running", "ended", "closed"}]
    /\ consumer.at \in {"off", "connect", "stream", "pause"}
    /\ conn.at \in {"none", "list", "yield", "look"} /\ (conn.at # "none" <=> consumer.at = "stream")
    /\ page.active \in Runs \union {None} /\ page.approvals \subseteq Events
    /\ seen \subseteq Events /\ cursor \in 0..MaxEvents

(* The page is given the events of a run without a hole, across lost        *)
(* connections, reloads and other runs: what is missing below an event was  *)
(* trimmed from the store, or the page was loaded again when the run had    *)
(* more than one page of events.                                            *)
NoHoles == \A e \in seen : \A k \in 1..(e.seq - 1) :
    \/ [run |-> e.run, seq |-> k] \in seen
    \/ k <= log[e.run] - Keep
    \/ e.run \in cut

(* No text is appended twice and no approval card comes back: an event      *)
(* changes the view once, except in a run that is replayed after a reload,  *)
(* where what the window no longer holds may come again.                    *)
ShownOnce == \A e \in repeated : e.run \in replayed

(* A page that shows a run as active, or itself as connected, has a consume *)
(* that will say when it is over, and an approval card answers a call of    *)
(* the active run: the decision is posted to that run.                      *)
ActiveIsFollowed ==
    /\ page.active # None => consumer.run = page.active
    /\ page.connected => consumer.at # "off"
    /\ page.active # None => \A e \in page.approvals : e.run = page.active
=============================================================================
