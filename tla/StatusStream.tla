---------------------------- MODULE StatusStream ----------------------------
(***************************************************************************)
(* One dashboard page that follows one run: the snapshot and the event     *)
(* stream of the progress API (process_api.py over                         *)
(* process_status_reader_redis.py), while the scripts of                   *)
(* process_reporter_redis_scripts.py write the run and trim its stream.    *)
(*                                                                         *)
(* Redis holds the events of the run, of which the stream retains a        *)
(* suffix, the execution graph and the task snapshots.  An event is known  *)
(* by its place in the history, and the revision of a task is the place of *)
(* its last event: both only have to grow.  Each call of the reader is a   *)
(* step of its own.                                                        *)
(***************************************************************************)
EXTENDS Integers, Sequences

CONSTANTS
    Task,       \* tasks of the run
    MaxEvents,  \* bound: events written
    MaxLen,     \* stream_maxlen: the events a trim keeps
    BatchSize,  \* GSVIBE_SSE_BATCH_SIZE
    MaxFaults   \* bound: broken connections and failed requests

ASSUME BoundsAssumption ==
    MaxEvents \in Nat \ {0} /\ MaxLen \in Nat \ {0} /\ BatchSize \in Nat \ {0} /\ MaxFaults \in Nat
ASSUME TaskAssumption == Task \cap {"run", "init"} = {}

VARIABLES
    log,        \* what each event is about: a task, "init" or "run"
    first,      \* the first event the stream retains
    over,       \* the run has a terminal status
    stored,     \* the task hash: the revision of each task
    snap,       \* the snapshot request: "none", or the read that comes next
    answer,     \* what the request has read so far
    page,       \* the page's store: version, graph, tasks known, revisions, terminal run seen
    conn,       \* the event stream: "closed", "retry", or the step _event_stream is at
    cursor,     \* ProcessEventStream.cursor: the last event the page got
    batch,      \* events read by _event_stream and not yet delivered
    faults      \* faults so far

redisVars == <<log, first, over, stored>>
snapVars == <<snap, answer>>
streamVars == <<conn, cursor, batch>>
vars == <<redisVars, snapVars, page, streamVars, faults>>

Event == Task \cup {"run", "init"}
Revision == [Task -> 0 .. MaxEvents]

\* INITIALIZE writes the execution graph and the rows of all tasks.
Initialized == \E i \in DOMAIN log : log[i] = "init"

NoAnswer == [id |-> 0, graph |-> FALSE, over |-> FALSE]

TypeOK ==
    /\ log \in Seq(Event) /\ Len(log) \in 1 .. MaxEvents
    /\ first \in DOMAIN log
    /\ over \in BOOLEAN
    /\ stored \in Revision
    /\ snap \in {"none", "id", "meta", "graph", "tasks"}
    /\ answer \in [id : 0 .. MaxEvents, graph : BOOLEAN, over : BOOLEAN]
    /\ page \in [loaded : BOOLEAN, graph : BOOLEAN, known : BOOLEAN, over : BOOLEAN, revision : Revision]
    /\ conn \in {"closed", "retry", "bounds", "read", "latest", "yield"}
    /\ cursor \in 0 .. Len(log)
    /\ batch \in Seq(1 .. Len(log)) /\ (conn = "yield" => batch # <<>>)
    /\ faults \in 0 .. MaxFaults

\* The run is queued; the page is opened and asks for a snapshot.
Init ==
    /\ log = <<"run">> /\ first = 1 /\ over = FALSE /\ stored = [t \in Task |-> 0]
    /\ snap = "id" /\ answer = NoAnswer
    /\ page = [loaded |-> FALSE, graph |-> FALSE, known |-> FALSE, over |-> FALSE,
               revision |-> [t \in Task |-> 0]]
    /\ conn = "closed" /\ cursor = 0 /\ batch = <<>>
    /\ faults = 0

-----------------------------------------------------------------------------
(* The writers. *)

\* XADD MAXLEN ~ : at least the newest MaxLen events stay, older ones may go.
AddEvents(events) ==
    /\ Len(log) + Len(events) <= MaxEvents
    /\ log' = log \o events
    /\ first' \in {first} \cup {f \in first .. Len(log') : Len(log') - f >= MaxLen - 1}

WriteInit == ~Initialized /\ AddEvents(<<"init">>) /\ UNCHANGED <<over, stored>>

WriteTask ==
    /\ Initialized
    /\ \E t \in Task : AddEvents(<<t>>) /\ stored' = [stored EXCEPT ![t] = Len(log) + 1]
    /\ UNCHANGED over

\* A status of the run; the scheduler's terminal one sweeps unfinished tasks in the same script.
WriteRun ==
    /\ ~over
    /\ \/ AddEvents(<<"run">>) /\ over' \in BOOLEAN /\ UNCHANGED stored
       \/ /\ Initialized
          /\ \E t \in Task : AddEvents(<<t, "run">>) /\ stored' = [stored EXCEPT ![t] = Len(log) + 1]
          /\ over' = TRUE

Write == (WriteInit \/ WriteTask \/ WriteRun) /\ UNCHANGED <<snapVars, page, streamVars, faults>>

-----------------------------------------------------------------------------
(* get_snapshot: the event id first, then one pipeline without a transaction. *)

SnapshotId ==
    /\ snap = "id"
    /\ answer' = [NoAnswer EXCEPT !.id = Len(log)]
    /\ snap' = "meta"
    /\ UNCHANGED <<redisVars, page, streamVars, faults>>

SnapshotMeta ==
    /\ snap = "meta"
    /\ answer' = [answer EXCEPT !.over = over]
    /\ snap' = "graph"
    /\ UNCHANGED <<redisVars, page, streamVars, faults>>

SnapshotGraph ==
    /\ snap = "graph"
    /\ answer' = [answer EXCEPT !.graph = Initialized]
    /\ snap' = "tasks"
    /\ UNCHANGED <<redisVars, page, streamVars, faults>>

\* The tasks are read, and replaceSnapshot takes the answer: a new stream replaces the old one,
\* unless the run is already at its end.
SnapshotTasks ==
    /\ snap = "tasks"
    /\ snap' = "none" /\ answer' = NoAnswer
    /\ page' = [loaded |-> TRUE, graph |-> answer.graph, known |-> Initialized,
                over |-> answer.over, revision |-> stored]
    /\ cursor' = answer.id
    /\ conn' = IF answer.over THEN "closed" ELSE "retry"
    /\ batch' = <<>>
    /\ UNCHANGED <<redisVars, faults>>

\* The request fails; the query client tries it again.
SnapshotFails ==
    /\ snap # "none"
    /\ faults < MaxFaults /\ faults' = faults + 1
    /\ snap' = "id" /\ answer' = NoAnswer
    /\ UNCHANGED <<redisVars, page, streamVars>>

\* refetchSnapshot cancels a request in flight.
Refetch == snap' = "id" /\ answer' = NoAnswer

\* The run query, every few seconds and after an event, until it answers with a terminal status.
PollRun ==
    /\ page.loaded /\ ~page.over
    /\ over
    /\ page' = [page EXCEPT !.over = TRUE]
    /\ conn' = "closed" /\ batch' = <<>>
    /\ UNCHANGED <<redisVars, snapVars, cursor, faults>>

-----------------------------------------------------------------------------
(* _event_stream and ProcessEventStream. *)

\* _cursor_expired; "0-0" is exempt.
Expired == cursor # 0 /\ cursor < first

StreamGoesTo(place) == conn' = place /\ UNCHANGED <<cursor, batch>>

\* Mutant of Reset: the stream is closed and nothing else happens.
ResetOnly == conn' = "closed" /\ batch' = <<>> /\ UNCHANGED <<cursor, snapVars>>

\* The reset event: the page closes the stream and asks for a new snapshot.
Reset ==
    /\ conn' = "closed" /\ batch' = <<>> /\ UNCHANGED cursor
    /\ Refetch

\* connect, up to the first check of the cursor; later the check before every read.
CheckBounds ==
    /\ conn \in {"retry", "bounds"}
    /\ \/ Expired /\ Reset
       \/ ~Expired /\ StreamGoesTo(IF conn = "retry" THEN "bounds" ELSE "read") /\ UNCHANGED snapVars
    /\ UNCHANGED <<redisVars, page, faults>>

Smaller(a, b) == IF a < b THEN a ELSE b
From == IF cursor + 1 < first THEN first ELSE cursor + 1

\* XREAD gives what is retained after the cursor, or after a while nothing.
ReadEvents ==
    /\ conn = "read"
    /\ LET upto == Smaller(Len(log), From + BatchSize - 1) IN
       batch' = [i \in 1 .. (upto - From + 1) |-> From + i - 1]
    /\ conn' = "latest"
    /\ UNCHANGED <<redisVars, snapVars, page, cursor, faults>>

\* Mutant of CheckLatest: an empty read is delivered too.
CheckLatestAlways ==
    /\ conn = "latest"
    /\ \/ Expired /\ Reset
       \/ ~Expired /\ StreamGoesTo("yield") /\ UNCHANGED snapVars
    /\ UNCHANGED <<redisVars, page, faults>>

\* Mutant of CheckLatest: what was read is delivered.
CheckLatestNot ==
    /\ conn = "latest"
    /\ StreamGoesTo(IF batch = <<>> THEN "bounds" ELSE "yield")
    /\ UNCHANGED <<redisVars, snapVars, page, faults>>

\* The check after the read: trimming may have overtaken it.
CheckLatest ==
    /\ conn = "latest"
    /\ \/ Expired /\ Reset
       \/ ~Expired /\ StreamGoesTo(IF batch = <<>> THEN "bounds" ELSE "yield") /\ UNCHANGED snapVars
    /\ UNCHANGED <<redisVars, page, faults>>

\* applyEvent: an event of an unknown task or of the initialization asks for a new snapshot,
\* an older revision is ignored.
Deliver ==
    /\ conn = "yield"
    /\ cursor' = Head(batch) /\ batch' = Tail(batch)
    /\ conn' = IF Len(batch) = 1 THEN "bounds" ELSE "yield"
    /\ LET e == Head(batch)
           about == log[e]
       IN /\ page' = IF about \in Task /\ page.known /\ e > page.revision[about]
                     THEN [page EXCEPT !.revision[about] = e] ELSE page
          /\ IF about = "init" \/ (about \in Task /\ ~page.known) THEN Refetch ELSE UNCHANGED snapVars
    /\ UNCHANGED <<redisVars, faults>>

\* The connection breaks, Redis is unavailable or the server ends the stream: the page comes
\* back after a delay, with the last id it got.
Break ==
    /\ conn \notin {"closed", "retry"}
    /\ faults < MaxFaults /\ faults' = faults + 1
    /\ conn' = "retry" /\ batch' = <<>>
    /\ UNCHANGED <<redisVars, snapVars, page, cursor>>

-----------------------------------------------------------------------------
Snapshot == SnapshotId \/ SnapshotMeta \/ SnapshotGraph \/ SnapshotTasks
Stream == CheckBounds \/ ReadEvents \/ CheckLatest \/ Deliver

Next == Write \/ Snapshot \/ SnapshotFails \/ PollRun \/ Stream \/ Break

Spec == Init /\ [][Next]_vars

\* Requests are answered and the stream's loop goes on; nothing has to be written or to break.
FairSpec == Spec /\ WF_vars(Snapshot) /\ WF_vars(Stream)

-----------------------------------------------------------------------------
(* Properties. *)

\* What the page shows includes every event up to its cursor: no event is lost between the
\* snapshot and the stream, to a trim that overtakes the stream, or to a broken connection.
\* An outstanding request is about to replace what is missing.
NothingMissed ==
    page.loaded /\ snap = "none" =>
        \A i \in 1 .. cursor :
            /\ log[i] \in Task => page.known /\ page.revision[log[i]] >= i
            /\ log[i] = "init" => page.graph /\ page.known

UpToDate == page.loaded /\ page.graph = Initialized /\ page.revision = stored

\* Until it has seen the run end, a page comes to show what is stored, whatever broke on the way.
PageCatchesUp == <>[](UpToDate \/ page.over)

=============================================================================
