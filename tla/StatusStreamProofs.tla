------------------------- MODULE StatusStreamProofs -------------------------
(***************************************************************************)
(* The page misses no event, for any number of tasks, events, retained     *)
(* events and faults, and any batch size.  The argument: a snapshot is     *)
(* read after the event id it carries, so it shows everything up to that   *)
(* id; what the stream delivers next always is the event after the cursor, *)
(* because a batch that jumps over trimmed events is overtaken by the      *)
(* check that follows the read.                                            *)
(***************************************************************************)
EXTENDS StatusStream, TLAPS

\* The events a task has had are in its row, and the graph was there before them.
LogInv ==
    \A i \in DOMAIN log :
        log[i] \in Task =>
            /\ stored[log[i]] >= i
            /\ \E j \in 1 .. i : log[j] = "init"

\* The id of an answer is an event; the graph is read after it.
AnswerInv ==
    /\ snap \in {"meta", "graph", "tasks"} => answer.id \in 1 .. Len(log)
    /\ snap = "tasks" => \A i \in 1 .. answer.id : log[i] = "init" => answer.graph

\* What is about to be delivered follows the cursor, unless the next check finds it expired.
Consecutive == \A i \in DOMAIN batch : batch[i] = cursor + i

BatchInv ==
    /\ conn # "closed" => page.loaded
    /\ page.loaded => cursor >= 1
    /\ conn = "latest" => cursor < first \/ Consecutive
    /\ conn = "yield" => Consecutive

StreamInv == TypeOK /\ LogInv /\ AnswerInv /\ BatchInv /\ NothingMissed

-----------------------------------------------------------------------------
(* The writers. *)

\* AddEvents leaves what is in the log where it is, and trims only forwards.
LEMMA LogGrows ==
    ASSUME TypeOK, NEW events \in Seq(Event), Len(events) >= 1, AddEvents(events)
    PROVE  /\ log' \in Seq(Event) /\ Len(log') = Len(log) + Len(events)
           /\ Len(log') \in 1 .. MaxEvents
           /\ \A i \in DOMAIN log : i \in DOMAIN log' /\ log'[i] = log[i]
           /\ \A i \in DOMAIN log' : i \in DOMAIN log \/ (i > Len(log) /\ log'[i] = events[i - Len(log)])
           /\ first' \in DOMAIN log' /\ first' >= first
BY BoundsAssumption DEF TypeOK, AddEvents

\* What a writer does to the stream and the task rows.
Grown ==
    /\ log' \in Seq(Event) /\ Len(log') \in 1 .. MaxEvents /\ Len(log') >= Len(log)
    /\ \A i \in DOMAIN log : i \in DOMAIN log' /\ log'[i] = log[i]
    /\ first' \in DOMAIN log' /\ first' >= first
    /\ stored' \in Revision
    /\ LogInv'

LEMMA RunEventGrows ==
    ASSUME TypeOK, LogInv, NEW e \in {"init", "run"}, NEW events, events = <<e>>,
           AddEvents(events), UNCHANGED stored
    PROVE  Grown
<1>1. events \in Seq(Event) /\ Len(events) = 1 /\ events[1] = e
    BY DEF Event
<1>2. log \in Seq(Event) /\ Len(log) \in Nat /\ stored \in Revision /\ e \notin Task
    BY TaskAssumption DEF TypeOK
<1>3. /\ log' \in Seq(Event) /\ Len(log') = Len(log) + 1 /\ Len(log') \in 1 .. MaxEvents
      /\ \A i \in DOMAIN log : i \in DOMAIN log' /\ log'[i] = log[i]
      /\ \A i \in DOMAIN log' : i \in DOMAIN log \/ (i > Len(log) /\ log'[i] = events[i - Len(log)])
      /\ first' \in DOMAIN log' /\ first' >= first
    <2>1. Len(events) >= 1
        BY <1>1
    <2>2. /\ log' \in Seq(Event) /\ Len(log') = Len(log) + Len(events) /\ Len(log') \in 1 .. MaxEvents
          /\ \A i \in DOMAIN log : i \in DOMAIN log' /\ log'[i] = log[i]
          /\ \A i \in DOMAIN log' : i \in DOMAIN log \/ (i > Len(log) /\ log'[i] = events[i - Len(log)])
          /\ first' \in DOMAIN log' /\ first' >= first
        BY <1>1, <2>1, LogGrows
    <2> QED BY <1>1, <2>2
<1>4. \A i \in DOMAIN log' : i \in DOMAIN log \/ log'[i] = e
    <2> SUFFICES ASSUME NEW i \in DOMAIN log', i > Len(log), log'[i] = events[i - Len(log)]
                 PROVE  log'[i] = e
        BY <1>3
    <2>1. i = Len(log) + 1
        BY <1>2, <1>3
    <2> QED BY <2>1, <1>1, <1>2
<1>5. LogInv'
    BY <1>2, <1>3, <1>4 DEF LogInv
<1> QED BY <1>2, <1>3, <1>5 DEF Grown

\* An event of a task, alone or before the terminal event of a sweep.
LEMMA TaskEventGrows ==
    ASSUME TypeOK, LogInv, Initialized,
           NEW t \in Task, NEW events \in {<<t>>, <<t, "run">>}, AddEvents(events),
           stored' = [stored EXCEPT ![t] = Len(log) + 1]
    PROVE  Grown
<1>1. /\ events \in Seq(Event) /\ Len(events) \in {1, 2} /\ Len(events) >= 1
      /\ events[1] = t /\ (Len(events) = 2 => events[2] = "run")
    <2>1. t \in Event /\ "run" \in Event
        BY DEF Event
    <2>2. CASE events = <<t>>
        BY <2>1, <2>2
    <2>3. CASE events = <<t, "run">>
        BY <2>1, <2>3
    <2> QED BY <2>2, <2>3
<1>2. /\ log' \in Seq(Event) /\ Len(log') = Len(log) + Len(events) /\ Len(log') \in 1 .. MaxEvents
      /\ \A i \in DOMAIN log : i \in DOMAIN log' /\ log'[i] = log[i]
      /\ \A i \in DOMAIN log' : i \in DOMAIN log \/ (i > Len(log) /\ log'[i] = events[i - Len(log)])
      /\ first' \in DOMAIN log' /\ first' >= first
    BY <1>1, LogGrows
<1>3. log \in Seq(Event) /\ Len(log) \in Nat /\ "run" \notin Task
    BY TaskAssumption DEF TypeOK
<1>4. \A i \in DOMAIN log' :
          i \in DOMAIN log \/ (i = Len(log) + 1 /\ log'[i] = t) \/ log'[i] = "run"
    <2> SUFFICES ASSUME NEW i \in DOMAIN log', i > Len(log), log'[i] = events[i - Len(log)]
                 PROVE  (i = Len(log) + 1 /\ log'[i] = t) \/ log'[i] = "run"
        BY <1>2
    <2>1. i = Len(log) + 1 \/ (i = Len(log) + 2 /\ Len(events) = 2)
        <3>1. i \in Nat /\ i <= Len(log) + Len(events)
            BY <1>2
        <3> QED BY <3>1, <1>1, <1>3
    <2>2. CASE i = Len(log) + 1
        BY <2>2, <1>1, <1>3
    <2>3. CASE i = Len(log) + 2 /\ Len(events) = 2
        <3>1. i - Len(log) = 2
            BY <2>3, <1>3
        <3> QED BY <3>1, <2>3, <1>1
    <2> QED BY <2>1, <2>2, <2>3
<1>5. stored' \in Revision
    <2>1. Len(log) + 1 \in 0 .. MaxEvents
        BY <1>1, <1>2, <1>3, BoundsAssumption
    <2> QED BY <2>1 DEF TypeOK, Revision
<1>6. ASSUME NEW i \in DOMAIN log', log'[i] \in Task
      PROVE  stored'[log'[i]] >= i /\ \E j \in 1 .. i : log'[j] = "init"
    <2>1. CASE i \in DOMAIN log
        <3>1. log'[i] = log[i] /\ i \in 1 .. Len(log)
            BY <2>1, <1>2, <1>3
        <3>2. stored[log[i]] >= i /\ stored[log[i]] \in Nat
            BY <2>1, <3>1, <1>6 DEF LogInv, TypeOK, Revision
        <3>3. stored'[log[i]] >= i
            BY <3>1, <3>2, <1>3, <1>6 DEF TypeOK, Revision
        <3>4. PICK j \in 1 .. i : log[j] = "init"
            BY <2>1, <3>1, <1>6 DEF LogInv
        <3>5. log'[j] = "init"
            BY <3>1, <3>4, <1>2, <1>3
        <3> QED BY <3>1, <3>3, <3>5
    <2>2. CASE i = Len(log) + 1 /\ log'[i] = t
        <3>1. stored'[t] = i
            BY <2>2 DEF TypeOK, Revision
        <3>2. PICK k \in DOMAIN log : log[k] = "init"
            BY DEF Initialized
        <3>3. k \in 1 .. i /\ log'[k] = "init"
            BY <2>2, <3>2, <1>2, <1>3
        <3> QED BY <2>2, <3>1, <3>3, <1>3
    <2> QED BY <2>1, <2>2, <1>3, <1>4, <1>6
<1> QED BY <1>2, <1>3, <1>5, <1>6 DEF Grown, LogInv

\* A writer adds at most one event of one task, and its row then carries that event.
LEMMA WritersGrow ==
    ASSUME TypeOK, LogInv, WriteInit \/ WriteTask \/ WriteRun
    PROVE  Grown /\ over' \in BOOLEAN
<1>1. CASE WriteInit
    BY <1>1, RunEventGrows DEF WriteInit, TypeOK
<1>2. CASE WriteTask
    BY <1>2, TaskEventGrows DEF WriteTask, TypeOK
<1>3. CASE WriteRun
    <2>1. CASE AddEvents(<<"run">>) /\ over' \in BOOLEAN /\ UNCHANGED stored
        BY <2>1, RunEventGrows
    <2>2. CASE /\ Initialized
               /\ \E t \in Task : AddEvents(<<t, "run">>) /\ stored' = [stored EXCEPT ![t] = Len(log) + 1]
               /\ over' = TRUE
        BY <2>2, TaskEventGrows
    <2> QED BY <1>3, <2>1, <2>2 DEF WriteRun
<1> QED BY <1>1, <1>2, <1>3

LEMMA WriteStep == StreamInv /\ Write => StreamInv'
<1> SUFFICES ASSUME StreamInv, Write PROVE StreamInv'
    OBVIOUS
<1>1. Grown /\ over' \in BOOLEAN /\ UNCHANGED <<snapVars, page, streamVars, faults>>
    BY WritersGrow DEF StreamInv, Write
<1> USE <1>1 DEF Grown, snapVars, streamVars
<1>2. log \in Seq(Event) /\ Len(log) \in 1 .. MaxEvents /\ cursor \in 0 .. Len(log)
      /\ first \in DOMAIN log /\ MaxEvents \in Nat
    BY BoundsAssumption DEF StreamInv, TypeOK
<1>3. TypeOK'
    <2>1. cursor' \in 0 .. Len(log') /\ (1 .. Len(log)) \subseteq (1 .. Len(log'))
        BY <1>2
    <2>2. batch' \in Seq(1 .. Len(log'))
        BY <2>1 DEF StreamInv, TypeOK
    <2> QED BY <2>1, <2>2 DEF StreamInv, TypeOK
<1>4. AnswerInv'
    BY <1>2 DEF StreamInv, AnswerInv, TypeOK
<1>5. BatchInv'
    BY <1>2 DEF StreamInv, BatchInv, Consecutive
<1>6. NothingMissed'
    BY <1>2 DEF StreamInv, NothingMissed
<1> QED BY <1>3, <1>4, <1>5, <1>6 DEF StreamInv

-----------------------------------------------------------------------------
(* The snapshot. *)

LEMMA EmptyBatch == ASSUME NEW S PROVE <<>> \in Seq(S)
OBVIOUS

LEMMA InitStream == Init => StreamInv
<1> SUFFICES ASSUME Init PROVE StreamInv
    OBVIOUS
<1>1. log \in Seq(Event) /\ Len(log) = 1 /\ log[1] = "run" /\ "run" \notin Task
    BY TaskAssumption DEF Event, Init
<1>2. TypeOK
    <2>1. [t \in Task |-> 0] \in Revision
        BY BoundsAssumption DEF Revision
    <2>2. page \in [loaded : BOOLEAN, graph : BOOLEAN, known : BOOLEAN, over : BOOLEAN, revision : Revision]
          /\ stored \in Revision
        BY <2>1 DEF Init
    <2>3. answer \in [id : 0 .. MaxEvents, graph : BOOLEAN, over : BOOLEAN]
        BY BoundsAssumption DEF NoAnswer, Init
    <2>4. batch \in Seq(1 .. Len(log)) /\ conn = "closed" /\ snap = "id" /\ over = FALSE
        BY EmptyBatch, Zenon DEF Init
    <2>5. /\ Len(log) \in 1 .. MaxEvents /\ first \in DOMAIN log
          /\ cursor \in 0 .. Len(log) /\ faults \in 0 .. MaxFaults
        BY <1>1, BoundsAssumption DEF Init
    <2> QED BY <1>1, <2>2, <2>3, <2>4, <2>5 DEF TypeOK
<1>3. LogInv
    BY <1>1 DEF LogInv
<1> QED BY <1>1, <1>2, <1>3 DEF StreamInv, AnswerInv, BatchInv, NothingMissed, Init

\* The reads before the last one only fill the answer.
LEMMA SnapshotReads ==
    StreamInv /\ (SnapshotId \/ SnapshotMeta \/ SnapshotGraph \/ SnapshotFails) => StreamInv'
<1> SUFFICES ASSUME StreamInv, SnapshotId \/ SnapshotMeta \/ SnapshotGraph \/ SnapshotFails
             PROVE  StreamInv'
    OBVIOUS
<1>1. UNCHANGED <<redisVars, page, streamVars>> /\ snap' # "none"
    BY DEF SnapshotId, SnapshotMeta, SnapshotGraph, SnapshotFails, Refetch
<1>2. TypeOK'
    <2>1. /\ answer' \in [id : 0 .. MaxEvents, graph : BOOLEAN, over : BOOLEAN]
          /\ snap' \in {"none", "id", "meta", "graph", "tasks"}
          /\ faults' \in 0 .. MaxFaults
        <3>1. CASE SnapshotId
            <4>1. answer' = [id |-> Len(log), graph |-> FALSE, over |-> FALSE] /\ snap' = "meta"
                  /\ faults' = faults
                BY <3>1 DEF SnapshotId, NoAnswer
            <4>2. Len(log) \in 0 .. MaxEvents /\ faults \in 0 .. MaxFaults
                BY BoundsAssumption DEF StreamInv, TypeOK
            <4> QED BY <4>1, <4>2
        <3> USE BoundsAssumption DEF StreamInv, TypeOK
        <3>2. CASE SnapshotMeta
            BY <3>2 DEF SnapshotMeta
        <3>3. CASE SnapshotGraph
            BY <3>3 DEF SnapshotGraph, Initialized
        <3>4. CASE SnapshotFails
            BY <3>4 DEF SnapshotFails, NoAnswer
        <3> QED BY <3>1, <3>2, <3>3, <3>4
    <2> QED BY <1>1, <2>1 DEF StreamInv, TypeOK, redisVars, streamVars
<1>3. AnswerInv'
    <2>1. log \in Seq(Event) /\ Len(log) \in 1 .. MaxEvents
        BY DEF StreamInv, TypeOK
    <2>2. CASE SnapshotId
        BY <2>1, <2>2, <1>1 DEF AnswerInv, SnapshotId, redisVars, NoAnswer
    <2>3. CASE SnapshotMeta
        BY <2>3, <1>1 DEF StreamInv, TypeOK, AnswerInv, SnapshotMeta, redisVars
    <2>4. CASE SnapshotGraph
        BY <2>1, <2>4, <1>1 DEF StreamInv, TypeOK, AnswerInv, SnapshotGraph, Initialized, redisVars
    <2>5. CASE SnapshotFails
        BY <2>5 DEF AnswerInv, SnapshotFails
    <2> QED BY <2>2, <2>3, <2>4, <2>5
<1>4. BatchInv' /\ LogInv' /\ NothingMissed'
    BY <1>1 DEF StreamInv, BatchInv, Consecutive, LogInv, NothingMissed, redisVars, streamVars
<1> QED BY <1>2, <1>3, <1>4 DEF StreamInv

\* The rows are read after the id, so they show every event up to it.
LEMMA SnapshotArrives == StreamInv /\ SnapshotTasks => StreamInv'
<1> SUFFICES ASSUME StreamInv, SnapshotTasks PROVE StreamInv'
    OBVIOUS
<1> USE DEF SnapshotTasks, redisVars
<1>1. log \in Seq(Event) /\ Len(log) \in 1 .. MaxEvents /\ MaxEvents \in Nat
      /\ answer.id \in 1 .. Len(log) /\ cursor' = answer.id
    BY BoundsAssumption DEF StreamInv, TypeOK, AnswerInv
<1>2. TypeOK'
    <2>1. page' \in [loaded : BOOLEAN, graph : BOOLEAN, known : BOOLEAN, over : BOOLEAN, revision : Revision]
        BY DEF StreamInv, TypeOK, Initialized
    <2> QED BY <1>1, <2>1, BoundsAssumption DEF StreamInv, TypeOK, NoAnswer
<1>3. AnswerInv'
    BY DEF AnswerInv
<1>4. BatchInv'
    BY <1>1 DEF BatchInv
<1>5. NothingMissed'
    <2> SUFFICES ASSUME NEW i \in 1 .. answer.id
                 PROVE  /\ log[i] \in Task => page'.known /\ page'.revision[log[i]] >= i
                        /\ log[i] = "init" => page'.graph /\ page'.known
        BY <1>1 DEF NothingMissed
    <2>1. i \in DOMAIN log
        BY <1>1
    <2>2. page'.known = Initialized /\ page'.graph = answer.graph /\ page'.revision = stored
        OBVIOUS
    <2>3. ASSUME log[i] = "init" PROVE page'.graph /\ page'.known
        BY <2>1, <2>2, <2>3 DEF StreamInv, AnswerInv, Initialized
    <2>4. ASSUME log[i] \in Task PROVE page'.known /\ page'.revision[log[i]] >= i
        <3>1. PICK j \in 1 .. i : log[j] = "init"
            BY <2>1, <2>4 DEF StreamInv, LogInv
        <3>2. j \in DOMAIN log
            BY <1>1, <2>1, <3>1
        <3> QED BY <2>1, <2>2, <2>4, <3>1, <3>2 DEF StreamInv, LogInv, Initialized
    <2> QED BY <2>3, <2>4
<1>6. LogInv'
    BY DEF StreamInv, LogInv
<1> QED BY <1>2, <1>3, <1>4, <1>5, <1>6 DEF StreamInv

-----------------------------------------------------------------------------
(* The stream. *)

\* Steps that deliver nothing and leave the snapshot alone or ask for a new one.
LEMMA QuietStep ==
    ASSUME StreamInv, UNCHANGED <<redisVars, cursor>>,
           UNCHANGED snapVars \/ Refetch,
           page' \in {page, [page EXCEPT !.over = TRUE]},
           TypeOK', BatchInv'
    PROVE  StreamInv'
<1>1. LogInv' /\ AnswerInv'
    BY DEF StreamInv, LogInv, AnswerInv, redisVars, snapVars, Refetch
<1>2. page'.loaded = page.loaded /\ page'.known = page.known /\ page'.graph = page.graph
      /\ page'.revision = page.revision
    BY DEF StreamInv, TypeOK
<1>3. NothingMissed'
    BY <1>2 DEF StreamInv, NothingMissed, redisVars, snapVars, Refetch
<1> QED BY <1>1, <1>3 DEF StreamInv

LEMMA PollAndBreak == StreamInv /\ (PollRun \/ Break) => StreamInv'
<1> SUFFICES ASSUME StreamInv, PollRun \/ Break PROVE StreamInv'
    OBVIOUS
<1>1. CASE PollRun
    <2>1. page' \in [loaded : BOOLEAN, graph : BOOLEAN, known : BOOLEAN, over : BOOLEAN, revision : Revision]
          /\ page'.loaded
        BY <1>1 DEF PollRun, StreamInv, TypeOK
    <2>2. batch' \in Seq(1 .. Len(log))
        BY <1>1 DEF PollRun
    <2>3. TypeOK'
        BY <1>1, <2>1, <2>2 DEF PollRun, StreamInv, TypeOK, redisVars, snapVars
    <2>4. BatchInv'
        BY <1>1, <2>1 DEF PollRun, StreamInv, BatchInv
    <2> QED BY <1>1, <2>3, <2>4, QuietStep DEF PollRun
<1>2. CASE Break
    <2>1. TypeOK' /\ BatchInv'
        BY <1>2, BoundsAssumption DEF Break, StreamInv, TypeOK, BatchInv, redisVars, snapVars
    <2> QED BY <1>2, <2>1, QuietStep DEF Break
<1> QED BY <1>1, <1>2

\* A check either resets or lets the stream go on where it is.
LEMMA CheckStep == StreamInv /\ (CheckBounds \/ CheckLatest) => StreamInv'
<1> SUFFICES ASSUME StreamInv, CheckBounds \/ CheckLatest PROVE StreamInv'
    OBVIOUS
<1>1. /\ UNCHANGED <<redisVars, cursor>> /\ page' = page /\ faults' = faults
      /\ UNCHANGED snapVars \/ Refetch
    BY DEF CheckBounds, CheckLatest, Reset, StreamGoesTo
<1>2. CASE Reset
    <2>1. TypeOK' /\ BatchInv'
        BY <1>1, <1>2, BoundsAssumption DEF Reset, Refetch, NoAnswer, StreamInv, TypeOK, BatchInv, redisVars
    <2> QED BY <1>1, <2>1, QuietStep
<1>3. CASE CheckBounds /\ ~Reset
    <2>1. TypeOK' /\ BatchInv'
        BY <1>1, <1>3 DEF CheckBounds, StreamGoesTo, StreamInv, TypeOK, BatchInv, redisVars, snapVars
    <2> QED BY <1>1, <2>1, QuietStep
<1>4. CASE CheckLatest /\ ~Reset
    <2>1. /\ conn = "latest" /\ UNCHANGED <<cursor, batch, snapVars>>
          /\ ~Expired /\ conn' = IF batch = <<>> THEN "bounds" ELSE "yield"
        BY <1>4 DEF CheckLatest, StreamGoesTo
    <2>2. Consecutive /\ page.loaded /\ cursor >= 1
        <3>1. page.loaded /\ cursor >= 1 /\ cursor \in Nat /\ first \in Nat
            BY <2>1 DEF StreamInv, TypeOK, BatchInv
        <3> QED BY <2>1, <3>1 DEF StreamInv, BatchInv, Expired
    <2>3. TypeOK'
        BY <1>1, <2>1 DEF StreamInv, TypeOK, redisVars, snapVars
    <2>4. BatchInv'
        BY <1>1, <2>1, <2>2 DEF BatchInv, Consecutive
    <2> QED BY <1>1, <2>3, <2>4, QuietStep
<1> QED BY <1>2, <1>3, <1>4

\* A read gives the events behind the cursor, or the first retained ones when those are gone.
LEMMA ReadStep == StreamInv /\ ReadEvents => StreamInv'
<1> SUFFICES ASSUME StreamInv, ReadEvents PROVE StreamInv'
    OBVIOUS
<1> DEFINE upto == Smaller(Len(log), From + BatchSize - 1)
           size == upto - From + 1
<1>1. /\ log \in Seq(Event) /\ Len(log) \in Nat \ {0} /\ first \in 1 .. Len(log)
      /\ cursor \in 0 .. Len(log) /\ BatchSize \in Nat \ {0}
      /\ conn = "latest" \/ TRUE
    BY BoundsAssumption DEF StreamInv, TypeOK
<1>2. From \in Nat \ {0} /\ From <= Len(log) + 1 /\ From >= cursor + 1 /\ (cursor >= first => From = cursor + 1)
    BY <1>1 DEF From
<1>3. size \in Nat /\ upto \in Nat /\ upto <= Len(log)
    BY <1>1, <1>2 DEF Smaller
<1>4. batch' = [i \in 1 .. size |-> From + i - 1] /\ conn = "read" /\ conn' = "latest"
      /\ UNCHANGED <<redisVars, snapVars, page, cursor, faults>>
    BY DEF ReadEvents
<1> HIDE DEF size, upto
<1>5. batch' \in Seq(1 .. Len(log)) /\ DOMAIN batch' = 1 .. size
    <2>1. \A i \in 1 .. size : From + i - 1 \in 1 .. Len(log)
        BY <1>1, <1>2, <1>3 DEF size
    <2> QED BY <1>3, <1>4, <2>1
<1>6. TypeOK'
    BY <1>4, <1>5 DEF StreamInv, TypeOK, redisVars, snapVars
<1>7. cursor' < first' \/ Consecutive'
    BY <1>1, <1>2, <1>4, <1>5 DEF Consecutive, redisVars
<1>8. BatchInv'
    BY <1>4, <1>7 DEF StreamInv, BatchInv
<1> QED BY <1>4, <1>6, <1>8, QuietStep

\* The event delivered is the one after the cursor.
LEMMA DeliverStep == StreamInv /\ Deliver => StreamInv'
<1> SUFFICES ASSUME StreamInv, Deliver PROVE StreamInv'
    OBVIOUS
<1> DEFINE e == cursor + 1
<1>1. /\ conn = "yield" /\ batch \in Seq(1 .. Len(log)) /\ batch # <<>>
      /\ cursor \in Nat /\ cursor >= 1 /\ page.loaded /\ Consecutive
      /\ log \in Seq(Event) /\ Len(log) \in 1 .. MaxEvents /\ MaxEvents \in Nat
    BY BoundsAssumption DEF Deliver, StreamInv, TypeOK, BatchInv
<1>2. Head(batch) = e /\ e \in 1 .. Len(log) /\ e \in DOMAIN log
    BY <1>1 DEF Consecutive
<1>3. /\ cursor' = e /\ batch' = Tail(batch) /\ UNCHANGED <<redisVars, faults>>
      /\ conn' = IF Len(batch) = 1 THEN "bounds" ELSE "yield"
      /\ page' = IF log[e] \in Task /\ page.known /\ e > page.revision[log[e]]
                 THEN [page EXCEPT !.revision[log[e]] = e] ELSE page
      /\ IF log[e] = "init" \/ (log[e] \in Task /\ ~page.known) THEN Refetch ELSE UNCHANGED snapVars
    BY <1>2 DEF Deliver
<1> HIDE DEF e
<1>4. batch' \in Seq(1 .. Len(log)) /\ Len(batch') = Len(batch) - 1 /\ Len(batch) \in Nat \ {0}
      /\ \A i \in DOMAIN batch' : i + 1 \in DOMAIN batch /\ batch'[i] = batch[i + 1] /\ i \in Nat
    BY <1>1, <1>3
<1>5. Consecutive'
    BY <1>1, <1>3, <1>4 DEF Consecutive, e
<1>6. /\ page' \in [loaded : BOOLEAN, graph : BOOLEAN, known : BOOLEAN, over : BOOLEAN, revision : Revision]
      /\ page'.loaded /\ page'.known = page.known /\ page'.graph = page.graph
      /\ \A t \in Task : page'.revision[t] >= page.revision[t]
      /\ log[e] \in Task /\ page.known => page'.revision[log[e]] >= e
    <2>1. page \in [loaded : BOOLEAN, graph : BOOLEAN, known : BOOLEAN, over : BOOLEAN, revision : Revision]
          /\ page.revision \in [Task -> 0 .. MaxEvents] /\ e \in 0 .. MaxEvents
        BY <1>1, <1>2 DEF StreamInv, TypeOK, Revision
    <2>2. CASE log[e] \in Task /\ page.known /\ e > page.revision[log[e]]
        <3>1. page' = [page EXCEPT !.revision = [page.revision EXCEPT ![log[e]] = e]]
            BY <2>2, <1>3
        <3>2. [page.revision EXCEPT ![log[e]] = e] \in Revision
            BY <2>1 DEF Revision
        <3>3. page' \in [loaded : BOOLEAN, graph : BOOLEAN, known : BOOLEAN, over : BOOLEAN, revision : Revision]
            BY <2>1, <3>1, <3>2
        <3>4. /\ page'.loaded = page.loaded /\ page'.known = page.known /\ page'.graph = page.graph
              /\ page'.revision = [page.revision EXCEPT ![log[e]] = e]
            BY <2>1, <3>1
        <3> QED BY <2>1, <2>2, <3>3, <3>4, <1>1
    <2>3. CASE ~(log[e] \in Task /\ page.known /\ e > page.revision[log[e]])
        BY <2>1, <2>3, <1>1, <1>3
    <2> QED BY <2>2, <2>3
<1>7. TypeOK'
    <2>1. snap' \in {"none", "id", "meta", "graph", "tasks"}
          /\ answer' \in [id : 0 .. MaxEvents, graph : BOOLEAN, over : BOOLEAN]
        <3>1. CASE Refetch
            BY <3>1, <1>1 DEF Refetch, NoAnswer
        <3>2. CASE UNCHANGED snapVars
            BY <3>2 DEF StreamInv, TypeOK, snapVars
        <3> QED BY <3>1, <3>2, <1>3
    <2>2. conn' = "yield" => batch' # <<>>
        <3> SUFFICES ASSUME Len(batch) # 1 PROVE Len(batch') # 0
            BY <1>3
        <3> QED BY <1>4
    <2>3. conn' \in {"closed", "retry", "bounds", "read", "latest", "yield"} /\ cursor' \in 0 .. Len(log)
        BY <1>2, <1>3
    <2>4. UNCHANGED <<log, first, over, stored, faults>>
        BY <1>3 DEF redisVars
    <2> QED BY <1>4, <1>6, <2>1, <2>2, <2>3, <2>4 DEF StreamInv, TypeOK
<1>8. LogInv' /\ AnswerInv'
    BY <1>3 DEF StreamInv, LogInv, AnswerInv, Refetch, snapVars, redisVars
<1>9. BatchInv'
    BY <1>1, <1>3, <1>5, <1>6 DEF BatchInv, e
<1>10. NothingMissed'
    <2> SUFFICES ASSUME snap' = "none", NEW i \in 1 .. e
                 PROVE  /\ log[i] \in Task => page'.known /\ page'.revision[log[i]] >= i
                        /\ log[i] = "init" => page'.graph /\ page'.known
        BY <1>3 DEF NothingMissed, redisVars
    <2>1. snap = "none" /\ log[e] # "init" /\ (log[e] \in Task => page.known)
        BY <1>3 DEF Refetch, snapVars
    <2>2. CASE i = e
        BY <2>1, <2>2, <1>6
    <2>3. CASE i # e
        <3>1. i \in 1 .. cursor
            BY <2>3, <1>1 DEF e
        <3>2. /\ log[i] \in Task => page.known /\ page.revision[log[i]] >= i
              /\ log[i] = "init" => page.graph /\ page.known
            BY <2>1, <3>1, <1>1 DEF StreamInv, NothingMissed
        <3>3. log[i] \in Task => page.revision[log[i]] \in Nat /\ page'.revision[log[i]] \in Nat
            BY <1>1, <1>6 DEF StreamInv, TypeOK, Revision
        <3> QED BY <3>1, <3>2, <3>3, <1>6
    <2> QED BY <2>2, <2>3
<1> QED BY <1>7, <1>8, <1>9, <1>10 DEF StreamInv

-----------------------------------------------------------------------------
LEMMA StreamStep == StreamInv /\ [Next]_vars => StreamInv'
<1> SUFFICES ASSUME StreamInv, [Next]_vars PROVE StreamInv'
    OBVIOUS
<1>1. CASE UNCHANGED vars
    BY <1>1 DEF StreamInv, TypeOK, LogInv, AnswerInv, BatchInv, Consecutive, NothingMissed,
        vars, redisVars, snapVars, streamVars
<1> QED BY <1>1, WriteStep, SnapshotReads, SnapshotArrives, PollAndBreak, CheckStep, ReadStep, DeliverStep
    DEF Next, Snapshot, Stream

THEOREM StreamCorrect == Spec => []StreamInv
BY InitStream, StreamStep, PTL DEF Spec

\* Every reachable state is well typed; what the stream delivers exists and is not empty.
THEOREM StreamTypeCorrect == Spec => []TypeOK
<1>1. StreamInv => TypeOK
    BY DEF StreamInv
<1> QED BY <1>1, StreamCorrect, PTL

\* The page shows every event up to its cursor, however the stream is trimmed, the connection
\* breaks and requests fail.
THEOREM PageMissesNothing == Spec => []NothingMissed
<1>1. StreamInv => NothingMissed
    BY DEF StreamInv
<1> QED BY <1>1, StreamCorrect, PTL
=============================================================================
