----------------------- MODULE BatchCoordinatorProofs -----------------------
(***************************************************************************)
(* Theorems about BatchCoordinator for any number of parallel items,       *)
(* serial segments and concurrent workers.                                 *)
(***************************************************************************)
EXTENDS BatchCoordinator, FiniteSetTheorems, TLAPS

-----------------------------------------------------------------------------
(* Types.                                                                  *)

LEMMA InitTypes == Init => TypeOK
<1> SUFFICES ASSUME Init PROVE TypeOK
    OBVIOUS
<1>1. FlagsOK
    BY Zenon DEF Init, FlagsOK
<1>2. next \in 1 .. (ParallelCount + SerialCount + 1)
    BY BatchAssumption DEF Init
<1>3. DataOK
    BY <1>2 DEF Init, DataOK, Owned
<1> QED BY <1>1, <1>3 DEF TypeOK

LEMMA StepFlags == FlagsOK /\ [Next]_vars => FlagsOK'
<1> SUFFICES ASSUME FlagsOK, [Next]_vars PROVE FlagsOK'
    OBVIOUS
<1> USE DEF FlagsOK, verdict, switches
<1>1. CASE AdmissionOver \/ Admit \/ WaitForWorkers \/ WaitIdle \/ AdmissionTimeout \/ GateError
    BY <1>1, Zenon DEF AdmissionOver, Admit, WaitForWorkers, WaitIdle, AdmissionTimeout,
       GateError, StopForGate
<1>2. CASE Launch \/ LaunchFails \/ SerialLaunchFails \/ Track
    BY <1>2, Zenon DEF Launch, LaunchFails, SerialLaunchFails, Track, CountFailed
<1>3. CASE \/ PollOver \/ Barrier \/ SerialOver \/ SerialWait \/ SerialRetry \/ SerialAdmit
           \/ SerialRefused \/ Finish \/ SweepOver
    BY <1>3, Zenon DEF PollOver, Barrier, SerialOver, SerialWait, SerialRetry, SerialAdmit,
       SerialRefused, Finish, SweepOver
<1>4. ASSUME NEW w \in Item, Supervise(w) PROVE FlagsOK'
    <2>1. CASE StillRunning(w) \/ Release(w) \/ Record(w)
        BY <2>1, Zenon DEF StillRunning, Release, Record
    <2>2. CASE RetireSucceeded(w) \/ RetireFailed(w) \/ RetireFailedSegment(w)
        BY <2>2, Zenon DEF RetireSucceeded, RetireFailed, RetireFailedSegment
    <2>3. CASE Kill(w)
        BY <2>3, Zenon DEF Kill
    <2>4. CASE BuryUnconfirmed(w) \/ BuryKilled(w) \/ BuryKilledSegment(w) \/ DropSegment(w)
        BY <2>4, Zenon DEF BuryUnconfirmed, BuryKilled, BuryKilledSegment, DropSegment
    <2>5. CASE SweepConfirmed(w) \/ SweepUnconfirmed(w)
        BY <2>5, Zenon DEF SweepConfirmed, SweepUnconfirmed
    <2> QED BY <1>4, <2>1, <2>2, <2>3, <2>4, <2>5, Zenon DEF Supervise
<1>5. CASE Interrupt \/ AdmissionExpires \/ Stopped \/ UNCHANGED vars
    BY <1>5, Zenon DEF Interrupt, AdmissionExpires, Stopped, vars
<1>6. ASSUME NEW i \in Item, WorkerExits(i) \/ WorkerExpires(i) PROVE FlagsOK'
    BY <1>6, Zenon DEF WorkerExits, WorkerExpires
<1> QED BY <1>1, <1>2, <1>3, <1>4, <1>5, <1>6, Zenon DEF Next, Coordinator

\* The two numbers need the invariants below; the rest is typed by itself.
LEMMA StepTypes ==
    ASSUME TypeOK, [Next]_vars, pc = "launched" => next \in Item,
           slots' \in Nat, next' \in 1 .. (ParallelCount + SerialCount + 1)
    PROVE  TypeOK'
<1> SUFFICES DataOK'
    BY StepFlags DEF TypeOK
<1> USE DEF TypeOK, DataOK, Owned, Ended, workers, verdict, switches
<1>1. CASE AdmissionOver \/ Admit \/ WaitForWorkers \/ WaitIdle
    BY <1>1 DEF AdmissionOver, Admit, WaitForWorkers, WaitIdle, EndAdmission
<1>12. CASE AdmissionTimeout \/ GateError
    BY <1>12 DEF AdmissionTimeout, GateError, StopForGate, EndAdmission
<1>2. CASE Launch \/ LaunchFails \/ SerialLaunchFails
    <2>1. CASE Launch
        BY <2>1 DEF Launch
    <2>2. CASE LaunchFails
        <3>1. next \in Item
            BY <2>2, BatchAssumption DEF LaunchFails, Pending, Parallel, Item
        <3> QED BY <2>2, <3>1 DEF LaunchFails, CountFailed, Because
    <2>3. CASE SerialLaunchFails
        <3>1. CASE next \in Item
            BY <2>3, <3>1 DEF SerialLaunchFails, CountFailed, Because
        <3>2. CASE next \notin Item
            BY <2>3, <3>2 DEF SerialLaunchFails, CountFailed, Because
        <3> QED BY <3>1, <3>2
    <2> QED BY <1>2, <2>1, <2>2, <2>3
<1>3. CASE Track
    BY <1>3 DEF Track, Pending, Parallel, Item
<1>4. CASE PollOver \/ SerialOver \/ SerialWait \/ SerialRetry \/ SerialAdmit \/ SweepOver
    BY <1>4 DEF PollOver, SerialOver, SerialWait, SerialRetry, SerialAdmit, SweepOver,
       SettleEvents
<1>5. CASE Barrier
    BY <1>5 DEF Barrier
<1>6. CASE SerialRefused
    <2>1. reason' \in {"memory_gate_error", "memory_admission_timeout", reason}
        BY <1>6 DEF SerialRefused, Because
    <2>2. /\ event' \in [Item -> {"not_executed", "running", "succeeded", "failed", "cancelled"}]
          /\ aborted' \subseteq Item
        BY <1>6 DEF SerialRefused, After
    <2>3. tally' \in [Item -> Nat]
        BY <1>6 DEF SerialRefused
    <2> QED BY <1>6, <2>1, <2>2, <2>3 DEF SerialRefused
<1>7. CASE Finish
    BY <1>7 DEF Finish, SettleEvents
<1>8. ASSUME NEW w \in Item, Supervise(w) PROVE DataOK'
    <2>1. CASE StillRunning(w) \/ Release(w) \/ Record(w)
        BY <2>1 DEF StillRunning, Release, Record
    <2>2. CASE RetireSucceeded(w) \/ RetireFailed(w) \/ RetireFailedSegment(w)
        <3>1. CASE RetireSucceeded(w)
            BY <3>1 DEF RetireSucceeded, Forget
        <3>2. CASE RetireFailed(w)
            BY <3>2 DEF RetireFailed, Forget, Because
        <3>3. CASE RetireFailedSegment(w)
            BY <3>3 DEF RetireFailedSegment, Forget, Because, After
        <3> QED BY <2>2, <3>1, <3>2, <3>3
    <2>3. CASE Kill(w)
        BY <2>3 DEF Because, Kill, After
    <2>4. CASE BuryUnconfirmed(w) \/ BuryKilled(w) \/ BuryKilledSegment(w) \/ DropSegment(w)
        BY <2>4 DEF BuryUnconfirmed, BuryKilled, BuryKilledSegment, DropSegment, Forget
    <2>5. CASE SweepConfirmed(w) \/ SweepUnconfirmed(w)
        BY <2>5 DEF SweepConfirmed, SweepUnconfirmed
    <2> QED BY <1>8, <2>1, <2>2, <2>3, <2>4, <2>5 DEF Supervise
<1>9. CASE Interrupt \/ AdmissionExpires \/ Stopped \/ UNCHANGED vars
    BY <1>9 DEF Interrupt, AdmissionExpires, Stopped, vars
<1>10. ASSUME NEW i \in Item, WorkerExits(i) \/ WorkerExpires(i) PROVE DataOK'
    BY <1>10 DEF WorkerExits, WorkerExpires
<1> QED BY <1>1, <1>12, <1>2, <1>3, <1>4, <1>5, <1>6, <1>7, <1>8, <1>9, <1>10 DEF Next, Coordinator
-----------------------------------------------------------------------------
(* The shape of the schedule: which loop runs, and whom it owns.           *)

Normal  == pc \notin {"sweep", "raised"}
Over    == pc \in {"final", "returned"}
Held    == active \union uncleaned
Busy    == {"record", "retire", "bury"}

InParallel ==
    \/ pc \in {"admit", "poll", "barrier"}
    \/ pc \in {"launch", "launched"} /\ next \in Parallel
    \/ pc \in Busy /\ todo \subseteq Parallel
InSerial ==
    \/ pc \in {"segment", "rest", "wait", "drop"}
    \/ pc \in {"launch", "launched"} /\ next \in Serial
    \/ pc \in Busy /\ todo = {next} /\ next \in Serial

\* The parallel loop owns items it has admitted, and knows why it gives up.
ParallelShape ==
    /\ active \subseteq Parallel /\ uncleaned \subseteq Parallel
    /\ \A i \in Held : i < next
    /\ next <= ParallelCount + 1
    /\ pc = "barrier" => active = {} /\ (stop \/ next \notin Parallel)
    /\ pc \in Busy => todo # {}
    /\ stop \/ uncleaned # {} \/ pc = "bury" => parFailed

\* The serial loop owns at most the segment it is at.
SerialShape ==
    /\ uncleaned = {} /\ ~parFailed
    /\ next \notin Parallel /\ (pc # "segment" => next \in Serial)
    /\ active = IF pc \in {"segment", "rest", "launch", "launched"} THEN {} ELSE {next}
    /\ todo = active

Shape ==
    /\ active \intersect uncleaned = {}
    /\ pc \in Owned => InParallel \/ InSerial
    /\ InParallel => ParallelShape
    /\ InSerial => SerialShape
    /\ Over => active = {}
ShapeInv == Normal => Shape

LEMMA ShapeStep == TypeOK /\ ShapeInv /\ [Next]_vars => ShapeInv'
<1> SUFFICES ASSUME TypeOK, ShapeInv, [Next]_vars, Normal' PROVE Shape'
    BY DEF ShapeInv
<1>0. /\ ParallelCount \in Nat /\ SerialCount \in Nat /\ next \in Nat
      /\ \A i \in Item : i \in Nat
    BY BatchAssumption DEF TypeOK, DataOK, Item
<1> USE <1>0 DEF TypeOK, DataOK, FlagsOK, Normal, ShapeInv, Owned, Ended, Busy, Item, Parallel, Serial,
           workers, verdict, switches,
           Shape, InParallel, InSerial, ParallelShape, SerialShape, Over, Held
<1>1. CASE AdmissionOver
    BY <1>1 DEF AdmissionOver, MayAdmit, Pending, EndAdmission
<1>2. CASE Admit
    BY <1>2 DEF Admit, MayAdmit, Pending
<1>3. CASE WaitForWorkers
    BY <1>3 DEF WaitForWorkers, MayAdmit, Pending, EndAdmission
<1>4. CASE WaitIdle
    BY <1>4 DEF WaitIdle, MayAdmit, Pending, EndAdmission
<1>5. CASE AdmissionTimeout
    BY <1>5 DEF AdmissionTimeout, MayAdmit, Pending, StopForGate, EndAdmission
<1>6. CASE GateError
    BY <1>6 DEF GateError, MayAdmit, Pending, StopForGate, EndAdmission
<1>7. CASE Launch
    BY <1>7 DEF Launch
<1>8. CASE LaunchFails
    BY <1>8 DEF LaunchFails, Pending
<1>9. CASE SerialLaunchFails
    BY <1>9 DEF SerialLaunchFails, Pending
<1>10. CASE Track
    <2>1. CASE Pending
        BY <1>10, <2>1 DEF Track, Pending
    <2>2. CASE ~Pending
        BY <1>10, <2>2 DEF Track, Pending
    <2> QED BY <2>1, <2>2
<1>11. CASE PollOver
    BY <1>11 DEF PollOver
<1>12. CASE Barrier
    BY <1>12 DEF Barrier, SerialBlocked
<1>13. CASE SerialOver
    BY <1>13 DEF SerialOver
<1>14. CASE SerialWait
    BY <1>14 DEF SerialWait
<1>15. CASE SerialRetry
    BY <1>15 DEF SerialRetry
<1>16. CASE SerialAdmit
    BY <1>16 DEF SerialAdmit
<1>17. CASE SerialRefused
    BY <1>17 DEF SerialRefused
<1>18. CASE Finish
    BY <1>18 DEF Finish
<1>19. CASE SweepOver
    BY <1>19 DEF SweepOver
<1>20. CASE Interrupt
    BY <1>20 DEF Interrupt
<1>21. CASE AdmissionExpires
    BY <1>21 DEF AdmissionExpires
<1>22. CASE Stopped
    BY <1>22 DEF Stopped, vars
<1>23. CASE UNCHANGED vars
    BY <1>23 DEF vars
<1>24. ASSUME NEW w \in Item, Supervise(w) PROVE Shape'
    <2>1. CASE StillRunning(w)
        BY <2>1 DEF StillRunning, First
    <2>2. CASE Release(w)
        BY <2>2 DEF Release, Supervised, First
    <2>3. CASE Record(w)
        BY <2>3 DEF Record, First
    <2>4. CASE RetireSucceeded(w)
        BY <2>4 DEF RetireSucceeded, Forget, First
    <2>5. CASE RetireFailed(w)
        BY <2>5 DEF RetireFailed, Forget, First
    <2>6. CASE RetireFailedSegment(w)
        BY <2>6 DEF RetireFailedSegment, Forget, First
    <2>7. CASE Kill(w)
        BY <2>7 DEF Kill, Supervised, First
    <2>8. CASE BuryUnconfirmed(w)
        BY <2>8 DEF BuryUnconfirmed, Forget, First
    <2>9. CASE BuryKilled(w)
        BY <2>9 DEF BuryKilled, Forget, First
    <2>10. CASE BuryKilledSegment(w)
        BY <2>10 DEF BuryKilledSegment, First
    <2>11. CASE DropSegment(w)
        BY <2>11 DEF DropSegment, Forget, First
    <2>12. CASE SweepConfirmed(w)
        BY <2>12 DEF SweepConfirmed, First
    <2>13. CASE SweepUnconfirmed(w)
        BY <2>13 DEF SweepUnconfirmed, First
    <2> QED BY <1>24, <2>1, <2>2, <2>3, <2>4, <2>5, <2>6, <2>7, <2>8, <2>9, <2>10, <2>11, <2>12,
       <2>13 DEF Supervise
<1>25. ASSUME NEW i \in Item, WorkerExits(i) PROVE Shape'
    BY <1>25 DEF WorkerExits
<1>26. ASSUME NEW i \in Item, WorkerExpires(i) PROVE Shape'
    BY <1>26 DEF WorkerExpires
<1> QED BY <1>1, <1>2, <1>3, <1>4, <1>5, <1>6, <1>7, <1>8, <1>9, <1>10, <1>11, <1>12, <1>13,
          <1>14, <1>15, <1>16, <1>17, <1>18, <1>19, <1>20, <1>21, <1>22, <1>23, <1>24, <1>25, <1>26
       DEF Next, Coordinator
-----------------------------------------------------------------------------
(* What the gate counts: a slot for each item held, one more while a       *)
(* worker is launched, one less between its end and its removal.           *)

Offset  == (IF pc \in {"launch", "launched"} THEN 1 ELSE 0)
           - (IF pc \in {"record", "retire", "drop"} THEN 1 ELSE 0)
SlotInv == Normal => slots = Cardinality(Held) + Offset

LEMMA HeldFinite ==
    ASSUME TypeOK
    PROVE  IsFiniteSet(Held) /\ Cardinality(Held) \in Nat
<1>1. IsFiniteSet(Item)
    BY FS_Interval, BatchAssumption DEF Item
<1>2. Held \subseteq Item
    BY DEF TypeOK, DataOK, Held
<1> QED BY <1>1, <1>2, FS_Subset, FS_CardinalityType

LEMMA HeldGrows ==
    ASSUME TypeOK, NEW i, i \notin Held, Held' = Held \union {i}
    PROVE  Cardinality(Held') = Cardinality(Held) + 1
BY HeldFinite, FS_AddElement

LEMMA HeldShrinks ==
    ASSUME TypeOK, NEW i \in Held, Held' = Held \ {i}
    PROVE  Cardinality(Held') = Cardinality(Held) - 1
BY HeldFinite, FS_RemoveElement

LEMMA HeldSome ==
    ASSUME TypeOK, NEW i \in Held
    PROVE  Cardinality(Held) >= 1
BY HeldFinite, FS_EmptySet

LEMMA SlotStep == TypeOK /\ ShapeInv /\ SlotInv /\ [Next]_vars => SlotInv'
<1> SUFFICES ASSUME TypeOK, ShapeInv, SlotInv, [Next]_vars, Normal'
             PROVE  slots' = Cardinality(Held') + Offset'
    BY DEF SlotInv
<1>0. slots \in Nat /\ Cardinality(Held) \in Nat
    BY HeldFinite DEF TypeOK, DataOK
<1> USE <1>0 DEF Offset, SlotInv, Normal, workers, verdict, switches
<1>1. CASE AdmissionOver
    <2>1. Held' = Held
        BY <1>1 DEF AdmissionOver, Held
    <2> QED BY <1>1, <2>1 DEF AdmissionOver, MayAdmit, Pending, EndAdmission
<1>2. CASE Admit
    <2>1. Held' = Held
        BY <1>2 DEF Admit, Held
    <2> QED BY <1>2, <2>1 DEF Admit, MayAdmit, Pending
<1>3. CASE WaitForWorkers
    <2>1. Held' = Held
        BY <1>3 DEF WaitForWorkers, Held
    <2> QED BY <1>3, <2>1 DEF WaitForWorkers, MayAdmit, Pending, EndAdmission
<1>4. CASE WaitIdle
    <2>1. Held' = Held
        BY <1>4 DEF WaitIdle, Held
    <2> QED BY <1>4, <2>1 DEF WaitIdle, MayAdmit, Pending, EndAdmission
<1>5. CASE AdmissionTimeout
    <2>1. Held' = Held
        BY <1>5 DEF AdmissionTimeout, Held, StopForGate
    <2> QED BY <1>5, <2>1 DEF AdmissionTimeout, MayAdmit, Pending, StopForGate, EndAdmission
<1>6. CASE GateError
    <2>1. Held' = Held
        BY <1>6 DEF GateError, Held, StopForGate
    <2> QED BY <1>6, <2>1 DEF GateError, MayAdmit, Pending, StopForGate, EndAdmission
<1>7. CASE Launch
    <2>1. Held' = Held
        BY <1>7 DEF Launch, Held
    <2> QED BY <1>7, <2>1 DEF Launch
<1>8. CASE LaunchFails
    <2>1. Held' = Held
        BY <1>8 DEF LaunchFails, Held
    <2> QED BY <1>8, <2>1 DEF LaunchFails, Pending
<1>9. CASE SerialLaunchFails
    <2>1. Held' = Held
        BY <1>9 DEF SerialLaunchFails, Held
    <2> QED BY <1>9, <2>1 DEF SerialLaunchFails, Pending
<1>10. CASE Track
    <2>0. Normal
        BY <1>10 DEF Track
    <2>1. next \notin Held
        BY <1>10, <2>0, BatchAssumption DEF Track, TypeOK, DataOK, ShapeInv, Shape, ParallelShape,
           SerialShape,
           InParallel, InSerial, Held, Item, Parallel, Serial, Owned
    <2>2. Held' = Held \union {next}
        BY <1>10 DEF Track, Held
    <2>3. Cardinality(Held') = Cardinality(Held) + 1
        BY <2>1, <2>2, HeldGrows
    <2>4. pc = "launched" /\ pc' \in {"admit", "wait"} /\ slots' = slots
        BY <1>10 DEF Track
    <2> QED BY <2>0, <2>3, <2>4
<1>11. CASE PollOver
    <2>1. Held' = Held
        BY <1>11 DEF PollOver, Held
    <2> QED BY <1>11, <2>1 DEF PollOver
<1>12. CASE Barrier
    <2>1. Held' = Held
        BY <1>12 DEF Barrier, Held
    <2> QED BY <1>12, <2>1 DEF Barrier, SerialBlocked
<1>13. CASE SerialOver
    <2>1. Held' = Held
        BY <1>13 DEF SerialOver, Held
    <2> QED BY <1>13, <2>1 DEF SerialOver
<1>14. CASE SerialWait
    <2>1. Held' = Held
        BY <1>14 DEF SerialWait, Held
    <2> QED BY <1>14, <2>1 DEF SerialWait
<1>15. CASE SerialRetry
    <2>1. Held' = Held
        BY <1>15 DEF SerialRetry, Held
    <2> QED BY <1>15, <2>1 DEF SerialRetry
<1>16. CASE SerialAdmit
    <2>1. Held' = Held
        BY <1>16 DEF SerialAdmit, Held
    <2> QED BY <1>16, <2>1 DEF SerialAdmit
<1>17. CASE SerialRefused
    <2>1. Held' = Held
        BY <1>17 DEF SerialRefused, Held
    <2> QED BY <1>17, <2>1 DEF SerialRefused
<1>18. CASE Finish
    <2>1. Held' = Held
        BY <1>18 DEF Finish, Held
    <2> QED BY <1>18, <2>1 DEF Finish
<1>19. CASE SweepOver
    <2>1. Held' = Held
        BY <1>19 DEF SweepOver, Held
    <2> QED BY <1>19, <2>1 DEF SweepOver
<1>20. CASE Interrupt
    <2>1. Held' = Held
        BY <1>20 DEF Interrupt, Held
    <2> QED BY <1>20, <2>1 DEF Interrupt
<1>21. CASE AdmissionExpires
    <2>1. Held' = Held
        BY <1>21 DEF AdmissionExpires, Held
    <2> QED BY <1>21, <2>1 DEF AdmissionExpires
<1>22. CASE Stopped
    <2>1. Held' = Held
        BY <1>22 DEF Stopped, Held, vars
    <2> QED BY <1>22, <2>1 DEF Stopped, vars
<1>23. CASE UNCHANGED vars
    <2>1. Held' = Held
        BY <1>23 DEF vars, Held
    <2> QED BY <1>23, <2>1 DEF vars
<1>24. ASSUME NEW w \in Item, Supervise(w) PROVE slots' = Cardinality(Held') + Offset'
    <2>1. CASE StillRunning(w)
        <3>1. Held' = Held
            BY <2>1 DEF StillRunning, Held
        <3> QED BY <2>1, <3>1 DEF StillRunning, First
    <2>2. CASE Release(w)
        <3>1. Held' = Held
            BY <2>2 DEF Release, Held
        <3> QED BY <2>2, <3>1 DEF Release, Supervised, First
    <2>3. CASE Record(w)
        <3>1. Held' = Held
            BY <2>3 DEF Record, Held
        <3> QED BY <2>3, <3>1 DEF Record, First
    <2>4. CASE RetireSucceeded(w)
        <3>1. w \in active /\ w \notin uncleaned
            BY <2>4 DEF RetireSucceeded, First, TypeOK, DataOK, ShapeInv, Shape
        <3>2. w \in Held /\ Held' = Held \ {w}
            BY <2>4, <3>1 DEF RetireSucceeded, Forget, Held
        <3>3. Cardinality(Held') = Cardinality(Held) - 1
            BY <3>2, HeldShrinks
        <3> QED BY <2>4, <3>3 DEF RetireSucceeded
    <2>5. CASE RetireFailed(w)
        <3>1. w \in active /\ w \notin uncleaned
            BY <2>5 DEF RetireFailed, First, TypeOK, DataOK, ShapeInv, Shape
        <3>2. w \in Held /\ Held' = Held \ {w}
            BY <2>5, <3>1 DEF RetireFailed, Forget, Held
        <3>3. Cardinality(Held') = Cardinality(Held) - 1
            BY <3>2, HeldShrinks
        <3> QED BY <2>5, <3>3 DEF RetireFailed
    <2>6. CASE RetireFailedSegment(w)
        <3>1. w \in active /\ w \notin uncleaned
            BY <2>6 DEF RetireFailedSegment, First, TypeOK, DataOK, ShapeInv, Shape
        <3>2. w \in Held /\ Held' = Held \ {w}
            BY <2>6, <3>1 DEF RetireFailedSegment, Forget, Held
        <3>3. Cardinality(Held') = Cardinality(Held) - 1
            BY <3>2, HeldShrinks
        <3> QED BY <2>6, <3>3 DEF RetireFailedSegment
    <2>7. CASE Kill(w)
        <3>1. Held' = Held
            BY <2>7 DEF Kill, Held
        <3> QED BY <2>7, <3>1 DEF Kill, Supervised, First
    <2>8. CASE BuryUnconfirmed(w)
        <3>1. Held' = Held
            BY <2>8 DEF BuryUnconfirmed, Forget, First, Held, TypeOK, DataOK
        <3> QED BY <2>8, <3>1 DEF BuryUnconfirmed
    <2>9. CASE BuryKilled(w)
        <3>1. w \in active /\ w \notin uncleaned
            BY <2>9 DEF BuryKilled, First, TypeOK, DataOK, ShapeInv, Shape
        <3>2. w \in Held /\ Held' = Held \ {w}
            BY <2>9, <3>1 DEF BuryKilled, Forget, Held
        <3>3. Cardinality(Held') = Cardinality(Held) - 1
            BY <3>2, HeldShrinks
        <3> QED BY <2>9, <3>3 DEF BuryKilled
    <2>10. CASE BuryKilledSegment(w)
        <3>1. Held' = Held
            BY <2>10 DEF BuryKilledSegment, Held
        <3> QED BY <2>10, <3>1 DEF BuryKilledSegment, First
    <2>11. CASE DropSegment(w)
        <3>1. w \in active /\ w \notin uncleaned
            BY <2>11 DEF DropSegment, First, TypeOK, DataOK, ShapeInv, Shape
        <3>2. w \in Held /\ Held' = Held \ {w}
            BY <2>11, <3>1 DEF DropSegment, Forget, Held
        <3>3. Cardinality(Held') = Cardinality(Held) - 1
            BY <3>2, HeldShrinks
        <3> QED BY <2>11, <3>3 DEF DropSegment
    <2>12. CASE SweepConfirmed(w)
        <3>1. Held' = Held
            BY <2>12 DEF SweepConfirmed, Held
        <3> QED BY <2>12, <3>1 DEF SweepConfirmed, First
    <2>13. CASE SweepUnconfirmed(w)
        <3>1. Held' = Held
            BY <2>13 DEF SweepUnconfirmed, Held
        <3> QED BY <2>13, <3>1 DEF SweepUnconfirmed, First
    <2> QED BY <1>24, <2>1, <2>2, <2>3, <2>4, <2>5, <2>6, <2>7, <2>8, <2>9, <2>10, <2>11, <2>12,
       <2>13 DEF Supervise
<1>25. ASSUME NEW i \in Item, WorkerExits(i) PROVE slots' = Cardinality(Held') + Offset'
    <2>1. Held' = Held
        BY <1>25 DEF WorkerExits, Held
    <2> QED BY <1>25, <2>1 DEF WorkerExits
<1>26. ASSUME NEW i \in Item, WorkerExpires(i) PROVE slots' = Cardinality(Held') + Offset'
    <2>1. Held' = Held
        BY <1>26 DEF WorkerExpires, Held
    <2> QED BY <1>26, <2>1 DEF WorkerExpires
<1> QED BY <1>1, <1>2, <1>3, <1>4, <1>5, <1>6, <1>7, <1>8, <1>9, <1>10, <1>11, <1>12, <1>13,
          <1>14, <1>15, <1>16, <1>17, <1>18, <1>19, <1>20, <1>21, <1>22, <1>23, <1>24, <1>25, <1>26
       DEF Next, Coordinator

\* A slot is only given back while the gate counts one.
LEMMA SlotsTyped == TypeOK /\ ShapeInv /\ SlotInv /\ [Next]_vars => slots' \in Nat
<1> SUFFICES ASSUME TypeOK, ShapeInv, SlotInv, [Next]_vars PROVE slots' \in Nat
    OBVIOUS
<1>0. slots \in Nat /\ Cardinality(Held) \in Nat
    BY HeldFinite DEF TypeOK, DataOK
<1> USE <1>0 DEF workers, verdict, switches
<1>1. CASE AdmissionOver
    BY <1>1 DEF AdmissionOver, MayAdmit, Pending, EndAdmission
<1>2. CASE Admit
    BY <1>2 DEF Admit, MayAdmit, Pending
<1>3. CASE WaitForWorkers
    BY <1>3 DEF WaitForWorkers, MayAdmit, Pending, EndAdmission
<1>4. CASE WaitIdle
    BY <1>4 DEF WaitIdle, MayAdmit, Pending, EndAdmission
<1>5. CASE AdmissionTimeout
    BY <1>5 DEF AdmissionTimeout, MayAdmit, Pending, StopForGate, EndAdmission
<1>6. CASE GateError
    BY <1>6 DEF GateError, MayAdmit, Pending, StopForGate, EndAdmission
<1>7. CASE Launch
    BY <1>7 DEF Launch
<1>8. CASE LaunchFails
    <2>1. slots >= 1
        BY <1>8 DEF LaunchFails, Normal, SlotInv, Offset
    <2> QED BY <1>8, <2>1 DEF LaunchFails
<1>9. CASE SerialLaunchFails
    <2>1. slots >= 1
        BY <1>9 DEF SerialLaunchFails, Normal, SlotInv, Offset
    <2> QED BY <1>9, <2>1 DEF SerialLaunchFails
<1>10. CASE Track
    BY <1>10 DEF Track, Pending
<1>11. CASE PollOver
    BY <1>11 DEF PollOver
<1>12. CASE Barrier
    BY <1>12 DEF Barrier, SerialBlocked
<1>13. CASE SerialOver
    BY <1>13 DEF SerialOver
<1>14. CASE SerialWait
    BY <1>14 DEF SerialWait
<1>15. CASE SerialRetry
    BY <1>15 DEF SerialRetry
<1>16. CASE SerialAdmit
    BY <1>16 DEF SerialAdmit
<1>17. CASE SerialRefused
    BY <1>17 DEF SerialRefused
<1>18. CASE Finish
    BY <1>18 DEF Finish
<1>19. CASE SweepOver
    BY <1>19 DEF SweepOver
<1>20. CASE Interrupt
    BY <1>20 DEF Interrupt
<1>21. CASE AdmissionExpires
    BY <1>21 DEF AdmissionExpires
<1>22. CASE Stopped
    BY <1>22 DEF Stopped, vars
<1>23. CASE UNCHANGED vars
    BY <1>23 DEF vars
<1>24. ASSUME NEW w \in Item, Supervise(w) PROVE slots' \in Nat
    <2>1. CASE StillRunning(w)
        BY <2>1 DEF StillRunning, First
    <2>2. CASE Release(w)
        <3>1. w \in Held /\ Normal
            BY <2>2 DEF Release, Supervised, First, Held, TypeOK, DataOK, Normal
        <3>2. slots >= 1
            BY <2>2, <3>1, HeldSome DEF Release, Supervised, SlotInv, Offset
        <3> QED BY <2>2, <3>2 DEF Release
    <2>3. CASE Record(w)
        BY <2>3 DEF Record, First
    <2>4. CASE RetireSucceeded(w)
        BY <2>4 DEF RetireSucceeded, Forget, First
    <2>5. CASE RetireFailed(w)
        BY <2>5 DEF RetireFailed, Forget, First
    <2>6. CASE RetireFailedSegment(w)
        BY <2>6 DEF RetireFailedSegment, Forget, First
    <2>7. CASE Kill(w)
        BY <2>7 DEF Kill, Supervised, First
    <2>8. CASE BuryUnconfirmed(w)
        BY <2>8 DEF BuryUnconfirmed, Forget, First
    <2>9. CASE BuryKilled(w)
        <3>1. w \in Held /\ Normal
            BY <2>9 DEF BuryKilled, Supervised, First, Held, TypeOK, DataOK, Normal
        <3>2. slots >= 1
            BY <2>9, <3>1, HeldSome DEF BuryKilled, Supervised, SlotInv, Offset
        <3> QED BY <2>9, <3>2 DEF BuryKilled
    <2>10. CASE BuryKilledSegment(w)
        <3>1. w \in Held /\ Normal
            BY <2>10 DEF BuryKilledSegment, Supervised, First, Held, TypeOK, DataOK, Normal
        <3>2. slots >= 1
            BY <2>10, <3>1, HeldSome DEF BuryKilledSegment, Supervised, SlotInv, Offset
        <3> QED BY <2>10, <3>2 DEF BuryKilledSegment
    <2>11. CASE DropSegment(w)
        BY <2>11 DEF DropSegment, Forget, First
    <2>12. CASE SweepConfirmed(w)
        BY <2>12 DEF SweepConfirmed, First
    <2>13. CASE SweepUnconfirmed(w)
        BY <2>13 DEF SweepUnconfirmed, First
    <2> QED BY <1>24, <2>1, <2>2, <2>3, <2>4, <2>5, <2>6, <2>7, <2>8, <2>9, <2>10, <2>11, <2>12,
       <2>13 DEF Supervise
<1>25. ASSUME NEW i \in Item, WorkerExits(i) PROVE slots' \in Nat
    BY <1>25 DEF WorkerExits
<1>26. ASSUME NEW i \in Item, WorkerExpires(i) PROVE slots' \in Nat
    BY <1>26 DEF WorkerExpires
<1> QED BY <1>1, <1>2, <1>3, <1>4, <1>5, <1>6, <1>7, <1>8, <1>9, <1>10, <1>11, <1>12, <1>13,
          <1>14, <1>15, <1>16, <1>17, <1>18, <1>19, <1>20, <1>21, <1>22, <1>23, <1>24, <1>25, <1>26
       DEF Next, Coordinator

LEMMA NextTyped ==
    TypeOK /\ ShapeInv /\ [Next]_vars => next' \in 1 .. (ParallelCount + SerialCount + 1)
<1> SUFFICES ASSUME TypeOK, ShapeInv, [Next]_vars
             PROVE  next' \in 1 .. (ParallelCount + SerialCount + 1)
    OBVIOUS
<1>0. /\ ParallelCount \in Nat /\ SerialCount \in Nat
      /\ next \in 1 .. (ParallelCount + SerialCount + 1)
    BY BatchAssumption DEF TypeOK, DataOK
<1> USE <1>0 DEF workers, verdict, switches
<1>1. CASE AdmissionOver
    BY <1>1 DEF AdmissionOver, MayAdmit, Pending, EndAdmission
<1>2. CASE Admit
    BY <1>2 DEF Admit, MayAdmit, Pending
<1>3. CASE WaitForWorkers
    BY <1>3 DEF WaitForWorkers, MayAdmit, Pending, EndAdmission
<1>4. CASE WaitIdle
    BY <1>4 DEF WaitIdle, MayAdmit, Pending, EndAdmission
<1>5. CASE AdmissionTimeout
    BY <1>5 DEF AdmissionTimeout, MayAdmit, Pending, StopForGate, EndAdmission
<1>6. CASE GateError
    BY <1>6 DEF GateError, MayAdmit, Pending, StopForGate, EndAdmission
<1>7. CASE Launch
    BY <1>7 DEF Launch
<1>8. CASE LaunchFails
    BY <1>8 DEF LaunchFails, Pending, Parallel
<1>9. CASE SerialLaunchFails
    BY <1>9 DEF SerialLaunchFails, Pending
<1>10. CASE Track
    BY <1>10 DEF Track, Pending, Parallel
<1>11. CASE PollOver
    BY <1>11 DEF PollOver
<1>12. CASE Barrier
    BY <1>12 DEF Barrier, SerialBlocked
<1>13. CASE SerialOver
    BY <1>13 DEF SerialOver
<1>14. CASE SerialWait
    BY <1>14 DEF SerialWait
<1>15. CASE SerialRetry
    BY <1>15 DEF SerialRetry
<1>16. CASE SerialAdmit
    BY <1>16 DEF SerialAdmit
<1>17. CASE SerialRefused
    BY <1>17 DEF SerialRefused
<1>18. CASE Finish
    BY <1>18 DEF Finish
<1>19. CASE SweepOver
    BY <1>19 DEF SweepOver
<1>20. CASE Interrupt
    BY <1>20 DEF Interrupt
<1>21. CASE AdmissionExpires
    BY <1>21 DEF AdmissionExpires
<1>22. CASE Stopped
    BY <1>22 DEF Stopped, vars
<1>23. CASE UNCHANGED vars
    BY <1>23 DEF vars
<1>24. ASSUME NEW w \in Item, Supervise(w) PROVE next' \in 1 .. (ParallelCount + SerialCount + 1)
    <2>1. CASE StillRunning(w)
        BY <2>1 DEF StillRunning, First
    <2>2. CASE Release(w)
        BY <2>2 DEF Release, Supervised, First
    <2>3. CASE Record(w)
        BY <2>3 DEF Record, First
    <2>4. CASE RetireSucceeded(w)
        <3>1. CASE w \in Parallel
            BY <2>4, <3>1 DEF RetireSucceeded
        <3>2. CASE w \notin Parallel
            <4>1. next \in Serial
                BY <2>4, <3>2 DEF RetireSucceeded, First, ShapeInv, Normal, Shape, Owned,
                   InParallel,
                   InSerial, Busy
            <4> QED BY <2>4, <3>2, <4>1 DEF RetireSucceeded, Serial, Item
        <3> QED BY <3>1, <3>2
    <2>5. CASE RetireFailed(w)
        BY <2>5 DEF RetireFailed, Forget, First
    <2>6. CASE RetireFailedSegment(w)
        BY <2>6 DEF RetireFailedSegment, Forget, First
    <2>7. CASE Kill(w)
        BY <2>7 DEF Kill, Supervised, First
    <2>8. CASE BuryUnconfirmed(w)
        BY <2>8 DEF BuryUnconfirmed, Forget, First
    <2>9. CASE BuryKilled(w)
        BY <2>9 DEF BuryKilled, Forget, First
    <2>10. CASE BuryKilledSegment(w)
        BY <2>10 DEF BuryKilledSegment, First
    <2>11. CASE DropSegment(w)
        BY <2>11 DEF DropSegment, Forget, First
    <2>12. CASE SweepConfirmed(w)
        BY <2>12 DEF SweepConfirmed, First
    <2>13. CASE SweepUnconfirmed(w)
        BY <2>13 DEF SweepUnconfirmed, First
    <2> QED BY <1>24, <2>1, <2>2, <2>3, <2>4, <2>5, <2>6, <2>7, <2>8, <2>9, <2>10, <2>11, <2>12,
       <2>13 DEF Supervise
<1>25. ASSUME NEW i \in Item, WorkerExits(i) PROVE next' \in 1 .. (ParallelCount + SerialCount + 1)
    BY <1>25 DEF WorkerExits
<1>26. ASSUME NEW i \in Item, WorkerExpires(i) PROVE next' \in 1 .. (ParallelCount + SerialCount + 1)
    BY <1>26 DEF WorkerExpires
<1> QED BY <1>1, <1>2, <1>3, <1>4, <1>5, <1>6, <1>7, <1>8, <1>9, <1>10, <1>11, <1>12, <1>13,
          <1>14, <1>15, <1>16, <1>17, <1>18, <1>19, <1>20, <1>21, <1>22, <1>23, <1>24, <1>25, <1>26
       DEF Next, Coordinator

ControlInv == TypeOK /\ ShapeInv /\ SlotInv

LEMMA InitControl == Init => ControlInv
<1> SUFFICES ASSUME Init PROVE ControlInv
    OBVIOUS
<1>1. ShapeInv
    BY BatchAssumption DEF Init, ShapeInv, Shape, InParallel, InSerial, ParallelShape, Over, Held,
       Busy
<1>2. Held = {}
    BY DEF Init, Held
<1>3. SlotInv
    BY <1>2, FS_EmptySet DEF Init, SlotInv, Offset
<1> QED BY InitTypes, <1>1, <1>3 DEF ControlInv

LEMMA ControlStep == ControlInv /\ [Next]_vars => ControlInv'
<1> SUFFICES ASSUME ControlInv, [Next]_vars PROVE ControlInv'
    OBVIOUS
<1> USE DEF ControlInv
<1>1. pc = "launched" => next \in Item
    BY BatchAssumption DEF ShapeInv, Normal, Shape, Owned, InParallel, InSerial, Busy, Item,
       Parallel, Serial
<1>2. TypeOK'
    BY <1>1, SlotsTyped, NextTyped, StepTypes
<1> QED BY <1>2, ShapeStep, SlotStep

THEOREM ControlCorrect == Spec => []ControlInv
BY InitControl, ControlStep, PTL DEF Spec

\* The state is typed; the gate never counts fewer than no workers
\* (ReservationGate.worker_finished would raise).
THEOREM TypeCorrect == Spec => []TypeOK
<1>1. ControlInv => TypeOK
    BY DEF ControlInv
<1> QED BY <1>1, ControlCorrect, PTL

\* Between two steps of the schedule the gate counts exactly the workers that
\* are owned and those that were given up.
THEOREM SlotsCorrect == Spec => []SlotsExact
<1>1. ControlInv => SlotsExact
    <2> SUFFICES ASSUME ControlInv,
                        pc \in {"admit", "barrier", "segment", "final", "returned"}
                 PROVE  slots = Cardinality(Held)
        BY DEF SlotsExact, Held
    <2>1. Cardinality(Held) \in Nat
        BY HeldFinite DEF ControlInv
    <2> QED BY <2>1 DEF ControlInv, SlotInv, Normal, Offset
<1> QED BY <1>1, ControlCorrect, PTL
-----------------------------------------------------------------------------
(* Which process trees may be alive.                                       *)

\* The item whose worker has ended but is still in active.
Ending == {i \in todo : pc \in {"record", "retire", "drop"} /\ \A v \in todo : i <= v}

\* Only workers held or just launched are alive, and those given up do not run
\* as far as anybody knows.
TreesOwned ==
    /\ \A i \in Alive : i \in Held \ Ending \/ (pc = "launched" /\ i = next)
    /\ \A i \in uncleaned : tree[i] = "unconfirmed"
    /\ pc \in {"record", "retire", "drop"} => Ending # {}
TreeInv == Normal => TreesOwned

LEMMA TreeStep == ControlInv /\ TreeInv /\ [Next]_vars => TreeInv'
<1> SUFFICES ASSUME ControlInv, TreeInv, [Next]_vars, Normal' PROVE TreesOwned'
    BY DEF TreeInv
<1>0. /\ active \subseteq Item /\ todo \subseteq active /\ uncleaned \subseteq Item
      /\ tree \in [Item -> {"none", "running", "exited", "killed", "unconfirmed"}]
      /\ active \intersect uncleaned = {} \/ ~Normal
      /\ \A i \in Item : i \in Nat
    BY BatchAssumption DEF ControlInv, TypeOK, DataOK, ShapeInv, Shape, Item
<1> USE <1>0 DEF TreeInv, TreesOwned, Normal, Held, Alive, Ending, workers, verdict, switches
<1>1. CASE AdmissionOver
    BY <1>1 DEF AdmissionOver, MayAdmit, Pending, EndAdmission
<1>2. CASE Admit
    BY <1>2 DEF Admit, MayAdmit, Pending
<1>3. CASE WaitForWorkers
    BY <1>3 DEF WaitForWorkers, MayAdmit, Pending, EndAdmission
<1>4. CASE WaitIdle
    BY <1>4 DEF WaitIdle, MayAdmit, Pending, EndAdmission
<1>5. CASE AdmissionTimeout
    BY <1>5 DEF AdmissionTimeout, MayAdmit, Pending, StopForGate, EndAdmission
<1>6. CASE GateError
    BY <1>6 DEF GateError, MayAdmit, Pending, StopForGate, EndAdmission
<1>7. CASE Launch
    <2>1. next \notin uncleaned
        BY <1>7, BatchAssumption DEF Launch, ControlInv, TypeOK, DataOK, ShapeInv, Shape,
           ParallelShape, SerialShape,
           InParallel, InSerial, Item, Parallel, Serial, Owned
    <2> QED BY <1>7, <2>1 DEF Launch
<1>8. CASE LaunchFails
    BY <1>8 DEF LaunchFails, Pending
<1>9. CASE SerialLaunchFails
    BY <1>9 DEF SerialLaunchFails, Pending
<1>10. CASE Track
    BY <1>10 DEF Track, Pending
<1>11. CASE PollOver
    BY <1>11 DEF PollOver
<1>12. CASE Barrier
    BY <1>12 DEF Barrier, SerialBlocked
<1>13. CASE SerialOver
    BY <1>13 DEF SerialOver
<1>14. CASE SerialWait
    BY <1>14 DEF SerialWait
<1>15. CASE SerialRetry
    BY <1>15 DEF SerialRetry
<1>16. CASE SerialAdmit
    BY <1>16 DEF SerialAdmit
<1>17. CASE SerialRefused
    BY <1>17 DEF SerialRefused
<1>18. CASE Finish
    BY <1>18 DEF Finish
<1>19. CASE SweepOver
    BY <1>19 DEF SweepOver
<1>20. CASE Interrupt
    BY <1>20 DEF Interrupt
<1>21. CASE AdmissionExpires
    BY <1>21 DEF AdmissionExpires
<1>22. CASE Stopped
    BY <1>22 DEF Stopped, vars
<1>23. CASE UNCHANGED vars
    BY <1>23 DEF vars
<1>24. ASSUME NEW w \in Item, Supervise(w) PROVE TreesOwned'
    <2>1. CASE StillRunning(w)
        BY <2>1 DEF StillRunning, First
    <2>2. CASE Release(w)
        BY <2>2 DEF Release, Supervised, First
    <2>3. CASE Record(w)
        BY <2>3 DEF Record, First
    <2>4. CASE RetireSucceeded(w)
        BY <2>4 DEF RetireSucceeded, Forget, First
    <2>5. CASE RetireFailed(w)
        BY <2>5 DEF RetireFailed, Forget, First
    <2>6. CASE RetireFailedSegment(w)
        BY <2>6 DEF RetireFailedSegment, Forget, First
    <2>7. CASE Kill(w)
        BY <2>7 DEF Kill, Supervised, First
    <2>8. CASE BuryUnconfirmed(w)
        BY <2>8 DEF BuryUnconfirmed, Forget, First
    <2>9. CASE BuryKilled(w)
        BY <2>9 DEF BuryKilled, Forget, First
    <2>10. CASE BuryKilledSegment(w)
        BY <2>10 DEF BuryKilledSegment, First
    <2>11. CASE DropSegment(w)
        BY <2>11 DEF DropSegment, Forget, First
    <2>12. CASE SweepConfirmed(w)
        BY <2>12 DEF SweepConfirmed, First
    <2>13. CASE SweepUnconfirmed(w)
        BY <2>13 DEF SweepUnconfirmed, First
    <2> QED BY <1>24, <2>1, <2>2, <2>3, <2>4, <2>5, <2>6, <2>7, <2>8, <2>9, <2>10, <2>11, <2>12,
       <2>13 DEF Supervise
<1>25. ASSUME NEW i \in Item, WorkerExits(i) PROVE TreesOwned'
    BY <1>25 DEF WorkerExits
<1>26. ASSUME NEW i \in Item, WorkerExpires(i) PROVE TreesOwned'
    BY <1>26 DEF WorkerExpires
<1> QED BY <1>1, <1>2, <1>3, <1>4, <1>5, <1>6, <1>7, <1>8, <1>9, <1>10, <1>11, <1>12, <1>13,
          <1>14, <1>15, <1>16, <1>17, <1>18, <1>19, <1>20, <1>21, <1>22, <1>23, <1>24, <1>25, <1>26
       DEF Next, Coordinator

LEMMA InitTrees == Init => TreeInv
BY DEF Init, TreeInv, TreesOwned, Alive

LEMMA AliveCovered == ControlInv /\ TreeInv => SlotsCoverTrees
<1> SUFFICES ASSUME ControlInv, TreeInv, Normal PROVE Cardinality(Alive) <= slots
    BY DEF SlotsCoverTrees, Normal
<1>1. slots = Cardinality(Held) + Offset
    BY DEF ControlInv, SlotInv
<1>2. IsFiniteSet(Held) /\ Cardinality(Held) \in Nat
    BY HeldFinite DEF ControlInv
<1>3. CASE pc = "launched"
    <2>1. Alive \subseteq Held \union {next}
        BY DEF TreeInv, TreesOwned
    <2>2. IsFiniteSet(Held \union {next}) /\ Cardinality(Held \union {next}) <= Cardinality(Held) + 1
        BY <1>2, FS_AddElement
    <2>3. Cardinality(Alive) <= Cardinality(Held) + 1
        BY <2>1, <2>2, <1>2, FS_Subset, FS_CardinalityType
    <2> QED BY <1>1, <1>2, <1>3, <2>3 DEF Offset
<1>4. CASE pc \in {"record", "retire", "drop"}
    <2>1. PICK w \in Held : w \in Ending
        BY <1>4 DEF ControlInv, TypeOK, DataOK, TreeInv, TreesOwned, Ending, Held, Normal
    <2>2. Alive \subseteq Held \ {w}
        BY <1>4, <2>1 DEF TreeInv, TreesOwned
    <2>3. IsFiniteSet(Held \ {w}) /\ Cardinality(Held \ {w}) = Cardinality(Held) - 1
        BY <1>2, FS_RemoveElement
    <2>4. Cardinality(Alive) <= Cardinality(Held) - 1
        BY <2>2, <2>3, FS_Subset
    <2> QED BY <1>1, <1>2, <1>4, <2>4 DEF Offset
<1>5. CASE pc \notin {"launched", "record", "retire", "drop"}
    <2>1. Alive \subseteq Held
        BY <1>5 DEF TreeInv, TreesOwned
    <2>2. Cardinality(Alive) <= Cardinality(Held)
        BY <2>1, <1>2, FS_Subset
    <2>3. IsFiniteSet(Alive) /\ Cardinality(Alive) \in Nat
        BY <2>1, <1>2, FS_Subset, FS_CardinalityType
    <2>4. Offset >= 0
        BY <1>5 DEF Offset
    <2>5. Offset \in Int
        BY DEF Offset
    <2> QED BY <1>1, <1>2, <2>2, <2>3, <2>4, <2>5
<1> QED BY <1>3, <1>4, <1>5
-----------------------------------------------------------------------------
(* What a failure leaves behind.                                           *)

\* The outcome knows a reason as soon as anything failed; while admission goes
\* on, nothing failed that should have ended it.
Blame ==
    /\ reason = "none" => ~parFailed /\ uncleaned = {}
    /\ pc \in {"bury", "drop"} => reason # "none"
    /\ InParallel /\ reason # "none" => parFailed
    /\ InParallel /\ ~stop =>
         /\ uncleaned = {}
         /\ reason \notin {"memory_gate_error", "memory_admission_timeout"}
         /\ parFailed => skipError \/ pc = "bury"
    /\ InParallel /\ pc \in {"launch", "launched"} => ~stop
    /\ InSerial => \/ reason = "none"
                   \/ pc \in {"bury", "drop"} /\ reason \in {"worker_timeout", "worker_cleanup_failed"}
BlameInv == Normal => Blame

LEMMA BlameStep == ControlInv /\ BlameInv /\ [Next]_vars => BlameInv'
<1> SUFFICES ASSUME ControlInv, BlameInv, [Next]_vars, Normal' PROVE Blame'
    BY DEF BlameInv
<1>0. /\ ParallelCount \in Nat /\ SerialCount \in Nat /\ next \in Nat
      /\ \A i \in Item : i \in Nat
    BY BatchAssumption DEF ControlInv, TypeOK, DataOK, Item
<1> USE <1>0 DEF ControlInv, TypeOK, FlagsOK, DataOK, Normal, ShapeInv, BlameInv, Owned, Ended, Busy, Over,
           Item, Parallel, Serial, workers, verdict, switches,
           Shape, InParallel, InSerial, ParallelShape, SerialShape, Because, Blame
<1>1. CASE AdmissionOver
    BY <1>1 DEF AdmissionOver, MayAdmit, Pending, EndAdmission
<1>2. CASE Admit
    BY <1>2 DEF Admit, MayAdmit, Pending
<1>3. CASE WaitForWorkers
    BY <1>3 DEF WaitForWorkers, MayAdmit, Pending, EndAdmission
<1>4. CASE WaitIdle
    BY <1>4 DEF WaitIdle, MayAdmit, Pending, EndAdmission
<1>5. CASE AdmissionTimeout
    BY <1>5 DEF AdmissionTimeout, MayAdmit, Pending, StopForGate, EndAdmission
<1>6. CASE GateError
    BY <1>6 DEF GateError, MayAdmit, Pending, StopForGate, EndAdmission
<1>7. CASE Launch
    BY <1>7 DEF Launch
<1>8. CASE LaunchFails
    BY <1>8 DEF LaunchFails, Pending
<1>9. CASE SerialLaunchFails
    BY <1>9 DEF SerialLaunchFails, Pending
<1>10. CASE Track
    BY <1>10 DEF Track, Pending
<1>11. CASE PollOver
    BY <1>11 DEF PollOver
<1>12. CASE Barrier
    BY <1>12 DEF Barrier, SerialBlocked
<1>13. CASE SerialOver
    BY <1>13 DEF SerialOver
<1>14. CASE SerialWait
    BY <1>14 DEF SerialWait
<1>15. CASE SerialRetry
    BY <1>15 DEF SerialRetry
<1>16. CASE SerialAdmit
    BY <1>16 DEF SerialAdmit
<1>17. CASE SerialRefused
    BY <1>17 DEF SerialRefused
<1>18. CASE Finish
    BY <1>18 DEF Finish
<1>19. CASE SweepOver
    BY <1>19 DEF SweepOver
<1>20. CASE Interrupt
    BY <1>20 DEF Interrupt
<1>21. CASE AdmissionExpires
    BY <1>21 DEF AdmissionExpires
<1>22. CASE Stopped
    BY <1>22 DEF Stopped, vars
<1>23. CASE UNCHANGED vars
    BY <1>23 DEF vars
<1>24. ASSUME NEW w \in Item, Supervise(w) PROVE Blame'
    <2>1. CASE StillRunning(w)
        BY <2>1 DEF StillRunning, First
    <2>2. CASE Release(w)
        BY <2>2 DEF Release, Supervised, First
    <2>3. CASE Record(w)
        BY <2>3 DEF Record, First
    <2>4. CASE RetireSucceeded(w)
        BY <2>4 DEF RetireSucceeded, Forget, First
    <2>5. CASE RetireFailed(w)
        BY <2>5 DEF RetireFailed, Forget, First
    <2>6. CASE RetireFailedSegment(w)
        BY <2>6 DEF RetireFailedSegment, Forget, First
    <2>7. CASE Kill(w)
        BY <2>7 DEF Kill, Supervised, First
    <2>8. CASE BuryUnconfirmed(w)
        BY <2>8 DEF BuryUnconfirmed, Forget, First
    <2>9. CASE BuryKilled(w)
        BY <2>9 DEF BuryKilled, Forget, First
    <2>10. CASE BuryKilledSegment(w)
        BY <2>10 DEF BuryKilledSegment, First
    <2>11. CASE DropSegment(w)
        BY <2>11 DEF DropSegment, Forget, First
    <2>12. CASE SweepConfirmed(w)
        BY <2>12 DEF SweepConfirmed, First
    <2>13. CASE SweepUnconfirmed(w)
        BY <2>13 DEF SweepUnconfirmed, First
    <2> QED BY <1>24, <2>1, <2>2, <2>3, <2>4, <2>5, <2>6, <2>7, <2>8, <2>9, <2>10, <2>11, <2>12,
       <2>13 DEF Supervise
<1>25. ASSUME NEW i \in Item, WorkerExits(i) PROVE Blame'
    BY <1>25 DEF WorkerExits
<1>26. ASSUME NEW i \in Item, WorkerExpires(i) PROVE Blame'
    BY <1>26 DEF WorkerExpires
<1> QED BY <1>1, <1>2, <1>3, <1>4, <1>5, <1>6, <1>7, <1>8, <1>9, <1>10, <1>11, <1>12, <1>13,
          <1>14, <1>15, <1>16, <1>17, <1>18, <1>19, <1>20, <1>21, <1>22, <1>23, <1>24, <1>25, <1>26
       DEF Next, Coordinator
-----------------------------------------------------------------------------
(* Which items have succeeded.                                              *)

Successes ==
    /\ InParallel /\ ~parFailed =>
         \A p \in Parallel : p < next /\ p \notin active => event[p] = "succeeded"
    /\ InSerial => \A i \in Item : i < next => event[i] = "succeeded"
    /\ Over /\ reason = "none" => \A i \in Item : event[i] = "succeeded"
SuccessInv == Normal => Successes

LEMMA SuccessStep == ControlInv /\ BlameInv /\ SuccessInv /\ [Next]_vars => SuccessInv'
<1> SUFFICES ASSUME ControlInv, BlameInv, SuccessInv, [Next]_vars, Normal' PROVE Successes'
    BY DEF SuccessInv
<1>0. /\ ParallelCount \in Nat /\ SerialCount \in Nat /\ next \in Nat
      /\ \A i \in Item : i \in Nat
    BY BatchAssumption DEF ControlInv, TypeOK, DataOK, Item
<1> USE <1>0 DEF ControlInv, TypeOK, FlagsOK, DataOK, Normal, ShapeInv, BlameInv, SuccessInv, Owned, Ended,
           Busy, Over, Item, Parallel, Serial, workers, verdict, switches,
           Shape, InParallel, InSerial, ParallelShape, SerialShape, Because, Blame, Successes
<1>1. CASE AdmissionOver
    BY <1>1 DEF AdmissionOver, MayAdmit, Pending, EndAdmission
<1>2. CASE Admit
    BY <1>2 DEF Admit, MayAdmit, Pending
<1>3. CASE WaitForWorkers
    BY <1>3 DEF WaitForWorkers, MayAdmit, Pending, EndAdmission
<1>4. CASE WaitIdle
    BY <1>4 DEF WaitIdle, MayAdmit, Pending, EndAdmission
<1>5. CASE AdmissionTimeout
    BY <1>5 DEF AdmissionTimeout, MayAdmit, Pending, StopForGate, EndAdmission
<1>6. CASE GateError
    BY <1>6 DEF GateError, MayAdmit, Pending, StopForGate, EndAdmission
<1>7. CASE Launch
    BY <1>7 DEF Launch
<1>8. CASE LaunchFails
    BY <1>8 DEF LaunchFails, Pending, CountFailed
<1>9. CASE SerialLaunchFails
    BY <1>9 DEF SerialLaunchFails, Pending, CountFailed
<1>10. CASE Track
    BY <1>10 DEF Track, Pending
<1>11. CASE PollOver
    BY <1>11 DEF PollOver
<1>12. CASE Barrier
    <2>1. InParallel /\ ParallelShape /\ active = {}
        BY <1>12 DEF Barrier, InParallel, Shape, ParallelShape
    <2>2. CASE SerialBlocked
        <3>1. pc = "barrier" /\ pc' = "final" /\ parFailed /\ reason' = reason
            BY <1>12, <2>1, <2>2 DEF Barrier, SerialBlocked
        <3> QED BY <3>1 DEF Successes, InParallel, InSerial, Blame
    <2>3. CASE ~SerialBlocked
        <3>1. pc' = "segment" /\ next' = ParallelCount + 1 /\ event' = event
            BY <1>12, <2>3 DEF Barrier
        <3>2. \A p \in Parallel : event[p] = "succeeded"
            <4>1. ~parFailed /\ pc = "barrier"
                BY <1>12, <2>3 DEF Barrier, SerialBlocked
            <4>2. ~stop /\ next \notin Parallel
                BY <2>1, <4>1 DEF ParallelShape
            <4>3. next = ParallelCount + 1
                BY <2>1, <4>2 DEF ParallelShape
            <4> QED BY <2>1, <4>1, <4>3 DEF Successes
        <3> QED BY <3>1, <3>2 DEF Successes, InParallel, InSerial
    <2> QED BY <2>2, <2>3
<1>13. CASE SerialOver
    BY <1>13 DEF SerialOver
<1>14. CASE SerialWait
    BY <1>14 DEF SerialWait
<1>15. CASE SerialRetry
    BY <1>15 DEF SerialRetry
<1>16. CASE SerialAdmit
    BY <1>16 DEF SerialAdmit
<1>17. CASE SerialRefused
    BY <1>17 DEF SerialRefused
<1>18. CASE Finish
    BY <1>18 DEF Finish, SettleEvents, Terminal
<1>19. CASE SweepOver
    BY <1>19 DEF SweepOver, SettleEvents
<1>20. CASE Interrupt
    BY <1>20 DEF Interrupt
<1>21. CASE AdmissionExpires
    BY <1>21 DEF AdmissionExpires
<1>22. CASE Stopped
    BY <1>22 DEF Stopped, vars
<1>23. CASE UNCHANGED vars
    BY <1>23 DEF vars
<1>24. ASSUME NEW w \in Item, Supervise(w) PROVE Successes'
    <2>1. CASE StillRunning(w)
        BY <2>1 DEF StillRunning, First
    <2>2. CASE Release(w)
        BY <2>2 DEF Release, Supervised, First
    <2>3. CASE Record(w)
        BY <2>3 DEF Record, First
    <2>4. CASE RetireSucceeded(w)
        BY <2>4 DEF RetireSucceeded, Forget, First
    <2>5. CASE RetireFailed(w)
        BY <2>5 DEF RetireFailed, Forget, First
    <2>6. CASE RetireFailedSegment(w)
        BY <2>6 DEF RetireFailedSegment, Forget, First
    <2>7. CASE Kill(w)
        BY <2>7 DEF Kill, Supervised, First
    <2>8. CASE BuryUnconfirmed(w)
        BY <2>8 DEF BuryUnconfirmed, Forget, First
    <2>9. CASE BuryKilled(w)
        BY <2>9 DEF BuryKilled, Forget, First
    <2>10. CASE BuryKilledSegment(w)
        BY <2>10 DEF BuryKilledSegment, First
    <2>11. CASE DropSegment(w)
        BY <2>11 DEF DropSegment, Forget, First
    <2>12. CASE SweepConfirmed(w)
        BY <2>12 DEF SweepConfirmed, First
    <2>13. CASE SweepUnconfirmed(w)
        BY <2>13 DEF SweepUnconfirmed, First
    <2> QED BY <1>24, <2>1, <2>2, <2>3, <2>4, <2>5, <2>6, <2>7, <2>8, <2>9, <2>10, <2>11, <2>12,
       <2>13 DEF Supervise
<1>25. ASSUME NEW i \in Item, WorkerExits(i) PROVE Successes'
    BY <1>25 DEF WorkerExits
<1>26. ASSUME NEW i \in Item, WorkerExpires(i) PROVE Successes'
    BY <1>26 DEF WorkerExpires
<1> QED BY <1>1, <1>2, <1>3, <1>4, <1>5, <1>6, <1>7, <1>8, <1>9, <1>10, <1>11, <1>12, <1>13,
          <1>14, <1>15, <1>16, <1>17, <1>18, <1>19, <1>20, <1>21, <1>22, <1>23, <1>24, <1>25, <1>26
       DEF Next, Coordinator
-----------------------------------------------------------------------------
(* The serial phase runs alone; the sweep after an interrupt keeps it so. *)

LEMMA NormalAlone ==
    ASSUME ControlInv, TreeInv, SuccessInv, Normal
    PROVE  SerialAlone
<1> SUFFICES ASSUME NEW z \in Serial, tree[z] = "running"
             PROVE  Alive = {z} /\ \A p \in Parallel : event[p] = "succeeded"
    BY DEF SerialAlone
<1>1. z \in Item /\ z \notin Parallel /\ z \in Alive
    BY DEF Serial, Alive
<1>2. z \in active \/ (pc = "launched" /\ z = next)
    BY <1>1 DEF TreeInv, TreesOwned, Held
<1>3. pc \in Owned
    BY <1>2 DEF ControlInv, TypeOK, DataOK, ShapeInv, Shape, Normal, Over, Ended
<1>4. ~InParallel
    BY <1>1, <1>2 DEF ControlInv, ShapeInv, Shape, ParallelShape, InParallel, Busy
<1>5. InSerial /\ SerialShape
    BY <1>3, <1>4 DEF ControlInv, ShapeInv, Shape
<1>6. Alive = {z}
    BY <1>1, <1>2, <1>5 DEF SerialShape, TreeInv, TreesOwned, Held
<1>7. \A p \in Parallel : p < next
    <2>1. next \in Nat /\ ParallelCount \in Nat /\ next > ParallelCount
        BY <1>5, BatchAssumption DEF SerialShape, Parallel, ControlInv, TypeOK, DataOK
    <2> QED BY <2>1 DEF Parallel
<1>8. Parallel \subseteq Item
    BY BatchAssumption DEF Parallel, Item
<1> QED BY <1>5, <1>6, <1>7, <1>8 DEF SuccessInv, Successes

\* In the sweep: what still runs is on the list or was never tracked, no more is
\* on it than the gate counts and one, and a running segment is alone on it.
SweepShape ==
    /\ SerialAlone
    /\ OwnedTreesSwept
    /\ pc = "sweep" =>
        /\ Cardinality(todo) <= slots + 1
        /\ \A i \in Item : tree[i] = "running" => i \in todo \/ (i = next /\ i \notin active)
        /\ \A z \in Serial : tree[z] = "running" => todo \subseteq {z}
SweepInv == ~Normal => SweepShape

LEMMA InterruptSweeps ==
    ASSUME ControlInv, TreeInv, SuccessInv, Interrupt
    PROVE  SweepShape'
<1>0. Normal
    BY DEF Interrupt, Owned, Normal
<1>1. SerialAlone'
    BY <1>0, NormalAlone DEF Interrupt, SerialAlone, Alive, verdict
<1>2. OwnedTreesSwept'
    BY DEF Interrupt, OwnedTreesSwept
<1>3. Cardinality(todo') <= slots' + 1
    <2>1. IsFiniteSet(Held) /\ Cardinality(Held) \in Nat /\ active \subseteq Held
        BY HeldFinite DEF ControlInv, Held
    <2>2. Cardinality(active) \in Nat /\ Cardinality(active) <= Cardinality(Held)
        BY <2>1, FS_Subset, FS_CardinalityType
    <2>3. slots = Cardinality(Held) + Offset /\ Offset >= -1 /\ Offset \in Int
        BY <1>0 DEF ControlInv, SlotInv, Offset
    <2> QED BY <2>1, <2>2, <2>3 DEF Interrupt
<1>4. \A i \in Item : tree'[i] = "running" => i \in todo' \/ (i = next' /\ i \notin active')
    <2> SUFFICES ASSUME NEW i \in Item, tree[i] = "running"
                 PROVE  i \in active \/ (i = next /\ i \notin active)
        BY DEF Interrupt
    <2> QED BY <1>0 DEF TreeInv, TreesOwned, Held, Alive
<1>5. \A z \in Serial : tree'[z] = "running" => todo' \subseteq {z}
    <2> SUFFICES ASSUME NEW z \in Serial, tree[z] = "running" PROVE active \subseteq {z}
        BY DEF Interrupt
    <2>1. z \in Alive /\ z \notin Parallel
        BY DEF Serial, Alive
    <2>2. z \in active \/ (pc = "launched" /\ z = next)
        BY <1>0, <2>1 DEF TreeInv, TreesOwned, Held, Alive
    <2>3. InSerial
        BY <2>1, <2>2 DEF Interrupt, ControlInv, ShapeInv, Normal, Owned, Shape, ParallelShape,
           InParallel, Busy
    <2> QED BY <1>0, <2>2, <2>3 DEF ControlInv, ShapeInv, Shape, SerialShape
<1> QED BY <1>1, <1>2, <1>3, <1>4, <1>5 DEF SweepShape

\* The list loses one worker with each tree that is killed or given up.
LEMMA ListShrinks ==
    ASSUME TypeOK, NEW w \in todo
    PROVE  /\ Cardinality(todo) \in Nat
           /\ Cardinality(todo \ {w}) = Cardinality(todo) - 1
           /\ Cardinality(todo) <= 1 => todo = {w}
<1>1. IsFiniteSet(Item)
    BY FS_Interval, BatchAssumption DEF Item
<1>2. IsFiniteSet(todo)
    BY <1>1, FS_Subset DEF TypeOK, DataOK
<1>3. /\ Cardinality(todo) \in Nat
      /\ IsFiniteSet(todo \ {w}) /\ Cardinality(todo \ {w}) = Cardinality(todo) - 1
    BY <1>2, FS_RemoveElement, FS_CardinalityType
<1>4. Cardinality(todo \ {w}) \in Nat /\ (Cardinality(todo \ {w}) = 0 => todo \ {w} = {})
    BY <1>3, FS_EmptySet, FS_CardinalityType
<1> QED BY <1>3, <1>4

LEMMA SweepStep ==
    ControlInv /\ TreeInv /\ SuccessInv /\ SweepInv /\ [Next]_vars => SweepInv'
<1> SUFFICES ASSUME ControlInv, TreeInv, SuccessInv, SweepInv, [Next]_vars, ~Normal'
             PROVE  SweepShape'
    BY DEF SweepInv
<1>0. /\ active \subseteq Item /\ todo \subseteq active /\ slots \in Nat
      /\ tree \in [Item -> {"none", "running", "exited", "killed", "unconfirmed"}]
      /\ event \in [Item -> {"not_executed", "running", "succeeded", "failed", "cancelled"}]
      /\ pc \in Owned \union Ended \union {"final", "sweep"}
      /\ Parallel \subseteq Item /\ Serial \subseteq Item /\ Serial \intersect Parallel = {}
    BY BatchAssumption DEF ControlInv, TypeOK, DataOK, Parallel, Serial, Item
<1> USE <1>0 DEF SweepInv, Normal, workers, verdict, switches
<1>1. CASE AdmissionOver
    BY <1>1 DEF AdmissionOver, MayAdmit, Pending, EndAdmission
<1>2. CASE Admit
    BY <1>2 DEF Admit, MayAdmit, Pending
<1>3. CASE WaitForWorkers
    BY <1>3 DEF WaitForWorkers, MayAdmit, Pending, EndAdmission
<1>4. CASE WaitIdle
    BY <1>4 DEF WaitIdle, MayAdmit, Pending, EndAdmission
<1>5. CASE AdmissionTimeout
    BY <1>5 DEF AdmissionTimeout, MayAdmit, Pending, StopForGate, EndAdmission
<1>6. CASE GateError
    BY <1>6 DEF GateError, MayAdmit, Pending, StopForGate, EndAdmission
<1>7. CASE Launch
    BY <1>7 DEF Launch
<1>8. CASE LaunchFails
    BY <1>8 DEF LaunchFails, Pending
<1>9. CASE SerialLaunchFails
    BY <1>9 DEF SerialLaunchFails, Pending
<1>10. CASE Track
    BY <1>10 DEF Track, Pending
<1>11. CASE PollOver
    BY <1>11 DEF PollOver
<1>12. CASE Barrier
    BY <1>12 DEF Barrier, SerialBlocked
<1>13. CASE SerialOver
    BY <1>13 DEF SerialOver
<1>14. CASE SerialWait
    BY <1>14 DEF SerialWait
<1>15. CASE SerialRetry
    BY <1>15 DEF SerialRetry
<1>16. CASE SerialAdmit
    BY <1>16 DEF SerialAdmit
<1>17. CASE SerialRefused
    BY <1>17 DEF SerialRefused
<1>18. CASE Finish
    BY <1>18 DEF Finish
<1>19. CASE SweepOver
    BY <1>19 DEF SweepOver, SettleEvents, Terminal, SweepShape, SerialAlone, OwnedTreesSwept, Alive
<1>20. CASE Interrupt
    BY <1>20, InterruptSweeps
<1>21. CASE AdmissionExpires
    BY <1>21 DEF AdmissionExpires, Owned
<1>22. CASE Stopped
    BY <1>22 DEF Stopped, vars, SweepShape, SerialAlone, OwnedTreesSwept, Alive
<1>23. CASE UNCHANGED vars
    BY <1>23 DEF Stopped, vars, SweepShape, SerialAlone, OwnedTreesSwept, Alive
<1>24. ASSUME NEW w \in Item, Supervise(w) PROVE SweepShape'
    <2>1. CASE StillRunning(w)
        BY <2>1 DEF StillRunning, First
    <2>2. CASE Release(w)
        BY <2>2 DEF Release, Supervised, First
    <2>3. CASE Record(w)
        BY <2>3 DEF Record, First
    <2>4. CASE RetireSucceeded(w)
        BY <2>4 DEF RetireSucceeded, Forget, First
    <2>5. CASE RetireFailed(w)
        BY <2>5 DEF RetireFailed, Forget, First
    <2>6. CASE RetireFailedSegment(w)
        BY <2>6 DEF RetireFailedSegment, Forget, First
    <2>7. CASE Kill(w)
        BY <2>7 DEF Kill, Supervised, First
    <2>8. CASE BuryUnconfirmed(w)
        BY <2>8 DEF BuryUnconfirmed, Forget, First
    <2>9. CASE BuryKilled(w)
        BY <2>9 DEF BuryKilled, Forget, First
    <2>10. CASE BuryKilledSegment(w)
        BY <2>10 DEF BuryKilledSegment, First
    <2>11. CASE DropSegment(w)
        BY <2>11 DEF DropSegment, Forget, First
    <2>12. CASE SweepConfirmed(w)
        <3>1. w \in todo /\ w \in Item /\ pc = "sweep" /\ SweepShape
            BY <2>12 DEF SweepConfirmed, First
        <3>2. SerialAlone'
            BY <2>12, <3>1 DEF SweepConfirmed, SweepShape, SerialAlone, Alive
        <3>3. CASE slots < 1
            <4>0. Cardinality(todo) <= slots + 1
                BY <3>1 DEF SweepShape
            <4>1. todo = {w}
                <5>1. TypeOK
                    BY DEF ControlInv
                <5>2. Cardinality(todo) \in Nat /\ (Cardinality(todo) <= 1 => todo = {w})
                    BY <3>1, <5>1, ListShrinks, Zenon
                <5> QED BY <3>3, <4>0, <5>2
            <4>2. pc' = "raised" /\ next' = next /\ active' = active
                BY <2>12, <3>3 DEF SweepConfirmed
            <4>3. \A i \in Item : tree'[i] = "running" => tree[i] = "running" /\ i # w
                BY <2>12 DEF SweepConfirmed
            <4>4. OwnedTreesSwept'
                BY <3>1, <4>1, <4>2, <4>3 DEF SweepShape, OwnedTreesSwept
            <4> QED BY <3>2, <4>2, <4>4 DEF SweepShape
        <3>4. CASE ~(slots < 1)
            <4>1. /\ pc' = "sweep" /\ slots' = slots - 1 /\ todo' = todo \ {w}
                  /\ next' = next /\ active' = active
                BY <2>12, <3>1, <3>4 DEF SweepConfirmed
            <4>2. Cardinality(todo') <= slots' + 1
                BY <3>1, <3>4, <4>1, ListShrinks DEF SweepShape, ControlInv
            <4>3. \A i \in Item : tree'[i] = "running" => tree[i] = "running" /\ i # w
                BY <2>12 DEF SweepConfirmed
            <4> QED BY <3>1, <3>2, <4>1, <4>2, <4>3 DEF SweepShape, OwnedTreesSwept
        <3> QED BY <3>3, <3>4
    <2>13. CASE SweepUnconfirmed(w)
        <3>1. w \in todo /\ w \in Item /\ SweepShape
            BY <2>13 DEF SweepUnconfirmed, First
        <3>2. Cardinality(todo') <= slots' + 1
            BY <2>13, <3>1, ListShrinks DEF SweepUnconfirmed, SweepShape, ControlInv
        <3>3. SerialAlone' /\ OwnedTreesSwept'
            BY <2>13, <3>1 DEF SweepUnconfirmed, SweepShape, SerialAlone, OwnedTreesSwept, Alive
        <3> QED BY <2>13, <3>1, <3>2, <3>3 DEF SweepUnconfirmed, SweepShape
    <2> QED BY <1>24, <2>1, <2>2, <2>3, <2>4, <2>5, <2>6, <2>7, <2>8, <2>9, <2>10, <2>11, <2>12,
       <2>13 DEF Supervise
<1>25. ASSUME NEW i \in Item, WorkerExits(i) PROVE SweepShape'
    <2>1. SerialAlone'
        BY <1>25 DEF WorkerExits, SweepShape, SerialAlone, Alive
    <2> QED BY <1>25, <2>1 DEF WorkerExits, SweepShape, OwnedTreesSwept
<1>26. ASSUME NEW i \in Item, WorkerExpires(i) PROVE SweepShape'
    <2>1. SerialAlone'
        BY <1>26 DEF WorkerExpires, SweepShape, SerialAlone, Alive
    <2> QED BY <1>26, <2>1 DEF WorkerExpires, SweepShape, OwnedTreesSwept
<1> QED BY <1>1, <1>2, <1>3, <1>4, <1>5, <1>6, <1>7, <1>8, <1>9, <1>10, <1>11, <1>12, <1>13,
          <1>14, <1>15, <1>16, <1>17, <1>18, <1>19, <1>20, <1>21, <1>22, <1>23, <1>24, <1>25, <1>26
       DEF Next, Coordinator
-----------------------------------------------------------------------------
(* Which items' nodes are in the outcome.                                  *)

\* Behind the schedule, recorded or killed but not yet removed, or behind a
\* segment that was killed.
Counted(i) ==
    \/ i < next /\ i \notin active
    \/ pc \in {"retire", "bury", "drop"} /\ First(i, todo)
    \/ pc \in {"bury", "drop"} /\ InSerial /\ i > next
TallyShape ==
    /\ pc \in Owned => \A i \in Item : tally[i] = IF Counted(i) THEN 1 ELSE 0
    /\ Over => \A i \in Item : tally[i] = IF SerialLaunchFailed /\ i > next THEN 0 ELSE 1
TallyInv == Normal => TallyShape

LEMMA TallyStep == ControlInv /\ BlameInv /\ TallyInv /\ [Next]_vars => TallyInv'
<1> SUFFICES ASSUME ControlInv, BlameInv, TallyInv, [Next]_vars, Normal' PROVE TallyShape'
    BY DEF TallyInv
<1>0. /\ ParallelCount \in Nat /\ SerialCount \in Nat /\ next \in Nat
      /\ next \in 1 .. (ParallelCount + SerialCount + 1)
      /\ \A i \in Item : i \in Nat
      /\ active \subseteq Item /\ todo \subseteq active
      /\ tally \in [Item -> Nat]
    BY BatchAssumption DEF ControlInv, TypeOK, DataOK, Item
<1> USE <1>0 DEF ControlInv, Normal, ShapeInv, BlameInv, TallyInv, Owned, Ended,
           Busy, Over, Item, Parallel, Serial, workers, verdict, switches,
           Shape, InParallel, InSerial, ParallelShape, SerialShape, Because, Blame,
           TallyShape, Counted, SerialLaunchFailed
<1>1. CASE AdmissionOver
    BY <1>1 DEF AdmissionOver, MayAdmit, Pending, EndAdmission, First
<1>2. CASE Admit
    BY <1>2 DEF Admit, MayAdmit, Pending, First
<1>3. CASE WaitForWorkers
    BY <1>3 DEF WaitForWorkers, MayAdmit, Pending, EndAdmission, First
<1>4. CASE WaitIdle
    BY <1>4 DEF WaitIdle, MayAdmit, Pending, EndAdmission, First
<1>5. CASE AdmissionTimeout
    BY <1>5 DEF AdmissionTimeout, MayAdmit, Pending, StopForGate, EndAdmission, First
<1>6. CASE GateError
    BY <1>6 DEF GateError, MayAdmit, Pending, StopForGate, EndAdmission, First
<1>7. CASE Launch
    BY <1>7 DEF Launch, First
<1>8. CASE LaunchFails
    <2>1. InParallel /\ next \in Item /\ next \notin active
        BY <1>8 DEF LaunchFails, Pending, Shape, InParallel, InSerial, ParallelShape, SerialShape,
           Held
    <2>2. \A i \in Item : Counted(i) <=> i < next /\ i \notin active
        BY <1>8 DEF LaunchFails, Counted
    <2>3. \A i \in Item : Counted(i)' <=> i < next + 1 /\ i \notin active
        BY <1>8 DEF LaunchFails, Counted
    <2>4. \A i \in Item : tally'[i] = IF i = next THEN tally[i] + 1 ELSE tally[i]
        BY <1>8, <2>1 DEF LaunchFails, CountFailed
    <2>5. \A i \in Item : tally[i] = IF Counted(i) THEN 1 ELSE 0
        BY <1>8 DEF LaunchFails, TallyShape
    <2>6. \A i \in Item : tally'[i] = IF Counted(i)' THEN 1 ELSE 0
        BY <2>1, <2>2, <2>3, <2>4, <2>5
    <2> QED BY <1>8, <2>6 DEF LaunchFails, TallyShape
<1>9. CASE SerialLaunchFails
    BY <1>9 DEF SerialLaunchFails, Pending, CountFailed, First
<1>10. CASE Track
    BY <1>10 DEF Track, Pending, First
<1>11. CASE PollOver
    BY <1>11 DEF PollOver, First
<1>12. CASE Barrier
    BY <1>12 DEF Barrier, SerialBlocked, First
<1>13. CASE SerialOver
    BY <1>13 DEF SerialOver, First
<1>14. CASE SerialWait
    BY <1>14 DEF SerialWait, First
<1>15. CASE SerialRetry
    BY <1>15 DEF SerialRetry, First
<1>16. CASE SerialAdmit
    BY <1>16 DEF SerialAdmit, First
<1>17. CASE SerialRefused
    BY <1>17 DEF SerialRefused, After, First
<1>18. CASE Finish
    BY <1>18 DEF Finish, First
<1>19. CASE SweepOver
    BY <1>19 DEF SweepOver, First
<1>20. CASE Interrupt
    BY <1>20 DEF Interrupt, First
<1>21. CASE AdmissionExpires
    BY <1>21 DEF AdmissionExpires, First
<1>22. CASE Stopped
    BY <1>22 DEF Stopped, vars, First
<1>23. CASE UNCHANGED vars
    BY <1>23 DEF vars, First
<1>24. ASSUME NEW w \in Item, Supervise(w) PROVE TallyShape'
    <2>1. CASE StillRunning(w)
        BY <2>1 DEF StillRunning, First
    <2>2. CASE Release(w)
        BY <2>2 DEF Release, Supervised, First
    <2>3. CASE Record(w)
        BY <2>3 DEF Record, First
    <2>4. CASE RetireSucceeded(w)
        <3>1. CASE w \in Parallel
            <4>1. \A i \in Item : First(i, todo) <=> i = w
                BY <2>4, <3>1 DEF RetireSucceeded, First
            <4>2. /\ w < next /\ ~InSerial
               /\ pc' = "poll" /\ next' = next /\ active' = active \ {w} /\ tally' = tally
                BY <2>4, <3>1 DEF RetireSucceeded, Forget, First, Shape, InParallel, InSerial,
                   ParallelShape, SerialShape, Held
            <4>3. \A i \in Item : Counted(i) <=> (i < next /\ i \notin active) \/ i = w
                BY <2>4, <3>1, <4>1, <4>2 DEF RetireSucceeded, Counted
            <4>4. \A i \in Item : Counted(i)' <=> i < next /\ i \notin active \ {w}
                BY <4>2 DEF Counted
            <4>5. \A i \in Item : tally[i] = IF Counted(i) THEN 1 ELSE 0
                BY <2>4, <3>1 DEF RetireSucceeded, TallyShape
            <4>6. \A i \in Item : Counted(i)' <=> Counted(i)
                BY <4>2, <4>3, <4>4
            <4> QED BY <4>2, <4>5, <4>6 DEF TallyShape
        <3>2. CASE w \notin Parallel
            <4>1. todo = {next} /\ active = {next} /\ w = next /\ InSerial
                BY <2>4, <3>2 DEF RetireSucceeded, First, Shape, InParallel, InSerial,
                   ParallelShape, SerialShape
            <4>2. pc' = "segment" /\ next' = next + 1 /\ active' = {} /\ tally' = tally
                BY <2>4, <3>2, <4>1 DEF RetireSucceeded, Forget
            <4>3. \A i \in Item : Counted(i) <=> i < next \/ i = next
                BY <2>4, <4>1 DEF RetireSucceeded, Counted, First
            <4>4. \A i \in Item : Counted(i)' <=> i < next + 1
                BY <4>2 DEF Counted
            <4>5. \A i \in Item : tally[i] = IF Counted(i) THEN 1 ELSE 0
                BY <2>4 DEF RetireSucceeded, TallyShape
            <4> QED BY <4>2, <4>3, <4>4, <4>5 DEF TallyShape
        <3> QED BY <3>1, <3>2
    <2>5. CASE RetireFailed(w)
        <3>1. \A i \in Item : First(i, todo) <=> i = w
            BY <2>5 DEF RetireFailed, First
        <3>2. /\ w < next /\ ~InSerial
           /\ pc' = "poll" /\ next' = next /\ active' = active \ {w} /\ tally' = tally
            BY <2>5 DEF RetireFailed, Forget, First, Shape, InParallel, InSerial, ParallelShape,
               SerialShape, Held
        <3>3. \A i \in Item : Counted(i) <=> (i < next /\ i \notin active) \/ i = w
            BY <2>5, <3>1, <3>2 DEF RetireFailed, Counted
        <3>4. \A i \in Item : Counted(i)' <=> i < next /\ i \notin active \ {w}
            BY <3>2 DEF Counted
        <3>5. \A i \in Item : tally[i] = IF Counted(i) THEN 1 ELSE 0
            BY <2>5 DEF RetireFailed, TallyShape
        <3>6. \A i \in Item : Counted(i)' <=> Counted(i)
            BY <3>2, <3>3, <3>4
        <3> QED BY <3>2, <3>5, <3>6 DEF TallyShape
    <2>6. CASE RetireFailedSegment(w)
        BY <2>6 DEF RetireFailedSegment, Forget, First, After
    <2>7. CASE Kill(w)
        BY <2>7 DEF Kill, Supervised, First, After
    <2>8. CASE BuryUnconfirmed(w)
        <3>1. CASE w \in Parallel
            <4>1. \A i \in Item : First(i, todo) <=> i = w
                BY <2>8, <3>1 DEF BuryUnconfirmed, First
            <4>2. /\ w < next /\ ~InSerial
               /\ pc' = "poll" /\ next' = next /\ active' = active \ {w} /\ tally' = tally
                BY <2>8, <3>1 DEF BuryUnconfirmed, Forget, First, Shape, InParallel, InSerial,
                   ParallelShape, SerialShape, Held
            <4>3. \A i \in Item : Counted(i) <=> (i < next /\ i \notin active) \/ i = w
                BY <2>8, <3>1, <4>1, <4>2 DEF BuryUnconfirmed, Counted
            <4>4. \A i \in Item : Counted(i)' <=> i < next /\ i \notin active \ {w}
                BY <4>2 DEF Counted
            <4>5. \A i \in Item : tally[i] = IF Counted(i) THEN 1 ELSE 0
                BY <2>8, <3>1 DEF BuryUnconfirmed, TallyShape
            <4>6. \A i \in Item : Counted(i)' <=> Counted(i)
                BY <4>2, <4>3, <4>4
            <4> QED BY <4>2, <4>5, <4>6 DEF TallyShape
        <3>2. CASE w \notin Parallel
            <4>1. pc \in {"bury", "drop"} /\ InSerial /\ todo = {next} /\ active = {next}
                BY <2>8, <3>2 DEF BuryUnconfirmed, First, Shape, InParallel, InSerial,
                   ParallelShape, SerialShape
            <4>2. pc' = "final" /\ next' = next /\ tally' = tally /\ ~SerialLaunchFailed'
                BY <2>8, <3>2, <4>1 DEF BuryUnconfirmed, Blame, SerialLaunchFailed
            <4>3. \A i \in Item : Counted(i)
                BY <4>1 DEF Counted, First
            <4>4. \A i \in Item : tally[i] = 1
                BY <4>1, <4>3 DEF TallyShape
            <4> QED BY <4>2, <4>4 DEF TallyShape
        <3> QED BY <3>1, <3>2
    <2>9. CASE BuryKilled(w)
        <3>1. \A i \in Item : First(i, todo) <=> i = w
            BY <2>9 DEF BuryKilled, First
        <3>2. /\ w < next /\ ~InSerial
           /\ pc' = "poll" /\ next' = next /\ active' = active \ {w} /\ tally' = tally
            BY <2>9 DEF BuryKilled, Forget, First, Shape, InParallel, InSerial, ParallelShape,
               SerialShape, Held
        <3>3. \A i \in Item : Counted(i) <=> (i < next /\ i \notin active) \/ i = w
            BY <2>9, <3>1, <3>2 DEF BuryKilled, Counted
        <3>4. \A i \in Item : Counted(i)' <=> i < next /\ i \notin active \ {w}
            BY <3>2 DEF Counted
        <3>5. \A i \in Item : tally[i] = IF Counted(i) THEN 1 ELSE 0
            BY <2>9 DEF BuryKilled, TallyShape
        <3>6. \A i \in Item : Counted(i)' <=> Counted(i)
            BY <3>2, <3>3, <3>4
        <3> QED BY <3>2, <3>5, <3>6 DEF TallyShape
    <2>10. CASE BuryKilledSegment(w)
        BY <2>10 DEF BuryKilledSegment, First
    <2>11. CASE DropSegment(w)
        <3>1. pc \in {"bury", "drop"} /\ InSerial /\ todo = {next} /\ active = {next}
            BY <2>11 DEF DropSegment, First, Shape, InParallel, InSerial, ParallelShape, SerialShape
        <3>2. pc' = "final" /\ next' = next /\ tally' = tally /\ ~SerialLaunchFailed'
            BY <2>11, <3>1 DEF DropSegment, Blame, SerialLaunchFailed
        <3>3. \A i \in Item : Counted(i)
            BY <3>1 DEF Counted, First
        <3>4. \A i \in Item : tally[i] = 1
            BY <3>1, <3>3 DEF TallyShape
        <3> QED BY <3>2, <3>4 DEF TallyShape
    <2>12. CASE SweepConfirmed(w)
        BY <2>12 DEF SweepConfirmed, First
    <2>13. CASE SweepUnconfirmed(w)
        BY <2>13 DEF SweepUnconfirmed, First
    <2> QED BY <1>24, <2>1, <2>2, <2>3, <2>4, <2>5, <2>6, <2>7, <2>8, <2>9, <2>10, <2>11, <2>12,
       <2>13 DEF Supervise
<1>25. ASSUME NEW i \in Item, WorkerExits(i) PROVE TallyShape'
    BY <1>25 DEF WorkerExits, First
<1>26. ASSUME NEW i \in Item, WorkerExpires(i) PROVE TallyShape'
    BY <1>26 DEF WorkerExpires, First
<1> QED BY <1>1, <1>2, <1>3, <1>4, <1>5, <1>6, <1>7, <1>8, <1>9, <1>10, <1>11, <1>12, <1>13,
          <1>14, <1>15, <1>16, <1>17, <1>18, <1>19, <1>20, <1>21, <1>22, <1>23, <1>24, <1>25, <1>26
       DEF Next, Coordinator
-----------------------------------------------------------------------------
(* The invariant of the batch.                                             *)

BatchInv == ControlInv /\ TreeInv /\ BlameInv /\ SuccessInv /\ SweepInv /\ TallyInv

LEMMA InitBatch == Init => BatchInv
<1> SUFFICES ASSUME Init PROVE BatchInv
    OBVIOUS
<1>1. pc = "admit" /\ Normal /\ InParallel /\ ~InSerial /\ ~Over
    BY DEF Init, Normal, InParallel, InSerial, Over, Busy
<1>2. BlameInv
    BY <1>1 DEF Init, BlameInv, Blame
<1>3. SuccessInv
    <2>1. \A p \in Parallel : ~(p < next)
        BY BatchAssumption DEF Init, Parallel
    <2> QED BY <1>1, <2>1 DEF SuccessInv, Successes
<1>4. SweepInv
    BY <1>1 DEF SweepInv
<1>5. TallyInv
    <2>1. \A i \in Item : ~Counted(i) /\ tally[i] = 0
        BY <1>1, BatchAssumption DEF Init, Counted, Item
    <2> QED BY <1>1, <2>1 DEF TallyInv, TallyShape
<1> QED BY <1>2, <1>3, <1>4, <1>5, InitControl, InitTrees DEF BatchInv

LEMMA BatchStep == BatchInv /\ [Next]_vars => BatchInv'
BY ControlStep, TreeStep, BlameStep, SuccessStep, SweepStep, TallyStep DEF BatchInv

THEOREM BatchCorrect == Spec => []BatchInv
BY InitBatch, BatchStep, PTL DEF Spec

\* Until an interrupt every tree that may be alive has its slot, the trees
\* included whose kill could not be confirmed.
THEOREM SlotsSafe == Spec => []SlotsCoverTrees
<1>1. BatchInv => SlotsCoverTrees
    BY AliveCovered DEF BatchInv
<1> QED BY <1>1, BatchCorrect, PTL

\* The gate never counts fewer trees than may be alive nor more than are held.
THEOREM GateCorrect == Spec => []GateConserved
BY SlotsCorrect, SlotsSafe, PTL DEF GateConserved

\* A serial segment runs while no other tree can be alive and after every
\* parallel item has succeeded, the cancellation included.
THEOREM SerialAloneCorrect == Spec => []SerialAlone
<1>1. BatchInv => SerialAlone
    BY NormalAlone DEF BatchInv, SweepInv, SweepShape
<1> QED BY <1>1, BatchCorrect, PTL

\* The sweep of a cancellation visits every owned worker, although the gate may
\* raise when it counts no worker any more.
THEOREM SweepCorrect == Spec => []OwnedTreesSwept
<1>1. BatchInv => OwnedTreesSwept
    BY DEF BatchInv, SweepInv, SweepShape, OwnedTreesSwept, Normal
<1> QED BY <1>1, BatchCorrect, PTL

\* Every node is in the outcome exactly once, except behind a serial segment
\* whose launch failed.
THEOREM NodesCorrect == Spec => []NodesAccounted
<1>1. BatchInv => NodesAccounted
    BY DEF BatchInv, TallyInv, TallyShape, NodesAccounted, Normal, Over
<1> QED BY <1>1, BatchCorrect, PTL

\* A batch that reports success ran everything and left nothing behind.
THEOREM SuccessCorrect == Spec => []SuccessIsTotal
<1>1. BatchInv => SuccessIsTotal
    <2> SUFFICES ASSUME BatchInv, Succeeded
                 PROVE  /\ \A i \in Item : event[i] = "succeeded" /\ tally[i] = 1
                        /\ Alive = {} /\ slots = 0
        BY DEF SuccessIsTotal
    <2>1. pc = "returned" /\ reason = "none" /\ Normal /\ Over
        BY DEF Succeeded, Normal, Over
    <2>2. \A i \in Item : event[i] = "succeeded" /\ tally[i] = 1
        BY <2>1 DEF BatchInv, SuccessInv, Successes, TallyInv, TallyShape, SerialLaunchFailed
    <2>3. Held = {}
        BY <2>1 DEF BatchInv, ControlInv, ShapeInv, Shape, BlameInv, Blame, Held
    <2>4. Alive = {}
        BY <2>1, <2>3 DEF BatchInv, TreeInv, TreesOwned
    <2>5. slots = 0
        BY <2>1, <2>3, FS_EmptySet DEF BatchInv, ControlInv, SlotInv, Offset
    <2> QED BY <2>2, <2>4, <2>5
<1> QED BY <1>1, BatchCorrect, PTL

\* No worker starts once a failure has stopped admission: without skip_error
\* any failure of a worker does, with it an unconfirmed tree or the gate.
FirstFailureStops ==
    [][\A i \in Item : tree[i] = "none" /\ tree'[i] = "running" =>
         /\ parFailed => skipError
         /\ uncleaned = {}
         /\ reason \notin {"memory_gate_error", "memory_admission_timeout"}]_vars

\* What a step that launches a worker finds.
LaunchAllowed ==
    \A i \in Item : tree[i] = "none" /\ tree'[i] = "running" =>
        /\ parFailed => skipError
        /\ uncleaned = {}
        /\ reason \notin {"memory_gate_error", "memory_admission_timeout"}

LEMMA StepLaunches == BatchInv /\ [Next]_vars => LaunchAllowed
<1> SUFFICES ASSUME BatchInv, [Next]_vars,
                    NEW t \in Item, tree[t] = "none", tree'[t] = "running"
             PROVE  /\ parFailed => skipError
                    /\ uncleaned = {}
                    /\ reason \notin {"memory_gate_error", "memory_admission_timeout"}
    BY DEF LaunchAllowed
<1>0. tree \in [Item -> {"none", "running", "exited", "killed", "unconfirmed"}]
    BY DEF BatchInv, ControlInv, TypeOK, DataOK
<1> USE <1>0 DEF workers, verdict, switches
<1>1. CASE AdmissionOver
    BY <1>1 DEF AdmissionOver, MayAdmit, Pending, EndAdmission
<1>2. CASE Admit
    BY <1>2 DEF Admit, MayAdmit, Pending
<1>3. CASE WaitForWorkers
    BY <1>3 DEF WaitForWorkers, MayAdmit, Pending, EndAdmission
<1>4. CASE WaitIdle
    BY <1>4 DEF WaitIdle, MayAdmit, Pending, EndAdmission
<1>5. CASE AdmissionTimeout
    BY <1>5 DEF AdmissionTimeout, MayAdmit, Pending, StopForGate, EndAdmission
<1>6. CASE GateError
    BY <1>6 DEF GateError, MayAdmit, Pending, StopForGate, EndAdmission
<1>7. CASE Launch
    <2>1. pc = "launch" /\ Normal /\ (InParallel \/ InSerial)
        BY <1>7 DEF Launch, Normal, Owned, BatchInv, ControlInv, ShapeInv, Shape
    <2>2. CASE InParallel
        <3>1. ~stop
            BY <2>1, <2>2 DEF BatchInv, BlameInv, Blame
        <3> QED BY <2>1, <2>2, <3>1 DEF BatchInv, BlameInv, Blame
    <2>3. CASE InSerial
        BY <2>1, <2>3 DEF BatchInv, ControlInv, ShapeInv, Shape, SerialShape, BlameInv, Blame
    <2> QED BY <2>1, <2>2, <2>3
<1>8. CASE LaunchFails
    BY <1>8 DEF LaunchFails, Pending
<1>9. CASE SerialLaunchFails
    BY <1>9 DEF SerialLaunchFails, Pending
<1>10. CASE Track
    BY <1>10 DEF Track, Pending
<1>11. CASE PollOver
    BY <1>11 DEF PollOver
<1>12. CASE Barrier
    BY <1>12 DEF Barrier, SerialBlocked
<1>13. CASE SerialOver
    BY <1>13 DEF SerialOver
<1>14. CASE SerialWait
    BY <1>14 DEF SerialWait
<1>15. CASE SerialRetry
    BY <1>15 DEF SerialRetry
<1>16. CASE SerialAdmit
    BY <1>16 DEF SerialAdmit
<1>17. CASE SerialRefused
    BY <1>17 DEF SerialRefused
<1>18. CASE Finish
    BY <1>18 DEF Finish
<1>19. CASE SweepOver
    BY <1>19 DEF SweepOver
<1>20. CASE Interrupt
    BY <1>20 DEF Interrupt
<1>21. CASE AdmissionExpires
    BY <1>21 DEF AdmissionExpires
<1>22. CASE Stopped
    BY <1>22 DEF Stopped, vars
<1>23. CASE UNCHANGED vars
    BY <1>23 DEF vars
<1>24. ASSUME NEW w \in Item, Supervise(w) PROVE FALSE
    <2>1. CASE StillRunning(w)
        BY <2>1 DEF StillRunning, First
    <2>2. CASE Release(w)
        BY <2>2 DEF Release, Supervised, First
    <2>3. CASE Record(w)
        BY <2>3 DEF Record, First
    <2>4. CASE RetireSucceeded(w)
        BY <2>4 DEF RetireSucceeded, Forget, First
    <2>5. CASE RetireFailed(w)
        BY <2>5 DEF RetireFailed, Forget, First
    <2>6. CASE RetireFailedSegment(w)
        BY <2>6 DEF RetireFailedSegment, Forget, First
    <2>7. CASE Kill(w)
        BY <2>7 DEF Kill, Supervised, First
    <2>8. CASE BuryUnconfirmed(w)
        BY <2>8 DEF BuryUnconfirmed, Forget, First
    <2>9. CASE BuryKilled(w)
        BY <2>9 DEF BuryKilled, Forget, First
    <2>10. CASE BuryKilledSegment(w)
        BY <2>10 DEF BuryKilledSegment, First
    <2>11. CASE DropSegment(w)
        BY <2>11 DEF DropSegment, Forget, First
    <2>12. CASE SweepConfirmed(w)
        BY <2>12 DEF SweepConfirmed, First
    <2>13. CASE SweepUnconfirmed(w)
        BY <2>13 DEF SweepUnconfirmed, First
    <2> QED BY <1>24, <2>1, <2>2, <2>3, <2>4, <2>5, <2>6, <2>7, <2>8, <2>9, <2>10, <2>11, <2>12,
       <2>13 DEF Supervise
<1>25. ASSUME NEW i \in Item, WorkerExits(i) PROVE FALSE
    BY <1>25 DEF WorkerExits
<1>26. ASSUME NEW i \in Item, WorkerExpires(i) PROVE FALSE
    BY <1>26 DEF WorkerExpires
<1> QED BY <1>1, <1>2, <1>3, <1>4, <1>5, <1>6, <1>7, <1>8, <1>9, <1>10, <1>11, <1>12, <1>13,
          <1>14, <1>15, <1>16, <1>17, <1>18, <1>19, <1>20, <1>21, <1>22, <1>23, <1>24, <1>25, <1>26
       DEF Next, Coordinator

\* Once a failure has stopped admission (stop_admission, the barrier, the end of the serial loop)
\* no worker process is started any more.
THEOREM FailureStops == Spec => FirstFailureStops
<1>1. BatchInv /\ [Next]_vars => [LaunchAllowed]_vars
    BY StepLaunches
<1>2. Spec => [][LaunchAllowed]_vars
    BY <1>1, BatchCorrect, PTL DEF Spec
<1> QED BY <1>2 DEF FirstFailureStops, LaunchAllowed
-----------------------------------------------------------------------------
(* What the workers' statuses say of the plan.                             *)

\* The worker whose result is known but that is still in active.
Judged(i) == pc \in {"retire", "bury", "drop"} /\ First(i, todo)

\* The items from next on were not begun, those before it are running or done.
Events ==
    /\ \A i \in Item : i >= next /\ i \notin active =>
         /\ event[i] = "not_executed"
         /\ tree[i] = "none" \/ (pc = "launched" /\ i = next)
    /\ pc = "launched" => tree[next] # "none"
    /\ \A i \in Item : i < next /\ i \notin active => event[i] \in {"succeeded", "failed"}
    /\ \A i \in active : /\ tree[i] # "none"
                         /\ IF Judged(i) THEN event[i] \in {"succeeded", "failed"}
                                         ELSE event[i] = "running"
    /\ pc \in {"bury", "drop"} => \A i \in active : Judged(i) => event[i] = "failed"
    /\ pc = "launch" /\ next \in Parallel => Cardinality(active) < MaxConcurrency
    /\ InSerial => ~stop
EventInv == pc \in Owned => Events

LEMMA EventStep == ControlInv /\ EventInv /\ [Next]_vars => EventInv'
<1> SUFFICES ASSUME ControlInv, EventInv, [Next]_vars, pc' \in Owned PROVE Events'
    BY DEF EventInv
<1>0. /\ ParallelCount \in Nat /\ SerialCount \in Nat /\ next \in Nat
      /\ \A i \in Item : i \in Nat
    BY BatchAssumption DEF ControlInv, TypeOK, DataOK, Item
<1> USE <1>0 DEF ControlInv, TypeOK, DataOK, Normal, ShapeInv, EventInv, Owned, Ended, Busy, Over, Item, Parallel,
           Serial, workers, verdict, switches, Shape, InParallel, InSerial, ParallelShape,
           SerialShape, Events, Judged, First, Held
<1>1. CASE AdmissionOver
    BY <1>1 DEF AdmissionOver, MayAdmit, Pending, EndAdmission
<1>2. CASE Admit
    BY <1>2 DEF Admit, MayAdmit, Pending
<1>3. CASE WaitForWorkers
    BY <1>3 DEF WaitForWorkers, MayAdmit, Pending, EndAdmission
<1>4. CASE WaitIdle
    BY <1>4 DEF WaitIdle, MayAdmit, Pending, EndAdmission
<1>5. CASE AdmissionTimeout
    BY <1>5 DEF AdmissionTimeout, MayAdmit, Pending, StopForGate, EndAdmission
<1>6. CASE GateError
    BY <1>6 DEF GateError, MayAdmit, Pending, StopForGate, EndAdmission
<1>7. CASE Launch
    BY <1>7 DEF Launch
<1>8. CASE LaunchFails
    BY <1>8 DEF LaunchFails, Pending, CountFailed
<1>9. CASE SerialLaunchFails
    BY <1>9 DEF SerialLaunchFails, Pending, CountFailed
<1>10. CASE Track
    BY <1>10 DEF Track, Pending
<1>11. CASE PollOver
    BY <1>11 DEF PollOver
<1>12. CASE Barrier
    BY <1>12 DEF Barrier, SerialBlocked
<1>13. CASE SerialOver
    BY <1>13 DEF SerialOver
<1>14. CASE SerialWait
    BY <1>14 DEF SerialWait
<1>15. CASE SerialRetry
    BY <1>15 DEF SerialRetry
<1>16. CASE SerialAdmit
    BY <1>16 DEF SerialAdmit
<1>17. CASE SerialRefused
    BY <1>17 DEF SerialRefused
<1>18. CASE Finish
    BY <1>18 DEF Finish, SettleEvents
<1>19. CASE SweepOver
    BY <1>19 DEF SweepOver, SettleEvents
<1>20. CASE Interrupt
    BY <1>20 DEF Interrupt
<1>21. CASE AdmissionExpires
    BY <1>21 DEF AdmissionExpires
<1>22. CASE Stopped
    BY <1>22 DEF Stopped, vars
<1>23. CASE UNCHANGED vars
    BY <1>23 DEF vars
<1>24. ASSUME NEW w \in Item, Supervise(w) PROVE Events'
    <2>1. CASE StillRunning(w)
        BY <2>1 DEF StillRunning, First
    <2>2. CASE Release(w)
        BY <2>2 DEF Release, Supervised, First
    <2>3. CASE Record(w)
        BY <2>3 DEF Record, First
    <2>4. CASE RetireSucceeded(w)
        BY <2>4 DEF RetireSucceeded, Forget, First
    <2>5. CASE RetireFailed(w)
        BY <2>5 DEF RetireFailed, Forget, First
    <2>6. CASE RetireFailedSegment(w)
        BY <2>6 DEF RetireFailedSegment, Forget, First
    <2>7. CASE Kill(w)
        BY <2>7 DEF Kill, Supervised, First
    <2>8. CASE BuryUnconfirmed(w)
        BY <2>8 DEF BuryUnconfirmed, Forget, First
    <2>9. CASE BuryKilled(w)
        BY <2>9 DEF BuryKilled, Forget, First
    <2>10. CASE BuryKilledSegment(w)
        BY <2>10 DEF BuryKilledSegment, First
    <2>11. CASE DropSegment(w)
        BY <2>11 DEF DropSegment, Forget, First
    <2>12. CASE SweepConfirmed(w)
        BY <2>12 DEF SweepConfirmed, First
    <2>13. CASE SweepUnconfirmed(w)
        BY <2>13 DEF SweepUnconfirmed, First
    <2> QED BY <1>24, <2>1, <2>2, <2>3, <2>4, <2>5, <2>6, <2>7, <2>8, <2>9, <2>10, <2>11, <2>12,
       <2>13 DEF Supervise
<1>25. ASSUME NEW i \in Item, WorkerExits(i) PROVE Events'
    BY <1>25 DEF WorkerExits
<1>26. ASSUME NEW i \in Item, WorkerExpires(i) PROVE Events'
    BY <1>26 DEF WorkerExpires
<1> QED BY <1>1, <1>2, <1>3, <1>4, <1>5, <1>6, <1>7, <1>8, <1>9, <1>10, <1>11, <1>12, <1>13,
          <1>14, <1>15, <1>16, <1>17, <1>18, <1>19, <1>20, <1>21, <1>22, <1>23, <1>24, <1>25, <1>26
       DEF Next, Coordinator

\* The sweep visits only workers that were launched.
Begun    == \A i \in todo : tree[i] # "none"
BegunInv == pc = "sweep" => Begun

LEMMA BegunStep == ControlInv /\ EventInv /\ BegunInv /\ [Next]_vars => BegunInv'
<1> SUFFICES ASSUME ControlInv, EventInv, BegunInv, [Next]_vars, pc' = "sweep" PROVE Begun'
    BY DEF BegunInv
<1>0. /\ ParallelCount \in Nat /\ SerialCount \in Nat /\ next \in Nat
      /\ \A i \in Item : i \in Nat
    BY BatchAssumption DEF ControlInv, TypeOK, DataOK, Item
<1> USE <1>0 DEF ControlInv, TypeOK, DataOK, EventInv, BegunInv, Owned, workers, verdict, switches, Events, Begun
<1>1. CASE AdmissionOver
    BY <1>1 DEF AdmissionOver, MayAdmit, Pending, EndAdmission
<1>2. CASE Admit
    BY <1>2 DEF Admit, MayAdmit, Pending
<1>3. CASE WaitForWorkers
    BY <1>3 DEF WaitForWorkers, MayAdmit, Pending, EndAdmission
<1>4. CASE WaitIdle
    BY <1>4 DEF WaitIdle, MayAdmit, Pending, EndAdmission
<1>5. CASE AdmissionTimeout
    BY <1>5 DEF AdmissionTimeout, MayAdmit, Pending, StopForGate, EndAdmission
<1>6. CASE GateError
    BY <1>6 DEF GateError, MayAdmit, Pending, StopForGate, EndAdmission
<1>7. CASE Launch
    BY <1>7 DEF Launch
<1>8. CASE LaunchFails
    BY <1>8 DEF LaunchFails, Pending, CountFailed
<1>9. CASE SerialLaunchFails
    BY <1>9 DEF SerialLaunchFails, Pending, CountFailed
<1>10. CASE Track
    BY <1>10 DEF Track, Pending
<1>11. CASE PollOver
    BY <1>11 DEF PollOver
<1>12. CASE Barrier
    BY <1>12 DEF Barrier, SerialBlocked
<1>13. CASE SerialOver
    BY <1>13 DEF SerialOver
<1>14. CASE SerialWait
    BY <1>14 DEF SerialWait
<1>15. CASE SerialRetry
    BY <1>15 DEF SerialRetry
<1>16. CASE SerialAdmit
    BY <1>16 DEF SerialAdmit
<1>17. CASE SerialRefused
    BY <1>17 DEF SerialRefused
<1>18. CASE Finish
    BY <1>18 DEF Finish, SettleEvents
<1>19. CASE SweepOver
    BY <1>19 DEF SweepOver, SettleEvents
<1>20. CASE Interrupt
    BY <1>20 DEF Interrupt
<1>21. CASE AdmissionExpires
    BY <1>21 DEF AdmissionExpires
<1>22. CASE Stopped
    BY <1>22 DEF Stopped, vars
<1>23. CASE UNCHANGED vars
    BY <1>23 DEF vars
<1>24. ASSUME NEW w \in Item, Supervise(w) PROVE Begun'
    <2>1. CASE StillRunning(w)
        BY <2>1 DEF StillRunning, First
    <2>2. CASE Release(w)
        BY <2>2 DEF Release, Supervised, First
    <2>3. CASE Record(w)
        BY <2>3 DEF Record, First
    <2>4. CASE RetireSucceeded(w)
        BY <2>4 DEF RetireSucceeded, Forget, First
    <2>5. CASE RetireFailed(w)
        BY <2>5 DEF RetireFailed, Forget, First
    <2>6. CASE RetireFailedSegment(w)
        BY <2>6 DEF RetireFailedSegment, Forget, First
    <2>7. CASE Kill(w)
        BY <2>7 DEF Kill, Supervised, First
    <2>8. CASE BuryUnconfirmed(w)
        BY <2>8 DEF BuryUnconfirmed, Forget, First
    <2>9. CASE BuryKilled(w)
        BY <2>9 DEF BuryKilled, Forget, First
    <2>10. CASE BuryKilledSegment(w)
        BY <2>10 DEF BuryKilledSegment, First
    <2>11. CASE DropSegment(w)
        BY <2>11 DEF DropSegment, Forget, First
    <2>12. CASE SweepConfirmed(w)
        BY <2>12 DEF SweepConfirmed, First
    <2>13. CASE SweepUnconfirmed(w)
        BY <2>13 DEF SweepUnconfirmed, First
    <2> QED BY <1>24, <2>1, <2>2, <2>3, <2>4, <2>5, <2>6, <2>7, <2>8, <2>9, <2>10, <2>11, <2>12,
       <2>13 DEF Supervise
<1>25. ASSUME NEW i \in Item, WorkerExits(i) PROVE Begun'
    BY <1>25 DEF WorkerExits
<1>26. ASSUME NEW i \in Item, WorkerExpires(i) PROVE Begun'
    BY <1>26 DEF WorkerExpires
<1> QED BY <1>1, <1>2, <1>3, <1>4, <1>5, <1>6, <1>7, <1>8, <1>9, <1>10, <1>11, <1>12, <1>13,
          <1>14, <1>15, <1>16, <1>17, <1>18, <1>19, <1>20, <1>21, <1>22, <1>23, <1>24, <1>25, <1>26
       DEF Next, Coordinator

\* What keeps the outcome from being a success keeps an item from being one.
Failures ==
    /\ pc \in Owned /\ (failedNodes \/ reason # "none" \/ aborted # {} \/ parFailed) =>
         \/ \E i \in Item : event[i] = "failed"
         \/ stop /\ next \in Parallel
    /\ Over /\ (failedNodes \/ reason # "none" \/ aborted # {}) =>
         \E i \in Item : event[i] # "succeeded"
FailureInv == Normal => Failures

LEMMA FailureStep == ControlInv /\ BlameInv /\ EventInv /\ FailureInv /\ [Next]_vars => FailureInv'
<1> SUFFICES ASSUME ControlInv, BlameInv, EventInv, FailureInv, [Next]_vars, Normal' PROVE Failures'
    BY DEF FailureInv
<1>0. /\ ParallelCount \in Nat /\ SerialCount \in Nat /\ next \in Nat
      /\ \A i \in Item : i \in Nat
    BY BatchAssumption DEF ControlInv, TypeOK, DataOK, Item
<1> USE <1>0 DEF ControlInv, TypeOK, DataOK, Normal, ShapeInv, BlameInv, EventInv, FailureInv, Owned, Ended, Busy,
           Over, Item, Parallel, Serial, workers, verdict, switches, Shape, InParallel, InSerial,
           ParallelShape, SerialShape, Held, Because, Blame, Events, Judged, First, Failures
<1>1. CASE AdmissionOver
    BY <1>1 DEF AdmissionOver, MayAdmit, Pending, EndAdmission
<1>2. CASE Admit
    BY <1>2 DEF Admit, MayAdmit, Pending
<1>3. CASE WaitForWorkers
    BY <1>3 DEF WaitForWorkers, MayAdmit, Pending, EndAdmission
<1>4. CASE WaitIdle
    BY <1>4 DEF WaitIdle, MayAdmit, Pending, EndAdmission
<1>5. CASE AdmissionTimeout
    BY <1>5 DEF AdmissionTimeout, MayAdmit, Pending, StopForGate, EndAdmission
<1>6. CASE GateError
    BY <1>6 DEF GateError, MayAdmit, Pending, StopForGate, EndAdmission
<1>7. CASE Launch
    BY <1>7 DEF Launch
<1>8. CASE LaunchFails
    BY <1>8 DEF LaunchFails, Pending, CountFailed
<1>9. CASE SerialLaunchFails
    BY <1>9 DEF SerialLaunchFails, Pending, CountFailed
<1>10. CASE Track
    BY <1>10 DEF Track, Pending
<1>11. CASE PollOver
    BY <1>11 DEF PollOver
<1>12. CASE Barrier
    BY <1>12 DEF Barrier, SerialBlocked
<1>13. CASE SerialOver
    BY <1>13 DEF SerialOver
<1>14. CASE SerialWait
    BY <1>14 DEF SerialWait
<1>15. CASE SerialRetry
    BY <1>15 DEF SerialRetry
<1>16. CASE SerialAdmit
    BY <1>16 DEF SerialAdmit
<1>17. CASE SerialRefused
    BY <1>17 DEF SerialRefused
<1>18. CASE Finish
    BY <1>18 DEF Finish, SettleEvents
<1>19. CASE SweepOver
    BY <1>19 DEF SweepOver, SettleEvents
<1>20. CASE Interrupt
    BY <1>20 DEF Interrupt
<1>21. CASE AdmissionExpires
    BY <1>21 DEF AdmissionExpires
<1>22. CASE Stopped
    BY <1>22 DEF Stopped, vars
<1>23. CASE UNCHANGED vars
    BY <1>23 DEF vars
<1>24. ASSUME NEW w \in Item, Supervise(w) PROVE Failures'
    <2>1. CASE StillRunning(w)
        BY <2>1 DEF StillRunning, First
    <2>2. CASE Release(w)
        BY <2>2 DEF Release, Supervised, First
    <2>3. CASE Record(w)
        BY <2>3 DEF Record, First
    <2>4. CASE RetireSucceeded(w)
        BY <2>4 DEF RetireSucceeded, Forget, First
    <2>5. CASE RetireFailed(w)
        BY <2>5 DEF RetireFailed, Forget, First
    <2>6. CASE RetireFailedSegment(w)
        BY <2>6 DEF RetireFailedSegment, Forget, First
    <2>7. CASE Kill(w)
        BY <2>7 DEF Kill, Supervised, First
    <2>8. CASE BuryUnconfirmed(w)
        BY <2>8 DEF BuryUnconfirmed, Forget, First
    <2>9. CASE BuryKilled(w)
        BY <2>9 DEF BuryKilled, Forget, First
    <2>10. CASE BuryKilledSegment(w)
        BY <2>10 DEF BuryKilledSegment, First
    <2>11. CASE DropSegment(w)
        BY <2>11 DEF DropSegment, Forget, First
    <2>12. CASE SweepConfirmed(w)
        BY <2>12 DEF SweepConfirmed, First
    <2>13. CASE SweepUnconfirmed(w)
        BY <2>13 DEF SweepUnconfirmed, First
    <2> QED BY <1>24, <2>1, <2>2, <2>3, <2>4, <2>5, <2>6, <2>7, <2>8, <2>9, <2>10, <2>11, <2>12,
       <2>13 DEF Supervise
<1>25. ASSUME NEW i \in Item, WorkerExits(i) PROVE Failures'
    BY <1>25 DEF WorkerExits
<1>26. ASSUME NEW i \in Item, WorkerExpires(i) PROVE Failures'
    BY <1>26 DEF WorkerExpires
<1> QED BY <1>1, <1>2, <1>3, <1>4, <1>5, <1>6, <1>7, <1>8, <1>9, <1>10, <1>11, <1>12, <1>13,
          <1>14, <1>15, <1>16, <1>17, <1>18, <1>19, <1>20, <1>21, <1>22, <1>23, <1>24, <1>25, <1>26
       DEF Next, Coordinator
-----------------------------------------------------------------------------
(* The batch implements WorkPlan.                                          *)

PlanInv  == BatchInv /\ EventInv /\ BegunInv /\ FailureInv
PlanStep == [Plan!Next]_(Plan!vars)

LEMMA Items == Plan!Item = Item /\ Parallel \subseteq Item /\ Serial \subseteq Item
BY BatchAssumption DEF Plan!Item, Item, Parallel, Serial

LEMMA SameCount == ASSUME NEW S PROVE Plan!Cardinality(S) = Cardinality(S)
BY Zenon DEF Plan!Cardinality, Cardinality, Plan!IsFiniteSet, IsFiniteSet

\* Nothing the plan knows changes, but that it may be closed.
LEMMA ClosingStep ==
    ASSUME skipError' = skipError, tree' = tree, event' = event,
           pc' = pc \/ (pc \in Owned /\ pc' \in Owned \union {"final"}),
           pc = "returned" => failedNodes' = failedNodes /\ aborted' = aborted /\ reason' = reason,
           stop => stop'
    PROVE  PlanStep
<1>1. Fate' = Fate /\ Alive' = Alive
    BY DEF Fate, Terminal, Alive
<1>2. Outcome' = Outcome
    BY DEF Outcome, Succeeded, Owned
<1>3. Open' => Open
    BY DEF Open, Owned
<1>4. CASE Open' = Open
    BY <1>1, <1>2, <1>4 DEF PlanStep, Plan!vars
<1>5. CASE Open' # Open
    <2>1. Open /\ ~Open'
        BY <1>3, <1>5 DEF Open
    <2>2. Plan!Close
        BY <1>1, <1>2, <2>1 DEF Plan!Close
    <2> QED BY <2>2 DEF PlanStep, Plan!Next
<1> QED BY <1>4, <1>5

LEMMA QuietSteps ==
    ASSUME \/ AdmissionOver \/ Admit \/ WaitForWorkers \/ WaitIdle \/ AdmissionTimeout
           \/ GateError \/ PollOver \/ Barrier \/ SerialOver \/ SerialWait \/ SerialRetry
           \/ SerialAdmit \/ AdmissionExpires \/ Stopped \/ UNCHANGED vars
           \/ \E i \in Item : WorkerExpires(i)
    PROVE  PlanStep
<1> USE ClosingStep DEF Owned, workers, verdict, switches
<1>1. CASE AdmissionOver \/ Admit \/ WaitForWorkers \/ WaitIdle
    BY <1>1 DEF AdmissionOver, Admit, WaitForWorkers, WaitIdle, MayAdmit, EndAdmission
<1>2. CASE AdmissionTimeout \/ GateError
    BY <1>2 DEF AdmissionTimeout, GateError, StopForGate, MayAdmit, EndAdmission
<1>3. CASE PollOver \/ Barrier
    BY <1>3 DEF PollOver, Barrier
<1>4. CASE SerialOver \/ SerialWait \/ SerialRetry \/ SerialAdmit
    BY <1>4 DEF SerialOver, SerialWait, SerialRetry, SerialAdmit
<1>5. CASE AdmissionExpires \/ Stopped \/ UNCHANGED vars
    BY <1>5 DEF AdmissionExpires, Stopped, vars
<1>6. ASSUME NEW i \in Item, WorkerExpires(i) PROVE PlanStep
    BY <1>6 DEF WorkerExpires
<1> QED BY <1>1, <1>2, <1>3, <1>4, <1>5, <1>6

LEMMA QuietSupervision ==
    ASSUME NEW w \in Item,
           \/ StillRunning(w) \/ Release(w) \/ RetireSucceeded(w) \/ RetireFailed(w)
           \/ RetireFailedSegment(w) \/ BuryUnconfirmed(w) \/ BuryKilled(w)
           \/ BuryKilledSegment(w) \/ DropSegment(w)
    PROVE  PlanStep
<1> USE ClosingStep DEF Owned, workers, verdict, switches
<1>1. CASE StillRunning(w) \/ Release(w) \/ RetireSucceeded(w)
    BY <1>1 DEF StillRunning, Release, Supervised, RetireSucceeded
<1>2. CASE RetireFailed(w) \/ RetireFailedSegment(w)
    BY <1>2 DEF RetireFailed, RetireFailedSegment
<1>3. CASE BuryUnconfirmed(w) \/ BuryKilled(w)
    BY <1>3 DEF BuryUnconfirmed, BuryKilled
<1>4. CASE BuryKilledSegment(w) \/ DropSegment(w)
    BY <1>4 DEF BuryKilledSegment, DropSegment
<1> QED BY <1>1, <1>2, <1>3, <1>4

\* It is the next item's turn whenever one is launched or refused.
LEMMA NextTurn ==
    ASSUME PlanInv, Open, next \in Item, next \notin active,
           pc \in {"launch", "segment"}
    PROVE  Plan!Turn(next)
<1>1. Normal /\ pc \in Owned
    BY DEF Normal, Owned
<1>2. Events /\ tree[next] = "none" /\ event[next] = "not_executed"
    BY <1>1, BatchAssumption DEF PlanInv, EventInv, Events, Item
<1>3. Fate[next] = "waiting"
    BY <1>2 DEF Fate, Terminal
<1>4. ASSUME NEW j \in Item, j < next PROVE Fate[j] # "waiting"
    <2>1. CASE j \in active
        BY <1>2, <2>1 DEF Events, Fate, Terminal
    <2>2. CASE j \notin active
        <3>1. event[j] \in {"succeeded", "failed"}
            BY <1>2, <1>4, <2>2 DEF Events
        <3> QED BY <3>1 DEF Fate, Terminal
    <2> QED BY <2>1, <2>2
<1> QED BY <1>3, <1>4, Items DEF Plan!Turn

LEMMA LaunchStep ==
    ASSUME PlanInv, Launch
    PROVE  PlanStep
<1>0. /\ TypeOK /\ Shape /\ Blame /\ Successes /\ TreesOwned /\ Events
      /\ pc = "launch" /\ pc' = "launched" /\ Normal /\ pc \in Owned
    BY DEF Launch, PlanInv, BatchInv, ControlInv, ShapeInv, BlameInv, SuccessInv, TreeInv, EventInv,
       Normal, Owned
<1>1. InParallel \/ InSerial
    BY <1>0 DEF Shape
<1>2. next \in Item /\ next \notin active /\ next \in Nat
    <2>1. next \in Parallel \/ next \in Serial
        BY <1>0, <1>1 DEF InParallel, InSerial, Busy
    <2>2. next \notin active
        BY <1>0, <1>1, BatchAssumption DEF Shape, ParallelShape, SerialShape, TypeOK, DataOK, Held
    <2>3. next \in Nat
        BY <1>0 DEF TypeOK, DataOK
    <2> QED BY <2>1, <2>2, <2>3, Items
<1>3. Open /\ Open'
    <2>1. ~stop
        BY <1>0, <1>1 DEF Blame, Events
    <2> QED BY <1>0, <2>1 DEF Open, Owned, Launch, switches
<1>4. Plan!Turn(next)
    BY <1>0, <1>2, <1>3, NextTurn
<1>5. Alive \subseteq active
    <2>1. uncleaned = {}
        BY <1>0, <1>1, <1>3 DEF Blame, Shape, SerialShape, Open
    <2>2. Ending = {}
        BY <1>0 DEF Ending
    <2> QED BY <1>0, <2>1, <2>2 DEF TreesOwned, Held
<1>6. Cardinality(Alive) < MaxConcurrency
    <2>1. IsFiniteSet(active) /\ Cardinality(active) \in Nat
        BY <1>0, HeldFinite, FS_Subset, FS_CardinalityType DEF Held
    <2>2. Cardinality(Alive) <= Cardinality(active) /\ Cardinality(Alive) \in Nat
        BY <1>5, <2>1, FS_Subset, FS_CardinalityType
    <2>3. Cardinality(active) < MaxConcurrency
        <3>1. CASE next \in Parallel
            BY <1>0, <3>1 DEF Events
        <3>2. CASE next \in Serial
            <4>1. active = {}
                BY <1>0, <1>1, <3>2 DEF InParallel, InSerial, Shape, SerialShape, Serial, Busy
            <4> QED BY <4>1, FS_EmptySet, BatchAssumption
        <3> QED BY <1>2, <3>1, <3>2 DEF Serial
    <2> QED BY <2>1, <2>2, <2>3, BatchAssumption
<1>7. ASSUME NEW j \in Item, Fate[j] = "failed" PROVE skipError /\ j \notin Alive
    <2>1. event[j] = "failed"
        BY <1>7 DEF Fate, Terminal
    <2>2. j \notin active
        BY <1>0, <2>1 DEF Events, Judged
    <2>3. j < next
        <3>1. ~(j >= next)
            BY <1>0, <2>1, <2>2 DEF Events
        <3> QED BY <1>2, <3>1 DEF Item
    <2>4. InParallel /\ parFailed
        <3>1. ~InSerial
            BY <1>0, <2>1, <2>3 DEF Successes
        <3>2. InParallel
            BY <1>1, <3>1
        <3>3. j \in Parallel
            <4>1. next \in Parallel
                BY <1>0, <3>2 DEF InParallel, Busy
            <4> QED BY <2>3, <4>1, BatchAssumption DEF Parallel, Item
        <3> QED BY <1>0, <2>1, <2>2, <2>3, <3>2, <3>3 DEF Successes
    <2>5. skipError
        BY <1>0, <1>3, <2>4 DEF Blame, Open
    <2> QED BY <1>5, <2>2, <2>5
<1>8. ASSUME next \in Serial
      PROVE  Alive = {} /\ \A j \in Item : j < next => Fate[j] = "succeeded"
    <2>1. InSerial
        BY <1>0, <1>1, <1>8 DEF InParallel, Serial, Busy
    <2>2. active = {}
        BY <1>0, <2>1 DEF Shape, SerialShape
    <2>3. \A j \in Item : j < next => event[j] = "succeeded"
        BY <1>0, <2>1 DEF Successes
    <2> QED BY <1>5, <2>2, <2>3 DEF Fate, Terminal
<1>9. Fate' = [Fate EXCEPT ![next] = "started"] /\ Alive' = Alive \union {next}
    <2>1. tree' = [tree EXCEPT ![next] = "running"] /\ event' = event
        BY DEF Launch, verdict
    <2>2. tree \in [Item -> {"none", "running", "exited", "killed", "unconfirmed"}]
        BY <1>0 DEF TypeOK, DataOK
    <2>3. event[next] = "not_executed"
        BY <1>0, <1>2 DEF Events
    <2>4. Alive' = Alive \union {next}
        BY <1>2, <2>1, <2>2 DEF Alive
    <2>5. Fate' = [Fate EXCEPT ![next] = "started"]
        BY <1>2, <2>1, <2>2, <2>3 DEF Fate, Terminal
    <2> QED BY <2>4, <2>5
<1>10. skipError' = skipError /\ Open' = Open /\ Outcome' = Outcome
    BY <1>0, <1>3 DEF Launch, Outcome, Open
<1>11. Plan!Start(next)
    BY <1>4, <1>6, <1>7, <1>8, <1>9, <1>10, Items, SameCount DEF Plan!Start
<1> QED BY <1>2, <1>11, Items DEF PlanStep, Plan!Next

\* An item that is never launched fails in its turn.
LEMMA RefuseStep ==
    ASSUME PlanInv, LaunchFails \/ SerialLaunchFails \/ SerialRefused
    PROVE  PlanStep
<1>0. /\ TypeOK /\ Shape /\ Blame /\ Events
      /\ pc \in {"launch", "segment"} /\ Normal /\ pc \in Owned
    BY DEF LaunchFails, SerialLaunchFails, SerialRefused, PlanInv, BatchInv, ControlInv, ShapeInv,
       BlameInv, EventInv, Normal, Owned
<1>1. InParallel \/ InSerial
    BY <1>0 DEF Shape
<1>2. next \in Item /\ next \notin active
    <2>1. next \in Parallel \/ next \in Serial
        BY <1>0, <1>1 DEF InParallel, InSerial, Busy, Shape, SerialShape, SerialRefused,
           LaunchFails, SerialLaunchFails, Serial
    <2>2. next \notin active
        BY <1>0, <1>1, BatchAssumption DEF Shape, ParallelShape, SerialShape, TypeOK, DataOK, Held
    <2> QED BY <2>1, <2>2, Items
<1>3. Open
    BY <1>0, <1>1 DEF Blame, Events, Open, InParallel, Busy
<1>4. Plan!Turn(next)
    BY <1>0, <1>2, <1>3, NextTurn
<1>5. event' = [event EXCEPT ![next] = "failed"] /\ tree' = tree /\ skipError' = skipError
    BY DEF LaunchFails, SerialLaunchFails, SerialRefused, CountFailed, workers
<1>6. Fate' = [Fate EXCEPT ![next] = "failed"] /\ Alive' = Alive
    <2>1. event \in [Item -> {"not_executed", "running", "succeeded", "failed", "cancelled"}]
        BY <1>0 DEF TypeOK, DataOK
    <2> QED BY <1>2, <1>5, <2>1 DEF Fate, Terminal, Alive
<1>7. Open' \in BOOLEAN
    BY DEF Open
<1>8. Outcome' = Outcome
    <2>1. pc' \in {"admit", "final"}
        BY DEF LaunchFails, SerialLaunchFails, SerialRefused
    <2> QED BY <1>0, <2>1 DEF Outcome
<1>9. Plan!Refuse(next)
    BY <1>4, <1>5, <1>6, <1>7, <1>8 DEF Plan!Refuse
<1> QED BY <1>2, <1>9, Items DEF PlanStep, Plan!Next

LEMMA TrackStep ==
    ASSUME PlanInv, Track
    PROVE  PlanStep
<1>0. TypeOK /\ Events /\ pc = "launched" /\ pc' \in {"admit", "wait"} /\ tree[next] # "none"
    BY DEF Track, PlanInv, BatchInv, ControlInv, EventInv, Events, Owned
<1>1. /\ event' = [event EXCEPT ![next] = "running"] /\ tree' = tree
      /\ skipError' = skipError /\ stop' = stop
    BY DEF Track, switches
<1>2. next \in Item => event[next] = "not_executed"
    <2>1. next \notin active
        BY <1>0, BatchAssumption DEF PlanInv, BatchInv, ControlInv, ShapeInv, Shape, ParallelShape,
           SerialShape, TypeOK, DataOK, Held, InParallel, InSerial, Owned, Normal
    <2> QED BY <1>0, <2>1, BatchAssumption DEF Events, Item
<1>3. Fate' = Fate /\ Alive' = Alive
    <2>1. event \in [Item -> {"not_executed", "running", "succeeded", "failed", "cancelled"}]
        BY <1>0 DEF TypeOK, DataOK
    <2> QED BY <1>0, <1>1, <1>2, <2>1 DEF Fate, Terminal, Alive
<1>4. Open' = Open /\ Outcome' = Outcome
    BY <1>0, <1>1 DEF Open, Outcome, Owned
<1> QED BY <1>1, <1>3, <1>4 DEF PlanStep, Plan!vars

\* A worker's result, or its kill, is a verdict on a started item.
LEMMA SettleStep ==
    ASSUME PlanInv, NEW w \in Item, Record(w) \/ Kill(w)
    PROVE  PlanStep
<1>0. /\ TypeOK /\ TreesOwned /\ Events /\ First(w, todo) /\ w \in active
      /\ pc \in {"record", "poll", "wait"} /\ pc' \in {"retire", "bury"}
    BY DEF Record, Kill, Supervised, First, PlanInv, BatchInv, ControlInv, TypeOK, DataOK, TreeInv,
       EventInv, Normal, Owned
<1>1. /\ tree \in [Item -> {"none", "running", "exited", "killed", "unconfirmed"}]
      /\ event \in [Item -> {"not_executed", "running", "succeeded", "failed", "cancelled"}]
    BY <1>0 DEF TypeOK, DataOK
<1>2. Fate[w] = "started"
    BY <1>0 DEF Events, Judged, Fate, Terminal
<1>3. skipError' = skipError /\ Open' = Open /\ Outcome' = Outcome /\ Outcome = "none"
    BY <1>0 DEF Open, Outcome, Owned, Record, Kill, switches
<1>4. CASE Record(w)
    <2>1. PICK status \in {"succeeded", "failed"} : event' = [event EXCEPT ![w] = status]
        BY <1>4 DEF Record
    <2>2. tree' = tree /\ Alive' = Alive
        BY <1>4 DEF Record, workers, Alive
    <2>3. Fate' = [Fate EXCEPT ![w] = status]
        BY <1>1, <2>1, <2>2 DEF Fate, Terminal
    <2>4. w \notin Alive
        <3>1. w \in Ending /\ pc = "record"
            BY <1>0, <1>4 DEF Record, Ending, First
        <3> QED BY <1>0, <3>1 DEF TreesOwned, PlanInv, BatchInv, ControlInv, TypeOK, DataOK,
               ShapeInv, Shape, Normal, Held, Ending
    <2>5. Plan!Settle(w)
        BY <1>2, <1>3, <2>2, <2>3, <2>4 DEF Plan!Settle
    <2> QED BY <2>5, Items DEF PlanStep, Plan!Next
<1>5. CASE Kill(w)
    <2>1. PICK end \in {"killed", "unconfirmed"} : tree' = [tree EXCEPT ![w] = end]
        BY <1>5 DEF Kill
    <2>2. event' = [event EXCEPT ![w] = "failed"]
        BY <1>5 DEF Kill
    <2>3. Fate' = [Fate EXCEPT ![w] = "failed"]
        BY <1>1, <2>1, <2>2 DEF Fate, Terminal
    <2>4. Alive' \in {Alive, Alive \ {w}}
        <3>1. tree[w] = "running"
            BY <1>5 DEF Kill
        <3>2. CASE end = "killed"
            BY <1>1, <2>1, <3>1, <3>2 DEF Alive
        <3>3. CASE end = "unconfirmed"
            BY <1>1, <2>1, <3>1, <3>3 DEF Alive
        <3> QED BY <3>2, <3>3
    <2>5. Plan!Settle(w)
        BY <1>2, <1>3, <2>3, <2>4 DEF Plan!Settle
    <2> QED BY <2>5, Items DEF PlanStep, Plan!Next
<1> QED BY <1>4, <1>5

\* Cleaning up the statuses of tasks that never ran says nothing new of the plan.
LEMMA SettledFate ==
    ASSUME TypeOK, SettleEvents, tree' = tree
    PROVE  Fate' = Fate /\ Alive' = Alive
<1>1. Terminal' = Terminal /\ \A i \in Terminal : event'[i] = event[i]
    BY DEF SettleEvents, Terminal, TypeOK, DataOK
<1> QED BY <1>1 DEF Fate, Alive

LEMMA ConcludeStep ==
    ASSUME PlanInv, Finish
    PROVE  PlanStep
<1>0. /\ TypeOK /\ Successes /\ Failures /\ Over /\ ~Open /\ ~Open' /\ Outcome = "none"
      /\ pc = "final" /\ pc' = "returned"
    BY DEF Finish, PlanInv, BatchInv, ControlInv, SuccessInv, FailureInv, Normal, Over, Open,
       Outcome, Owned
<1>1. Fate' = Fate /\ Alive' = Alive /\ skipError' = skipError
    BY <1>0, SettledFate DEF Finish, workers
<1>2. Succeeded' <=> ~failedNodes /\ aborted = {} /\ reason = "none"
    BY <1>0 DEF Finish, Succeeded
<1>3. Succeeded' <=> \A i \in Item : event[i] = "succeeded"
    BY <1>0, <1>2 DEF Successes, Failures
<1>4. (\A i \in Item : event[i] = "succeeded") <=> \A i \in Item : Fate[i] = "succeeded"
    BY DEF Fate, Terminal
<1>5. Outcome' = IF \A i \in Item : Fate[i] = "succeeded" THEN "success" ELSE "failure"
    BY <1>0, <1>3, <1>4 DEF Outcome
<1>6. Plan!Conclude
    BY <1>0, <1>1, <1>5, Items DEF Plan!Conclude, Open
<1> QED BY <1>6 DEF PlanStep, Plan!Next

LEMMA InterruptStep ==
    ASSUME Interrupt
    PROVE  PlanStep
<1>1. pc \in Owned /\ pc' = "sweep" /\ tree' = tree /\ event' = event /\ skipError' = skipError
    BY DEF Interrupt, verdict
<1>2. Fate' = Fate /\ Alive' = Alive
    BY <1>1 DEF Fate, Terminal, Alive
<1>3. Outcome = "none" /\ Outcome' = "interrupted" /\ ~Open'
    BY <1>1 DEF Outcome, Open, Owned
<1>4. Plan!Interrupt
    BY <1>1, <1>2, <1>3 DEF Plan!Interrupt
<1> QED BY <1>4 DEF PlanStep, Plan!Next

\* The sweep cancels a worker whose tree is gone and fails one whose tree may not be.
LEMMA SweepPlanStep ==
    ASSUME PlanInv, NEW w \in Item, SweepConfirmed(w) \/ SweepUnconfirmed(w)
    PROVE  PlanStep
<1>0. TypeOK /\ pc = "sweep" /\ pc' \in {"sweep", "raised"} /\ tree[w] # "none"
    BY DEF SweepConfirmed, SweepUnconfirmed, First, PlanInv, BatchInv, ControlInv, BegunInv, Begun
<1>1. /\ tree \in [Item -> {"none", "running", "exited", "killed", "unconfirmed"}]
      /\ event \in [Item -> {"not_executed", "running", "succeeded", "failed", "cancelled"}]
    BY <1>0 DEF TypeOK, DataOK
<1>2. Fate[w] # "waiting"
    BY <1>0, <1>1 DEF Fate, Terminal
<1>3. skipError' = skipError /\ Open' = Open /\ Outcome' = Outcome /\ Outcome = "interrupted"
    BY <1>0 DEF SweepConfirmed, SweepUnconfirmed, Open, Outcome, Owned
<1>4. CASE SweepConfirmed(w) /\ slots < 1
    <2>1. tree' = [tree EXCEPT ![w] = "killed"] /\ event' = event
        BY <1>4 DEF SweepConfirmed
    <2>2. Fate' = Fate
        BY <1>0, <1>1, <2>1 DEF Fate, Terminal
    <2>3. Alive' = Alive \ {w}
        BY <1>1, <2>1 DEF Alive
    <2>4. CASE w \in Alive
        <3>1. Plan!Gone(w)
            BY <1>3, <2>2, <2>3, <2>4 DEF Plan!Gone
        <3> QED BY <3>1, Items DEF PlanStep, Plan!Next
    <2>5. CASE w \notin Alive
        BY <1>3, <2>2, <2>3, <2>5 DEF PlanStep, Plan!vars
    <2> QED BY <2>4, <2>5
<1>5. CASE SweepConfirmed(w) /\ ~(slots < 1)
    <2>1. tree' = [tree EXCEPT ![w] = "killed"] /\ event' = [event EXCEPT ![w] = "cancelled"]
        BY <1>5 DEF SweepConfirmed
    <2>2. Fate' = [Fate EXCEPT ![w] = "cancelled"]
        BY <1>1, <2>1 DEF Fate, Terminal
    <2>3. Alive' = Alive \ {w}
        BY <1>1, <2>1 DEF Alive
    <2>4. Plan!Cancel(w)
        BY <1>2, <1>3, <2>2, <2>3 DEF Plan!Cancel
    <2> QED BY <2>4, Items DEF PlanStep, Plan!Next
<1>6. CASE SweepUnconfirmed(w)
    <2>1. /\ tree' = [tree EXCEPT ![w] = IF @ = "running" THEN "unconfirmed" ELSE @]
          /\ event' = [event EXCEPT ![w] = "failed"]
        BY <1>6 DEF SweepUnconfirmed
    <2>2. Fate' = [Fate EXCEPT ![w] = "failed"]
        BY <1>1, <2>1 DEF Fate, Terminal
    <2>3. Alive' = Alive
        BY <1>1, <2>1 DEF Alive
    <2>4. Plan!Cancel(w)
        BY <1>2, <1>3, <2>2, <2>3 DEF Plan!Cancel
    <2> QED BY <2>4, Items DEF PlanStep, Plan!Next
<1> QED BY <1>4, <1>5, <1>6

LEMMA SweepOverStep ==
    ASSUME PlanInv, SweepOver
    PROVE  PlanStep
<1>1. Fate' = Fate /\ Alive' = Alive /\ skipError' = skipError
    BY SettledFate DEF SweepOver, workers, PlanInv, BatchInv, ControlInv
<1>2. Outcome' = Outcome /\ Open' = Open
    BY DEF SweepOver, Outcome, Open, Owned
<1> QED BY <1>1, <1>2 DEF PlanStep, Plan!vars

LEMMA ExitStep ==
    ASSUME PlanInv, NEW i \in Item, WorkerExits(i)
    PROVE  PlanStep
<1>1. /\ tree \in [Item -> {"none", "running", "exited", "killed", "unconfirmed"}]
      /\ tree[i] = "running" /\ tree' = [tree EXCEPT ![i] = "exited"] /\ event' = event
    BY DEF WorkerExits, verdict, PlanInv, BatchInv, ControlInv, TypeOK, DataOK
<1>2. Fate' = Fate /\ i \in Alive /\ Alive' = Alive \ {i}
    BY <1>1 DEF Fate, Terminal, Alive
<1>3. skipError' = skipError /\ Open' = Open /\ Outcome' = Outcome
    BY DEF WorkerExits, Open, Outcome, Succeeded, verdict, switches
<1>4. Plan!Gone(i)
    BY <1>2, <1>3 DEF Plan!Gone
<1> QED BY <1>4, Items DEF PlanStep, Plan!Next

LEMMA StepPlan == PlanInv /\ [Next]_vars => PlanStep
<1> SUFFICES ASSUME PlanInv, [Next]_vars PROVE PlanStep
    OBVIOUS
<1>1. ASSUME NEW w \in Item, Supervise(w) PROVE PlanStep
    BY <1>1, QuietSupervision, SettleStep, SweepPlanStep DEF Supervise
<1>2. CASE Coordinator
    BY <1>1, <1>2, QuietSteps, LaunchStep, RefuseStep, TrackStep, ConcludeStep, SweepOverStep
       DEF Coordinator
<1>3. CASE Interrupt \/ AdmissionExpires \/ Stopped \/ UNCHANGED vars
    BY <1>3, QuietSteps, InterruptStep
<1>4. ASSUME NEW i \in Item, WorkerExits(i) \/ WorkerExpires(i) PROVE PlanStep
    BY <1>4, QuietSteps, ExitStep
<1> QED BY <1>2, <1>3, <1>4 DEF Next

LEMMA PlanInvariant == Spec => []PlanInv
<1>1. Init => EventInv /\ BegunInv /\ FailureInv
    <2> SUFFICES ASSUME Init PROVE EventInv /\ BegunInv /\ FailureInv
        OBVIOUS
    <2>1. EventInv
        BY BatchAssumption DEF Init, EventInv, Events, InSerial, Busy, Item
    <2>2. BegunInv /\ FailureInv
        BY DEF Init, BegunInv, FailureInv, Failures, Over
    <2> QED BY <2>1, <2>2
<1>2. PlanInv /\ [Next]_vars => PlanInv'
    BY BatchStep, EventStep, BegunStep, FailureStep DEF PlanInv, BatchInv
<1>3. Init => PlanInv
    BY <1>1, InitBatch DEF PlanInv
<1> QED BY <1>2, <1>3, PTL DEF Spec

LEMMA InitPlan == Init => Plan!Init
<1> SUFFICES ASSUME Init PROVE Plan!Init
    OBVIOUS
<1>1. Fate = [i \in Item |-> "waiting"] /\ Alive = {}
    BY DEF Init, Fate, Terminal, Alive
<1>2. Open = TRUE /\ Outcome = "none" /\ skipError \in BOOLEAN
    BY DEF Init, Open, Owned, Outcome
<1> QED BY <1>1, <1>2, Items DEF Plan!Init

\* Whatever workers, the gate, the clocks and an interrupt do, run_batch keeps what it promises
\* of its schedule: workers start in order, within the concurrency and the serial ones alone;
\* what failed lets nothing start that it should not; the outcome is a success exactly if every
\* item succeeded.
THEOREM BatchImplementsWorkPlan == Spec => ImplementsWorkPlan
<1>1. PlanInv /\ [Next]_vars => [Plan!Next]_(Plan!vars)
    BY StepPlan DEF PlanStep
<1> QED BY <1>1, InitPlan, PlanInvariant, PTL DEF Spec, ImplementsWorkPlan, Plan!Spec
=============================================================================
