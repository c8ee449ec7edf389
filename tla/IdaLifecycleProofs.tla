------------------------- MODULE IdaLifecycleProofs -------------------------
(***************************************************************************)
(* What every step of an IdaMcpLifecycle preserves, whatever its owner     *)
(* does between the calls.  Trees that may still have processes are known  *)
(* to somebody at every step: to self.process, to the helper that is about *)
(* to hand them over, or to the history of failed stops.                   *)
(***************************************************************************)
EXTENDS IdaLifecycle, TLAPS

\* Which method is where.
CallInv ==
    /\ call = "none" <=> pc = "idle"
    /\ call = "exit" => pc \in {"save", "cleanup", "detach"}
    /\ call # "exit" => pc # "save"
    /\ call = "ensure" => pc \notin {"precheck", "client", "cleanup", "detach"}
    /\ call = "enter" /\ pc \in {"cleanup", "detach"} => answer # "ok"
    /\ pc \in {"precheck", "client"} => site = "enter"
    /\ pc \in {"avail", "health", "spend", "quit", "drain"} => site \in {"ready", "recover"}
    /\ pc \in {"precheck", "detach"} => process = 0

\* The supervisor of before is gone when a new one is spawned.
Retired == process = 0 \/ tree[process] = "gone"

Handed == IF pc \in {"bind", "probe", "reverify"} THEN {local} ELSE {}

OwnerInv ==
    /\ Survivors \subseteq unstopped \cup Handed \cup {process, lost}
    /\ pc \in {"precheck", "client", "drain", "reset", "spawn", "bind", "probe"} => Retired
    /\ pc = "reverify" => local = process \/ Retired
    /\ pc \in {"avail", "health", "spend", "quit"} => local = process \/ (local = 0 /\ Retired)
    /\ pc = "await" => local = process
    /\ pc \in {"bind", "await", "probe", "reverify", "health", "quit"} => local # 0

\* Every start but the first is paid for.
SpentInv ==
    /\ pc \in {"quit", "drain", "stop", "clear"} => budget = 0
    /\ site = "recover" /\ pc \in {"reset", "spawn", "bind", "probe"} => budget = 0
    /\ pc = "reverify" /\ local # process => budget = 0

\* The restart that may lose a tree uses up the budget: it happens once.
LostInv ==
    lost # 0 =>
        /\ budget = 0
        /\ pc \notin {"precheck", "client", "quit", "drain", "stop", "clear",
                      "reset", "spawn", "bind", "probe"}
        /\ pc = "reverify" => local = process

\* A verified runtime is that of self.process; a rebuild starts from an unverified one.
RuntimeInv ==
    /\ pc = "judge" => runtime \in {0, process}
    /\ pc \in {"stop", "clear"} => runtime = 0 /\ opts.policy = "rebuild"
    /\ pc = "clear" => process = 0
    /\ site = "rebuild" /\ pc \in {"reset", "spawn", "bind", "probe"} => runtime = 0

LifeInv == LifeTypeOK /\ CallInv /\ OwnerInv /\ SpentInv /\ LostInv /\ RuntimeInv

-----------------------------------------------------------------------------
(* The types. *)

\* Where the call is, and what the objects are.
FlowOK == pc \in Place /\ call \in Method /\ answer \in Answer /\ force \in BOOLEAN

ObjectsOK ==
    /\ opts \in [policy : Policy, saves : BOOLEAN, dynamic : BOOLEAN]
    /\ idb \in Database
    /\ tree \in [Tree -> {"unborn", "up", "exited", "gone"}] /\ unstopped \subseteq Tree
    /\ process \in Tree \cup {0} /\ runtime \in Tree \cup {0}
    /\ local \in Tree \cup {0} /\ lost \in Tree \cup {0}
    /\ budget \in {0, 1}
    /\ client \in {"none", "valid", "invalid"}
    /\ site \in Sites
    /\ attempt \in 1 .. Attempts
    /\ rebuilt \in BOOLEAN /\ unwind \in BOOLEAN

LEMMA TypeParts == LifeTypeOK <=> FlowOK /\ ObjectsOK
BY DEF LifeTypeOK, FlowOK, ObjectsOK

\* An exception leaves well-typed flags behind.
LEMMA RaiseTypes == ASSUME FlowOK, NEW kind \in Kind, Raise(kind) PROVE FlowOK'
<1>1. Wrapped(kind) \in Answer
    BY DEF Wrapped, Answer
<1>2. CASE call = "enter" /\ pc' = "cleanup" /\ answer' = Wrapped(kind) /\ UNCHANGED <<call, force>>
    BY <1>1, <1>2 DEF FlowOK, Place
<1>3. CASE call = "ensure" /\ Return(Wrapped(kind)) /\ force' = (force \/ kind = "error")
    <2>1. pc' \in Place /\ call' \in Method /\ answer' \in Answer
        BY <1>1, <1>3 DEF Return, Place, Method
    <2>2. force' \in BOOLEAN
        BY <1>3, Zenon DEF FlowOK
    <2> QED BY <2>1, <2>2 DEF FlowOK
<1> QED BY <1>2, <1>3 DEF Raise

LEMMA GotoTypes == ASSUME FlowOK, NEW place \in Place, Goto(place) PROVE FlowOK'
BY DEF Goto, FlowOK

LEMMA StopTypes ==
    ASSUME ObjectsOK, NEW t \in Tree, Stopped(t) \/ StopFails(t)
    PROVE  tree' \in [Tree -> {"unborn", "up", "exited", "gone"}] /\ unstopped' \subseteq Tree
BY DEF Stopped, StopFails, ObjectsOK

\* A step goes to a place there is.
LEMMA FlowStep == LifeInv /\ LifeStep => FlowOK'
<1> SUFFICES ASSUME LifeInv, LifeStep PROVE FlowOK'
    OBVIOUS
<1> FlowOK
    BY TypeParts DEF LifeInv
<1> USE DEF Place, Kind
<1>1. CASE Refuse
    BY <1>1 DEF Refuse, FlowOK, Method, Answer, Return, osVars, selfVars
<1>2. CASE Precheck
    BY <1>2, GotoTypes DEF Precheck, osVars
<1>3. CASE OpenClient
    BY <1>3, GotoTypes DEF OpenClient, osVars
<1>4. CASE ResetClient
    BY <1>4, GotoTypes DEF ResetClient, osVars
<1>5. CASE SpawnTree
    BY <1>5, GotoTypes DEF SpawnTree
<1>6. CASE SpawnNothing
    BY <1>6, GotoTypes, RaiseTypes DEF SpawnNothing, Started, osVars
<1>7. CASE Bound
    BY <1>7, GotoTypes DEF Bound, osVars
<1>8. CASE NotBound
    BY <1>8, GotoTypes, RaiseTypes DEF NotBound, Started
<1>9. CASE StartRaises
    BY <1>9, RaiseTypes DEF StartRaises
<1>10. CASE Await
    BY <1>10, GotoTypes DEF Await
<1>11. CASE ProbeReady
    BY <1>11, GotoTypes, RaiseTypes DEF ProbeReady, Started
<1>12. CASE NotReady
    BY <1>12, GotoTypes, RaiseTypes DEF NotReady, Started
<1>13. CASE Verify
    BY <1>13, GotoTypes DEF Verify, osVars
<1>14. CASE VerifyUnavailable
    BY <1>14, GotoTypes DEF VerifyUnavailable, osVars
<1>15. CASE Reverify
    BY <1>15, GotoTypes DEF Reverify, osVars
<1>16. CASE ReverifyRaises
    BY <1>16, RaiseTypes DEF ReverifyRaises, osVars
<1>17. CASE AvailStep
    BY <1>17, GotoTypes DEF AvailStep
<1>18. CASE QuitRaises
    BY <1>18, RaiseTypes DEF QuitRaises
<1>19. CASE Healthy
    BY <1>19, GotoTypes DEF Healthy, osVars
<1>20. CASE Unhealthy
    BY <1>20, GotoTypes DEF Unhealthy, osVars
<1>21. CASE SpendNothing
    BY <1>21, GotoTypes, RaiseTypes DEF SpendNothing, Unavailable, osVars
<1>22. CASE Spend
    BY <1>22, GotoTypes DEF Spend, osVars
<1>23. CASE Quit
    BY <1>23, GotoTypes DEF Quit
<1>24. CASE Drain
    BY <1>24, GotoTypes, RaiseTypes DEF Drain, Unavailable, osVars
<1>25. CASE Succeed
    BY <1>25 DEF Succeed, FlowOK, Method, Answer, Return, osVars
<1>26. CASE Fail
    BY <1>26, RaiseTypes DEF Fail, Stale, osVars
<1>27. CASE Rebuild
    BY <1>27, GotoTypes DEF Rebuild, Stale, osVars
<1>28. CASE RebuildStop
    BY <1>28, GotoTypes, RaiseTypes DEF RebuildStop
<1>29. CASE RebuildStopRaises
    BY <1>29, RaiseTypes DEF RebuildStopRaises
<1>30. CASE Clear
    BY <1>30, GotoTypes DEF Clear
<1>31. CASE ClearRaises
    BY <1>31, RaiseTypes DEF ClearRaises
<1>32. CASE Save
    BY <1>32 DEF Save, FlowOK, Method, Answer, MustSave, osVars
<1>33. CASE CleanupProcess
    BY <1>33 DEF CleanupProcess, FlowOK, Method, Answer, Reported
<1>34. CASE Detach
    BY <1>34 DEF Detach, FlowOK, Method, Answer, Reported, osVars
<1>35. CASE CallRaises
    BY <1>35, RaiseTypes DEF CallRaises, osVars
<1> QED BY <1>1, <1>2, <1>3, <1>4, <1>5, <1>6, <1>7, <1>8, <1>9, <1>10, <1>11, <1>12, <1>13,
       <1>14, <1>15, <1>16, <1>17, <1>18, <1>19, <1>20, <1>21, <1>22, <1>23, <1>24,
       <1>25, <1>26, <1>27, <1>28, <1>29, <1>30, <1>31, <1>32, <1>33, <1>34, <1>35 DEF LifeStep

\* A step leaves trees, objects and databases well typed.
LEMMA ObjectsStep == LifeInv /\ LifeStep => ObjectsOK'
<1> SUFFICES ASSUME LifeInv, LifeStep PROVE ObjectsOK'
    OBVIOUS
<1> ObjectsOK
    BY TypeParts DEF LifeInv
<1> USE AttemptsAssumption
<1> USE DEF LifeInv, ObjectsOK, OwnerInv, Sites, Database
<1>1. CASE Refuse
    BY <1>1 DEF Refuse, Return, osVars, selfVars
<1>2. CASE Precheck
    BY <1>2 DEF Precheck, osVars
<1>3. CASE OpenClient
    BY <1>3 DEF OpenClient, osVars
<1>4. CASE ResetClient
    BY <1>4 DEF ResetClient, osVars
<1>5. CASE SpawnTree
    BY <1>5 DEF SpawnTree, Dynamic
<1>6. CASE SpawnNothing
    BY <1>6 DEF SpawnNothing, Dynamic, Started, osVars
<1>7. CASE Bound
    BY <1>7 DEF Bound, osVars
<1>8. CASE NotBound
    BY <1>8, StopTypes DEF NotBound, StopFrees, Started
<1>9. CASE StartRaises
    BY <1>9, StopTypes DEF StartRaises, StopRaises, Broken
<1>10. CASE Await
    BY <1>10 DEF Await, Opened
<1>11. CASE ProbeReady
    BY <1>11 DEF ProbeReady, Opened, Started
<1>12. CASE NotReady
    BY <1>12, StopTypes DEF NotReady, StopFrees, Started
<1>13. CASE Verify
    BY <1>13 DEF Verify, Identified, Doubted, osVars
<1>14. CASE VerifyUnavailable
    BY <1>14 DEF VerifyUnavailable, Broken, osVars
<1>15. CASE Reverify
    BY <1>15 DEF Reverify, Identified, Doubted, osVars
<1>16. CASE ReverifyRaises
    BY <1>16 DEF ReverifyRaises, Broken, osVars
<1>17. CASE AvailStep
    BY <1>17, StopTypes DEF AvailStep, StopFrees
<1>18. CASE QuitRaises
    BY <1>18, StopTypes DEF QuitRaises, StopRaises, Broken
<1>19. CASE Healthy
    BY <1>19 DEF Healthy, osVars
<1>20. CASE Unhealthy
    BY <1>20 DEF Unhealthy, Doubted, osVars
<1>21. CASE SpendNothing
    BY <1>21 DEF SpendNothing, Unavailable, osVars
<1>22. CASE Spend
    BY <1>22 DEF Spend, osVars
<1>23. CASE Quit
    BY <1>23, StopTypes DEF Quit, StopFrees, Doubted
<1>24. CASE Drain
    BY <1>24 DEF Drain, Unavailable, osVars
<1>25. CASE Succeed
    BY <1>25 DEF Succeed, Return, osVars
<1>26. CASE Fail
    BY <1>26 DEF Fail, Stale, osVars
<1>27. CASE Rebuild
    BY <1>27 DEF Rebuild, Stale, osVars
<1>28. CASE RebuildStop
    BY <1>28, StopTypes DEF RebuildStop
<1>29. CASE RebuildStopRaises
    BY <1>29, StopTypes DEF RebuildStopRaises, Doubted
<1>30. CASE Clear
    BY <1>30 DEF Clear
<1>31. CASE ClearRaises
    BY <1>31 DEF ClearRaises
<1>32. CASE Save
    <2>1. unwind' \in BOOLEAN
        <3>1. CASE UNCHANGED <<client, unwind, answer>>
            BY <3>1, Zenon
        <3>2. CASE unwind' = TRUE
            BY <3>2
        <3> QED BY <1>32, <3>1, <3>2 DEF Save
    <2> QED BY <1>32, <2>1 DEF Save, Broken, osVars
<1>33. CASE CleanupProcess
    BY <1>33, StopTypes DEF CleanupProcess, StopFrees, StopRaises, Reported
<1>34. CASE Detach
    BY <1>34 DEF Detach, Reported, osVars
<1>35. CASE CallRaises
    BY <1>35 DEF CallRaises, Broken, osVars
<1> QED BY <1>1, <1>2, <1>3, <1>4, <1>5, <1>6, <1>7, <1>8, <1>9, <1>10, <1>11, <1>12, <1>13,
       <1>14, <1>15, <1>16, <1>17, <1>18, <1>19, <1>20, <1>21, <1>22, <1>23, <1>24,
       <1>25, <1>26, <1>27, <1>28, <1>29, <1>30, <1>31, <1>32, <1>33, <1>34, <1>35 DEF LifeStep

-----------------------------------------------------------------------------
(* The steps of a call. *)

\* A step returns only where its method may, and an __enter__ that fails has let go of its process.
LEMMA CallStep == LifeInv /\ LifeStep => CallInv'
<1> SUFFICES ASSUME LifeInv, LifeStep PROVE CallInv'
    OBVIOUS
<1> USE DEF LifeInv, CallInv
<1>1. CASE Refuse
    BY <1>1 DEF Refuse, Return, osVars, selfVars
<1>2. CASE Precheck
    BY <1>2 DEF Precheck, Goto, osVars
<1>3. CASE OpenClient
    BY <1>3 DEF OpenClient, Goto, osVars
<1>4. CASE ResetClient
    BY <1>4 DEF ResetClient, Goto, osVars
<1>5. CASE SpawnTree
    BY <1>5 DEF SpawnTree, PortHeld, Goto, Dynamic
<1>6. CASE SpawnNothing
    BY <1>6 DEF SpawnNothing, Dynamic, Started, Goto, osVars, Raise, Wrapped, Return
<1>7. CASE Bound
    BY <1>7 DEF Bound, Goto, osVars
<1>8. CASE NotBound
    BY <1>8 DEF NotBound, StopFrees, Goto, Started, Stopped, Raise, Wrapped, Return
<1>9. CASE StartRaises
    BY <1>9 DEF StartRaises, StopRaises, Broken, Kind, Raise, Stopped, StopFails,
                Wrapped, Return
<1>10. CASE Await
    BY <1>10 DEF Await, Opened, Goto
<1>11. CASE ProbeReady
    BY <1>11 DEF ProbeReady, Opened, Started, Goto, Raise, Wrapped, Return
<1>12. CASE NotReady
    BY <1>12 DEF NotReady, StopFrees, Started, Stopped, Goto, Raise, Wrapped, Return
<1>13. CASE Verify
    BY <1>13 DEF Verify, Identified, Doubted, Goto, osVars
<1>14. CASE VerifyUnavailable
    BY <1>14 DEF VerifyUnavailable, Broken, Goto, osVars
<1>15. CASE Reverify
    BY <1>15 DEF Reverify, Identified, Doubted, Goto, osVars
<1>16. CASE ReverifyRaises
    BY <1>16 DEF ReverifyRaises, Broken, Kind, Raise, osVars, Wrapped, Return
<1>17. CASE AvailStep
    BY <1>17 DEF AvailStep, Goto, StopFrees, Stopped
<1>18. CASE QuitRaises
    BY <1>18 DEF QuitRaises, StopRaises, Broken, Kind, Raise, Stopped, StopFails, Wrapped,
                Return
<1>19. CASE Healthy
    BY <1>19 DEF Healthy, Goto, osVars
<1>20. CASE Unhealthy
    BY <1>20 DEF Unhealthy, Doubted, Goto, osVars
<1>21. CASE SpendNothing
    BY <1>21 DEF SpendNothing, Unavailable, osVars, Raise, Goto, Wrapped, Return
<1>22. CASE Spend
    BY <1>22 DEF Spend, Goto, osVars
<1>23. CASE Quit
    BY <1>23 DEF Quit, StopFrees, Doubted, Goto, Stopped
<1>24. CASE Drain
    BY <1>24 DEF Drain, PortHeld, Goto, Unavailable, osVars, Raise, Wrapped, Return
<1>25. CASE Succeed
    BY <1>25 DEF Succeed, Return, osVars
<1>26. CASE Fail
    BY <1>26 DEF Fail, Stale, Raise, osVars, Wrapped, Return
<1>27. CASE Rebuild
    BY <1>27 DEF Rebuild, Stale, Goto, osVars
<1>28. CASE RebuildStop
    BY <1>28 DEF RebuildStop, Stopped, Goto, Raise, Wrapped, Return
<1>29. CASE RebuildStopRaises
    BY <1>29 DEF RebuildStopRaises, Doubted, StopFails, Kind, Raise, Wrapped, Return
<1>30. CASE Clear
    BY <1>30 DEF Clear, Goto
<1>31. CASE ClearRaises
    BY <1>31 DEF ClearRaises, Raise, Wrapped, Return
<1>32. CASE Save
    BY <1>32 DEF Save, MustSave, Broken, osVars
<1>33. CASE CleanupProcess
    BY <1>33 DEF CleanupProcess, StopFrees, StopRaises, Reported, Stopped, StopFails
<1>34. CASE Detach
    BY <1>34 DEF Detach, Reported, osVars
<1>35. CASE CallRaises
    BY <1>35 DEF CallRaises, Broken, Kind, Raise, osVars, Wrapped, Return
<1> QED BY <1>1, <1>2, <1>3, <1>4, <1>5, <1>6, <1>7, <1>8, <1>9, <1>10, <1>11, <1>12, <1>13,
       <1>14, <1>15, <1>16, <1>17, <1>18, <1>19, <1>20, <1>21, <1>22, <1>23, <1>24,
       <1>25, <1>26, <1>27, <1>28, <1>29, <1>30, <1>31, <1>32, <1>33, <1>34, <1>35 DEF LifeStep

\* No step drops a tree that may still have processes.
LEMMA OwnerStep == LifeInv /\ LifeStep => OwnerInv'
<1> SUFFICES ASSUME LifeInv, LifeStep PROVE OwnerInv'
    OBVIOUS
<1> USE DEF LifeInv, LifeTypeOK, CallInv, OwnerInv, LostInv, RuntimeInv, Survivors,
            Handed, Retired, Tree
<1>1. CASE Refuse
    BY <1>1 DEF Refuse, Return, osVars, selfVars
<1>2. CASE Precheck
    BY <1>2 DEF Precheck, Goto, osVars
<1>3. CASE OpenClient
    BY <1>3 DEF OpenClient, Goto, osVars
<1>4. CASE ResetClient
    BY <1>4 DEF ResetClient, Goto, osVars
<1>5. CASE SpawnTree
    BY <1>5 DEF SpawnTree, PortHeld, Goto, Dynamic
<1>6. CASE SpawnNothing
    BY <1>6 DEF SpawnNothing, Dynamic, Started, Goto, osVars, Raise, Wrapped, Return
<1>7. CASE Bound
    BY <1>7 DEF Bound, Goto, osVars
<1>8. CASE NotBound
    BY <1>8 DEF NotBound, StopFrees, Goto, Started, Stopped, Raise, Wrapped, Return
<1>9. CASE StartRaises
    BY <1>9 DEF StartRaises, StopRaises, Broken, Kind, Raise, Stopped, StopFails,
                Wrapped, Return
<1>10. CASE Await
    BY <1>10 DEF Await, Opened, Goto
<1>11. CASE ProbeReady
    BY <1>11 DEF ProbeReady, Opened, Started, Goto, Raise, Wrapped, Return
<1>12. CASE NotReady
    BY <1>12 DEF NotReady, StopFrees, Started, Stopped, Goto, Raise, Wrapped, Return
<1>13. CASE Verify
    BY <1>13 DEF Verify, Identified, Doubted, Goto, osVars
<1>14. CASE VerifyUnavailable
    BY <1>14 DEF VerifyUnavailable, Broken, Goto, osVars
<1>15. CASE Reverify
    BY <1>15 DEF Reverify, Identified, Doubted, Goto, osVars
<1>16. CASE ReverifyRaises
    BY <1>16 DEF ReverifyRaises, Broken, Kind, Raise, osVars, Wrapped, Return
<1>17. CASE AvailStep
    BY <1>17 DEF AvailStep, Goto, StopFrees, Stopped
<1>18. CASE QuitRaises
    BY <1>18 DEF QuitRaises, StopRaises, Broken, Kind, Raise, Stopped, StopFails, Wrapped,
                Return
<1>19. CASE Healthy
    BY <1>19 DEF Healthy, Goto, osVars
<1>20. CASE Unhealthy
    BY <1>20 DEF Unhealthy, Doubted, Goto, osVars
<1>21. CASE SpendNothing
    BY <1>21 DEF SpendNothing, Unavailable, osVars, Raise, Goto, Wrapped, Return
<1>22. CASE Spend
    BY <1>22 DEF Spend, Goto, osVars
<1>23. CASE Quit
    BY <1>23 DEF Quit, StopFrees, Doubted, Goto, Stopped
<1>24. CASE Drain
    BY <1>24 DEF Drain, PortHeld, Goto, Unavailable, osVars, Raise, Wrapped, Return
<1>25. CASE Succeed
    BY <1>25 DEF Succeed, Return, osVars
<1>26. CASE Fail
    BY <1>26 DEF Fail, Stale, Raise, osVars, Wrapped, Return
<1>27. CASE Rebuild
    BY <1>27 DEF Rebuild, Stale, Goto, osVars
<1>28. CASE RebuildStop
    BY <1>28 DEF RebuildStop, Stopped, Goto, Raise, Wrapped, Return
<1>29. CASE RebuildStopRaises
    BY <1>29 DEF RebuildStopRaises, Doubted, StopFails, Kind, Raise, Wrapped, Return
<1>30. CASE Clear
    BY <1>30 DEF Clear, Goto
<1>31. CASE ClearRaises
    BY <1>31 DEF ClearRaises, Raise, Wrapped, Return
<1>32. CASE Save
    BY <1>32 DEF Save, MustSave, Broken, osVars
<1>33. CASE CleanupProcess
    BY <1>33 DEF CleanupProcess, StopFrees, StopRaises, Reported, Stopped, StopFails
<1>34. CASE Detach
    BY <1>34 DEF Detach, Reported, osVars
<1>35. CASE CallRaises
    BY <1>35 DEF CallRaises, Broken, Kind, Raise, osVars, Wrapped, Return
<1> QED BY <1>1, <1>2, <1>3, <1>4, <1>5, <1>6, <1>7, <1>8, <1>9, <1>10, <1>11, <1>12, <1>13,
       <1>14, <1>15, <1>16, <1>17, <1>18, <1>19, <1>20, <1>21, <1>22, <1>23, <1>24,
       <1>25, <1>26, <1>27, <1>28, <1>29, <1>30, <1>31, <1>32, <1>33, <1>34, <1>35 DEF LifeStep

\* A restart spends the budget.
LEMMA SpentStep == LifeInv /\ LifeStep => SpentInv'
<1> SUFFICES ASSUME LifeInv, LifeStep PROVE SpentInv'
    OBVIOUS
<1> USE DEF LifeInv, LifeTypeOK, CallInv, OwnerInv, SpentInv
<1>1. CASE Refuse
    BY <1>1 DEF Refuse, Return, osVars, selfVars
<1>2. CASE Precheck
    BY <1>2 DEF Precheck, Goto, osVars
<1>3. CASE OpenClient
    BY <1>3 DEF OpenClient, Goto, osVars
<1>4. CASE ResetClient
    BY <1>4 DEF ResetClient, Goto, osVars
<1>5. CASE SpawnTree
    BY <1>5 DEF SpawnTree, PortHeld, Goto, Dynamic
<1>6. CASE SpawnNothing
    BY <1>6 DEF SpawnNothing, Dynamic, Started, Goto, osVars, Raise, Wrapped, Return
<1>7. CASE Bound
    BY <1>7 DEF Bound, Goto, osVars
<1>8. CASE NotBound
    BY <1>8 DEF NotBound, StopFrees, Goto, Started, Stopped, Raise, Wrapped, Return
<1>9. CASE StartRaises
    BY <1>9 DEF StartRaises, StopRaises, Broken, Kind, Raise, Stopped, StopFails,
                Wrapped, Return
<1>10. CASE Await
    BY <1>10 DEF Await, Opened, Goto
<1>11. CASE ProbeReady
    BY <1>11 DEF ProbeReady, Opened, Started, Goto, Raise, Wrapped, Return
<1>12. CASE NotReady
    BY <1>12 DEF NotReady, StopFrees, Started, Stopped, Goto, Raise, Wrapped, Return
<1>13. CASE Verify
    BY <1>13 DEF Verify, Identified, Doubted, Goto, osVars
<1>14. CASE VerifyUnavailable
    BY <1>14 DEF VerifyUnavailable, Broken, Goto, osVars
<1>15. CASE Reverify
    BY <1>15 DEF Reverify, Identified, Doubted, Goto, osVars
<1>16. CASE ReverifyRaises
    BY <1>16 DEF ReverifyRaises, Broken, Kind, Raise, osVars, Wrapped, Return
<1>17. CASE AvailStep
    BY <1>17 DEF AvailStep, Goto, StopFrees, Stopped
<1>18. CASE QuitRaises
    BY <1>18 DEF QuitRaises, StopRaises, Broken, Kind, Raise, Stopped, StopFails, Wrapped,
                Return
<1>19. CASE Healthy
    BY <1>19 DEF Healthy, Goto, osVars
<1>20. CASE Unhealthy
    BY <1>20 DEF Unhealthy, Doubted, Goto, osVars
<1>21. CASE SpendNothing
    BY <1>21 DEF SpendNothing, Unavailable, osVars, Raise, Goto, Wrapped, Return
<1>22. CASE Spend
    BY <1>22 DEF Spend, Goto, osVars
<1>23. CASE Quit
    BY <1>23 DEF Quit, StopFrees, Doubted, Goto, Stopped
<1>24. CASE Drain
    BY <1>24 DEF Drain, PortHeld, Goto, Unavailable, osVars, Raise, Wrapped, Return
<1>25. CASE Succeed
    BY <1>25 DEF Succeed, Return, osVars
<1>26. CASE Fail
    BY <1>26 DEF Fail, Stale, Raise, osVars, Wrapped, Return
<1>27. CASE Rebuild
    BY <1>27 DEF Rebuild, Stale, Goto, osVars
<1>28. CASE RebuildStop
    BY <1>28 DEF RebuildStop, Stopped, Goto, Raise, Wrapped, Return
<1>29. CASE RebuildStopRaises
    BY <1>29 DEF RebuildStopRaises, Doubted, StopFails, Kind, Raise, Wrapped, Return
<1>30. CASE Clear
    BY <1>30 DEF Clear, Goto
<1>31. CASE ClearRaises
    BY <1>31 DEF ClearRaises, Raise, Wrapped, Return
<1>32. CASE Save
    BY <1>32 DEF Save, MustSave, Broken, osVars
<1>33. CASE CleanupProcess
    BY <1>33 DEF CleanupProcess, StopFrees, StopRaises, Reported, Stopped, StopFails
<1>34. CASE Detach
    BY <1>34 DEF Detach, Reported, osVars
<1>35. CASE CallRaises
    BY <1>35 DEF CallRaises, Broken, Kind, Raise, osVars, Wrapped, Return
<1> QED BY <1>1, <1>2, <1>3, <1>4, <1>5, <1>6, <1>7, <1>8, <1>9, <1>10, <1>11, <1>12, <1>13,
       <1>14, <1>15, <1>16, <1>17, <1>18, <1>19, <1>20, <1>21, <1>22, <1>23, <1>24,
       <1>25, <1>26, <1>27, <1>28, <1>29, <1>30, <1>31, <1>32, <1>33, <1>34, <1>35 DEF LifeStep

\* The budget that pays for the tree a recovery loses is spent.
LEMMA LostStep == LifeInv /\ LifeStep => LostInv'
<1> SUFFICES ASSUME LifeInv, LifeStep PROVE LostInv'
    OBVIOUS
<1> USE DEF LifeInv, LifeTypeOK, CallInv, OwnerInv, SpentInv, LostInv, Retired
<1>1. CASE Refuse
    BY <1>1 DEF Refuse, Return, osVars, selfVars
<1>2. CASE Precheck
    BY <1>2 DEF Precheck, Goto, osVars
<1>3. CASE OpenClient
    BY <1>3 DEF OpenClient, Goto, osVars
<1>4. CASE ResetClient
    BY <1>4 DEF ResetClient, Goto, osVars
<1>5. CASE SpawnTree
    BY <1>5 DEF SpawnTree, PortHeld, Goto, Dynamic
<1>6. CASE SpawnNothing
    BY <1>6 DEF SpawnNothing, Dynamic, Started, Goto, osVars, Raise, Wrapped, Return
<1>7. CASE Bound
    BY <1>7 DEF Bound, Goto, osVars
<1>8. CASE NotBound
    BY <1>8 DEF NotBound, StopFrees, Goto, Started, Stopped, Raise, Wrapped, Return
<1>9. CASE StartRaises
    BY <1>9 DEF StartRaises, StopRaises, Broken, Kind, Raise, Stopped, StopFails,
                Wrapped, Return
<1>10. CASE Await
    BY <1>10 DEF Await, Opened, Goto
<1>11. CASE ProbeReady
    BY <1>11 DEF ProbeReady, Opened, Started, Goto, Raise, Wrapped, Return
<1>12. CASE NotReady
    BY <1>12 DEF NotReady, StopFrees, Started, Stopped, Goto, Raise, Wrapped, Return
<1>13. CASE Verify
    BY <1>13 DEF Verify, Identified, Doubted, Goto, osVars
<1>14. CASE VerifyUnavailable
    BY <1>14 DEF VerifyUnavailable, Broken, Goto, osVars
<1>15. CASE Reverify
    BY <1>15 DEF Reverify, Identified, Doubted, Goto, osVars
<1>16. CASE ReverifyRaises
    BY <1>16 DEF ReverifyRaises, Broken, Kind, Raise, osVars, Wrapped, Return
<1>17. CASE AvailStep
    BY <1>17 DEF AvailStep, Goto, StopFrees, Stopped
<1>18. CASE QuitRaises
    BY <1>18 DEF QuitRaises, StopRaises, Broken, Kind, Raise, Stopped, StopFails, Wrapped,
                Return
<1>19. CASE Healthy
    BY <1>19 DEF Healthy, Goto, osVars
<1>20. CASE Unhealthy
    BY <1>20 DEF Unhealthy, Doubted, Goto, osVars
<1>21. CASE SpendNothing
    BY <1>21 DEF SpendNothing, Unavailable, osVars, Raise, Goto, Wrapped, Return
<1>22. CASE Spend
    BY <1>22 DEF Spend, Goto, osVars
<1>23. CASE Quit
    BY <1>23 DEF Quit, StopFrees, Doubted, Goto, Stopped
<1>24. CASE Drain
    BY <1>24 DEF Drain, PortHeld, Goto, Unavailable, osVars, Raise, Wrapped, Return
<1>25. CASE Succeed
    BY <1>25 DEF Succeed, Return, osVars
<1>26. CASE Fail
    BY <1>26 DEF Fail, Stale, Raise, osVars, Wrapped, Return
<1>27. CASE Rebuild
    BY <1>27 DEF Rebuild, Stale, Goto, osVars
<1>28. CASE RebuildStop
    BY <1>28 DEF RebuildStop, Stopped, Goto, Raise, Wrapped, Return
<1>29. CASE RebuildStopRaises
    BY <1>29 DEF RebuildStopRaises, Doubted, StopFails, Kind, Raise, Wrapped, Return
<1>30. CASE Clear
    BY <1>30 DEF Clear, Goto
<1>31. CASE ClearRaises
    BY <1>31 DEF ClearRaises, Raise, Wrapped, Return
<1>32. CASE Save
    BY <1>32 DEF Save, MustSave, Broken, osVars
<1>33. CASE CleanupProcess
    BY <1>33 DEF CleanupProcess, StopFrees, StopRaises, Reported, Stopped, StopFails
<1>34. CASE Detach
    BY <1>34 DEF Detach, Reported, osVars
<1>35. CASE CallRaises
    BY <1>35 DEF CallRaises, Broken, Kind, Raise, osVars, Wrapped, Return
<1> QED BY <1>1, <1>2, <1>3, <1>4, <1>5, <1>6, <1>7, <1>8, <1>9, <1>10, <1>11, <1>12, <1>13,
       <1>14, <1>15, <1>16, <1>17, <1>18, <1>19, <1>20, <1>21, <1>22, <1>23, <1>24,
       <1>25, <1>26, <1>27, <1>28, <1>29, <1>30, <1>31, <1>32, <1>33, <1>34, <1>35 DEF LifeStep

\* The runtime follows self.process.
LEMMA RuntimeStep == LifeInv /\ LifeStep => RuntimeInv'
<1> SUFFICES ASSUME LifeInv, LifeStep PROVE RuntimeInv'
    OBVIOUS
<1> USE DEF LifeInv, CallInv, OwnerInv, RuntimeInv
<1>1. CASE Refuse
    BY <1>1 DEF Refuse, Return, osVars, selfVars
<1>2. CASE Precheck
    BY <1>2 DEF Precheck, Goto, osVars
<1>3. CASE OpenClient
    BY <1>3 DEF OpenClient, Goto, osVars
<1>4. CASE ResetClient
    BY <1>4 DEF ResetClient, Goto, osVars
<1>5. CASE SpawnTree
    BY <1>5 DEF SpawnTree, PortHeld, Goto, Dynamic
<1>6. CASE SpawnNothing
    BY <1>6 DEF SpawnNothing, Dynamic, Started, Goto, osVars, Raise, Wrapped, Return
<1>7. CASE Bound
    BY <1>7 DEF Bound, Goto, osVars
<1>8. CASE NotBound
    BY <1>8 DEF NotBound, StopFrees, Goto, Started, Stopped, Raise, Wrapped, Return
<1>9. CASE StartRaises
    BY <1>9 DEF StartRaises, StopRaises, Broken, Kind, Raise, Stopped, StopFails,
                Wrapped, Return
<1>10. CASE Await
    BY <1>10 DEF Await, Opened, Goto
<1>11. CASE ProbeReady
    BY <1>11 DEF ProbeReady, Opened, Started, Goto, Raise, Wrapped, Return
<1>12. CASE NotReady
    BY <1>12 DEF NotReady, StopFrees, Started, Stopped, Goto, Raise, Wrapped, Return
<1>13. CASE Verify
    BY <1>13 DEF Verify, Identified, Doubted, Goto, osVars
<1>14. CASE VerifyUnavailable
    BY <1>14 DEF VerifyUnavailable, Broken, Goto, osVars
<1>15. CASE Reverify
    BY <1>15 DEF Reverify, Identified, Doubted, Goto, osVars
<1>16. CASE ReverifyRaises
    BY <1>16 DEF ReverifyRaises, Broken, Kind, Raise, osVars, Wrapped, Return
<1>17. CASE AvailStep
    BY <1>17 DEF AvailStep, Goto, StopFrees, Stopped
<1>18. CASE QuitRaises
    BY <1>18 DEF QuitRaises, StopRaises, Broken, Kind, Raise, Stopped, StopFails, Wrapped,
                Return
<1>19. CASE Healthy
    BY <1>19 DEF Healthy, Goto, osVars
<1>20. CASE Unhealthy
    BY <1>20 DEF Unhealthy, Doubted, Goto, osVars
<1>21. CASE SpendNothing
    BY <1>21 DEF SpendNothing, Unavailable, osVars, Raise, Goto, Wrapped, Return
<1>22. CASE Spend
    BY <1>22 DEF Spend, Goto, osVars
<1>23. CASE Quit
    BY <1>23 DEF Quit, StopFrees, Doubted, Goto, Stopped
<1>24. CASE Drain
    BY <1>24 DEF Drain, PortHeld, Goto, Unavailable, osVars, Raise, Wrapped, Return
<1>25. CASE Succeed
    BY <1>25 DEF Succeed, Return, osVars
<1>26. CASE Fail
    BY <1>26 DEF Fail, Stale, Raise, osVars, Wrapped, Return
<1>27. CASE Rebuild
    BY <1>27 DEF Rebuild, Stale, Goto, osVars
<1>28. CASE RebuildStop
    BY <1>28 DEF RebuildStop, Stopped, Goto, Raise, Wrapped, Return
<1>29. CASE RebuildStopRaises
    BY <1>29 DEF RebuildStopRaises, Doubted, StopFails, Kind, Raise, Wrapped, Return
<1>30. CASE Clear
    BY <1>30 DEF Clear, Goto
<1>31. CASE ClearRaises
    BY <1>31 DEF ClearRaises, Raise, Wrapped, Return
<1>32. CASE Save
    BY <1>32 DEF Save, MustSave, Broken, osVars
<1>33. CASE CleanupProcess
    BY <1>33 DEF CleanupProcess, StopFrees, StopRaises, Reported, Stopped, StopFails
<1>34. CASE Detach
    BY <1>34 DEF Detach, Reported, osVars
<1>35. CASE CallRaises
    BY <1>35 DEF CallRaises, Broken, Kind, Raise, osVars, Wrapped, Return
<1> QED BY <1>1, <1>2, <1>3, <1>4, <1>5, <1>6, <1>7, <1>8, <1>9, <1>10, <1>11, <1>12, <1>13,
       <1>14, <1>15, <1>16, <1>17, <1>18, <1>19, <1>20, <1>21, <1>22, <1>23, <1>24,
       <1>25, <1>26, <1>27, <1>28, <1>29, <1>30, <1>31, <1>32, <1>33, <1>34, <1>35 DEF LifeStep

\* Every step of a call preserves what is known of the lifecycle.
LEMMA LifeStepCorrect == LifeInv /\ LifeStep => LifeInv'
<1> SUFFICES ASSUME LifeInv, LifeStep PROVE LifeInv'
    OBVIOUS
<1>1. FlowOK' /\ ObjectsOK'
    BY FlowStep, ObjectsStep
<1>2. LifeTypeOK'
    BY <1>1 DEF LifeTypeOK, FlowOK, ObjectsOK
<1> QED BY <1>2, CallStep, OwnerStep, SpentStep, LostStep, RuntimeStep DEF LifeInv

\* Only the rebuild of a stale database removes one, and by then its trees are gone or beyond reach.
LEMMA RemovalStep ==
    LifeInv /\ LifeStep =>
        (idb # "none" /\ idb' = "none" => opts.policy = "rebuild" /\ Survivors \subseteq unstopped \cup {lost})
<1> SUFFICES ASSUME LifeInv, LifeStep PROVE idb # "none" /\ idb' = "none" =>
                        opts.policy = "rebuild" /\ Survivors \subseteq unstopped \cup {lost}
    OBVIOUS
<1> USE DEF LifeInv, OwnerInv, RuntimeInv, Survivors, Handed, Tree
<1>1. CASE Refuse
    BY <1>1 DEF Refuse, Return, osVars, selfVars
<1>2. CASE Precheck
    BY <1>2 DEF Precheck, Goto, osVars
<1>3. CASE OpenClient
    BY <1>3 DEF OpenClient, Goto, osVars
<1>4. CASE ResetClient
    BY <1>4 DEF ResetClient, Goto, osVars
<1>5. CASE SpawnTree
    BY <1>5 DEF SpawnTree, PortHeld, Goto, Dynamic
<1>6. CASE SpawnNothing
    BY <1>6 DEF SpawnNothing, Dynamic, Started, Goto, osVars, Raise, Wrapped, Return
<1>7. CASE Bound
    BY <1>7 DEF Bound, Goto, osVars
<1>8. CASE NotBound
    BY <1>8 DEF NotBound, StopFrees, Goto, Started, Stopped, Raise, Wrapped, Return
<1>9. CASE StartRaises
    BY <1>9 DEF StartRaises, StopRaises, Broken, Kind, Raise, Stopped, StopFails,
                Wrapped, Return
<1>10. CASE Await
    BY <1>10 DEF Await, Opened, Goto
<1>11. CASE ProbeReady
    BY <1>11 DEF ProbeReady, Opened, Started, Goto, Raise, Wrapped, Return
<1>12. CASE NotReady
    BY <1>12 DEF NotReady, StopFrees, Started, Stopped, Goto, Raise, Wrapped, Return
<1>13. CASE Verify
    BY <1>13 DEF Verify, Identified, Doubted, Goto, osVars
<1>14. CASE VerifyUnavailable
    BY <1>14 DEF VerifyUnavailable, Broken, Goto, osVars
<1>15. CASE Reverify
    BY <1>15 DEF Reverify, Identified, Doubted, Goto, osVars
<1>16. CASE ReverifyRaises
    BY <1>16 DEF ReverifyRaises, Broken, Kind, Raise, osVars, Wrapped, Return
<1>17. CASE AvailStep
    BY <1>17 DEF AvailStep, Goto, StopFrees, Stopped
<1>18. CASE QuitRaises
    BY <1>18 DEF QuitRaises, StopRaises, Broken, Kind, Raise, Stopped, StopFails, Wrapped,
                Return
<1>19. CASE Healthy
    BY <1>19 DEF Healthy, Goto, osVars
<1>20. CASE Unhealthy
    BY <1>20 DEF Unhealthy, Doubted, Goto, osVars
<1>21. CASE SpendNothing
    BY <1>21 DEF SpendNothing, Unavailable, osVars, Raise, Goto, Wrapped, Return
<1>22. CASE Spend
    BY <1>22 DEF Spend, Goto, osVars
<1>23. CASE Quit
    BY <1>23 DEF Quit, StopFrees, Doubted, Goto, Stopped
<1>24. CASE Drain
    BY <1>24 DEF Drain, PortHeld, Goto, Unavailable, osVars, Raise, Wrapped, Return
<1>25. CASE Succeed
    BY <1>25 DEF Succeed, Return, osVars
<1>26. CASE Fail
    BY <1>26 DEF Fail, Stale, Raise, osVars, Wrapped, Return
<1>27. CASE Rebuild
    BY <1>27 DEF Rebuild, Stale, Goto, osVars
<1>28. CASE RebuildStop
    BY <1>28 DEF RebuildStop, Stopped, Goto, Raise, Wrapped, Return
<1>29. CASE RebuildStopRaises
    BY <1>29 DEF RebuildStopRaises, Doubted, StopFails, Kind, Raise, Wrapped, Return
<1>30. CASE Clear
    BY <1>30 DEF Clear, Goto
<1>31. CASE ClearRaises
    BY <1>31 DEF ClearRaises, Raise, Wrapped, Return
<1>32. CASE Save
    BY <1>32 DEF Save, MustSave, Broken, osVars
<1>33. CASE CleanupProcess
    BY <1>33 DEF CleanupProcess, StopFrees, StopRaises, Reported, Stopped, StopFails
<1>34. CASE Detach
    BY <1>34 DEF Detach, Reported, osVars
<1>35. CASE CallRaises
    BY <1>35 DEF CallRaises, Broken, Kind, Raise, osVars, Wrapped, Return
<1> QED BY <1>1, <1>2, <1>3, <1>4, <1>5, <1>6, <1>7, <1>8, <1>9, <1>10, <1>11, <1>12, <1>13,
       <1>14, <1>15, <1>16, <1>17, <1>18, <1>19, <1>20, <1>21, <1>22, <1>23, <1>24,
       <1>25, <1>26, <1>27, <1>28, <1>29, <1>30, <1>31, <1>32, <1>33, <1>34, <1>35 DEF LifeStep

\* How a call ends: __exit__ owns nothing any more, nor does an __enter__ that fails; a call that
\* went well leaves the verified identity of the supervisor it owns.
CallEnds ==
    CASE call = "exit" -> process' = 0
      [] call # "exit" /\ answer' = "ok" -> runtime' # 0 /\ runtime' = process'
      [] OTHER -> call = "enter" => process' = 0

LEMMA ReturnStep == LifeInv /\ LifeStep => call # "none" /\ call' \in {call, "none"} /\ (call' = "none" => CallEnds)
<1> SUFFICES ASSUME LifeInv, LifeStep
             PROVE  call # "none" /\ call' \in {call, "none"} /\ (call' = "none" => CallEnds)
    OBVIOUS
<1> USE DEF LifeInv, CallInv, RuntimeInv, CallEnds
<1>1. CASE Refuse
    BY <1>1 DEF Refuse, Return, osVars, selfVars
<1>2. CASE Precheck
    BY <1>2 DEF Precheck, Goto, osVars, selfVars
<1>3. CASE OpenClient
    BY <1>3 DEF OpenClient, Goto, osVars, selfVars
<1>4. CASE ResetClient
    BY <1>4 DEF ResetClient, Goto, osVars, selfVars
<1>5. CASE SpawnTree
    BY <1>5 DEF SpawnTree, PortHeld, Goto, Dynamic
<1>6. CASE SpawnNothing
    BY <1>6 DEF SpawnNothing, Dynamic, Started, Goto, osVars, selfVars, Raise, Wrapped, Return
<1>7. CASE Bound
    BY <1>7 DEF Bound, Goto, osVars, selfVars
<1>8. CASE NotBound
    BY <1>8 DEF NotBound, StopFrees, Goto, Started, Stopped, Raise, Wrapped, Return
<1>9. CASE StartRaises
    BY <1>9 DEF StartRaises, StopRaises, Broken, Kind, Raise, Stopped, StopFails,
                Wrapped, Return
<1>10. CASE Await
    BY <1>10 DEF Await, Opened, Goto
<1>11. CASE ProbeReady
    BY <1>11 DEF ProbeReady, Opened, Started, Goto, Raise, Wrapped, Return
<1>12. CASE NotReady
    BY <1>12 DEF NotReady, StopFrees, Started, Stopped, Goto, Raise, Wrapped, Return
<1>13. CASE Verify
    BY <1>13 DEF Verify, Identified, Doubted, Goto, osVars, selfVars
<1>14. CASE VerifyUnavailable
    BY <1>14 DEF VerifyUnavailable, Broken, Goto, osVars, selfVars
<1>15. CASE Reverify
    BY <1>15 DEF Reverify, Identified, Doubted, Goto, osVars, selfVars
<1>16. CASE ReverifyRaises
    BY <1>16 DEF ReverifyRaises, Broken, Kind, Raise, osVars, selfVars, Wrapped, Return
<1>17. CASE AvailStep
    BY <1>17 DEF AvailStep, Goto, StopFrees, Stopped
<1>18. CASE QuitRaises
    BY <1>18 DEF QuitRaises, StopRaises, Broken, Kind, Raise, Stopped, StopFails, Wrapped,
                Return
<1>19. CASE Healthy
    BY <1>19 DEF Healthy, Goto, osVars, selfVars
<1>20. CASE Unhealthy
    BY <1>20 DEF Unhealthy, Doubted, Goto, osVars, selfVars
<1>21. CASE SpendNothing
    BY <1>21 DEF SpendNothing, Unavailable, osVars, selfVars, Raise, Goto, Wrapped, Return
<1>22. CASE Spend
    BY <1>22 DEF Spend, Goto, osVars, selfVars
<1>23. CASE Quit
    BY <1>23 DEF Quit, StopFrees, Doubted, Goto, Stopped
<1>24. CASE Drain
    BY <1>24 DEF Drain, PortHeld, Goto, Unavailable, osVars, selfVars, Raise, Wrapped, Return
<1>25. CASE Succeed
    BY <1>25 DEF Succeed, Return, osVars, selfVars
<1>26. CASE Fail
    BY <1>26 DEF Fail, Stale, Raise, osVars, selfVars, Wrapped, Return
<1>27. CASE Rebuild
    BY <1>27 DEF Rebuild, Stale, Goto, osVars, selfVars
<1>28. CASE RebuildStop
    BY <1>28 DEF RebuildStop, Stopped, Goto, Raise, Wrapped, Return
<1>29. CASE RebuildStopRaises
    BY <1>29 DEF RebuildStopRaises, Doubted, StopFails, Kind, Raise, Wrapped, Return
<1>30. CASE Clear
    BY <1>30 DEF Clear, Goto
<1>31. CASE ClearRaises
    BY <1>31 DEF ClearRaises, Raise, Wrapped, Return
<1>32. CASE Save
    BY <1>32 DEF Save, MustSave, Broken, osVars, selfVars
<1>33. CASE CleanupProcess
    BY <1>33 DEF CleanupProcess, StopFrees, StopRaises, Reported, Stopped, StopFails
<1>34. CASE Detach
    BY <1>34 DEF Detach, Reported, LifeTypeOK, Method
<1>35. CASE CallRaises
    BY <1>35 DEF CallRaises, Broken, Kind, Raise, osVars, selfVars, Wrapped, Return
<1> QED BY <1>1, <1>2, <1>3, <1>4, <1>5, <1>6, <1>7, <1>8, <1>9, <1>10, <1>11, <1>12, <1>13,
       <1>14, <1>15, <1>16, <1>17, <1>18, <1>19, <1>20, <1>21, <1>22, <1>23, <1>24,
       <1>25, <1>26, <1>27, <1>28, <1>29, <1>30, <1>31, <1>32, <1>33, <1>34, <1>35 DEF LifeStep

-----------------------------------------------------------------------------
(* The steps between the calls. *)

LEMMA InitLife == LifeInit => LifeInv
<1> SUFFICES ASSUME LifeInit PROVE LifeInv
    OBVIOUS
<1>1. FlowOK /\ ObjectsOK
    <2>1. FlowOK
        BY DEF LifeInit, FlowOK, Method, Place, Answer
    <2>2. opts \in [policy : Policy, saves : BOOLEAN, dynamic : BOOLEAN] /\ idb \in Database
        BY DEF LifeInit, Policy, Database
    <2>3. tree \in [Tree -> {"unborn", "up", "exited", "gone"}] /\ unstopped \subseteq Tree
        BY DEF LifeInit
    <2>4. /\ process = 0 /\ runtime = 0 /\ local = 0 /\ lost = 0 /\ budget = 1 /\ client = "none"
          /\ site = "enter" /\ attempt = 1
        BY DEF LifeInit
    <2>5. 1 \in 1 .. Attempts
        BY AttemptsAssumption
    <2>6. rebuilt \in BOOLEAN /\ unwind \in BOOLEAN
        BY DEF LifeInit
    <2> QED BY <2>1, <2>2, <2>3, <2>4, <2>5, <2>6 DEF ObjectsOK, Sites
<1>2. CallInv /\ OwnerInv /\ SpentInv /\ LostInv /\ RuntimeInv
    BY DEF LifeInit, CallInv, OwnerInv, SpentInv, LostInv, RuntimeInv, Survivors, Handed, Retired
<1> QED BY <1>1, <1>2 DEF LifeInv, LifeTypeOK, FlowOK, ObjectsOK

LEMMA EnterStep ==
    ASSUME LifeInv, NEW o \in [policy : Policy, saves : BOOLEAN, dynamic : BOOLEAN],
           NEW d \in Database, Enter(o, d)
    PROVE  LifeInv'
<1>1. FlowOK' /\ ObjectsOK'
    <2>1. FlowOK'
        BY DEF Enter, FlowOK, Method, Place, Answer
    <2>2. opts' \in [policy : Policy, saves : BOOLEAN, dynamic : BOOLEAN] /\ idb' \in Database
        BY DEF Enter, Policy, Database
    <2>3. tree' \in [Tree -> {"unborn", "up", "exited", "gone"}] /\ unstopped' \subseteq Tree
        BY DEF Enter
    <2>4. /\ process' = 0 /\ runtime' = 0 /\ local' = 0 /\ lost' = 0 /\ budget' = 1 /\ client' = "none"
          /\ site' = "enter" /\ attempt' = 1
        BY DEF Enter
    <2>5. 1 \in 1 .. Attempts
        BY AttemptsAssumption
    <2>6. rebuilt' \in BOOLEAN /\ unwind' \in BOOLEAN
        BY DEF Enter
    <2> QED BY <2>1, <2>2, <2>3, <2>4, <2>5, <2>6 DEF ObjectsOK, Sites
<1>2. CallInv' /\ OwnerInv' /\ SpentInv' /\ LostInv' /\ RuntimeInv'
    BY DEF Enter, CallInv, OwnerInv, SpentInv, LostInv, RuntimeInv, Survivors, Handed, Retired
<1> QED BY <1>1, <1>2 DEF LifeInv, LifeTypeOK, FlowOK, ObjectsOK

LEMMA AskStep ==
    ASSUME LifeInv, NEW exc \in BOOLEAN, EnsureReady \/ Exit(exc)
    PROVE  LifeInv'
<1>1. CASE EnsureReady
    <2>1. LifeTypeOK'
        BY <1>1 DEF EnsureReady, LifeInv, LifeTypeOK, Method, Place, Sites, osVars, selfVars
    <2>2. CallInv' /\ SpentInv' /\ RuntimeInv'
        BY <1>1 DEF EnsureReady, LifeInv, CallInv, SpentInv, RuntimeInv, osVars, selfVars
    <2>3. OwnerInv' /\ LostInv'
        BY <1>1 DEF EnsureReady, LifeInv, CallInv, OwnerInv, LostInv, Survivors, Handed, Retired, osVars, selfVars
    <2> QED BY <2>1, <2>2, <2>3 DEF LifeInv
<1>2. CASE Exit(exc)
    <2>1. LifeTypeOK'
        BY <1>2 DEF Exit, LifeInv, LifeTypeOK, Method, Place, Answer, osVars, selfVars
    <2>2. CallInv' /\ SpentInv' /\ RuntimeInv'
        BY <1>2 DEF Exit, LifeInv, CallInv, SpentInv, RuntimeInv, osVars, selfVars
    <2>3. OwnerInv' /\ LostInv'
        BY <1>2 DEF Exit, LifeInv, CallInv, OwnerInv, LostInv, Survivors, Handed, Retired, osVars, selfVars
    <2> QED BY <2>1, <2>2, <2>3 DEF LifeInv
<1> QED BY <1>1, <1>2

\* A supervisor that dies leaves its remnants where they are known.
LEMMA CrashStep == LifeInv /\ Crash => LifeInv'
<1> SUFFICES ASSUME LifeInv, Crash PROVE LifeInv'
    OBVIOUS
<1>1. PICK t \in Tree, s \in {"exited", "gone"} :
          tree[t] = "up" /\ tree' = [tree EXCEPT ![t] = s]
    BY DEF Crash
<1>2. UNCHANGED <<idb, unstopped, selfVars, callVars>>
    BY DEF Crash
<1> USE DEF LifeInv, selfVars, callVars
<1>3. LifeTypeOK'
    BY <1>1, <1>2 DEF LifeTypeOK
<1>4. CallInv' /\ SpentInv' /\ LostInv' /\ RuntimeInv'
    BY <1>2 DEF CallInv, SpentInv, LostInv, RuntimeInv
<1>5. Survivors' \subseteq Survivors /\ (Retired => Retired')
    BY <1>1, <1>2 DEF LifeTypeOK, Survivors, Retired
<1>6. OwnerInv'
    BY <1>2, <1>5 DEF OwnerInv, Handed
<1> QED BY <1>3, <1>4, <1>6
=============================================================================
