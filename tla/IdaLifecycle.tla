---------------------------- MODULE IdaLifecycle ----------------------------
(***************************************************************************)
(* IdaMcpLifecycle: one owner of one idalib-mcp supervisor, from __enter__ *)
(* over any number of ensure_ready calls to __exit__.  A supervisor is a   *)
(* process tree; every start that gets as far as Popen gives a new one.    *)
(*                                                                         *)
(* One action is one operation that may take long or fail: a call through  *)
(* the worker's MCP client, a spawn, a stop, a wait for the port.  Each    *)
(* may also raise: "error" is an Exception the class turns into an         *)
(* McpLifecycleError, "cancel" a cancellation or KeyboardInterrupt that it *)
(* lets pass.  The owner asks with Enter, EnsureReady or Exit and goes on  *)
(* when call is "none" again; answer is what the call returned or raised.  *)
(***************************************************************************)
EXTENDS Integers

CONSTANTS
    Attempts    \* MCP_DYNAMIC_STARTUP_ATTEMPTS

ASSUME AttemptsAssumption == Attempts \in Nat \ {0}

VARIABLES
    opts,       \* arguments of the lifecycle: database_policy, save_on_success, port = None
    idb,        \* the IDA database beside the binary: "none", "good" or "stale"
    tree,       \* process trees spawned so far: "up", "exited" (remnants live), "gone"
    process,    \* self.process: a tree, or 0 for None
    runtime,    \* self.runtime: the tree whose identity was verified, or 0
    budget,     \* self.recovery_budget.remaining_restarts
    force,      \* self._force_local_stop
    client,     \* self._client: "none", "valid" or "invalid"
    call,       \* the method in progress, or "none"
    pc,         \* where in it
    site,       \* who asked for the start or the recovery in progress
    local,      \* the local variable process of the helper functions
    attempt,    \* start_dynamic_idalib_mcp: the attempt
    rebuilt,    \* _rebuild_stale_database ran in this call
    unwind,     \* __exit__ was given, or has met, an exception
    answer,     \* how the last call ended
    unstopped,  \* history: trees a stop of which failed
    lost        \* history: the tree a recovery started and did not hand over, or 0

osVars == <<idb, tree, unstopped>>
selfVars == <<opts, process, runtime, budget, force, client>>
callVars == <<call, pc, site, local, attempt, rebuilt, unwind, answer, lost>>
lifeVars == <<osVars, selfVars, callVars>>

\* The first start takes at most Attempts trees, the budget allows one more.
Tree == 1 .. Attempts + 1
Kind == {"error", "cancel"}
Sites == {"enter", "ready", "recover", "rebuild"}
Database == {"none", "good", "stale"}
Method == {"none", "enter", "ensure", "exit"}
Place == {"idle", "precheck", "client", "reset", "spawn", "bind", "await", "probe", "verify",
          "reverify", "avail", "health", "spend", "quit", "drain", "judge", "stop", "clear",
          "save", "cleanup", "detach"}
Policy == {"rebuild", "restored_strict"}
Answer == {"ok", "lifecycle", "raise"}

\* Trees of which processes live.
Survivors == {t \in Tree : tree[t] \in {"up", "exited"}}

PortHeld == \E t \in Tree : tree[t] = "up"

\* How an exception of this kind leaves __enter__ and ensure_ready.
Wrapped(kind) == IF kind = "error" THEN "lifecycle" ELSE "raise"

LifeTypeOK ==
    /\ opts \in [policy : Policy, saves : BOOLEAN, dynamic : BOOLEAN]
    /\ idb \in Database
    /\ tree \in [Tree -> {"unborn", "up", "exited", "gone"}]
    /\ process \in Tree \cup {0}
    /\ runtime \in Tree \cup {0}
    /\ local \in Tree \cup {0}
    /\ lost \in Tree \cup {0}
    /\ budget \in {0, 1}
    /\ force \in BOOLEAN
    /\ client \in {"none", "valid", "invalid"}
    /\ call \in Method
    /\ pc \in Place
    /\ site \in Sites
    /\ attempt \in 1 .. Attempts
    /\ rebuilt \in BOOLEAN
    /\ unwind \in BOOLEAN
    /\ answer \in Answer
    /\ unstopped \subseteq Tree

LifeInit ==
    /\ opts = [policy |-> "restored_strict", saves |-> FALSE, dynamic |-> TRUE]
    /\ idb = "none"
    /\ tree = [t \in Tree |-> "unborn"] /\ unstopped = {} /\ lost = 0
    /\ process = 0 /\ runtime = 0 /\ budget = 1 /\ force = TRUE /\ client = "none"
    /\ call = "none" /\ pc = "idle" /\ site = "enter" /\ local = 0
    /\ attempt = 1 /\ rebuilt = FALSE /\ unwind = FALSE /\ answer = "ok"

-----------------------------------------------------------------------------
(* How the steps move on: pc, call, answer and force are set here. *)

Goto(place) == pc' = place /\ UNCHANGED <<call, answer, force>>

Return(a) == pc' = "idle" /\ call' = "none" /\ answer' = a

\* An exception in __enter__ runs the cleanup; in ensure_ready an Exception is remembered.
Raise(kind) ==
    \/ /\ call = "enter"
       /\ pc' = "cleanup" /\ answer' = Wrapped(kind)
       /\ UNCHANGED <<call, force>>
    \/ /\ call = "ensure"
       /\ Return(Wrapped(kind))
       /\ force' = (force \/ kind = "error")

\* stop_idalib_mcp_process: the group is gone, or the stop raises and leaves it.
Stopped(t) == tree' = [tree EXCEPT ![t] = "gone"] /\ UNCHANGED unstopped
StopFails(t) ==
    /\ tree[t] # "gone"
    /\ unstopped' = unstopped \cup {t}
    /\ UNCHANGED tree

\* A stop and the wait for the port; another program may hold the port at any time.
StopFrees(t) == Stopped(t) /\ \A u \in Tree \ {t} : tree[u] # "up"
StopRaises(t) == Stopped(t) \/ StopFails(t)

\* A call through the client failed: its session may be invalid from now on.
Doubted == client' \in {client, "invalid"}
Broken == client' = "invalid"

-----------------------------------------------------------------------------
(* The owner's calls. *)

\* with IdaMcpLifecycle(...): a new object, for a binary whose database is d, is entered.
Enter(o, d) ==
    /\ call = "none"
    /\ opts' = o /\ idb' = d
    /\ tree' = [t \in Tree |-> "unborn"] /\ unstopped' = {} /\ lost' = 0
    /\ process' = 0 /\ runtime' = 0 /\ budget' = 1 /\ force' = TRUE /\ client' = "none"
    /\ call' = "enter" /\ pc' = "precheck" /\ site' = "enter" /\ local' = 0
    /\ attempt' = 1 /\ rebuilt' = FALSE /\ unwind' = FALSE /\ answer' = "ok"

EnsureReady ==
    /\ call = "none"
    /\ call' = "ensure" /\ pc' = "avail"
    /\ local' = process /\ site' = "ready" /\ rebuilt' = FALSE
    /\ UNCHANGED <<osVars, selfVars, attempt, unwind, answer, lost>>

\* __exit__ with or without an exception of the with block.
Exit(exc) ==
    /\ call = "none"
    /\ call' = "exit" /\ pc' = "save"
    /\ unwind' = exc /\ answer' = "ok"
    /\ UNCHANGED <<osVars, selfVars, site, local, attempt, rebuilt, lost>>

-----------------------------------------------------------------------------
(* __enter__ and the starts. *)

\* Before the try: an IDB lock file, or the strict policy without a database.
Refuse ==
    /\ pc = "precheck"
    /\ Return("lifecycle")
    /\ UNCHANGED <<osVars, selfVars, site, local, attempt, rebuilt, unwind, lost>>

Precheck ==
    /\ pc = "precheck"
    /\ opts.policy = "restored_strict" => idb # "none"
    /\ Goto("client")
    /\ UNCHANGED <<osVars, opts, process, runtime, budget, client, site, local, attempt, rebuilt, unwind, lost>>

OpenClient ==
    /\ pc = "client"
    /\ client' = "valid"
    /\ Goto(IF opts.dynamic THEN "spawn" ELSE "reset")
    /\ UNCHANGED <<osVars, opts, process, runtime, budget, site, local, attempt, rebuilt, unwind, lost>>

\* start_idalib_mcp begins with invalidate_mcp_client.
ResetClient ==
    /\ pc = "reset"
    /\ client' = "valid"
    /\ Goto("spawn")
    /\ UNCHANGED <<osVars, opts, process, runtime, budget, site, local, attempt, rebuilt, unwind, lost>>

Dynamic == site = "enter" /\ opts.dynamic

\* What a start returned: the tree t, or 0 for None.
Started(t) ==
    /\ local' = t
    /\ \/ /\ site = "recover"
          /\ IF t = 0 THEN process' = 0 /\ runtime' = 0 /\ Goto("judge")
             ELSE Goto("reverify") /\ UNCHANGED <<process, runtime>>
       \/ /\ site # "recover"
          /\ process' = t
          /\ IF t # 0 THEN Goto("verify")
             ELSE IF site = "rebuild" THEN Goto("judge")
             ELSE Raise("error")
          /\ UNCHANGED runtime

\* Under the startup lock, which is waited for with a deadline: the port is taken or Popen
\* fails (None), or there is a new tree.
SpawnTree ==
    /\ pc = "spawn"
    /\ ~PortHeld
    /\ \E t \in Tree :
        /\ tree[t] = "unborn"
        /\ \A u \in Tree : u < t => tree[u] # "unborn"
        /\ tree' = [tree EXCEPT ![t] = "up"]
        /\ local' = t
    /\ Goto(IF Dynamic THEN "bind" ELSE "probe")
    /\ UNCHANGED <<opts, idb, unstopped, process, runtime, budget, client, site, attempt, rebuilt, unwind, lost>>

SpawnNothing ==
    /\ pc = "spawn"
    /\ \/ /\ ~Dynamic
          /\ Started(0)
          /\ UNCHANGED attempt
       \/ /\ Dynamic /\ attempt < Attempts
          /\ Goto("spawn")
          /\ attempt' = attempt + 1
          /\ UNCHANGED <<process, runtime, local>>
       \/ /\ Dynamic /\ attempt = Attempts
          /\ Started(0)
          /\ UNCHANGED attempt
    /\ UNCHANGED <<osVars, opts, budget, client, site, rebuilt, unwind, lost>>

\* start_dynamic_idalib_mcp: the child is bound; readiness is awaited by __enter__.
Bound ==
    /\ pc = "bind"
    /\ tree[local] = "up"
    /\ process' = local /\ attempt' = 1
    /\ Goto("await")
    /\ UNCHANGED <<osVars, opts, runtime, budget, client, site, local, rebuilt, unwind, lost>>

NotBound ==
    /\ pc = "bind"
    /\ StopFrees(local)
    /\ \/ /\ attempt < Attempts
          /\ Goto("spawn")
          /\ attempt' = attempt + 1
          /\ UNCHANGED <<process, runtime, local>>
       \/ /\ attempt = Attempts
          /\ Started(0)
          /\ UNCHANGED attempt
    /\ UNCHANGED <<opts, idb, budget, client, site, rebuilt, unwind, lost>>

\* Mutant of StartRaises: the exception leaves the helper at once.
StartRaisesAtOnce ==
    /\ pc \in {"bind", "probe"}
    /\ Broken
    /\ \E kind \in Kind : Raise(kind)
    /\ UNCHANGED <<osVars, opts, process, runtime, budget, site, local, attempt, rebuilt, unwind, lost>>

\* A probe raises, or the stop of a tree that did not come up does: what was spawned is
\* stopped before the exception leaves the helper.
StartRaises ==
    /\ pc \in {"bind", "probe"}
    /\ StopRaises(local)
    /\ Broken
    /\ \E kind \in Kind : Raise(kind)
    /\ UNCHANGED <<opts, idb, process, runtime, budget, site, local, attempt, rebuilt, unwind, lost>>

\* IDA creates a database where there is none.
Opened == idb' = IF idb = "none" THEN "good" ELSE idb

Await ==
    /\ pc = "await"
    /\ tree[process] = "up"
    /\ client' = "valid" /\ Opened
    /\ Goto("verify")
    /\ UNCHANGED <<opts, tree, unstopped, process, runtime, budget, site, local, attempt, rebuilt, unwind, lost>>

ProbeReady ==
    /\ pc = "probe"
    /\ tree[local] = "up"
    /\ client' = "valid" /\ Opened
    /\ Started(local)
    /\ UNCHANGED <<opts, tree, unstopped, budget, site, attempt, rebuilt, unwind, lost>>

NotReady ==
    /\ pc = "probe"
    /\ StopFrees(local)
    /\ client' = "valid"
    /\ Started(0)
    /\ UNCHANGED <<opts, idb, budget, site, attempt, rebuilt, unwind, lost>>

-----------------------------------------------------------------------------
(* verify_owned_mcp_with_single_recovery and ensure_mcp_available. *)

Identified(t) == t # 0 /\ tree[t] = "up" /\ client = "valid" /\ idb = "good"

Verify ==
    /\ pc = "verify"
    /\ \/ Identified(process) /\ runtime' = process /\ UNCHANGED client
       \/ runtime' = 0 /\ Doubted
    /\ Goto("judge")
    /\ UNCHANGED <<osVars, opts, process, budget, site, local, attempt, rebuilt, unwind, lost>>

\* McpDatabaseUnavailableError, raised by a listing that worked.
VerifyUnavailable ==
    /\ pc = "verify"
    /\ client = "valid" /\ Broken
    /\ local' = process /\ site' = "recover"
    /\ Goto("avail")
    /\ UNCHANGED <<osVars, opts, process, runtime, budget, attempt, rebuilt, unwind, lost>>

Reverify ==
    /\ pc = "reverify"
    /\ process' = local
    /\ \/ Identified(local) /\ runtime' = local /\ UNCHANGED client
       \/ runtime' = 0 /\ Doubted
    /\ Goto("judge")
    /\ UNCHANGED <<osVars, opts, budget, site, local, attempt, rebuilt, unwind, lost>>

\* The helper never returns: the tree it started was not assigned to self.process.
ReverifyRaises ==
    /\ pc = "reverify"
    /\ Broken
    /\ lost' = IF local # process THEN local ELSE lost
    /\ \E kind \in Kind : Raise(kind)
    /\ UNCHANGED <<osVars, opts, process, runtime, budget, site, local, attempt, rebuilt, unwind>>

\* ensure_mcp_available returned (local, FALSE).
Unavailable(t) ==
    /\ process' = t /\ local' = t
    /\ \/ site = "ready" /\ Raise("error") /\ UNCHANGED runtime
       \/ site = "recover" /\ runtime' = 0 /\ Goto("judge")

\* A supervisor that has exited is stopped as a group before anything else.
AvailStep ==
    /\ pc = "avail"
    /\ \/ local = 0 /\ Goto("spend") /\ UNCHANGED <<tree, unstopped, local>>
       \/ local # 0 /\ tree[local] = "up" /\ Goto("health") /\ UNCHANGED <<tree, unstopped, local>>
       \/ local # 0 /\ tree[local] # "up" /\ StopFrees(local) /\ local' = 0 /\ Goto("spend")
    /\ UNCHANGED <<opts, idb, process, runtime, budget, client, site, attempt, rebuilt, unwind, lost>>

QuitRaises ==
    /\ pc \in {"avail", "quit"}
    /\ local # 0
    /\ pc = "avail" => tree[local] # "up"
    /\ StopRaises(local)
    /\ Broken
    /\ \E kind \in Kind : Raise(kind)
    /\ UNCHANGED <<opts, idb, process, runtime, budget, site, local, attempt, rebuilt, unwind, lost>>

Healthy ==
    /\ pc = "health"
    /\ tree[local] = "up" /\ client = "valid"
    /\ IF site = "recover" THEN Goto("reverify") /\ UNCHANGED process
       ELSE Goto("verify") /\ process' = local
    /\ UNCHANGED <<osVars, opts, runtime, budget, client, site, local, attempt, rebuilt, unwind, lost>>

Unhealthy ==
    /\ pc = "health"
    /\ Doubted
    /\ Goto("spend")
    /\ UNCHANGED <<osVars, opts, process, runtime, budget, site, local, attempt, rebuilt, unwind, lost>>

SpendNothing ==
    /\ pc = "spend"
    /\ budget = 0
    /\ Unavailable(local)
    /\ UNCHANGED <<osVars, opts, budget, client, site, attempt, rebuilt, unwind, lost>>

\* Mutant of Spend: a restart is taken whether one remains or not.
SpendAnyway ==
    /\ pc = "spend"
    /\ budget' = budget - 1
    /\ Goto(IF local = 0 THEN "drain" ELSE "quit")
    /\ UNCHANGED <<osVars, opts, process, runtime, client, site, local, attempt, rebuilt, unwind, lost>>

Spend ==
    /\ pc = "spend"
    /\ budget > 0
    /\ budget' = budget - 1
    /\ Goto(IF local = 0 THEN "drain" ELSE "quit")
    /\ UNCHANGED <<osVars, opts, process, runtime, client, site, local, attempt, rebuilt, unwind, lost>>

Quit ==
    /\ pc = "quit"
    /\ StopFrees(local)
    /\ local' = 0
    /\ Doubted
    /\ Goto("drain")
    /\ UNCHANGED <<opts, idb, process, runtime, budget, site, attempt, rebuilt, unwind, lost>>

\* The client is invalidated and the port has to be free before a new start.
Drain ==
    /\ pc = "drain"
    /\ client' = "valid"
    /\ \/ ~PortHeld /\ Goto("reset") /\ UNCHANGED <<process, runtime, local>>
       \/ Unavailable(0)
    /\ UNCHANGED <<osVars, opts, budget, site, attempt, rebuilt, unwind, lost>>

-----------------------------------------------------------------------------
(* The verdict of __enter__ and ensure_ready, and _rebuild_stale_database. *)

\* Mutant of Stale: rebuild for as long as the identity is not verified.
StaleAgain == runtime = 0 /\ opts.policy = "rebuild" /\ idb # "none"

Stale == runtime = 0 /\ opts.policy = "rebuild" /\ idb # "none" /\ ~rebuilt

Succeed ==
    /\ pc = "judge"
    /\ runtime # 0
    /\ Return("ok")
    /\ site' = "enter" /\ local' = 0 /\ rebuilt' = FALSE
    /\ force' = (call # "enter" /\ force)
    /\ UNCHANGED <<osVars, opts, process, runtime, budget, client, attempt, unwind, lost>>

Fail ==
    /\ pc = "judge"
    /\ runtime = 0 /\ ~Stale
    /\ Raise("error")
    /\ UNCHANGED <<osVars, opts, process, runtime, budget, client, site, local, attempt, rebuilt, unwind, lost>>

\* Mutant of Rebuild: the database is removed under the running worker.
RebuildAtOnce ==
    /\ pc = "judge"
    /\ Stale
    /\ rebuilt' = TRUE
    /\ IF budget = 0 THEN Goto("judge") /\ UNCHANGED budget
       ELSE Goto("clear") /\ budget' = budget - 1
    /\ UNCHANGED <<osVars, opts, process, runtime, client, site, local, attempt, unwind, lost>>

Rebuild ==
    /\ pc = "judge"
    /\ Stale
    /\ rebuilt' = TRUE
    /\ IF budget = 0 THEN Goto("judge") /\ UNCHANGED budget
       ELSE Goto("stop") /\ budget' = budget - 1
    /\ UNCHANGED <<osVars, opts, process, runtime, client, site, local, attempt, unwind, lost>>

RebuildStop ==
    /\ pc = "stop"
    /\ client' = "valid"
    /\ process' = 0
    /\ IF process = 0 THEN UNCHANGED <<tree, unstopped>> ELSE Stopped(process)
    /\ \/ (\A u \in Tree \ {process} : tree[u] # "up") /\ Goto("clear")
       \/ Raise("error")
    /\ UNCHANGED <<opts, idb, runtime, budget, site, local, attempt, rebuilt, unwind, lost>>

RebuildStopRaises ==
    /\ pc = "stop"
    /\ Doubted
    /\ \/ UNCHANGED <<tree, unstopped>>
       \/ process # 0 /\ StopFails(process)
    /\ \E kind \in Kind : Raise(kind)
    /\ UNCHANGED <<opts, idb, process, runtime, budget, site, local, attempt, rebuilt, unwind, lost>>

\* _invalidate_ida_database: refused by a lock file, or files may resist the removal.
Clear ==
    /\ pc = "clear"
    /\ idb' = "none"
    /\ site' = "rebuild"
    /\ Goto("reset")
    /\ UNCHANGED <<opts, tree, unstopped, process, runtime, budget, client, local, attempt, rebuilt, unwind, lost>>

ClearRaises ==
    /\ pc = "clear"
    /\ idb' \in {idb, "none"}
    /\ Raise("error")
    /\ UNCHANGED <<opts, tree, unstopped, process, runtime, budget, client, site, local, attempt, rebuilt, unwind, lost>>

-----------------------------------------------------------------------------
(* __exit__ and _cleanup. *)

MustSave == ~unwind /\ process # 0 /\ ~force /\ opts.saves

Save ==
    /\ pc = "save"
    /\ \/ UNCHANGED <<client, unwind, answer>>
       \/ /\ MustSave
          /\ Broken
          /\ unwind' = TRUE
          /\ answer' \in {"lifecycle", "raise"}
    /\ pc' = "cleanup"
    /\ UNCHANGED <<osVars, opts, process, runtime, budget, force, call, site, local, attempt, rebuilt, lost>>

\* Errors of a cleanup are only printed when an exception is already on its way.
Reported(a) ==
    IF call = "exit" /\ ~unwind THEN answer' = a ELSE UNCHANGED answer

CleanupProcess ==
    /\ pc = "cleanup"
    /\ \/ process = 0 /\ UNCHANGED <<tree, unstopped, answer>>
       \/ process # 0 /\ StopFrees(process) /\ UNCHANGED answer
       \/ process # 0 /\ StopRaises(process) /\ \E a \in {"lifecycle", "raise"} : Reported(a)
    /\ process' = 0
    /\ pc' = "detach"
    /\ UNCHANGED <<opts, idb, runtime, budget, force, client, call, site, local, attempt, rebuilt, unwind, lost>>

\* The finally clause: the client's executor ends, or its end is not awaited for ever.
Detach ==
    /\ pc = "detach"
    /\ runtime' = 0 /\ client' = "none"
    /\ \/ UNCHANGED answer
       \/ Reported("raise")
    /\ pc' = "idle" /\ call' = "none"
    /\ UNCHANGED <<osVars, opts, process, budget, force, site, local, attempt, rebuilt, unwind, lost>>

-----------------------------------------------------------------------------
(* What may go wrong anywhere. *)

\* A call through the client, the wait for it or the startup lock raises.
CallRaises ==
    /\ pc \in {"client", "reset", "spawn", "await", "verify", "health", "drain"}
    /\ IF pc = "spawn" THEN UNCHANGED client ELSE Broken
    /\ \E kind \in Kind : Raise(kind)
    /\ UNCHANGED <<osVars, opts, process, runtime, budget, site, local, attempt, rebuilt, unwind, lost>>

\* A supervisor dies, with or without its workers.
Crash ==
    /\ \E t \in Tree :
        /\ tree[t] = "up"
        /\ \E s \in {"exited", "gone"} : tree' = [tree EXCEPT ![t] = s]
    /\ UNCHANGED <<idb, unstopped, selfVars, callVars>>

LifeStep ==
    \/ Refuse \/ Precheck \/ OpenClient \/ ResetClient
    \/ SpawnTree \/ SpawnNothing \/ Bound \/ NotBound \/ StartRaises \/ Await \/ ProbeReady \/ NotReady
    \/ Verify \/ VerifyUnavailable \/ Reverify \/ ReverifyRaises
    \/ AvailStep \/ QuitRaises \/ Healthy \/ Unhealthy \/ SpendNothing \/ Spend \/ Quit \/ Drain
    \/ Succeed \/ Fail \/ Rebuild \/ RebuildStop \/ RebuildStopRaises \/ Clear \/ ClearRaises
    \/ Save \/ CleanupProcess \/ Detach \/ CallRaises

=============================================================================
