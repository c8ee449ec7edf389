------------------------------ MODULE IdbCache ------------------------------
(***************************************************************************)
(* The warm IDB cache on a shared directory: workflow runs prepare a       *)
(* selection of immutable generations (idb_cache_workflow.py,              *)
(* idb_cache_selection.py), hand it to a later job that restores it, and   *)
(* prune what nobody needs (idb_cache.py), protected from each other by    *)
(* lease files (idb_cache_leases.py) and by a producer lock and one lock   *)
(* per tag (idb_cache_locks.py).                                           *)
(*                                                                         *)
(* A key stands for one binary identity, a generation <<k, r>> for the     *)
(* database of key k published by run r.  One action is what a process     *)
(* does under one acquisition of a tag lock for one key or tag; where it   *)
(* writes twice, the lock is a variable and each write an action.          *)
(*                                                                         *)
(* Every reading of a clock is the true time plus at most Skew: processes  *)
(* of different runners share the directory.                               *)
(***************************************************************************)
EXTENDS Integers, FiniteSets

CONSTANTS Key,         \* binary identities
          Tag,         \* tag directories
          TagOf,       \* the tag of a key
          Target,      \* the module, platform and path a key is a revision of
          Run,         \* workflow runs (a re-run is another one)
          Plan,        \* the keys a run selects
          NoOne,       \* no run, no generation
          Lifetime,    \* LEASE_LIFETIME
          Allowance,   \* CLOCK_SKEW_ALLOWANCE
          MinimumAge,  \* prune_tag's minimum_age
          KeepLatest,  \* prune_tag's keep_latest
          Skew,        \* how far a clock may be ahead
          MaxTime,     \* bound on the true time
          LastStart,   \* bound on the time a run begins
          MaxRestores  \* bound on the restore jobs of a run

Generation == Key \X Run

ASSUME KeyAssumption ==
    /\ Key \subseteq Nat /\ Run \subseteq Nat
    /\ TagOf \in [Key -> Tag]
    /\ Plan \in [Run -> (SUBSET Key) \ {{}}]
    /\ NoOne \notin Run \union Generation

ASSUME TimeAssumption ==
    /\ Lifetime \in Nat /\ Allowance \in Nat /\ MinimumAge \in Nat
    /\ Skew \in Nat /\ MaxTime \in Nat /\ KeepLatest \in Nat
    /\ MaxRestores \in Nat /\ LastStart \in Int

VARIABLES
    now,       \* the true time
    producer,  \* the run that holds producer.lock
    lock,      \* lock[t]: the run that holds the lock of tag t between two actions
    state,     \* state[g]: "absent", "good", or "damaged" (fails verification)
    stamp,     \* stamp[g]: published_at in the manifest
    ready,     \* ready[t]: the generation READY.json names
    lease,     \* lease[t][r]: the lease record of run r; no references, no file
    born,      \* born[r]: created_at of the run's lease
    pc,        \* pc[r]: the stage of the run's prepare or restore job
    step,      \* step[r][k]: how far prepare is with key k
    sel,       \* sel[r][k]: the generation selected for k
    left,      \* left[r]: the keys the present stage still has to visit
    restores,  \* restores[r]: restore jobs started
    consumed   \* the runs whose selection was restored completely (history)

vars == <<now, producer, lock, state, stamp, ready, lease, born, pc, step, sel,
          left, restores, consumed>>
files == <<state, stamp, ready, lease>>
local == <<born, pc, step, sel, left, restores, consumed>>

Preparing == {"probe", "publish", "prune", "seal", "validate", "revalidate"}
Restoring == {"verify", "restore", "release"}
Waiting   == {"selected", "interrupted"}

Reading == now .. now + Skew
Expires(r) == born[r] + Lifetime

NoLease == [refs |-> {}, sealed |-> FALSE]

GoodOf(k) == {g \in Generation : g[1] = k /\ state[g] = "good"}
InTag(t)  == {g \in Generation : TagOf[g[1]] = t}
Chosen(r, t) == {sel[r][k] : k \in {j \in Plan[r] : TagOf[j] = t}}

Init ==
    /\ now = 0
    /\ producer = NoOne
    /\ lock = [t \in Tag |-> NoOne]
    /\ state = [g \in Generation |-> "absent"]
    /\ stamp = [g \in Generation |-> 0]
    /\ ready = [t \in Tag |-> NoOne]
    /\ lease = [t \in Tag |-> [r \in Run |-> NoLease]]
    /\ born = [r \in Run |-> 0]
    /\ pc = [r \in Run |-> "new"]
    /\ step = [r \in Run |-> [k \in Key |-> "todo"]]
    /\ sel = [r \in Run |-> [k \in Key |-> NoOne]]
    /\ left = [r \in Run |-> {}]
    /\ restores = [r \in Run |-> 0]
    /\ consumed = {}

Free(t) == lock[t] = NoOne
Take(r, t) == Free(t) /\ lock' = [lock EXCEPT ![t] = r]
Drop(r, t) == lock[t] = r /\ lock' = [lock EXCEPT ![t] = NoOne]

At(r, k, stage) == pc[r] = stage /\ k \in Plan[r]

\* Entries and tags are visited in the order of their names.
NextKey(r, k) == k \in left[r] /\ \A j \in left[r] : k <= j
NextTag(r, t) == \E k \in left[r] : TagOf[k] = t /\ \A j \in left[r] : k <= j

\* A prepare that ended without a selection leaves nothing but its files.
Forget(r) ==
    /\ pc' = [pc EXCEPT ![r] = "failed"]
    /\ producer' = NoOne
    /\ step' = [step EXCEPT ![r] = [k \in Key |-> "todo"]]
    /\ sel' = [sel EXCEPT ![r] = [k \in Key |-> NoOne]]
    /\ left' = [left EXCEPT ![r] = {}]

\* The visited keys are done; the last one ends the stage.
Advance(r, visited, next) ==
    IF left[r] \subseteq visited
    THEN pc' = [pc EXCEPT ![r] = next] /\ left' = [left EXCEPT ![r] = Plan[r]]
    ELSE pc' = pc /\ left' = [left EXCEPT ![r] = @ \ visited]

-----------------------------------------------------------------------------
(* Prepare: probe, warm, publish and pin (under the producer lock).        *)

\* prepare_cache_selection takes the producer lock and creates the lease.
Begin(r) ==
    /\ pc[r] = "new" /\ producer = NoOne /\ now <= LastStart
    /\ producer' = r
    /\ \E c \in Reading : born' = [born EXCEPT ![r] = c]
    /\ pc' = [pc EXCEPT ![r] = "probe"]
    /\ UNCHANGED <<now, lock, files, step, sel, left, restores, consumed>>

\* probe_generation: the generation READY names if it serves the key, else the one
\* with the greatest name; READY then names the result.
Found(k) ==
    LET hint == ready[TagOf[k]]
    IN  IF hint \in GoodOf(k) THEN {hint}
        ELSE {g \in GoodOf(k) : \A h \in GoodOf(k) : h[2] <= g[2]}

\* The first probe (probe_tag) and the one before publishing.
Probe(r, k) ==
    /\ \/ At(r, k, "probe") /\ step[r][k] = "todo"
       \/ At(r, k, "publish") /\ step[r][k] = "warm"
    /\ Take(r, TagOf[k])
    /\ \E g \in Found(k) :
          /\ ready' = [ready EXCEPT ![TagOf[k]] = g]
          /\ sel' = [sel EXCEPT ![r][k] = g]
    /\ step' = [step EXCEPT ![r][k] = "found"]
    /\ UNCHANGED <<now, producer, state, stamp, lease, born, pc, left, restores, consumed>>

Miss(r, k) ==
    /\ At(r, k, "probe") /\ step[r][k] = "todo"
    /\ Free(TagOf[k]) /\ GoodOf(k) = {}
    /\ step' = [step EXCEPT ![r][k] = "miss"]
    /\ UNCHANGED <<now, producer, lock, files, born, pc, sel, left, restores, consumed>>

\* All probes end before the first miss is warmed.
EndProbes(r) ==
    /\ pc[r] = "probe" /\ \A k \in Plan[r] : step[r][k] \in {"pinned", "miss"}
    /\ pc' = [pc EXCEPT ![r] = "publish"]
    /\ UNCHANGED <<now, producer, lock, files, born, step, sel, left, restores, consumed>>

\* warm_group, outside the tag lock; a failed worker is an Abort.
Warm(r, k) ==
    /\ At(r, k, "publish") /\ step[r][k] = "miss"
    /\ step' = [step EXCEPT ![r][k] = "warm"]
    /\ UNCHANGED <<now, producer, lock, files, born, pc, sel, left, restores, consumed>>

\* publish_generation: the rename that makes the generation visible, after the probe
\* under the same lock found none ...
Publish(r, k) ==
    /\ At(r, k, "publish") /\ step[r][k] = "warm"
    /\ GoodOf(k) = {} /\ state[<<k, r>>] = "absent"
    /\ Take(r, TagOf[k])
    /\ state' = [state EXCEPT ![<<k, r>>] = "good"]
    /\ \E c \in Reading : stamp' = [stamp EXCEPT ![<<k, r>>] = c]
    /\ step' = [step EXCEPT ![r][k] = "published"]
    /\ UNCHANGED <<now, producer, ready, lease, born, pc, sel, left, restores, consumed>>

\* Mutant of WriteReady: the selection is not handed to the caller.
WriteReadyOnly(r, k) ==
    /\ At(r, k, "publish") /\ step[r][k] = "published"
    /\ ready' = [ready EXCEPT ![TagOf[k]] = <<k, r>>]
    /\ step' = [step EXCEPT ![r][k] = "found"]
    /\ UNCHANGED <<now, producer, lock, state, stamp, lease, born, pc, sel, left, restores, consumed>>

\* ... and then READY.
WriteReady(r, k) ==
    /\ At(r, k, "publish") /\ step[r][k] = "published"
    /\ ready' = [ready EXCEPT ![TagOf[k]] = <<k, r>>]
    /\ sel' = [sel EXCEPT ![r][k] = <<k, r>>]
    /\ step' = [step EXCEPT ![r][k] = "found"]
    /\ UNCHANGED <<now, producer, lock, state, stamp, lease, born, pc, left, restores, consumed>>

\* pin_generation, in the lock section of the probe or of the publication.
Pin(r, k) ==
    LET t == TagOf[k] IN
    /\ pc[r] \in {"probe", "publish"} /\ k \in Plan[r] /\ step[r][k] = "found"
    /\ \E c \in Reading : c < Expires(r)
    /\ ~lease[t][r].sealed
    /\ lease' = [lease EXCEPT ![t][r].refs = @ \union {sel[r][k]}]
    /\ step' = [step EXCEPT ![r][k] = "pinned"]
    /\ Drop(r, t)
    /\ UNCHANGED <<now, producer, state, stamp, ready, born, pc, sel, left, restores, consumed>>

EndPublish(r) ==
    /\ pc[r] = "publish" /\ \A k \in Plan[r] : step[r][k] = "pinned"
    /\ pc' = [pc EXCEPT ![r] = "prune"]
    /\ left' = [left EXCEPT ![r] = Plan[r]]
    /\ UNCHANGED <<now, producer, lock, files, born, step, sel, restores, consumed>>

-----------------------------------------------------------------------------
(* Pruning.                                                                *)

\* Mutants of Lapsed: no allowance for the clocks of other runners; the pins of a
\* prepare that never sealed them stay.
LapsedAtOnce(t, c) == {r \in Run : lease[t][r].refs # {} /\ c >= Expires(r)}
LapsedSealed(t, c) ==
    {r \in Run : lease[t][r].refs # {} /\ lease[t][r].sealed
                 /\ c >= Expires(r) + Allowance}

\* protected_generations: the leases a pruner whose clock reads c removes.
Lapsed(t, c) == {r \in Run : lease[t][r].refs # {} /\ c >= Expires(r) + Allowance}

\* A lease from the future stops every deletion (validate_lease).
ClocksAgree(t, c) == \A r \in Run : lease[t][r].refs # {} => born[r] <= c + Allowance

Leased(t, c) == UNION {lease[t][r].refs : r \in Run \ Lapsed(t, c)}

Newer(h, g) ==
    \/ stamp[h] > stamp[g]
    \/ stamp[h] = stamp[g] /\ h[1] > g[1]
    \/ stamp[h] = stamp[g] /\ h[1] = g[1] /\ h[2] > g[2]

\* The newest generations of each target.
Latest(g) ==
    Cardinality({h \in Generation : state[h] = "good" /\ TagOf[h[1]] = TagOf[g[1]]
                                    /\ Target[h[1]] = Target[g[1]] /\ Newer(h, g)})
       < KeepLatest

\* Mutants of Reclaimable: the leases are not consulted; READY is not kept.
ReclaimableLeased(t, c, protected) ==
    {g \in InTag(t) \ (protected \union {ready[t]}) :
        state[g] = "good" /\ ~Latest(g) /\ c - stamp[g] >= MinimumAge}
ReclaimableReady(t, c, protected) ==
    {g \in InTag(t) \ (protected \union Leased(t, c)) :
        state[g] = "good" /\ ~Latest(g) /\ c - stamp[g] >= MinimumAge}

\* What prune_tag deletes; generations that fail verification stay.
Reclaimable(t, c, protected) ==
    {g \in InTag(t) \ (protected \union Leased(t, c) \union {ready[t]}) :
        state[g] = "good" /\ ~Latest(g) /\ c - stamp[g] >= MinimumAge}

\* prune_tag: the lapsed leases, then the generations.  A deletion that is cut short
\* leaves one generation half deleted and the rest untouched.
PruneTag(t, c, protected, deleted, torn) ==
    /\ Free(t) /\ ClocksAgree(t, c)
    /\ deleted \subseteq Reclaimable(t, c, protected)
    /\ torn \subseteq Reclaimable(t, c, protected) \ deleted
    /\ lease' = [lease EXCEPT ![t] =
                    [r \in Run |-> IF r \in Lapsed(t, c) THEN NoLease ELSE @[r]]]
    /\ state' = [g \in Generation |-> IF g \in deleted THEN "absent"
                                      ELSE IF g \in torn THEN "damaged" ELSE state[g]]
    /\ stamp' = [g \in Generation |-> IF g \in deleted \union torn THEN 0 ELSE stamp[g]]
    /\ ready' = ready

\* The prune of a prepare, per tag, once all its pins are written.
Prune(r, t) ==
    /\ pc[r] = "prune" /\ NextTag(r, t)
    /\ \E c \in Reading :
          PruneTag(t, c, Chosen(r, t), Reclaimable(t, c, Chosen(r, t)), {})
    /\ Advance(r, {k \in Key : TagOf[k] = t}, "seal")
    /\ UNCHANGED <<now, producer, lock, born, step, sel, restores, consumed>>

\* The generations go newest first: a prune that stops at g has deleted the newer ones.
PruneUntil(t, c, protected, g) ==
    PruneTag(t, c, protected, {d \in Reclaimable(t, c, protected) : Newer(d, g)}, {g})

\* A prepare that fails or is killed in the middle of its prune.
PruneCut(r, t) ==
    /\ pc[r] = "prune" /\ NextTag(r, t)
    /\ \E c \in Reading : \E g \in Reclaimable(t, c, Chosen(r, t)) :
          PruneUntil(t, c, Chosen(r, t), g)
    /\ Forget(r)
    /\ UNCHANGED <<now, lock, born, restores, consumed>>

\* The prune command: under both locks, without a selection of its own.  It may be cut
\* short too.
PruneCommand(t) ==
    /\ producer = NoOne
    /\ \E c \in Reading :
          \/ PruneTag(t, c, {}, Reclaimable(t, c, {}), {})
          \/ \E g \in Reclaimable(t, c, {}) : PruneUntil(t, c, {}, g)
    /\ UNCHANGED <<now, producer, lock, local>>

-----------------------------------------------------------------------------
(* Sealing, validation and hand-over.                                      *)

\* seal_lease, per tag: only for exactly the pinned references.
Seal(r, t) ==
    /\ pc[r] = "seal" /\ NextTag(r, t)
    /\ Free(t)
    /\ \E c \in Reading : c < Expires(r)
    /\ lease[t][r].refs = Chosen(r, t)
    /\ lease' = [lease EXCEPT ![t][r].sealed = TRUE]
    /\ Advance(r, {k \in Key : TagOf[k] = t}, "validate")
    /\ UNCHANGED <<now, producer, lock, state, stamp, ready, born, step, sel, restores, consumed>>

\* require_lease and verify_selection of one entry.
Usable(r, k) ==
    /\ \E c \in Reading : c < Expires(r)
    /\ lease[TagOf[k]][r].sealed
    /\ sel[r][k] \in lease[TagOf[k]][r].refs
    /\ state[sel[r][k]] = "good"

\* validate_selection_entries: before the selection is written, after it, and by
\* the job that restores it.  The second validation ends the prepare.
Validate(r, k, stage, next) ==
    /\ pc[r] = stage /\ NextKey(r, k)
    /\ Free(TagOf[k]) /\ Usable(r, k)
    /\ Advance(r, {k}, next)
    /\ producer' = IF pc'[r] = "selected" THEN NoOne ELSE producer
    /\ UNCHANGED <<now, lock, files, born, step, sel, restores, consumed>>

\* Mutant of Abort: the failing prepare keeps the lock of the tag it was in.
AbortKeepingTagLock(r) ==
    /\ pc[r] \in Preparing
    /\ Forget(r)
    /\ UNCHANGED <<now, lock, files, born, restores, consumed>>

\* An error, a cancellation or a kill: the locks are gone with the process or its
\* handles, every file stays, so does every pin.
Abort(r) ==
    /\ pc[r] \in Preparing
    /\ Forget(r)
    /\ lock' = [t \in Tag |-> IF lock[t] = r THEN NoOne ELSE lock[t]]
    /\ UNCHANGED <<now, files, born, restores, consumed>>

-----------------------------------------------------------------------------
(* Restore: another job, possibly on another runner, holding tag locks only. *)

\* restore_cache_selection, for the first time or again after a failure.
StartRestore(r) ==
    /\ pc[r] \in Waiting /\ restores[r] < MaxRestores
    /\ pc' = [pc EXCEPT ![r] = "verify"]
    /\ left' = [left EXCEPT ![r] = Plan[r]]
    /\ restores' = [restores EXCEPT ![r] = @ + 1]
    /\ UNCHANGED <<now, producer, lock, files, born, step, sel, consumed>>

\* Mutant of Restore: each tag's lease is released with its last entry.
RestoreReleasing(r, k) ==
    /\ pc[r] = "restore" /\ NextKey(r, k)
    /\ Free(TagOf[k]) /\ Usable(r, k)
    /\ lease' = IF {j \in left[r] : TagOf[j] = TagOf[k]} = {k}
                THEN [lease EXCEPT ![TagOf[k]][r] = NoLease] ELSE lease
    /\ Advance(r, {k}, "release")
    /\ consumed' = IF left[r] = {k} THEN consumed \union {r} ELSE consumed
    /\ UNCHANGED <<now, producer, lock, state, stamp, ready, born, step, sel, restores>>

\* One entry of restore_selection_entries.
Restore(r, k) ==
    /\ pc[r] = "restore" /\ NextKey(r, k)
    /\ Free(TagOf[k]) /\ Usable(r, k)
    /\ Advance(r, {k}, "release")
    /\ consumed' = IF left[r] = {k} THEN consumed \union {r} ELSE consumed
    /\ UNCHANGED <<now, producer, lock, files, born, step, sel, restores>>

\* release_lease, per tag, after the last entry.  A missing record is no error.
Release(r, t) ==
    /\ pc[r] = "release" /\ NextTag(r, t)
    /\ Free(t)
    /\ lease[t][r].refs # {} => lease[t][r].sealed
    /\ lease' = [lease EXCEPT ![t][r] = NoLease]
    /\ Advance(r, {k \in Key : TagOf[k] = t}, "restored")
    /\ UNCHANGED <<now, producer, lock, state, stamp, ready, born, step, sel, restores, consumed>>

\* The restore job fails or is killed; no pin is released on the way out.
Interrupt(r) ==
    /\ pc[r] \in Restoring
    /\ pc' = [pc EXCEPT ![r] = "interrupted"]
    /\ left' = [left EXCEPT ![r] = Plan[r]]
    /\ UNCHANGED <<now, producer, lock, files, born, step, sel, restores, consumed>>

Tick ==
    /\ now < MaxTime
    /\ now' = now + 1
    /\ UNCHANGED <<producer, lock, files, local>>

-----------------------------------------------------------------------------
PrepareStep(r) ==
    \/ Begin(r) \/ EndProbes(r) \/ EndPublish(r)
    \/ \E k \in Key : \/ Probe(r, k) \/ Miss(r, k) \/ Warm(r, k) \/ Publish(r, k)
                      \/ WriteReady(r, k) \/ Pin(r, k)
                      \/ Validate(r, k, "validate", "revalidate")
                      \/ Validate(r, k, "revalidate", "selected")
    \/ \E t \in Tag : Prune(r, t) \/ Seal(r, t)

RestoreStep(r) ==
    \/ \E k \in Key : Validate(r, k, "verify", "restore") \/ Restore(r, k)
    \/ \E t \in Tag : Release(r, t)

Next ==
    \/ \E r \in Run : PrepareStep(r) \/ RestoreStep(r) \/ StartRestore(r)
    \/ \E r \in Run : Abort(r) \/ Interrupt(r) \/ (\E t \in Tag : PruneCut(r, t))
    \/ \E t \in Tag : PruneCommand(t)
    \/ Tick

Spec == Init /\ [][Next]_vars

\* A check under the tag's lock ends the job with an error: the lease has expired,
\* or validation fails.
Refused(r) ==
    \/ /\ pc[r] \in {"probe", "publish"} /\ now >= Expires(r)
       /\ \E k \in Plan[r] : step[r][k] = "found"
    \/ /\ pc[r] = "seal" /\ now >= Expires(r)
       /\ \E t \in Tag : NextTag(r, t) /\ Free(t)
    \/ /\ pc[r] \in {"validate", "revalidate", "verify", "restore"}
       /\ \E k \in Key : NextKey(r, k) /\ Free(TagOf[k]) /\ ~Usable(r, k)

\* Time passes, a job goes on or ends with an error, and tags are pruned again and
\* again (here by the command; each further prepare of the tag does it too).
Fairness ==
    /\ WF_vars(Tick)
    /\ \A r \in Run : /\ WF_vars(PrepareStep(r)) /\ WF_vars(RestoreStep(r))
                      /\ WF_vars(Refused(r) /\ (Abort(r) \/ Interrupt(r)))
    /\ \A t \in Tag : WF_vars(PruneCommand(t))

FairSpec == Spec /\ Fairness

-----------------------------------------------------------------------------
(* Properties.                                                             *)

Stage == Preparing \union Restoring \union Waiting \union {"new", "failed", "restored"}

\* The variables have the types of the files and of the jobs' local data; a key that
\* was found has a generation of that key.
TypeOK ==
    /\ now \in 0..MaxTime
    /\ producer \in Run \union {NoOne}
    /\ lock \in [Tag -> Run \union {NoOne}]
    /\ state \in [Generation -> {"absent", "good", "damaged"}]
    /\ stamp \in [Generation -> Nat]
    /\ ready \in [Tag -> Generation \union {NoOne}]
    /\ lease \in [Tag -> [Run -> [refs: SUBSET Generation, sealed: BOOLEAN]]]
    /\ born \in [Run -> Nat]
    /\ pc \in [Run -> Stage]
    /\ step \in [Run -> [Key -> {"todo", "miss", "warm", "published", "found", "pinned"}]]
    /\ sel \in [Run -> [Key -> Generation \union {NoOne}]]
    /\ left \in [Run -> SUBSET Key]
    /\ restores \in [Run -> Nat]
    /\ consumed \subseteq Run
    /\ \A r \in Run, k \in Key :
          step[r][k] \in {"found", "pinned"} => sel[r][k] \in {k} \X Run

\* A published selection can be restored as long as it was not restored completely
\* and its lease has not expired, whoever published, pruned, crashed or restored in
\* between and however their clocks differ (docs/en/analysis.md: a partial failure
\* retains every pin).
SelectionRestorable ==
    Skew <= Allowance =>
        \A r \in Run :
            /\ pc[r] \in Waiting \union {"verify", "restore"}
            /\ r \notin consumed
            /\ now < Expires(r)
            => \A k \in Plan[r] : /\ lease[TagOf[k]][r].sealed
                                  /\ sel[r][k] \in lease[TagOf[k]][r].refs
                                  /\ state[sel[r][k]] = "good"

\* READY never names a generation that was deleted or half deleted, so that a hit
\* through the hint needs no fallback (prune_tag keeps READY's generation).
HintNeverDangles == \A t \in Tag : ready[t] # NoOne => state[ready[t]] = "good"

\* No job waits for ever: the locks are taken without a timeout, and yet every
\* prepare and every restore ends, whatever jobs fail while they hold them.
JobsEnd == \A r \in Run : pc[r] \in Preparing \union Restoring
                             ~> pc[r] \notin Preparing \union Restoring

\* The pins of a run that was aborted, or whose selection nobody restores, are
\* reclaimed (protected_generations removes an expired record).
PinsReclaimed ==
    \A r \in Run, t \in Tag : lease[t][r].refs # {} ~> lease[t][r].refs = {}

-----------------------------------------------------------------------------
(* What the cache promises to the runs: PinStore.                          *)

Readable == {g \in Generation : state[g] = "good"}
Pinned == [r \in Run |-> UNION {lease[t][r].refs : t \in Tag}]

HasSelection(r) == pc[r] \in Waiting \union Restoring \union {"restored"}
Given == [r \in Run |-> IF HasSelection(r) THEN {sel[r][k] : k \in Plan[r]} ELSE {}]

\* A run relies on its pins from the lease on, on its selection from the hand-over, both
\* up to the last copy of a restore or the end of the lease.
Phase == [r \in Run |-> IF pc[r] = "new" THEN "idle"
                        ELSE IF r \in consumed THEN "done"
                        ELSE IF now >= Expires(r) THEN "ended"
                        ELSE IF HasSelection(r) THEN "handed" ELSE "open"]

Store == INSTANCE PinStore WITH
             Item   <- Generation,
             Holder <- Run,
             Place  <- Tag,
             None   <- NoOne,
             good   <- Readable,
             hint   <- ready,
             pins   <- Pinned,
             chosen <- Given,
             phase  <- Phase

\* With clocks that differ by no more than the allowance, what a run has pinned is neither
\* unpinned nor collected before the run was restored completely or its lease has ended.
ImplementsPinStore == Store!Spec
=============================================================================
