--------------------------- MODULE IdbCacheProofs ---------------------------
(***************************************************************************)
(* Theorems about IdbCache for any number of keys, tags and runs, any      *)
(* plans and any durations.                                                *)
(***************************************************************************)
EXTENDS IdbCache, TLAPS

-----------------------------------------------------------------------------
(* Types.                                                                  *)

\* What Advance, Forget and PruneTag do to the types of what they write.
LEMMA AdvanceTypes ==
    ASSUME TypeOK, NEW r \in Run, NEW visited, NEW next \in Stage,
           Advance(r, visited, next)
    PROVE  /\ pc' \in [Run -> Stage]
           /\ left' \in [Run -> SUBSET Key]
<1>1. Plan[r] \in SUBSET Key
    BY KeyAssumption
<1>2. PICK rest \in SUBSET Key : left' = [left EXCEPT ![r] = rest]
    <2>1. left[r] \ visited \in SUBSET Key
        BY DEF TypeOK
    <2>2. \/ left' = [left EXCEPT ![r] = Plan[r]]
          \/ left' = [left EXCEPT ![r] = left[r] \ visited]
        <3>1. CASE left[r] \subseteq visited
            BY <3>1, Zenon DEF Advance
        <3>2. CASE ~(left[r] \subseteq visited)
            BY <3>2, Zenon DEF Advance
        <3> QED BY <3>1, <3>2
    <2> QED BY <1>1, <2>1, <2>2
<1>3. pc' = [pc EXCEPT ![r] = next] \/ pc' = pc
    BY DEF Advance
<1>4. pc \in [Run -> Stage] /\ left \in [Run -> SUBSET Key]
    BY DEF TypeOK
<1>5. pc' \in [Run -> Stage]
    BY <1>3, <1>4
<1>6. left' \in [Run -> SUBSET Key]
    BY <1>2, <1>4
<1> QED BY <1>5, <1>6

LEMMA ForgetTypes ==
    ASSUME TypeOK, NEW r \in Run, Forget(r)
    PROVE  /\ producer' \in Run \union {NoOne}
           /\ pc' \in [Run -> Stage]
           /\ step' \in [Run -> [Key -> {"todo", "miss", "warm", "published", "found", "pinned"}]]
           /\ sel' \in [Run -> [Key -> Generation \union {NoOne}]]
           /\ left' \in [Run -> SUBSET Key]
           /\ \A s \in Run, k \in Key :
                 step'[s][k] \in {"found", "pinned"} => sel'[s][k] \in {k} \X Run
<1> DEFINE Todo == [k \in Key |-> "todo"]
           None == [k \in Key |-> NoOne]
<1>1. /\ Todo \in [Key -> {"todo", "miss", "warm", "published", "found", "pinned"}]
      /\ None \in [Key -> Generation \union {NoOne}]
    OBVIOUS
<1>2. /\ step' = [step EXCEPT ![r] = Todo]
      /\ sel' = [sel EXCEPT ![r] = None]
      /\ left' = [left EXCEPT ![r] = {}]
      /\ producer' = NoOne
      /\ pc' = [pc EXCEPT ![r] = "failed"]
    BY DEF Forget
<1>3. \A k \in Key : Todo[k] = "todo"
    OBVIOUS
<1> HIDE DEF Todo, None
<1> QED BY <1>1, <1>2, <1>3 DEF TypeOK, Stage

LEMMA PruneTypes ==
    ASSUME TypeOK, NEW t \in Tag, NEW c, NEW protected, NEW deleted, NEW torn,
           PruneTag(t, c, protected, deleted, torn)
    PROVE  /\ lease' \in [Tag -> [Run -> [refs: SUBSET Generation, sealed: BOOLEAN]]]
           /\ state' \in [Generation -> {"absent", "good", "damaged"}]
           /\ stamp' \in [Generation -> Nat]
           /\ ready' \in [Tag -> Generation \union {NoOne}]
<1> DEFINE Kept == [r \in Run |-> IF r \in Lapsed(t, c) THEN NoLease ELSE lease[t][r]]
<1>1. NoLease \in [refs: SUBSET Generation, sealed: BOOLEAN]
    BY DEF NoLease
<1>2. Kept \in [Run -> [refs: SUBSET Generation, sealed: BOOLEAN]]
    BY <1>1 DEF TypeOK
<1>3. lease' = [lease EXCEPT ![t] = Kept]
    BY DEF PruneTag, TypeOK
<1> HIDE DEF Kept
<1>4. lease' \in [Tag -> [Run -> [refs: SUBSET Generation, sealed: BOOLEAN]]]
    BY <1>2, <1>3 DEF TypeOK
<1> QED BY <1>4 DEF PruneTag, TypeOK

LEMMA InitTypes == Init => TypeOK
<1> SUFFICES ASSUME Init PROVE TypeOK
    OBVIOUS
<1>1. NoLease \in [refs: SUBSET Generation, sealed: BOOLEAN]
    BY DEF NoLease
<1> QED BY <1>1, TimeAssumption DEF Init, TypeOK, Stage

\* Every action keeps the types.
LEMMA StepTypes == TypeOK /\ [Next]_vars => TypeOK'
<1> SUFFICES ASSUME TypeOK, [Next]_vars PROVE TypeOK'
    OBVIOUS
<1> USE KeyAssumption, TimeAssumption
<1>1. ASSUME NEW r \in Run, Begin(r) PROVE TypeOK'
    <2>1. Reading \subseteq Nat
        BY DEF Reading, TypeOK
    <2> QED BY <1>1, <2>1 DEF Begin, TypeOK, files, Stage, Preparing
<1>2. ASSUME NEW r \in Run, EndProbes(r) \/ EndPublish(r) \/ StartRestore(r) \/ Interrupt(r)
      PROVE TypeOK'
    <2>1. /\ pc' \in [Run -> Stage] /\ left' \in [Run -> SUBSET Key]
          /\ restores' \in [Run -> Nat]
        <3>1. Plan[r] \in SUBSET Key /\ {"publish", "prune", "verify", "interrupted"} \subseteq Stage
            BY DEF Stage, Preparing, Restoring, Waiting
        <3>2. CASE EndProbes(r)
            BY <3>1, <3>2 DEF EndProbes, TypeOK
        <3>3. CASE EndPublish(r)
            BY <3>1, <3>3 DEF EndPublish, TypeOK
        <3>4. CASE StartRestore(r)
            BY <3>1, <3>4 DEF StartRestore, TypeOK
        <3>5. CASE Interrupt(r)
            BY <3>1, <3>5 DEF Interrupt, TypeOK
        <3> QED BY <1>2, <3>2, <3>3, <3>4, <3>5
    <2>2. UNCHANGED <<now, producer, lock, files, born, step, sel, consumed>>
        BY <1>2 DEF EndProbes, EndPublish, StartRestore, Interrupt
    <2> QED BY <2>1, <2>2 DEF TypeOK, files
<1>3. ASSUME NEW r \in Run, NEW k \in Key, Probe(r, k) PROVE TypeOK'
    <2>1. PICK g \in Found(k) : /\ ready' = [ready EXCEPT ![TagOf[k]] = g]
                                /\ sel' = [sel EXCEPT ![r][k] = g]
        BY <1>3 DEF Probe
    <2>2. g \in Generation /\ g \in {k} \X Run
        BY DEF Found, GoodOf, Generation
    <2>3. ready' \in [Tag -> Generation \union {NoOne}] /\ sel' \in [Run -> [Key -> Generation \union {NoOne}]]
        BY <2>1, <2>2 DEF TypeOK
    <2>4. step' = [step EXCEPT ![r][k] = "found"]
        BY <1>3 DEF Probe
    <2>5. \A s \in Run, j \in Key :
             step'[s][j] \in {"found", "pinned"} => sel'[s][j] \in {j} \X Run
        BY <2>1, <2>2, <2>4 DEF TypeOK
    <2> QED BY <1>3, <2>3, <2>5 DEF Probe, Take, TypeOK, Stage
<1>4. ASSUME NEW r \in Run, NEW k \in Key, Miss(r, k) \/ Warm(r, k) PROVE TypeOK'
    <2>1. PICK v \in {"miss", "warm"} : step' = [step EXCEPT ![r][k] = v]
        BY <1>4 DEF Miss, Warm
    <2>2. UNCHANGED <<now, producer, lock, files, born, pc, sel, left, restores, consumed>>
        BY <1>4 DEF Miss, Warm
    <2>3. /\ step' \in [Run -> [Key -> {"todo", "miss", "warm", "published", "found", "pinned"}]]
          /\ \A s \in Run, j \in Key :
                step'[s][j] \in {"found", "pinned"} => sel[s][j] \in {j} \X Run
        BY <2>1 DEF TypeOK
    <2> QED BY <2>2, <2>3 DEF TypeOK, files
<1>5. ASSUME NEW r \in Run, NEW k \in Key, Publish(r, k) PROVE TypeOK'
    <2>1. <<k, r>> \in Generation /\ Reading \subseteq Nat
        BY DEF Generation, Reading, TypeOK
    <2>2. step' = [step EXCEPT ![r][k] = "published"]
        BY <1>5 DEF Publish
    <2>3. /\ step' \in [Run -> [Key -> {"todo", "miss", "warm", "published", "found", "pinned"}]]
          /\ \A s \in Run, j \in Key :
                step'[s][j] \in {"found", "pinned"} => sel[s][j] \in {j} \X Run
        BY <2>2 DEF TypeOK
    <2>4. state' \in [Generation -> {"absent", "good", "damaged"}] /\ stamp' \in [Generation -> Nat]
        BY <1>5, <2>1 DEF Publish, TypeOK
    <2> QED BY <1>5, <2>3, <2>4 DEF Publish, Take, TypeOK
<1>6. ASSUME NEW r \in Run, NEW k \in Key, WriteReady(r, k) PROVE TypeOK'
    <2>1. <<k, r>> \in Generation /\ <<k, r>> \in {k} \X Run
        BY DEF Generation
    <2>2. step' = [step EXCEPT ![r][k] = "found"] /\ sel' = [sel EXCEPT ![r][k] = <<k, r>>]
        BY <1>6 DEF WriteReady
    <2>3. \A s \in Run, j \in Key :
             step'[s][j] \in {"found", "pinned"} => sel'[s][j] \in {j} \X Run
        BY <2>1, <2>2 DEF TypeOK
    <2> QED BY <1>6, <2>1, <2>3 DEF WriteReady, TypeOK
<1>7. ASSUME NEW r \in Run, NEW k \in Key, Pin(r, k) PROVE TypeOK'
    <2>1. sel[r][k] \in Generation
        BY <1>7 DEF Pin, TypeOK, Generation
    <2> DEFINE record == lease[TagOf[k]][r]
    <2>2. record \in [refs: SUBSET Generation, sealed: BOOLEAN]
        BY DEF TypeOK
    <2>3. [record EXCEPT !.refs = @ \union {sel[r][k]}] \in [refs: SUBSET Generation, sealed: BOOLEAN]
        BY <2>1, <2>2
    <2>4. lease' = [lease EXCEPT ![TagOf[k]][r] = [record EXCEPT !.refs = @ \union {sel[r][k]}]]
        BY <1>7 DEF Pin, TypeOK
    <2> HIDE DEF record
    <2>5. lease' \in [Tag -> [Run -> [refs: SUBSET Generation, sealed: BOOLEAN]]]
        BY <2>3, <2>4 DEF TypeOK
    <2>6. step' = [step EXCEPT ![r][k] = "pinned"] /\ step[r][k] = "found"
        BY <1>7 DEF Pin
    <2>7. /\ step' \in [Run -> [Key -> {"todo", "miss", "warm", "published", "found", "pinned"}]]
          /\ \A s \in Run, j \in Key :
                step'[s][j] \in {"found", "pinned"} => sel[s][j] \in {j} \X Run
        BY <2>6 DEF TypeOK
    <2> QED BY <1>7, <2>5, <2>7 DEF Pin, Drop, TypeOK
<1>8. ASSUME NEW r \in Run, NEW t \in Tag, Prune(r, t) PROVE TypeOK'
    <2>1. PICK c \in Reading :
             PruneTag(t, c, Chosen(r, t), Reclaimable(t, c, Chosen(r, t)), {})
        BY <1>8 DEF Prune
    <2>2. "seal" \in Stage /\ Advance(r, {k \in Key : TagOf[k] = t}, "seal")
        BY <1>8 DEF Prune, Stage, Preparing
    <2> QED BY <1>8, <2>1, <2>2, PruneTypes, AdvanceTypes DEF Prune, TypeOK
<1>9. ASSUME NEW r \in Run, NEW t \in Tag, PruneCut(r, t) PROVE TypeOK'
    <2>1. PICK c, deleted, torn : c \in Reading /\ PruneTag(t, c, Chosen(r, t), deleted, torn)
        BY <1>9 DEF PruneCut, PruneUntil
    <2> QED BY <1>9, <2>1, PruneTypes, ForgetTypes DEF PruneCut, TypeOK
<1>10. ASSUME NEW t \in Tag, PruneCommand(t) PROVE TypeOK'
    <2>1. PICK c, deleted, torn : c \in Reading /\ PruneTag(t, c, {}, deleted, torn)
        BY <1>10 DEF PruneCommand, PruneUntil
    <2> QED BY <1>10, <2>1, PruneTypes DEF PruneCommand, TypeOK, local
<1>11. ASSUME NEW r \in Run, NEW t \in Tag, Seal(r, t) PROVE TypeOK'
    <2>1. "validate" \in Stage /\ Advance(r, {k \in Key : TagOf[k] = t}, "validate")
        BY <1>11 DEF Seal, Stage, Preparing
    <2> DEFINE record == lease[t][r]
    <2>2. record \in [refs: SUBSET Generation, sealed: BOOLEAN]
        <3>1. lease \in [Tag -> [Run -> [refs: SUBSET Generation, sealed: BOOLEAN]]]
            BY Zenon DEF TypeOK
        <3> QED BY <3>1, Zenon
    <2> DEFINE new == [record EXCEPT !.sealed = TRUE]
    <2>3. new \in [refs: SUBSET Generation, sealed: BOOLEAN]
        <3> HIDE DEF record
        <3>1. \A x \in [refs: SUBSET Generation, sealed: BOOLEAN] :
                 [x EXCEPT !.sealed = TRUE] \in [refs: SUBSET Generation, sealed: BOOLEAN]
            BY Zenon
        <3> QED BY <2>2, <3>1, Zenon
    <2>4. lease' = [lease EXCEPT ![t][r] = [record EXCEPT !.sealed = TRUE]]
        BY <1>11, Zenon DEF Seal
    <2> HIDE DEF record
    <2>5. lease' \in [Tag -> [Run -> [refs: SUBSET Generation, sealed: BOOLEAN]]]
        BY <2>3, <2>4 DEF TypeOK
    <2> QED BY <1>11, <2>1, <2>5, AdvanceTypes DEF Seal, TypeOK
<1>12. ASSUME NEW r \in Run, NEW k \in Key, NEW stage, NEW next \in Stage,
              Validate(r, k, stage, next)
       PROVE TypeOK'
    BY <1>12, AdvanceTypes DEF Validate, TypeOK, files
<1>13. ASSUME NEW r \in Run, Abort(r) PROVE TypeOK'
    BY <1>13, ForgetTypes DEF Abort, TypeOK, files
<1>14. ASSUME NEW r \in Run, NEW k \in Key, Restore(r, k) PROVE TypeOK'
    <2>1. "release" \in Stage /\ Advance(r, {k}, "release")
        BY <1>14 DEF Restore, Stage, Restoring
    <2> QED BY <1>14, <2>1, AdvanceTypes DEF Restore, TypeOK, files
<1>15. ASSUME NEW r \in Run, NEW t \in Tag, Release(r, t) PROVE TypeOK'
    <2>1. "restored" \in Stage /\ Advance(r, {k \in Key : TagOf[k] = t}, "restored")
        BY <1>15 DEF Release, Stage
    <2>2. NoLease \in [refs: SUBSET Generation, sealed: BOOLEAN]
        BY DEF NoLease
    <2> QED BY <1>15, <2>1, <2>2, AdvanceTypes DEF Release, TypeOK
<1>16. ASSUME Tick PROVE TypeOK'
    BY <1>16 DEF Tick, TypeOK, files, local
<1>17. ASSUME UNCHANGED vars PROVE TypeOK'
    BY <1>17 DEF vars, TypeOK
<1>18. {"revalidate", "selected", "restore"} \subseteq Stage
    BY DEF Stage, Preparing, Waiting, Restoring
<1> QED BY <1>1, <1>2, <1>3, <1>4, <1>5, <1>6, <1>7, <1>8, <1>9, <1>10, <1>11, <1>12,
           <1>13, <1>14, <1>15, <1>16, <1>17, <1>18 DEF Next, PrepareStep, RestoreStep

\* The files and the jobs' local data keep their types for any constants.
THEOREM CacheTypeCorrect == Spec => []TypeOK
BY InitTypes, StepTypes, PTL DEF Spec

-----------------------------------------------------------------------------
(* The files: what a lease, READY or a lock section refers to is good.     *)

RefsGood ==
    \A t \in Tag, r \in Run : \A g \in lease[t][r].refs :
        state[g] = "good" /\ TagOf[g[1]] = t

ReadyGood ==
    \A t \in Tag : ready[t] # NoOne =>
        state[ready[t]] = "good" /\ TagOf[ready[t][1]] = t

\* Between a probe or a publication and the pin the tag is locked and the
\* generation is good.
Secured(r, k) ==
    /\ step[r][k] = "published" => state[<<k, r>>] = "good" /\ lock[TagOf[k]] = r
    /\ step[r][k] = "found" => state[sel[r][k]] = "good" /\ lock[TagOf[k]] = r

FoundGood == \A r \in Run, k \in Key : Secured(r, k)

\* A run has at most one key of a tag in a lock section.
InSection(r, k) == step[r][k] \in {"published", "found"}
OneSection ==
    \A r \in Run, j, k \in Key :
        InSection(r, j) /\ InSection(r, k) /\ TagOf[j] = TagOf[k] => j = k

FilesInv == TypeOK /\ RefsGood /\ ReadyGood /\ FoundGood /\ OneSection

\* A prune spares what is in another tag, what READY names and what a lease that it
\* leaves behind refers to.
LEMMA PruneSpares ==
    ASSUME FilesInv, NEW t \in Tag, NEW c, NEW protected, NEW deleted, NEW torn,
           PruneTag(t, c, protected, deleted, torn)
    PROVE  /\ \A g \in Generation : TagOf[g[1]] # t => state'[g] = state[g]
           /\ ready[t] # NoOne => state'[ready[t]] = state[ready[t]]
           /\ \A u \in Tag, r \in Run :
                 \/ u # t /\ lease'[u][r] = lease[u][r]
                 \/ u = t /\ r \in Lapsed(t, c) /\ lease'[u][r] = NoLease
                 \/ u = t /\ r \notin Lapsed(t, c) /\ lease'[u][r] = lease[u][r]
           /\ \A u \in Tag, r \in Run : lease'[u][r].refs \subseteq lease[u][r].refs
           /\ \A u \in Tag, r \in Run : \A g \in lease'[u][r].refs : state'[g] = state[g]
<1>1. deleted \union torn \subseteq
        InTag(t) \ (Leased(t, c) \union {ready[t]})
    BY DEF PruneTag, Reclaimable
<1>2. state' = [g \in Generation |-> IF g \in deleted THEN "absent"
                                     ELSE IF g \in torn THEN "damaged" ELSE state[g]]
    BY DEF PruneTag
<1>3. \A g \in Generation : g \notin deleted \union torn => state'[g] = state[g]
    BY <1>2
<1>4. \A g \in Generation : TagOf[g[1]] # t => state'[g] = state[g]
    BY <1>1, <1>3 DEF InTag
<1>5. ready[t] # NoOne => state'[ready[t]] = state[ready[t]]
    BY <1>1, <1>3 DEF FilesInv, TypeOK
<1>6. \A u \in Tag, r \in Run :
         \/ u # t /\ lease'[u][r] = lease[u][r]
         \/ u = t /\ r \in Lapsed(t, c) /\ lease'[u][r] = NoLease
         \/ u = t /\ r \notin Lapsed(t, c) /\ lease'[u][r] = lease[u][r]
    BY DEF PruneTag, FilesInv, TypeOK
<1>7. \A u \in Tag, r \in Run : lease'[u][r].refs \subseteq lease[u][r].refs
    BY <1>6 DEF NoLease
<1>8. ASSUME NEW u \in Tag, NEW r \in Run, NEW g \in lease'[u][r].refs
      PROVE  state'[g] = state[g]
    <2>1. g \in lease[u][r].refs /\ g \in Generation /\ TagOf[g[1]] = u
        BY <1>7, <1>8 DEF FilesInv, RefsGood, TypeOK
    <2>2. CASE u # t
        BY <1>4, <2>1, <2>2
    <2>3. CASE u = t
        <3>1. r \notin Lapsed(t, c)
            BY <1>6, <1>8, <2>3 DEF NoLease
        <3>2. g \in Leased(t, c)
            BY <2>1, <2>3, <3>1 DEF Leased
        <3> QED BY <1>1, <1>3, <2>1, <3>2
    <2> QED BY <2>2, <2>3
<1> QED BY <1>4, <1>5, <1>6, <1>7, <1>8

\* A prune keeps leases and READY good; it runs while the tag is not locked.
LEMMA PruneKeepsFiles ==
    ASSUME FilesInv, NEW t \in Tag, NEW c, NEW protected, NEW deleted, NEW torn,
           PruneTag(t, c, protected, deleted, torn)
    PROVE  /\ RefsGood' /\ ReadyGood'
           /\ \A r \in Run, k \in Key : lock[TagOf[k]] = r =>
                 /\ state'[<<k, r>>] = state[<<k, r>>]
                 /\ step[r][k] = "found" => state'[sel[r][k]] = state[sel[r][k]]
<1>1. RefsGood'
    BY PruneSpares DEF FilesInv, RefsGood
<1>2. ReadyGood'
    <2> SUFFICES ASSUME NEW u \in Tag, ready'[u] # NoOne
                 PROVE  state'[ready[u]] = "good" /\ TagOf[ready[u][1]] = u /\ ready' = ready
        BY DEF ReadyGood
    <2>1. ready' = ready
        BY DEF PruneTag
    <2>2. ready[u] \in Generation /\ state[ready[u]] = "good" /\ TagOf[ready[u][1]] = u
        BY <2>1 DEF FilesInv, ReadyGood, TypeOK
    <2> QED BY <2>1, <2>2, PruneSpares
<1>3. ASSUME NEW r \in Run, NEW k \in Key, lock[TagOf[k]] = r
      PROVE  /\ state'[<<k, r>>] = state[<<k, r>>]
             /\ step[r][k] = "found" => state'[sel[r][k]] = state[sel[r][k]]
    <2>1. TagOf[k] # t
        BY <1>3, KeyAssumption DEF PruneTag, Free
    <2>2. <<k, r>> \in Generation /\ <<k, r>>[1] = k
        BY DEF Generation
    <2>3. step[r][k] = "found" => sel[r][k] \in Generation /\ sel[r][k][1] = k
        BY DEF FilesInv, TypeOK, Generation
    <2> QED BY <2>1, <2>2, <2>3, PruneSpares
<1> QED BY <1>1, <1>2, <1>3

\* A key keeps its security through a step that is not about it.
LEMMA StaysSecured ==
    ASSUME FilesInv, NEW r \in Run, NEW k \in Key,
           step'[r][k] = step[r][k] \/ step'[r][k] \notin {"published", "found"},
           sel'[r][k] = sel[r][k],
           lock[TagOf[k]] = r => lock'[TagOf[k]] = r,
           lock[TagOf[k]] = r /\ state[<<k, r>>] = "good" => state'[<<k, r>>] = "good",
           lock[TagOf[k]] = r /\ step[r][k] = "found" /\ state[sel[r][k]] = "good"
              => state'[sel[r][k]] = "good"
    PROVE  Secured(r, k)'
BY DEF FilesInv, FoundGood, Secured

LEMMA SectionsEnd ==
    ASSUME FilesInv, \A r \in Run, k \in Key : InSection(r, k)' => InSection(r, k)
    PROVE  OneSection'
BY DEF FilesInv, OneSection

LEMMA InitFiles == Init => FilesInv
<1> SUFFICES ASSUME Init PROVE FilesInv
    OBVIOUS
<1>1. TypeOK
    BY InitTypes
<1>2. RefsGood /\ ReadyGood /\ FoundGood /\ OneSection
    BY DEF Init, RefsGood, ReadyGood, FoundGood, Secured, NoLease, OneSection, InSection
<1> QED BY <1>1, <1>2 DEF FilesInv

\* Every action keeps the files in order.
LEMMA StepFiles == FilesInv /\ [Next]_vars => FilesInv'
<1> SUFFICES ASSUME FilesInv, [Next]_vars PROVE FilesInv'
    OBVIOUS
<1> USE KeyAssumption
<1>0. TypeOK /\ TypeOK'
    BY StepTypes DEF FilesInv
<1>1. ASSUME UNCHANGED <<files, lock, step, sel>> PROVE FilesInv'
    <2>1. RefsGood' /\ ReadyGood'
        BY <1>1 DEF files, FilesInv, RefsGood, ReadyGood
    <2>2. ASSUME NEW r \in Run, NEW k \in Key PROVE Secured(r, k)'
        BY <1>1, StaysSecured DEF files
    <2>3. OneSection'
        BY <1>1, SectionsEnd DEF InSection
    <2> QED BY <1>0, <2>1, <2>2, <2>3 DEF FilesInv, FoundGood
<1>2. ASSUME NEW r \in Run,
             Begin(r) \/ EndProbes(r) \/ EndPublish(r) \/ StartRestore(r) \/ Interrupt(r)
      PROVE  FilesInv'
    <2>1. UNCHANGED <<files, lock, step, sel>>
        BY <1>2 DEF Begin, EndProbes, EndPublish, StartRestore, Interrupt
    <2> QED BY <1>1, <2>1
<1>3. ASSUME NEW r \in Run, NEW k \in Key, NEW stage, NEW next,
             Validate(r, k, stage, next) \/ Restore(r, k)
      PROVE  FilesInv'
    <2>1. UNCHANGED <<files, lock, step, sel>>
        BY <1>3 DEF Validate, Restore
    <2> QED BY <1>1, <2>1
<1>4. ASSUME Tick \/ UNCHANGED vars PROVE FilesInv'
    <2>1. UNCHANGED <<files, lock, step, sel>>
        BY <1>4 DEF Tick, vars, local, files
    <2> QED BY <1>1, <2>1
<1>5. ASSUME NEW r \in Run, NEW k \in Key, Miss(r, k) \/ Warm(r, k) PROVE FilesInv'
    <2>1. PICK v \in {"miss", "warm"} : step' = [step EXCEPT ![r][k] = v]
        BY <1>5 DEF Miss, Warm
    <2>2. UNCHANGED <<files, lock, sel>>
        BY <1>5 DEF Miss, Warm
    <2>3. ASSUME NEW q \in Run, NEW j \in Key PROVE Secured(q, j)'
        <3>1. step'[q][j] = step[q][j] \/ step'[q][j] \notin {"published", "found"}
            BY <1>0, <2>1 DEF TypeOK
        <3> QED BY <2>2, <3>1, StaysSecured DEF files
    <2>4. RefsGood' /\ ReadyGood'
        BY <2>2 DEF FilesInv, RefsGood, ReadyGood, files
    <2>5. OneSection'
        <3>1. \A q \in Run, j \in Key : InSection(q, j)' => InSection(q, j)
            BY <1>0, <2>1 DEF TypeOK, InSection
        <3> QED BY <3>1, SectionsEnd
    <2> QED BY <1>0, <2>3, <2>4, <2>5 DEF FilesInv, FoundGood
<1>6. ASSUME NEW r \in Run, NEW k \in Key, Probe(r, k) PROVE FilesInv'
    <2>1. PICK g \in Found(k) : /\ ready' = [ready EXCEPT ![TagOf[k]] = g]
                                /\ sel' = [sel EXCEPT ![r][k] = g]
        BY <1>6 DEF Probe
    <2>2. g \in Generation /\ g[1] = k /\ state[g] = "good"
        BY DEF Found, GoodOf
    <2>3. /\ step' = [step EXCEPT ![r][k] = "found"]
          /\ lock[TagOf[k]] = NoOne /\ lock' = [lock EXCEPT ![TagOf[k]] = r]
          /\ UNCHANGED <<state, lease>>
        BY <1>6 DEF Probe, Take, Free
    <2>4. ReadyGood'
        BY <1>0, <2>1, <2>2, <2>3 DEF FilesInv, ReadyGood, TypeOK
    <2>5. ASSUME NEW q \in Run, NEW j \in Key PROVE Secured(q, j)'
        <3>1. CASE q = r /\ j = k
            BY <1>0, <2>1, <2>2, <2>3, <3>1 DEF Secured, TypeOK
        <3>2. CASE ~(q = r /\ j = k)
            <4>1. step'[q][j] = step[q][j] /\ sel'[q][j] = sel[q][j]
                BY <1>0, <2>1, <2>3, <3>2 DEF TypeOK
            <4>2. lock[TagOf[j]] = q => lock'[TagOf[j]] = q
                BY <1>0, <2>3 DEF TypeOK
            <4> QED BY <2>3, <4>1, <4>2, StaysSecured
        <3> QED BY <3>1, <3>2
    <2>6. RefsGood'
        BY <2>3 DEF FilesInv, RefsGood
    <2>7. OneSection'
        <3>1. \A j \in Key : InSection(r, j) => TagOf[j] # TagOf[k]
            <4>1. \A j \in Key : InSection(r, j) => lock[TagOf[j]] = r
                BY DEF FilesInv, FoundGood, Secured, InSection
            <4>2. lock[TagOf[k]] # r
                BY <2>3
            <4> QED BY <4>1, <4>2
        <3>2. \A q \in Run, j \in Key : ~(q = r /\ j = k) => (InSection(q, j)' <=> InSection(q, j))
            BY <1>0, <2>3 DEF TypeOK, InSection
        <3> QED BY <3>1, <3>2 DEF FilesInv, OneSection
    <2> QED BY <1>0, <2>4, <2>5, <2>6, <2>7 DEF FilesInv, FoundGood
<1>7. ASSUME NEW r \in Run, NEW k \in Key, Publish(r, k) PROVE FilesInv'
    <2>1. <<k, r>> \in Generation
        BY DEF Generation
    <2>2. /\ step' = [step EXCEPT ![r][k] = "published"]
          /\ lock[TagOf[k]] = NoOne /\ lock' = [lock EXCEPT ![TagOf[k]] = r]
          /\ state' = [state EXCEPT ![<<k, r>>] = "good"]
          /\ UNCHANGED <<lease, ready, sel>>
        BY <1>7 DEF Publish, Take, Free
    <2>3. \A g \in Generation : state[g] = "good" => state'[g] = "good"
        BY <1>0, <2>1, <2>2 DEF TypeOK
    <2>4. ASSUME NEW q \in Run, NEW j \in Key PROVE Secured(q, j)'
        <3>1. <<j, q>> \in Generation
            BY DEF Generation
        <3>2. CASE q = r /\ j = k
            <4>1. step'[q][j] = "published" /\ lock'[TagOf[j]] = q /\ state'[<<j, q>>] = "good"
                BY <1>0, <2>1, <2>2, <3>2 DEF TypeOK
            <4> QED BY <4>1 DEF Secured
        <3>3. CASE ~(q = r /\ j = k)
            <4>1. step'[q][j] = step[q][j] /\ sel'[q][j] = sel[q][j]
                BY <1>0, <2>2, <3>3 DEF TypeOK
            <4>2. lock[TagOf[j]] = q => lock'[TagOf[j]] = q
                BY <1>0, <2>2 DEF TypeOK
            <4>3. step[q][j] = "found" => sel[q][j] \in Generation
                BY <1>0 DEF TypeOK, Generation
            <4> QED BY <2>3, <3>1, <4>1, <4>2, <4>3, StaysSecured
        <3> QED BY <3>2, <3>3
    <2>5. RefsGood' /\ ReadyGood'
        BY <1>0, <2>2, <2>3 DEF FilesInv, RefsGood, ReadyGood, TypeOK
    <2>7. OneSection'
        <3>1. \A j \in Key : InSection(r, j) => TagOf[j] # TagOf[k]
            <4>1. \A j \in Key : InSection(r, j) => lock[TagOf[j]] = r
                BY DEF FilesInv, FoundGood, Secured, InSection
            <4>2. lock[TagOf[k]] # r
                BY <2>2
            <4> QED BY <4>1, <4>2
        <3>2. \A q \in Run, j \in Key : ~(q = r /\ j = k) => (InSection(q, j)' <=> InSection(q, j))
            BY <1>0, <2>2 DEF TypeOK, InSection
        <3> QED BY <3>1, <3>2 DEF FilesInv, OneSection
    <2> QED BY <1>0, <2>4, <2>5, <2>7 DEF FilesInv, FoundGood
<1>8. ASSUME NEW r \in Run, NEW k \in Key, WriteReady(r, k) PROVE FilesInv'
    <2>1. /\ step[r][k] = "published" /\ step' = [step EXCEPT ![r][k] = "found"]
          /\ ready' = [ready EXCEPT ![TagOf[k]] = <<k, r>>]
          /\ sel' = [sel EXCEPT ![r][k] = <<k, r>>]
          /\ UNCHANGED <<lock, state, lease>>
        BY <1>8 DEF WriteReady
    <2>2. state[<<k, r>>] = "good" /\ lock[TagOf[k]] = r /\ <<k, r>>[1] = k
        BY <2>1 DEF FilesInv, FoundGood, Secured
    <2>3. ReadyGood'
        BY <1>0, <2>1, <2>2 DEF FilesInv, ReadyGood, TypeOK
    <2>4. ASSUME NEW q \in Run, NEW j \in Key PROVE Secured(q, j)'
        <3>1. CASE q = r /\ j = k
            <4>1. step'[q][j] = "found" /\ sel'[q][j] = <<k, r>>
                BY <1>0, <2>1, <3>1 DEF TypeOK
            <4> QED BY <2>1, <2>2, <3>1, <4>1 DEF Secured
        <3>2. CASE ~(q = r /\ j = k)
            <4>1. step'[q][j] = step[q][j] /\ sel'[q][j] = sel[q][j]
                BY <1>0, <2>1, <3>2 DEF TypeOK
            <4> QED BY <2>1, <4>1, StaysSecured
        <3> QED BY <3>1, <3>2
    <2>5. RefsGood'
        BY <2>1 DEF FilesInv, RefsGood
    <2>6. OneSection'
        <3>1. \A q \in Run, j \in Key : InSection(q, j)' => InSection(q, j)
            BY <1>0, <2>1 DEF TypeOK, InSection
        <3> QED BY <3>1, SectionsEnd
    <2> QED BY <1>0, <2>3, <2>4, <2>5, <2>6 DEF FilesInv, FoundGood
<1>9. ASSUME NEW r \in Run, NEW k \in Key, Pin(r, k) PROVE FilesInv'
    <2>1. /\ step[r][k] = "found" /\ step' = [step EXCEPT ![r][k] = "pinned"]
          /\ lock[TagOf[k]] = r /\ lock' = [lock EXCEPT ![TagOf[k]] = NoOne]
          /\ lease' = [lease EXCEPT ![TagOf[k]][r].refs = @ \union {sel[r][k]}]
          /\ UNCHANGED <<state, ready, sel>>
        BY <1>9 DEF Pin, Drop
    <2>2. state[sel[r][k]] = "good" /\ sel[r][k][1] = k
        <3>1. state[sel[r][k]] = "good"
            BY <2>1 DEF FilesInv, FoundGood, Secured
        <3>2. sel[r][k] \in {k} \X Run
            BY <1>0, <2>1 DEF TypeOK
        <3> QED BY <3>1, <3>2
    <2>3. RefsGood'
        BY <1>0, <2>1, <2>2 DEF FilesInv, RefsGood, TypeOK
    <2>4. ASSUME NEW q \in Run, NEW j \in Key PROVE Secured(q, j)'
        <3>1. CASE q = r /\ j = k
            <4>1. step'[q][j] = "pinned"
                BY <1>0, <2>1, <3>1 DEF TypeOK
            <4> QED BY <4>1 DEF Secured
        <3>2. CASE ~(q = r /\ j = k)
            <4>1. step'[q][j] = step[q][j]
                BY <1>0, <2>1, <3>2 DEF TypeOK
            <4>2. CASE q = r /\ TagOf[j] = TagOf[k]
                <5>1. ~InSection(q, j)
                    BY <2>1, <3>2, <4>2 DEF FilesInv, OneSection, InSection
                <5> QED BY <4>1, <5>1 DEF InSection, Secured
            <4>3. CASE ~(q = r /\ TagOf[j] = TagOf[k])
                <5>1. lock[TagOf[j]] = q => lock'[TagOf[j]] = q
                    BY <1>0, <2>1, <4>3 DEF TypeOK
                <5> QED BY <2>1, <4>1, <5>1, StaysSecured
            <4> QED BY <4>2, <4>3
        <3> QED BY <3>1, <3>2
    <2>5. ReadyGood'
        BY <2>1 DEF FilesInv, ReadyGood
    <2>6. OneSection'
        <3>1. \A q \in Run, j \in Key : InSection(q, j)' => InSection(q, j)
            BY <1>0, <2>1 DEF TypeOK, InSection
        <3> QED BY <3>1, SectionsEnd
    <2> QED BY <1>0, <2>3, <2>4, <2>5, <2>6 DEF FilesInv, FoundGood
<1>10. ASSUME NEW t \in Tag, NEW c, NEW protected, NEW deleted, NEW torn,
              PruneTag(t, c, protected, deleted, torn), UNCHANGED <<lock, step, sel>>
       PROVE  FilesInv'
    <2>1. RefsGood' /\ ReadyGood'
        BY <1>10, PruneKeepsFiles
    <2>2. ASSUME NEW q \in Run, NEW j \in Key PROVE Secured(q, j)'
        <3>1. lock[TagOf[j]] = q =>
                 /\ state'[<<j, q>>] = state[<<j, q>>]
                 /\ step[q][j] = "found" => state'[sel[q][j]] = state[sel[q][j]]
            BY <1>10, PruneKeepsFiles
        <3>2. step'[q][j] = step[q][j] /\ sel'[q][j] = sel[q][j] /\ lock' = lock
            BY <1>10
        <3> QED BY <3>1, <3>2, StaysSecured
    <2>3. OneSection'
        BY <1>10, SectionsEnd DEF InSection
    <2> QED BY <1>0, <2>1, <2>2, <2>3 DEF FilesInv, FoundGood
<1>11. ASSUME NEW r \in Run, NEW t \in Tag, Prune(r, t) PROVE FilesInv'
    <2>1. PICK c \in Reading :
             PruneTag(t, c, Chosen(r, t), Reclaimable(t, c, Chosen(r, t)), {})
        BY <1>11 DEF Prune
    <2>2. UNCHANGED <<lock, step, sel>>
        BY <1>11 DEF Prune
    <2> QED BY <1>0, <2>1, <2>2, <1>10
<1>12. ASSUME NEW t \in Tag, PruneCommand(t) PROVE FilesInv'
    <2>1. PICK c, deleted, torn : c \in Reading /\ PruneTag(t, c, {}, deleted, torn)
        BY <1>12 DEF PruneCommand, PruneUntil
    <2>2. UNCHANGED <<lock, step, sel>>
        BY <1>12 DEF PruneCommand, local
    <2> QED BY <1>0, <2>1, <2>2, <1>10
<1>13. ASSUME NEW r \in Run, Forget(r) PROVE \A s \in Run, k \in Key :
             /\ s = r => step'[s][k] = "todo"
             /\ s # r => step'[s][k] = step[s][k] /\ sel'[s][k] = sel[s][k]
    BY <1>0, <1>13 DEF Forget, TypeOK
<1>14. ASSUME NEW r \in Run, NEW t \in Tag, PruneCut(r, t) PROVE FilesInv'
    <2>1. PICK c, deleted, torn : c \in Reading /\ PruneTag(t, c, Chosen(r, t), deleted, torn)
        BY <1>14 DEF PruneCut, PruneUntil
    <2>2. Forget(r) /\ lock' = lock
        BY <1>14 DEF PruneCut
    <2>3. RefsGood' /\ ReadyGood'
        BY <2>1, PruneKeepsFiles
    <2>4. ASSUME NEW q \in Run, NEW j \in Key PROVE Secured(q, j)'
        <3>1. CASE q = r
            BY <1>13, <2>2, <3>1 DEF Secured
        <3>2. CASE q # r
            <4>1. step'[q][j] = step[q][j] /\ sel'[q][j] = sel[q][j]
                BY <1>13, <2>2, <3>2
            <4> QED BY <2>1, <2>2, <4>1, PruneKeepsFiles, StaysSecured
        <3> QED BY <3>1, <3>2
    <2>5. OneSection'
        BY <1>13, <2>2, SectionsEnd DEF InSection
    <2> QED BY <1>0, <2>3, <2>4, <2>5 DEF FilesInv, FoundGood
<1>15. ASSUME NEW r \in Run, Abort(r) PROVE FilesInv'
    <2>1. /\ Forget(r) /\ UNCHANGED files
          /\ lock' = [t \in Tag |-> IF lock[t] = r THEN NoOne ELSE lock[t]]
        BY <1>15 DEF Abort
    <2>2. ASSUME NEW q \in Run, NEW j \in Key PROVE Secured(q, j)'
        <3>1. CASE q = r
            BY <1>13, <2>1, <3>1 DEF Secured
        <3>2. CASE q # r
            <4>1. step'[q][j] = step[q][j] /\ sel'[q][j] = sel[q][j]
                BY <1>13, <2>1, <3>2
            <4>2. lock[TagOf[j]] = q => lock'[TagOf[j]] = q
                BY <2>1, <3>2
            <4> QED BY <2>1, <4>1, <4>2, StaysSecured DEF files
        <3> QED BY <3>1, <3>2
    <2>3. OneSection'
        BY <1>13, <2>1, SectionsEnd DEF InSection
    <2>4. RefsGood' /\ ReadyGood'
        BY <2>1 DEF FilesInv, RefsGood, ReadyGood, files
    <2> QED BY <1>0, <2>2, <2>3, <2>4 DEF FilesInv, FoundGood
<1>16. ASSUME UNCHANGED <<lock, state, ready, step, sel>>,
              \A u \in Tag, s \in Run : lease'[u][s].refs \subseteq lease[u][s].refs
       PROVE  FilesInv'
    <2>1. RefsGood' /\ ReadyGood'
        BY <1>16 DEF FilesInv, RefsGood, ReadyGood
    <2>2. ASSUME NEW q \in Run, NEW j \in Key PROVE Secured(q, j)'
        BY <1>16, StaysSecured
    <2>3. OneSection'
        BY <1>16, SectionsEnd DEF InSection
    <2> QED BY <1>0, <2>1, <2>2, <2>3 DEF FilesInv, FoundGood
<1>17. ASSUME NEW r \in Run, NEW t \in Tag, Seal(r, t) PROVE FilesInv'
    <2>1. /\ lease' = [lease EXCEPT ![t][r].sealed = TRUE]
          /\ UNCHANGED <<lock, state, ready, step, sel>>
        BY <1>17 DEF Seal
    <2>2. \A u \in Tag, s \in Run : lease'[u][s].refs = lease[u][s].refs
        BY <1>0, <2>1 DEF TypeOK
    <2> QED BY <1>0, <2>1, <2>2, <1>16
<1>18. ASSUME NEW r \in Run, NEW t \in Tag, Release(r, t) PROVE FilesInv'
    <2>1. /\ lease' = [lease EXCEPT ![t][r] = NoLease]
          /\ UNCHANGED <<lock, state, ready, step, sel>>
        BY <1>18 DEF Release
    <2>2. \A u \in Tag, s \in Run : lease'[u][s].refs \subseteq lease[u][s].refs
        BY <1>0, <2>1 DEF TypeOK, NoLease
    <2> QED BY <1>0, <2>1, <2>2, <1>16
<1> QED BY <1>2, <1>3, <1>4, <1>5, <1>6, <1>7, <1>8, <1>9, <1>11, <1>12, <1>14, <1>15, <1>17, <1>18 DEF Next, PrepareStep, RestoreStep

LEMMA FilesInvariant == Spec => []FilesInv
BY InitFiles, StepFiles, PTL DEF Spec

\* READY never names a deleted or half deleted generation.
THEOREM HintSafe == Spec => []HintNeverDangles
<1>1. FilesInv => HintNeverDangles
    BY DEF FilesInv, ReadyGood, HintNeverDangles
<1> QED BY <1>1, FilesInvariant, PTL

-----------------------------------------------------------------------------
(* The pins: a run that needs its selection holds a lease on all of it.    *)

Handed == Waiting \union {"verify", "restore"}
Needs(r) == r \notin consumed /\ now < Expires(r)

StageInv(r) ==
    /\ pc[r] = "new" => \A k \in Key : step[r][k] = "todo"
    /\ pc[r] \in Handed \union {"prune", "seal", "validate", "revalidate", "release"}
          => \A k \in Plan[r] : step[r][k] = "pinned"
    /\ pc[r] \in {"release", "restored"} => r \in consumed

\* The strengthening: what is pinned is in the record, what was sealed stays sealed.
HeldInv(r) == Needs(r) =>
    /\ \A k \in Key : step[r][k] = "pinned" => sel[r][k] \in lease[TagOf[k]][r].refs
    /\ pc[r] = "seal" => \A k \in Plan[r] \ left[r] : lease[TagOf[k]][r].sealed
    /\ pc[r] \in Handed \union {"validate", "revalidate"}
          => \A k \in Plan[r] : lease[TagOf[k]][r].sealed

RunInv(r) == StageInv(r) /\ (Skew <= Allowance => HeldInv(r))
PinInv == FilesInv /\ \A r \in Run : RunInv(r)

\* A run is not affected by a step that leaves its local data and its leases alone.
Spared(r) ==
    /\ pc'[r] = pc[r] /\ step'[r] = step[r] /\ sel'[r] = sel[r]
    /\ left'[r] = left[r] /\ born'[r] = born[r]
    /\ now' >= now /\ consumed \subseteq consumed'
    /\ Skew <= Allowance =>
          \A t \in Tag : lease'[t][r] = lease[t][r] \/ now >= Expires(r)

LEMMA OtherRun ==
    ASSUME PinInv, TypeOK, TypeOK', NEW r \in Run, Spared(r)
    PROVE  RunInv(r)'
<1> USE KeyAssumption
<1>1. StageInv(r)'
    <2>1. StageInv(r)
        BY DEF PinInv, RunInv
    <2> QED BY <2>1 DEF StageInv, Spared
<1>2. ASSUME Skew <= Allowance, Needs(r)' PROVE HeldInv(r)'
    <2>1. Needs(r) /\ now < Expires(r)
        BY <1>2, TimeAssumption DEF Spared, Needs, Expires, TypeOK
    <2>2. \A t \in Tag : lease'[t][r] = lease[t][r]
        BY <1>2, <2>1, TimeAssumption DEF Spared, Expires, TypeOK
    <2>3. HeldInv(r)
        BY <1>2 DEF PinInv, RunInv
    <2> QED BY <2>1, <2>2, <2>3 DEF Spared, HeldInv
<1>3. ~Needs(r)' => HeldInv(r)'
    BY DEF HeldInv
<1> QED BY <1>1, <1>2, <1>3 DEF RunInv

\* With clocks at most Allowance apart a prune drops no lease of a run that needs it.
LEMMA PruneKeepsLive ==
    ASSUME FilesInv, Skew <= Allowance, NEW t \in Tag, NEW c \in Reading,
           NEW protected, NEW deleted, NEW torn,
           PruneTag(t, c, protected, deleted, torn)
    PROVE  \A u \in Tag, r \in Run : lease'[u][r] = lease[u][r] \/ now >= Expires(r)
<1>1. ASSUME NEW r \in Lapsed(t, c) PROVE now >= Expires(r)
    BY TimeAssumption DEF Lapsed, Reading, Expires, FilesInv, TypeOK
<1> QED BY <1>1, PruneSpares

LEMMA InitPins == Init => PinInv
<1> SUFFICES ASSUME Init PROVE PinInv
    OBVIOUS
<1>1. FilesInv
    BY InitFiles
<1>2. ASSUME NEW r \in Run PROVE RunInv(r)
    BY DEF Init, RunInv, StageInv, HeldInv, Handed, Waiting
<1> QED BY <1>1, <1>2 DEF PinInv

LEMMA StepPins == PinInv /\ [Next]_vars => PinInv'
<1> SUFFICES ASSUME PinInv, [Next]_vars PROVE PinInv'
    OBVIOUS
<1> USE KeyAssumption
<1>1. FilesInv /\ FilesInv' /\ TypeOK /\ TypeOK'
    BY StepFiles DEF PinInv, FilesInv
<1>2. \A r \in Run : StageInv(r) /\ (Skew <= Allowance => HeldInv(r))
    BY DEF PinInv, RunInv
<1>3. now \in Int /\ now' \in Int /\ (now' = now => now' >= now)
    BY <1>1, TimeAssumption DEF TypeOK
<1>4. ASSUME NEW r \in Run, Begin(r) PROVE PinInv'
    <2>1. /\ pc[r] = "new" /\ pc' = [pc EXCEPT ![r] = "probe"]
          /\ UNCHANGED <<now, lease, step, sel, left, consumed>>
        BY <1>4 DEF Begin, files
    <2>2. \A q \in Run : q # r => pc'[q] = pc[q] /\ born'[q] = born[q]
        BY <1>1, <1>4 DEF Begin, TypeOK
    <2>3. RunInv(r)'
        <3>1. pc'[r] = "probe" /\ \A k \in Key : step'[r][k] = "todo"
            BY <1>1, <1>2, <2>1 DEF StageInv, TypeOK
        <3> QED BY <3>1 DEF RunInv, StageInv, HeldInv, Handed, Waiting
    <2>4. ASSUME NEW q \in Run, q # r PROVE RunInv(q)'
        <3>1. Spared(q)
            BY <1>3, <2>1, <2>2, <2>4 DEF Spared
        <3> QED BY <1>1, <3>1, OtherRun
    <2> QED BY <1>1, <2>3, <2>4 DEF PinInv
<1>5. ASSUME NEW r \in Run, EndProbes(r) \/ EndPublish(r) \/ StartRestore(r) \/ Interrupt(r)
      PROVE  PinInv'
    <2>1. /\ UNCHANGED <<now, lease, born, step, sel, consumed>>
          /\ \A q \in Run : q # r => pc'[q] = pc[q] /\ left'[q] = left[q]
        BY <1>1, <1>5 DEF EndProbes, EndPublish, StartRestore, Interrupt, TypeOK, files
    <2>2. \/ pc[r] = "probe" /\ pc'[r] = "publish"
          \/ /\ pc[r] = "publish" /\ pc'[r] = "prune"
             /\ \A k \in Plan[r] : step[r][k] = "pinned"
          \/ pc[r] \in Waiting /\ pc'[r] = "verify"
          \/ pc[r] \in Restoring /\ pc'[r] = "interrupted"
        BY <1>1, <1>5 DEF EndProbes, EndPublish, StartRestore, Interrupt, TypeOK
    <2>3. StageInv(r)'
        BY <1>2, <2>1, <2>2 DEF StageInv, Handed, Waiting, Restoring
    <2>4. Skew <= Allowance => HeldInv(r)'
        <3>1. Needs(r)' <=> Needs(r)
            BY <2>1 DEF Needs, Expires
        <3>2. pc[r] = "release" => ~Needs(r)
            BY <1>2 DEF StageInv, Needs
        <3> QED BY <1>2, <2>1, <2>2, <3>1, <3>2 DEF HeldInv, Handed, Waiting, Restoring
    <2>5. ASSUME NEW q \in Run, q # r PROVE RunInv(q)'
        <3>1. Spared(q)
            BY <1>3, <2>1, <2>5 DEF Spared
        <3> QED BY <1>1, <3>1, OtherRun
    <2> QED BY <1>1, <2>3, <2>4, <2>5 DEF PinInv, RunInv
<1>6. ASSUME NEW r \in Run, NEW k \in Key,
             Miss(r, k) \/ Warm(r, k) \/ Probe(r, k) \/ Publish(r, k) \/ WriteReady(r, k)
      PROVE  PinInv'
    <2>1. /\ UNCHANGED <<now, lease, born, pc, left, consumed>>
          /\ pc[r] \in {"probe", "publish"} /\ step[r][k] # "pinned"
        BY <1>6 DEF Miss, Warm, Probe, Publish, WriteReady, At, files
    <2>2. PICK v \in {"miss", "warm", "found", "published"} : step' = [step EXCEPT ![r][k] = v]
        BY <1>6 DEF Miss, Warm, Probe, Publish, WriteReady
    <2>3. sel' = sel \/ \E g : sel' = [sel EXCEPT ![r][k] = g]
        BY <1>6 DEF Miss, Warm, Probe, Publish, WriteReady
    <2>4. \A q \in Run : q # r => step'[q] = step[q] /\ sel'[q] = sel[q]
        BY <1>1, <2>2, <2>3 DEF TypeOK
    <2>5. \A j \in Key : step'[r][j] = "pinned" => step[r][j] = "pinned" /\ sel'[r][j] = sel[r][j]
        BY <1>1, <2>1, <2>2, <2>3 DEF TypeOK
    <2>6. RunInv(r)'
        <3>1. StageInv(r)'
            BY <2>1 DEF StageInv, Handed, Waiting
        <3>2. Skew <= Allowance => HeldInv(r)'
            BY <1>2, <2>1, <2>5 DEF HeldInv, Needs, Expires, Handed, Waiting
        <3> QED BY <3>1, <3>2 DEF RunInv
    <2>7. ASSUME NEW q \in Run, q # r PROVE RunInv(q)'
        <3>1. Spared(q)
            BY <1>3, <2>1, <2>4, <2>7 DEF Spared
        <3> QED BY <1>1, <3>1, OtherRun
    <2> QED BY <1>1, <2>6, <2>7 DEF PinInv
<1>7. ASSUME NEW r \in Run, NEW k \in Key, Pin(r, k) PROVE PinInv'
    <2>1. /\ UNCHANGED <<now, born, pc, sel, left, consumed>>
          /\ pc[r] \in {"probe", "publish"}
          /\ step' = [step EXCEPT ![r][k] = "pinned"]
          /\ lease' = [lease EXCEPT ![TagOf[k]][r].refs = @ \union {sel[r][k]}]
        BY <1>7 DEF Pin
    <2>2. /\ \A t \in Tag : lease[t][r].refs \subseteq lease'[t][r].refs
          /\ sel[r][k] \in lease'[TagOf[k]][r].refs
        BY <1>1, <2>1 DEF TypeOK
    <2>3. \A q \in Run : q # r => step'[q] = step[q] /\ \A t \in Tag : lease'[t][q] = lease[t][q]
        BY <1>1, <2>1 DEF TypeOK
    <2>4. \A j \in Key : step'[r][j] = "pinned" => j = k \/ step[r][j] = "pinned"
        BY <1>1, <2>1 DEF TypeOK
    <2>5. RunInv(r)'
        <3>1. StageInv(r)'
            BY <2>1 DEF StageInv, Handed, Waiting
        <3>2. Skew <= Allowance => HeldInv(r)'
            BY <1>2, <2>1, <2>2, <2>4 DEF HeldInv, Needs, Expires, Handed, Waiting
        <3> QED BY <3>1, <3>2 DEF RunInv
    <2>6. ASSUME NEW q \in Run, q # r PROVE RunInv(q)'
        <3>1. Spared(q)
            BY <1>3, <2>1, <2>3, <2>6 DEF Spared
        <3> QED BY <1>1, <3>1, OtherRun
    <2> QED BY <1>1, <2>5, <2>6 DEF PinInv
<1>8. ASSUME NEW r \in Run, NEW visited, NEW next \in Stage, Advance(r, visited, next)
      PROVE  /\ \A q \in Run : q # r => pc'[q] = pc[q] /\ left'[q] = left[q]
             /\ \/ left[r] \subseteq visited /\ pc'[r] = next /\ left'[r] = Plan[r]
                \/ pc'[r] = pc[r] /\ left'[r] = left[r] \ visited
    <2>1. CASE left[r] \subseteq visited
        BY <1>1, <1>8, <2>1 DEF Advance, TypeOK
    <2>2. CASE ~(left[r] \subseteq visited)
        BY <1>1, <1>8, <2>2 DEF Advance, TypeOK
    <2> QED BY <2>1, <2>2
<1>9. \A r \in Run, t \in Tag : Chosen(r, t) \subseteq Generation \union {NoOne}
    BY <1>1 DEF Chosen, TypeOK
<1>10. ASSUME NEW r \in Run, NEW t \in Tag, Prune(r, t) PROVE PinInv'
    <2>1. PICK c \in Reading :
             PruneTag(t, c, Chosen(r, t), Reclaimable(t, c, Chosen(r, t)), {})
        BY <1>10 DEF Prune
    <2>2. Skew <= Allowance =>
             \A u \in Tag, q \in Run : lease'[u][q] = lease[u][q] \/ now >= Expires(q)
        BY <1>1, <2>1, PruneKeepsLive
    <2>3. /\ pc[r] = "prune" /\ Advance(r, {k \in Key : TagOf[k] = t}, "seal")
          /\ UNCHANGED <<now, born, step, sel, consumed>>
        BY <1>10 DEF Prune
    <2>4. \/ pc'[r] = "seal" /\ left'[r] = Plan[r]
          \/ pc'[r] = "prune"
        BY <1>8, <2>3 DEF Stage, Preparing
    <2>5. StageInv(r)'
        BY <1>2, <2>3, <2>4 DEF StageInv, Handed, Waiting
    <2>6. ASSUME Skew <= Allowance, Needs(r)' PROVE HeldInv(r)'
        <3>1. Needs(r) /\ \A u \in Tag : lease'[u][r] = lease[u][r]
            BY <1>1, <1>3, <2>2, <2>3, <2>6, TimeAssumption DEF Needs, Expires, TypeOK
        <3>2. \A k \in Key : step'[r][k] = "pinned" => sel'[r][k] \in lease'[TagOf[k]][r].refs
            BY <1>2, <2>3, <2>6, <3>1 DEF HeldInv
        <3> QED BY <2>4, <3>2 DEF HeldInv, Handed, Waiting
    <2>7. ~Needs(r)' => HeldInv(r)'
        BY DEF HeldInv
    <2>8. \A q \in Run : q # r => pc'[q] = pc[q] /\ left'[q] = left[q]
        BY <1>8, <2>3 DEF Stage, Preparing
    <2>9. ASSUME NEW q \in Run, q # r PROVE RunInv(q)'
        <3>1. Spared(q)
            BY <1>3, <2>2, <2>3, <2>8, <2>9 DEF Spared
        <3> QED BY <1>1, <3>1, OtherRun
    <2> QED BY <1>1, <2>5, <2>6, <2>7, <2>9 DEF PinInv, RunInv
<1>11. ASSUME NEW r \in Run, Forget(r), UNCHANGED <<now, born, consumed>>,
              Skew <= Allowance =>
                 \A u \in Tag, q \in Run : lease'[u][q] = lease[u][q] \/ now >= Expires(q)
       PROVE  PinInv'
    <2>1. pc'[r] = "failed" /\ \A k \in Key : step'[r][k] = "todo"
        BY <1>1, <1>11 DEF Forget, TypeOK
    <2>2. RunInv(r)'
        BY <2>1 DEF RunInv, StageInv, HeldInv, Handed, Waiting
    <2>3. \A q \in Run : q # r => /\ pc'[q] = pc[q] /\ step'[q] = step[q]
                                  /\ sel'[q] = sel[q] /\ left'[q] = left[q]
        BY <1>1, <1>11 DEF Forget, TypeOK
    <2>4. ASSUME NEW q \in Run, q # r PROVE RunInv(q)'
        <3>1. Spared(q)
            BY <1>3, <1>11, <2>3, <2>4 DEF Spared
        <3> QED BY <1>1, <3>1, OtherRun
    <2> QED BY <1>1, <2>2, <2>4 DEF PinInv
<1>12. ASSUME NEW r \in Run, NEW t \in Tag, PruneCut(r, t) PROVE PinInv'
    <2>1. PICK c, deleted, torn : c \in Reading /\ PruneTag(t, c, Chosen(r, t), deleted, torn)
        BY <1>12 DEF PruneCut, PruneUntil
    <2>2. Forget(r) /\ UNCHANGED <<now, born, consumed>>
        BY <1>12 DEF PruneCut
    <2>3. Skew <= Allowance =>
             \A u \in Tag, q \in Run : lease'[u][q] = lease[u][q] \/ now >= Expires(q)
        BY <1>1, <2>1, PruneKeepsLive
    <2> QED BY <1>11, <2>2, <2>3
<1>13. ASSUME NEW r \in Run, Abort(r) PROVE PinInv'
    <2>1. Forget(r) /\ UNCHANGED <<now, lease, born, consumed>>
        BY <1>13 DEF Abort, files
    <2> QED BY <1>11, <2>1
<1>14. ASSUME NEW t \in Tag, PruneCommand(t) PROVE PinInv'
    <2>1. PICK c, deleted, torn : c \in Reading /\ PruneTag(t, c, {}, deleted, torn)
        BY <1>14 DEF PruneCommand, PruneUntil
    <2>2. UNCHANGED <<now, born, pc, step, sel, left, consumed>>
        BY <1>14 DEF PruneCommand, local
    <2>3. Skew <= Allowance =>
             \A u \in Tag, q \in Run : lease'[u][q] = lease[u][q] \/ now >= Expires(q)
        BY <1>1, <2>1, PruneKeepsLive
    <2>4. ASSUME NEW q \in Run PROVE RunInv(q)'
        <3>1. Spared(q)
            BY <1>3, <2>2, <2>3 DEF Spared
        <3> QED BY <1>1, <3>1, OtherRun
    <2> QED BY <1>1, <2>4 DEF PinInv
<1>15. ASSUME NEW r \in Run, NEW t \in Tag, Seal(r, t) PROVE PinInv'
    <2>1. /\ pc[r] = "seal" /\ Advance(r, {k \in Key : TagOf[k] = t}, "validate")
          /\ lease' = [lease EXCEPT ![t][r].sealed = TRUE]
          /\ UNCHANGED <<now, born, step, sel, consumed>>
        BY <1>15 DEF Seal
    <2>2. \/ /\ pc'[r] = "validate" /\ left'[r] = Plan[r]
             /\ left[r] \subseteq {k \in Key : TagOf[k] = t}
          \/ pc'[r] = "seal" /\ left'[r] = left[r] \ {k \in Key : TagOf[k] = t}
        BY <1>8, <2>1 DEF Stage, Preparing
    <2>3. \A u \in Tag, q \in Run : lease'[u][q].refs = lease[u][q].refs
        BY <1>1, <2>1 DEF TypeOK
    <2>4. \A u \in Tag, q \in Run : q # r => lease'[u][q] = lease[u][q]
        BY <1>1, <2>1 DEF TypeOK
    <2>5. lease'[t][r].sealed
        <3>1. lease[t][r] \in [refs: SUBSET Generation, sealed: BOOLEAN]
            BY <1>1 DEF TypeOK
        <3>2. lease'[t][r] = [lease[t][r] EXCEPT !.sealed = TRUE]
            BY <1>1, <2>1 DEF TypeOK
        <3>3. lease'[t][r] = [refs |-> lease[t][r].refs, sealed |-> TRUE]
            BY <3>1, <3>2
        <3> QED BY <3>3
    <2>6. \A u \in Tag : u # t => lease'[u][r] = lease[u][r]
        BY <1>1, <2>1 DEF TypeOK
    <2>7. StageInv(r)'
        BY <1>2, <2>1, <2>2 DEF StageInv, Handed, Waiting
    <2>8. ASSUME Skew <= Allowance, Needs(r)' PROVE HeldInv(r)'
        <3>1. Needs(r)
            BY <2>1, <2>8 DEF Needs, Expires
        <3>2. \A k \in Key : step'[r][k] = "pinned" => sel'[r][k] \in lease'[TagOf[k]][r].refs
            BY <1>2, <2>1, <2>3, <2>8, <3>1 DEF HeldInv
        <3>3. \A k \in Plan[r] \ left[r] : lease[TagOf[k]][r].sealed
            BY <1>2, <2>1, <2>8, <3>1 DEF HeldInv
        <3>4. \A k \in Plan[r] : k \in Key
            OBVIOUS
        <3>5. \A k \in Plan[r] : k \notin left[r] \/ TagOf[k] = t => lease'[TagOf[k]][r].sealed
            BY <2>5, <2>6, <3>3, <3>4
        <3> QED BY <2>2, <3>2, <3>4, <3>5 DEF HeldInv, Handed, Waiting
    <2>9. ~Needs(r)' => HeldInv(r)'
        BY DEF HeldInv
    <2>10. \A q \in Run : q # r => pc'[q] = pc[q] /\ left'[q] = left[q]
        BY <1>8, <2>1 DEF Stage, Preparing
    <2>11. ASSUME NEW q \in Run, q # r PROVE RunInv(q)'
        <3>1. Spared(q)
            BY <1>3, <2>1, <2>4, <2>10, <2>11 DEF Spared
        <3> QED BY <1>1, <3>1, OtherRun
    <2> QED BY <1>1, <2>7, <2>8, <2>9, <2>11 DEF PinInv, RunInv
<1>16. ASSUME NEW r \in Run, NEW k \in Key,
              \/ Validate(r, k, "validate", "revalidate")
              \/ Validate(r, k, "revalidate", "selected")
              \/ Validate(r, k, "verify", "restore")
       PROVE  PinInv'
    <2>1. UNCHANGED <<now, lease, born, step, sel, consumed>>
        BY <1>16 DEF Validate, files
    <2>2. PICK stage \in {"validate", "revalidate", "verify"},
               next \in {"revalidate", "selected", "restore"} :
             pc[r] = stage /\ Advance(r, {k}, next)
        BY <1>16 DEF Validate
    <2>3. \A q \in Run : q # r => pc'[q] = pc[q] /\ left'[q] = left[q]
        BY <1>8, <2>2 DEF Stage, Preparing, Waiting, Restoring
    <2>4. pc'[r] \in {"validate", "revalidate", "verify", "selected", "restore"}
        BY <1>8, <2>2 DEF Stage, Preparing, Waiting, Restoring
    <2>5. StageInv(r)'
        BY <1>2, <2>1, <2>2, <2>4 DEF StageInv, Handed, Waiting
    <2>6. Skew <= Allowance => HeldInv(r)'
        BY <1>2, <2>1, <2>2, <2>4 DEF HeldInv, Needs, Expires, Handed, Waiting
    <2>7. ASSUME NEW q \in Run, q # r PROVE RunInv(q)'
        <3>1. Spared(q)
            BY <1>3, <2>1, <2>3, <2>7 DEF Spared
        <3> QED BY <1>1, <3>1, OtherRun
    <2> QED BY <1>1, <2>5, <2>6, <2>7 DEF PinInv, RunInv
<1>17. ASSUME NEW r \in Run, NEW k \in Key, Restore(r, k) PROVE PinInv'
    <2>1. /\ pc[r] = "restore" /\ k \in left[r] /\ Advance(r, {k}, "release")
          /\ UNCHANGED <<now, lease, born, step, sel>>
          /\ consumed' = IF left[r] = {k} THEN consumed \union {r} ELSE consumed
        BY <1>17 DEF Restore, NextKey, files
    <2>2. consumed \subseteq consumed' /\ (left[r] = {k} => r \in consumed')
        BY <2>1
    <2>3. \/ left[r] \subseteq {k} /\ pc'[r] = "release"
          \/ pc'[r] = "restore"
        BY <1>8, <2>1 DEF Stage, Restoring
    <2>4. pc'[r] = "release" => r \in consumed'
        BY <2>1, <2>2, <2>3
    <2>5. StageInv(r)'
        BY <1>2, <2>1, <2>3, <2>4 DEF StageInv, Handed, Waiting
    <2>6. Skew <= Allowance => HeldInv(r)'
        <3>1. Needs(r)' => Needs(r)
            BY <2>1, <2>2 DEF Needs, Expires
        <3> QED BY <1>2, <2>1, <2>3, <2>4, <3>1 DEF HeldInv, Needs, Handed, Waiting
    <2>7. \A q \in Run : q # r => pc'[q] = pc[q] /\ left'[q] = left[q]
        BY <1>8, <2>1 DEF Stage, Restoring
    <2>8. ASSUME NEW q \in Run, q # r PROVE RunInv(q)'
        <3>1. Spared(q)
            BY <1>3, <2>1, <2>2, <2>7, <2>8 DEF Spared
        <3> QED BY <1>1, <3>1, OtherRun
    <2> QED BY <1>1, <2>5, <2>6, <2>8 DEF PinInv, RunInv
<1>18. ASSUME NEW r \in Run, NEW t \in Tag, Release(r, t) PROVE PinInv'
    <2>1. /\ pc[r] = "release" /\ Advance(r, {k \in Key : TagOf[k] = t}, "restored")
          /\ lease' = [lease EXCEPT ![t][r] = NoLease]
          /\ UNCHANGED <<now, born, step, sel, consumed>>
        BY <1>18 DEF Release
    <2>2. r \in consumed' /\ r \in consumed
        BY <1>2, <2>1 DEF StageInv
    <2>3. pc'[r] \in {"release", "restored"}
        BY <1>8, <2>1 DEF Stage
    <2>4. StageInv(r)'
        BY <1>2, <2>1, <2>2, <2>3 DEF StageInv, Handed, Waiting
    <2>5. HeldInv(r)'
        BY <2>2 DEF HeldInv, Needs
    <2>6. \A u \in Tag, q \in Run : q # r => lease'[u][q] = lease[u][q]
        BY <1>1, <2>1 DEF TypeOK
    <2>7. \A q \in Run : q # r => pc'[q] = pc[q] /\ left'[q] = left[q]
        BY <1>8, <2>1 DEF Stage
    <2>8. ASSUME NEW q \in Run, q # r PROVE RunInv(q)'
        <3>1. Spared(q)
            BY <1>3, <2>1, <2>6, <2>7, <2>8 DEF Spared
        <3> QED BY <1>1, <3>1, OtherRun
    <2> QED BY <1>1, <2>4, <2>5, <2>8 DEF PinInv, RunInv
<1>19. ASSUME Tick \/ UNCHANGED vars PROVE PinInv'
    <2>1. /\ UNCHANGED <<lease, born, pc, step, sel, left, consumed>>
          /\ now' >= now
        BY <1>3, <1>19 DEF Tick, vars, local, files
    <2>2. ASSUME NEW q \in Run PROVE RunInv(q)'
        <3>1. Spared(q)
            BY <2>1 DEF Spared
        <3> QED BY <1>1, <3>1, OtherRun
    <2> QED BY <1>1, <2>2 DEF PinInv
<1> QED BY <1>4, <1>5, <1>6, <1>7, <1>10, <1>12, <1>13, <1>14, <1>15, <1>16, <1>17, <1>18, <1>19 DEF Next, PrepareStep, RestoreStep

LEMMA PinInvariant == Spec => []PinInv
BY InitPins, StepPins, PTL DEF Spec

\* Whoever holds a selection can restore it while its lease lives: for every number of
\* runs, keys and tags and every skew within the allowance.
THEOREM SelectionSafe == Spec => []SelectionRestorable
<1>1. ASSUME PinInv PROVE SelectionRestorable
    <2> SUFFICES ASSUME Skew <= Allowance, NEW r \in Run, pc[r] \in Handed,
                        r \notin consumed, now < Expires(r), NEW k \in Plan[r]
                 PROVE  /\ lease[TagOf[k]][r].sealed
                        /\ sel[r][k] \in lease[TagOf[k]][r].refs
                        /\ state[sel[r][k]] = "good"
        BY DEF SelectionRestorable, Handed
    <2>1. k \in Key /\ TagOf[k] \in Tag
        BY KeyAssumption
    <2>2. step[r][k] = "pinned"
        BY <1>1 DEF PinInv, RunInv, StageInv
    <2>3. sel[r][k] \in lease[TagOf[k]][r].refs /\ lease[TagOf[k]][r].sealed
        BY <1>1, <2>1, <2>2 DEF PinInv, RunInv, HeldInv, Needs
    <2>4. state[sel[r][k]] = "good"
        BY <1>1, <2>1, <2>3 DEF PinInv, FilesInv, RefsGood
    <2> QED BY <2>3, <2>4
<1> QED BY <1>1, PinInvariant, PTL

\* Nobody drops a reference of a live lease of a run that still needs it: neither
\* another run, nor a prune, nor a failing job of the run itself.
LivePinsStay ==
    [][Skew <= Allowance =>
         \A r \in Run, t \in Tag :
            r \in consumed' \/ now >= Expires(r)
            \/ lease[t][r].refs \subseteq lease'[t][r].refs]_vars

\* For every number of runs, keys and tags and every skew within the allowance.
THEOREM LivePinsSafe == Spec => LivePinsStay
<1> DEFINE Kept == Skew <= Allowance =>
              \A r \in Run, t \in Tag :
                 r \in consumed' \/ now >= Expires(r)
                 \/ lease[t][r].refs \subseteq lease'[t][r].refs
<1> USE KeyAssumption
<1>1. ASSUME PinInv, [Next]_vars PROVE Kept
    <2>1. TypeOK /\ FilesInv
        BY <1>1 DEF PinInv, FilesInv
    <2>2. ASSUME UNCHANGED lease PROVE Kept
        BY <2>2
    <2>3. ASSUME NEW t \in Tag, NEW c \in Reading, NEW protected, NEW deleted, NEW torn,
                 PruneTag(t, c, protected, deleted, torn)
          PROVE  Kept
        BY <2>1, <2>3, PruneKeepsLive
    <2>4. ASSUME NEW r \in Run, NEW t \in Tag, Prune(r, t) \/ PruneCut(r, t) PROVE Kept
        <3>1. PICK c, deleted, torn : c \in Reading /\ PruneTag(t, c, Chosen(r, t), deleted, torn)
            BY <2>4 DEF Prune, PruneCut, PruneUntil
        <3> QED BY <2>3, <3>1
    <2>5. ASSUME NEW t \in Tag, PruneCommand(t) PROVE Kept
        <3>1. PICK c, deleted, torn : c \in Reading /\ PruneTag(t, c, {}, deleted, torn)
            BY <2>5 DEF PruneCommand, PruneUntil
        <3> QED BY <2>3, <3>1
    <2>6. ASSUME NEW r \in Run, NEW k \in Key, Pin(r, k) PROVE Kept
        <3>1. lease' = [lease EXCEPT ![TagOf[k]][r].refs = @ \union {sel[r][k]}]
            BY <2>6 DEF Pin
        <3>2. \A q \in Run, t \in Tag : lease[t][q].refs \subseteq lease'[t][q].refs
            BY <2>1, <3>1 DEF TypeOK
        <3> QED BY <3>2
    <2>7. ASSUME NEW r \in Run, NEW t \in Tag, Seal(r, t) PROVE Kept
        <3>1. lease' = [lease EXCEPT ![t][r].sealed = TRUE]
            BY <2>7 DEF Seal
        <3>2. \A q \in Run, u \in Tag : lease'[u][q].refs = lease[u][q].refs
            BY <2>1, <3>1 DEF TypeOK
        <3> QED BY <3>2
    <2>8. ASSUME NEW r \in Run, NEW t \in Tag, Release(r, t) PROVE Kept
        <3>1. r \in consumed /\ consumed' = consumed
            BY <1>1, <2>8 DEF Release, PinInv, RunInv, StageInv
        <3>2. \A q \in Run, u \in Tag : q # r => lease'[u][q] = lease[u][q]
            BY <2>1, <2>8 DEF Release, TypeOK
        <3> QED BY <3>1, <3>2
    <2>9. ASSUME NEW r \in Run, NEW k \in Key, NEW stage, NEW next,
                 \/ Miss(r, k) \/ Warm(r, k) \/ Probe(r, k) \/ Publish(r, k)
                 \/ WriteReady(r, k) \/ Validate(r, k, stage, next) \/ Restore(r, k)
          PROVE  Kept
        <3>1. UNCHANGED lease
            BY <2>9 DEF Miss, Warm, Probe, Publish, WriteReady, Validate, Restore, files
        <3> QED BY <2>2, <3>1
    <2>10. ASSUME UNCHANGED vars PROVE Kept
        BY <2>2, <2>10 DEF vars
    <2>11. ASSUME Tick PROVE Kept
        BY <2>2, <2>11 DEF Tick, files
    <2>12. ASSUME NEW r \in Run,
                  \/ Begin(r) \/ EndProbes(r) \/ EndPublish(r) \/ StartRestore(r)
                  \/ Interrupt(r) \/ Abort(r)
           PROVE  Kept
        BY <2>2, <2>12 DEF Begin, EndProbes, EndPublish, StartRestore, Interrupt, Abort, files
    <2> HIDE DEF Kept
    <2> QED BY <1>1, <2>4, <2>5, <2>6, <2>7, <2>8, <2>9, <2>10, <2>11, <2>12
               DEF Next, PrepareStep, RestoreStep
<1> QED BY <1>1, PinInvariant, PTL DEF Spec, LivePinsStay

-----------------------------------------------------------------------------
(* The store: every step is one of PinStore, or changes nothing of it.     *)

\* What a run has not begun it has no pins of, and what it still prepares nobody restored.
FreshInv(r) ==
    /\ pc[r] = "new" => \A t \in Tag : lease[t][r].refs = {}
    /\ pc[r] \in Preparing \union {"new", "failed"} => r \notin consumed

StoreInv == PinInv /\ \A r \in Run : FreshInv(r)

StoreStep == [Store!Next]_(Store!vars)

\* A run is seen in the same phase, with the same selection, before and after a step.
SameView(r) ==
    /\ pc'[r] = "new" <=> pc[r] = "new"
    /\ HasSelection(r)' <=> HasSelection(r)
    /\ HasSelection(r) => sel'[r] = sel[r]
    /\ (r \in consumed' <=> r \in consumed) /\ now' = now /\ born'[r] = born[r]

LEMMA ViewStays ==
    ASSUME NEW r \in Run, SameView(r)
    PROVE  Phase'[r] = Phase[r] /\ Given'[r] = Given[r]
<1>1. Expires(r)' = Expires(r)
    BY DEF SameView, Expires
<1>2. Phase'[r] = Phase[r]
    BY <1>1 DEF SameView, Phase
<1>3. Given'[r] = Given[r]
    BY DEF SameView, Given
<1> QED BY <1>2, <1>3

\* Where every run is seen as before, phases and selections have not changed.
LEMMA ViewsStay ==
    ASSUME \A r \in Run : SameView(r)
    PROVE  Phase' = Phase /\ Given' = Given
<1>1. \A r \in Run : Phase'[r] = Phase[r] /\ Given'[r] = Given[r]
    BY ViewStays
<1>2. Phase' = [r \in Run |-> Phase'[r]] /\ Phase = [r \in Run |-> Phase[r]]
    BY DEF Phase
<1>3. Given' = [r \in Run |-> Given'[r]] /\ Given = [r \in Run |-> Given[r]]
    BY DEF Given
<1>4. Phase' = Phase
    BY <1>1, <1>2
<1>5. Given' = Given
    BY <1>1, <1>3
<1> QED BY <1>4, <1>5

\* Where only one run is seen in another phase.
LEMMA OneView ==
    ASSUME NEW r \in Run, \A q \in Run \ {r} : SameView(q)
    PROVE  Phase' = [Phase EXCEPT ![r] = Phase'[r]] /\ Given' = [Given EXCEPT ![r] = Given'[r]]
<1>1. \A q \in Run \ {r} : Phase'[q] = Phase[q] /\ Given'[q] = Given[q]
    BY ViewStays
<1>2. Phase' = [q \in Run |-> Phase'[q]] /\ Phase = [q \in Run |-> Phase[q]]
    BY DEF Phase
<1>3. Given' = [q \in Run |-> Given'[q]] /\ Given = [q \in Run |-> Given[q]]
    BY DEF Given
<1>4. Phase' = [Phase EXCEPT ![r] = Phase'[r]]
    BY <1>1, <1>2
<1>5. Given' = [Given EXCEPT ![r] = Given'[r]]
    BY <1>1, <1>3
<1> QED BY <1>4, <1>5

\* What the store sees of the leases are their references.
LEMMA PinnedBy ==
    /\ Pinned = [r \in Run |-> Pinned[r]]
    /\ \A r \in Run : \A g : g \in Pinned[r] <=> \E t \in Tag : g \in lease[t][r].refs
BY DEF Pinned

LEMMA PinnedStays ==
    ASSUME \A t \in Tag, r \in Run : lease'[t][r].refs = lease[t][r].refs
    PROVE  Pinned' = Pinned
BY DEF Pinned

\* The local data of a job that works for one run.
LEMMA JobSteps ==
    ASSUME TypeOK, NEW r \in Run
    PROVE  /\ \A visited, next : Advance(r, visited, next) =>
                 /\ pc'[r] \in {pc[r], next}
                 /\ \A q \in Run \ {r} : pc'[q] = pc[q]
           /\ Forget(r) => /\ pc'[r] = "failed"
                           /\ \A q \in Run \ {r} : pc'[q] = pc[q] /\ sel'[q] = sel[q]
BY DEF TypeOK, Advance, Forget

\* A job that stays before or after the hand-over of its selection, and reads, changes nothing
\* of the store.
LEMMA Quiet ==
    ASSUME NEW r \in Run, UNCHANGED <<now, state, ready, born, consumed>>,
           \A t \in Tag, q \in Run : lease'[t][q].refs = lease[t][q].refs,
           \A q \in Run \ {r} : pc'[q] = pc[q] /\ sel'[q] = sel[q],
           \/ pc[r] \in Preparing /\ pc'[r] \in Preparing \union {"failed"}
           \/ HasSelection(r) /\ HasSelection(r)' /\ sel'[r] = sel[r]
    PROVE  StoreStep
<1>1. SameView(r)
    BY DEF SameView, HasSelection, Preparing, Waiting, Restoring
<1>2. \A q \in Run \ {r} : SameView(q)
    BY DEF SameView, HasSelection
<1>3. Phase' = Phase /\ Given' = Given
    BY <1>1, <1>2, ViewsStay
<1>4. Pinned' = Pinned /\ Readable' = Readable
    BY PinnedStays DEF Readable
<1> QED BY <1>3, <1>4 DEF StoreStep, Store!vars

\* EndProbes and EndPublish, Miss and Warm, Seal, the validations, Abort, StartRestore and
\* Interrupt.
LEMMA QuietSteps ==
    ASSUME TypeOK, NEW r \in Run
    PROVE  /\ EndProbes(r) \/ EndPublish(r) \/ StartRestore(r) \/ Interrupt(r) \/ Abort(r)
                => StoreStep
           /\ \A k \in Key : Miss(r, k) \/ Warm(r, k) \/ Validate(r, k, "validate", "revalidate")
                             \/ Validate(r, k, "verify", "restore") => StoreStep
           /\ \A t \in Tag : Seal(r, t) => StoreStep
<1>1. ASSUME EndProbes(r) \/ EndPublish(r) PROVE StoreStep
    <2>1. /\ UNCHANGED <<now, files, born, consumed, sel>>
          /\ pc[r] \in Preparing /\ \E s \in Preparing : pc' = [pc EXCEPT ![r] = s]
        BY <1>1 DEF EndProbes, EndPublish, Preparing
    <2> QED BY <2>1, Quiet DEF files, TypeOK
<1>2. ASSUME StartRestore(r) \/ Interrupt(r) PROVE StoreStep
    <2>1. /\ UNCHANGED <<now, files, born, consumed, sel>>
          /\ HasSelection(r)
          /\ \E s \in Waiting \union Restoring : pc' = [pc EXCEPT ![r] = s]
        BY <1>2 DEF StartRestore, Interrupt, HasSelection, Waiting, Restoring
    <2>2. HasSelection(r)' /\ \A q \in Run \ {r} : pc'[q] = pc[q]
        BY <2>1 DEF HasSelection, TypeOK
    <2> QED BY <2>1, <2>2, Quiet DEF files
<1>3. ASSUME Abort(r) PROVE StoreStep
    <2>1. pc[r] \in Preparing /\ Forget(r) /\ UNCHANGED <<now, files, born, consumed>>
        BY <1>3 DEF Abort
    <2> QED BY <2>1, JobSteps, Quiet DEF files
<1>4. ASSUME NEW k \in Key, Miss(r, k) \/ Warm(r, k) PROVE StoreStep
    <2>1. /\ pc[r] \in Preparing /\ UNCHANGED <<now, files, born, consumed, sel, pc>>
        BY <1>4 DEF Miss, Warm, At, Preparing
    <2> QED BY <2>1, Quiet DEF files
<1>5. ASSUME NEW k \in Key, Validate(r, k, "validate", "revalidate") PROVE StoreStep
    <2>1. /\ pc[r] = "validate" /\ Advance(r, {k}, "revalidate")
          /\ UNCHANGED <<now, files, born, consumed, sel>>
        BY <1>5 DEF Validate
    <2>2. pc'[r] \in Preparing /\ pc[r] \in Preparing /\ \A q \in Run \ {r} : pc'[q] = pc[q]
        BY <2>1, JobSteps DEF Preparing
    <2> QED BY <2>1, <2>2, Quiet DEF files
<1>6. ASSUME NEW k \in Key, Validate(r, k, "verify", "restore") PROVE StoreStep
    <2>1. /\ pc[r] = "verify" /\ Advance(r, {k}, "restore")
          /\ UNCHANGED <<now, files, born, consumed, sel>>
        BY <1>6 DEF Validate
    <2>2. HasSelection(r) /\ HasSelection(r)' /\ \A q \in Run \ {r} : pc'[q] = pc[q]
        BY <2>1, JobSteps DEF HasSelection, Restoring
    <2> QED BY <2>1, <2>2, Quiet DEF files
<1>7. ASSUME NEW t \in Tag, Seal(r, t) PROVE StoreStep
    <2>1. /\ pc[r] = "seal" /\ Advance(r, {k \in Key : TagOf[k] = t}, "validate")
          /\ lease' = [lease EXCEPT ![t][r].sealed = TRUE]
          /\ UNCHANGED <<now, state, ready, born, consumed, sel>>
        BY <1>7 DEF Seal
    <2>2. pc'[r] \in Preparing /\ pc[r] \in Preparing /\ \A q \in Run \ {r} : pc'[q] = pc[q]
        BY <2>1, JobSteps DEF Preparing
    <2>3. \A u \in Tag, q \in Run : lease'[u][q].refs = lease[u][q].refs
        BY <2>1 DEF TypeOK
    <2> QED BY <2>1, <2>2, <2>3, Quiet
<1> QED BY <1>1, <1>2, <1>3, <1>4, <1>5, <1>6, <1>7

\* The writes of a prepare before its selection is handed over.
LEMMA PrepareWrites ==
    ASSUME NEW r \in Run, UNCHANGED <<now, born, pc, consumed>>, pc[r] \in Preparing,
           \A q \in Run \ {r} : sel'[q] = sel[q]
    PROVE  Phase' = Phase /\ Given' = Given
<1>1. SameView(r)
    BY DEF SameView, HasSelection, Preparing, Waiting, Restoring
<1>2. \A q \in Run \ {r} : SameView(q)
    BY DEF SameView, HasSelection
<1> QED BY <1>1, <1>2, ViewsStay

LEMMA HintSteps ==
    ASSUME PinInv, NEW r \in Run, NEW k \in Key, Probe(r, k) \/ WriteReady(r, k)
    PROVE  StoreStep
<1> USE KeyAssumption
<1>0. TypeOK
    BY DEF PinInv, FilesInv
<1>1. PICK g \in Generation : /\ ready' = [ready EXCEPT ![TagOf[k]] = g]
                              /\ sel' = [sel EXCEPT ![r][k] = g]
                              /\ state[g] = "good"
    <2>1. CASE Probe(r, k)
        BY <2>1 DEF Probe, Found, GoodOf
    <2>2. CASE WriteReady(r, k)
        <3>1. <<k, r>> \in Generation /\ state[<<k, r>>] = "good"
            BY <2>2 DEF WriteReady, PinInv, FilesInv, FoundGood, Secured, Generation
        <3> QED BY <2>2, <3>1 DEF WriteReady
    <2> QED BY <2>1, <2>2
<1>2. /\ UNCHANGED <<now, born, pc, consumed, state, lease>>
      /\ pc[r] \in Preparing
    BY DEF Probe, WriteReady, At, Preparing
<1>3. \A q \in Run \ {r} : sel'[q] = sel[q]
    BY <1>0, <1>1 DEF TypeOK
<1>4. Phase' = Phase /\ Given' = Given
    BY <1>2, <1>3, PrepareWrites
<1>5. Pinned' = Pinned /\ Readable' = Readable
    BY <1>2 DEF Pinned, Readable
<1>6. g \in Readable
    BY <1>1 DEF Readable
<1>7. Store!Point(TagOf[k], g)
    BY <1>1, <1>4, <1>5, <1>6 DEF Store!Point, Store!holders
<1> QED BY <1>7 DEF StoreStep, Store!Next

LEMMA PublishStep ==
    ASSUME PinInv, NEW r \in Run, NEW k \in Key, Publish(r, k)
    PROVE  StoreStep
<1>0. TypeOK
    BY DEF PinInv, FilesInv
<1>1. <<k, r>> \in Generation
    BY DEF Generation
<1>2. /\ UNCHANGED <<now, born, pc, consumed, ready, lease, sel>>
      /\ pc[r] \in Preparing
      /\ state[<<k, r>>] = "absent" /\ state' = [state EXCEPT ![<<k, r>>] = "good"]
    BY DEF Publish, At, Preparing
<1>3. Phase' = Phase /\ Given' = Given
    BY <1>2, PrepareWrites
<1>4. Pinned' = Pinned
    BY <1>2 DEF Pinned
<1>5. Readable' = Readable \cup {<<k, r>>} /\ <<k, r>> \notin Readable
    <2> DEFINE n == <<k, r>>
    <2>1. n \in Generation /\ state[n] = "absent" /\ state' = [state EXCEPT ![n] = "good"]
        BY <1>1, <1>2
    <2> HIDE DEF n
    <2>2. \A g \in Generation : state'[g] = "good" <=> state[g] = "good" \/ g = n
        BY <1>0, <2>1 DEF TypeOK
    <2>3. Readable' = Readable \cup {n} /\ n \notin Readable
        BY <2>1, <2>2 DEF Readable
    <2> QED BY <2>3 DEF n
<1>6. Store!Publish(<<k, r>>)
    BY <1>2, <1>3, <1>4, <1>5 DEF Store!Publish, Store!holders
<1> QED BY <1>1, <1>6 DEF StoreStep, Store!Next

LEMMA PinStep ==
    ASSUME StoreInv, NEW r \in Run, NEW k \in Key, Pin(r, k)
    PROVE  StoreStep
<1> USE KeyAssumption
<1> DEFINE t == TagOf[k]
           g == sel[r][k]
<1>0. TypeOK
    BY DEF StoreInv, PinInv, FilesInv
<1>1. /\ UNCHANGED <<now, born, pc, consumed, ready, state, sel>>
      /\ pc[r] \in {"probe", "publish"} /\ step[r][k] = "found"
      /\ lease' = [lease EXCEPT ![t][r].refs = @ \union {g}]
      /\ \E c \in Reading : c < Expires(r)
    BY DEF Pin
<1>2. g \in Generation /\ g \in Readable
    <2>1. g \in Generation
        BY <1>0, <1>1 DEF TypeOK, Generation
    <2> QED BY <1>1, <2>1 DEF StoreInv, PinInv, FilesInv, FoundGood, Secured, Readable
<1>3. Phase' = Phase /\ Given' = Given
    BY <1>1, PrepareWrites DEF Preparing
<1>4. Readable' = Readable
    BY <1>1 DEF Readable
<1>5. Phase[r] = "open"
    <2>1. ~(now >= Expires(r))
        BY <1>0, <1>1, TimeAssumption DEF Reading, Expires, TypeOK
    <2>2. r \notin consumed
        BY <1>1 DEF StoreInv, FreshInv, Preparing
    <2> QED BY <1>1, <2>1, <2>2 DEF Phase, HasSelection, Waiting, Restoring
<1>6. Pinned' = [Pinned EXCEPT ![r] = @ \cup {g}]
    <2> DEFINE record == lease[t][r]
    <2>1. /\ lease' = [lease EXCEPT ![t][r] = [record EXCEPT !.refs = @ \union {g}]]
          /\ record \in [refs: SUBSET Generation, sealed: BOOLEAN] /\ t \in Tag
        BY <1>0, <1>1 DEF TypeOK
    <2> HIDE DEF t, g, record
    <2>2. [record EXCEPT !.refs = @ \union {g}].refs = record.refs \union {g}
        BY <2>1
    <2>3. lease'[t][r].refs = lease[t][r].refs \union {g}
        BY <1>0, <2>1, <2>2 DEF TypeOK, record
    <2>4. \A q \in Run, u \in Tag : q # r \/ u # t => lease'[u][q] = lease[u][q]
        BY <1>0, <2>1 DEF TypeOK
    <2>6. Pinned'[r] = Pinned[r] \cup {g}
        <3>1. \A x : x \in Pinned'[r] <=> \E u \in Tag : x \in lease'[u][r].refs
            BY DEF Pinned
        <3>2. \A x : x \in Pinned'[r] <=> x \in Pinned[r] \/ x = g
            BY <2>1, <2>3, <2>4, <3>1, PinnedBy
        <3> QED BY <3>2
    <2>7. \A q \in Run \ {r} : Pinned'[q] = Pinned[q]
        <3> SUFFICES ASSUME NEW q \in Run \ {r} PROVE Pinned'[q] = Pinned[q]
            OBVIOUS
        <3>1. \A u \in Tag : lease'[u][q].refs = lease[u][q].refs
            BY <2>4
        <3>2. {lease'[u][q].refs : u \in Tag} = {lease[u][q].refs : u \in Tag}
            BY <3>1
        <3> QED BY <3>2 DEF Pinned
    <2>5. Pinned' = [q \in Run |-> Pinned'[q]] /\ Pinned = [q \in Run |-> Pinned[q]]
        BY DEF Pinned
    <2> QED BY <2>5, <2>6, <2>7
<1>7. Store!Pin(r, g)
    BY <1>1, <1>2, <1>3, <1>4, <1>5, <1>6 DEF Store!Pin
<1> QED BY <1>2, <1>7 DEF StoreStep, Store!Next

LEMMA BeginStep ==
    ASSUME StoreInv, NEW r \in Run, Begin(r)
    PROVE  StoreStep
<1>0. TypeOK
    BY DEF StoreInv, PinInv, FilesInv
<1>1. /\ UNCHANGED <<now, files, sel, consumed>>
      /\ pc[r] = "new" /\ pc'[r] = "probe" /\ r \notin consumed
      /\ \A q \in Run \ {r} : pc'[q] = pc[q] /\ born'[q] = born[q]
    BY <1>0 DEF Begin, StoreInv, FreshInv, TypeOK
<1>2. \A q \in Run \ {r} : SameView(q)
    BY <1>1 DEF SameView, HasSelection
<1>3. Phase[r] = "idle" /\ Phase'[r] \in {"open", "ended"}
    BY <1>1 DEF Phase, HasSelection, Waiting, Restoring
<1>4. Given'[r] = Given[r]
    BY <1>1 DEF Given, HasSelection, Waiting, Restoring
<1>5. Phase' = [Phase EXCEPT ![r] = Phase'[r]]
    BY <1>2, OneView
<1>6. Given' = Given
    BY <1>2, <1>4, OneView DEF Given
<1>7. Pinned' = Pinned /\ Readable' = Readable /\ ready' = ready
    BY <1>1 DEF Pinned, Readable, files
<1>8. Store!Open(r)
    BY <1>3, <1>5, <1>6, <1>7 DEF Store!Open
<1> QED BY <1>8 DEF StoreStep, Store!Next

\* A prune of a tag is a collection: what it unpins is of runs whose lease has ended.
LEMMA PruneCollects ==
    ASSUME StoreInv, Skew <= Allowance, NEW t \in Tag, NEW c \in Reading,
           NEW protected, NEW deleted, NEW torn,
           PruneTag(t, c, protected, deleted, torn),
           Phase' = Phase, Given' = Given
    PROVE  StoreStep
<1>0. TypeOK /\ FilesInv
    BY DEF StoreInv, PinInv, FilesInv
<1>1. /\ \A u \in Tag, q \in Run : lease'[u][q].refs \subseteq lease[u][q].refs
      /\ \A u \in Tag, q \in Run : \A g \in lease'[u][q].refs : state'[g] = state[g]
      /\ ready[t] # NoOne => state'[ready[t]] = state[ready[t]]
      /\ \A g \in Generation : TagOf[g[1]] # t => state'[g] = state[g]
    BY <1>0, PruneSpares
<1>2. \A u \in Tag, q \in Run : lease'[u][q] = lease[u][q] \/ now >= Expires(q)
    BY <1>0, PruneKeepsLive
<1>3. ready' = ready
    BY DEF PruneTag
<1>4. Pinned' \in [Run -> SUBSET Generation]
    <2>1. \A u \in Tag, q \in Run : lease'[u][q].refs \subseteq Generation
        BY <1>0, <1>1 DEF TypeOK
    <2> QED BY <2>1 DEF Pinned
<1>5. ASSUME NEW q \in Run
      PROVE  \/ Pinned'[q] = Pinned[q]
             \/ Phase[q] \in {"done", "ended"} /\ Pinned'[q] \subseteq Pinned[q]
    <2>1. CASE ~(now >= Expires(q))
        <3>1. \A u \in Tag : lease'[u][q].refs = lease[u][q].refs
            BY <1>2, <2>1
        <3>2. {lease'[u][q].refs : u \in Tag} = {lease[u][q].refs : u \in Tag}
            BY <3>1
        <3> QED BY <3>2 DEF Pinned
    <2>2. CASE pc[q] = "new"
        <3>1. \A u \in Tag : lease[u][q].refs = {}
            BY <2>2 DEF StoreInv, FreshInv
        <3>2. \A u \in Tag : lease'[u][q].refs = lease[u][q].refs
            BY <1>1, <3>1
        <3>3. {lease'[u][q].refs : u \in Tag} = {lease[u][q].refs : u \in Tag}
            BY <3>2
        <3> QED BY <3>3 DEF Pinned
    <2>3. CASE now >= Expires(q) /\ pc[q] # "new"
        <3>1. Phase[q] \in {"done", "ended"}
            BY <2>3 DEF Phase
        <3>2. Pinned'[q] \subseteq Pinned[q]
            BY <1>1 DEF Pinned
        <3> QED BY <3>1, <3>2
    <2> QED BY <2>1, <2>2, <2>3
<1>6. Readable' \subseteq Readable
    BY DEF PruneTag, Reclaimable, Readable
<1>7. ASSUME NEW g \in Readable \ Readable'
      PROVE  (\A u \in Tag : ready[u] # g) /\ (\A q \in Run : g \notin Pinned'[q])
    <2>1. g \in Generation /\ state[g] = "good" /\ state'[g] # "good"
        BY <1>7 DEF Readable
    <2>2. \A u \in Tag : ready[u] # g
        <3> SUFFICES ASSUME NEW u \in Tag, ready[u] = g PROVE FALSE
            OBVIOUS
        <3>1. ready[u] # NoOne
            BY <2>1, KeyAssumption
        <3>2. TagOf[g[1]] = u
            BY <1>0, <3>1 DEF FilesInv, ReadyGood
        <3>3. u = t
            BY <1>1, <2>1, <3>2
        <3> QED BY <1>1, <2>1, <3>1, <3>3
    <2>3. \A u \in Tag, q \in Run : g \notin lease'[u][q].refs
        BY <1>1, <2>1
    <2> QED BY <2>2, <2>3 DEF Pinned
<1>8. Store!Collect
    BY <1>3, <1>4, <1>5, <1>6, <1>7 DEF Store!Collect
<1> QED BY <1>8 DEF StoreStep, Store!Next

\* The prunes, and the release of a lease after the last copy.
LEMMA CollectSteps ==
    ASSUME StoreInv, Skew <= Allowance
    PROVE  /\ \A r \in Run, t \in Tag : Prune(r, t) \/ PruneCut(r, t) \/ Release(r, t) => StoreStep
           /\ \A t \in Tag : PruneCommand(t) => StoreStep
<1>0. TypeOK
    BY DEF StoreInv, PinInv, FilesInv
<1>1. ASSUME NEW r \in Run, NEW t \in Tag, Prune(r, t) PROVE StoreStep
    <2>1. PICK c \in Reading :
             PruneTag(t, c, Chosen(r, t), Reclaimable(t, c, Chosen(r, t)), {})
        BY <1>1 DEF Prune
    <2>2. /\ pc[r] = "prune" /\ Advance(r, {k \in Key : TagOf[k] = t}, "seal")
          /\ UNCHANGED <<now, born, sel, consumed>>
        BY <1>1 DEF Prune
    <2>3. pc'[r] \in {"prune", "seal"} /\ \A q \in Run \ {r} : pc'[q] = pc[q]
        BY <1>0, <2>2, JobSteps
    <2>4. \A q \in Run : SameView(q)
        BY <2>2, <2>3 DEF SameView, HasSelection, Waiting, Restoring
    <2>5. Phase' = Phase /\ Given' = Given
        BY <2>4, ViewsStay
    <2> QED BY <2>1, <2>5, PruneCollects
<1>2. ASSUME NEW r \in Run, NEW t \in Tag, PruneCut(r, t) PROVE StoreStep
    <2>1. PICK c, deleted, torn : c \in Reading /\ PruneTag(t, c, Chosen(r, t), deleted, torn)
        BY <1>2 DEF PruneCut, PruneUntil
    <2>2. pc[r] = "prune" /\ Forget(r) /\ UNCHANGED <<now, born, consumed>>
        BY <1>2 DEF PruneCut
    <2>3. pc'[r] = "failed" /\ \A q \in Run \ {r} : pc'[q] = pc[q] /\ sel'[q] = sel[q]
        BY <1>0, <2>2, JobSteps
    <2>4. \A q \in Run : SameView(q)
        BY <2>2, <2>3 DEF SameView, HasSelection, Waiting, Restoring
    <2>5. Phase' = Phase /\ Given' = Given
        BY <2>4, ViewsStay
    <2> QED BY <2>1, <2>5, PruneCollects
<1>3. ASSUME NEW t \in Tag, PruneCommand(t) PROVE StoreStep
    <2>1. PICK c, deleted, torn : c \in Reading /\ PruneTag(t, c, {}, deleted, torn)
        BY <1>3 DEF PruneCommand, PruneUntil
    <2>2. \A q \in Run : SameView(q)
        BY <1>3 DEF PruneCommand, local, SameView, HasSelection
    <2>3. Phase' = Phase /\ Given' = Given
        BY <2>2, ViewsStay
    <2> QED BY <2>1, <2>3, PruneCollects
<1>4. ASSUME NEW r \in Run, NEW t \in Tag, Release(r, t) PROVE StoreStep
    <2>1. /\ pc[r] = "release" /\ Advance(r, {k \in Key : TagOf[k] = t}, "restored")
          /\ lease' = [lease EXCEPT ![t][r] = NoLease]
          /\ UNCHANGED <<now, state, ready, born, sel, consumed>>
        BY <1>4 DEF Release
    <2>2. r \in consumed
        BY <2>1 DEF StoreInv, PinInv, RunInv, StageInv
    <2>3. pc'[r] \in {"release", "restored"} /\ \A q \in Run \ {r} : pc'[q] = pc[q]
        BY <1>0, <2>1, JobSteps
    <2>4. \A q \in Run : SameView(q)
        BY <2>1, <2>3 DEF SameView, HasSelection, Restoring
    <2>5. Phase' = Phase /\ Given' = Given /\ Phase[r] = "done"
        BY <2>1, <2>2, <2>4, ViewsStay DEF Phase
    <2>6. Readable' = Readable
        BY <2>1 DEF Readable
    <2>7. \A u \in Tag, q \in Run :
             /\ lease'[u][q].refs \subseteq lease[u][q].refs
             /\ q # r => lease'[u][q] = lease[u][q]
        BY <1>0, <2>1 DEF TypeOK, NoLease
    <2>8. \A q \in Run : Pinned'[q] \subseteq Pinned[q]
        BY <2>7 DEF Pinned
    <2>9. ASSUME NEW q \in Run \ {r} PROVE Pinned'[q] = Pinned[q]
        <3>1. {lease'[u][q].refs : u \in Tag} = {lease[u][q].refs : u \in Tag}
            BY <2>7
        <3> QED BY <3>1 DEF Pinned
    <2>10. Pinned' \in [Run -> SUBSET Generation]
        <3>1. \A u \in Tag, q \in Run : lease'[u][q].refs \subseteq Generation
            BY <1>0, <2>7 DEF TypeOK
        <3> QED BY <3>1 DEF Pinned
    <2>11. Store!Collect
        BY <2>1, <2>5, <2>6, <2>8, <2>9, <2>10 DEF Store!Collect
    <2> QED BY <2>11 DEF StoreStep, Store!Next
<1> QED BY <1>1, <1>2, <1>3, <1>4

\* All of a sealed selection is pinned and good while its run relies on it.
LEMMA SelectionHeld ==
    ASSUME StoreInv, Skew <= Allowance, NEW r \in Run,
           pc[r] \in Handed \union {"revalidate"}, Needs(r)
    PROVE  /\ {sel[r][k] : k \in Plan[r]} # {}
           /\ {sel[r][k] : k \in Plan[r]} \subseteq Generation
           /\ {sel[r][k] : k \in Plan[r]} \subseteq Pinned[r] \cap Readable
<1> USE KeyAssumption
<1>0. TypeOK
    BY DEF StoreInv, PinInv, FilesInv
<1>1. ASSUME NEW k \in Plan[r]
      PROVE  sel[r][k] \in Generation /\ sel[r][k] \in Pinned[r] /\ sel[r][k] \in Readable
    <2>1. k \in Key /\ TagOf[k] \in Tag
        OBVIOUS
    <2>2. step[r][k] = "pinned"
        BY DEF StoreInv, PinInv, RunInv, StageInv
    <2>3. sel[r][k] \in lease[TagOf[k]][r].refs
        BY <2>1, <2>2 DEF StoreInv, PinInv, RunInv, HeldInv
    <2>4. sel[r][k] \in Generation
        BY <1>0, <2>1, <2>2 DEF TypeOK, Generation
    <2>5. state[sel[r][k]] = "good"
        BY <2>1, <2>3 DEF StoreInv, PinInv, FilesInv, RefsGood
    <2> QED BY <2>1, <2>3, <2>4, <2>5, PinnedBy DEF Readable
<1>2. {sel[r][k] : k \in Plan[r]} # {}
    <2>1. PICK k \in Plan[r] : TRUE
        OBVIOUS
    <2>2. sel[r][k] \in {sel[r][j] : j \in Plan[r]}
        BY <2>1
    <2> QED BY <2>2
<1>3. /\ {sel[r][k] : k \in Plan[r]} \subseteq Generation
      /\ {sel[r][k] : k \in Plan[r]} \subseteq Pinned[r] \cap Readable
    BY <1>1
<1> QED BY <1>2, <1>3

\* The second validation hands the selection over, the last copy completes its use.
LEMMA HandStep ==
    ASSUME StoreInv, Skew <= Allowance, NEW r \in Run, NEW k \in Key,
           Validate(r, k, "revalidate", "selected")
    PROVE  StoreStep
<1>0. TypeOK
    BY DEF StoreInv, PinInv, FilesInv
<1> DEFINE items == {sel[r][j] : j \in Plan[r]}
<1>1. /\ pc[r] = "revalidate" /\ Advance(r, {k}, "selected")
      /\ UNCHANGED <<now, files, born, sel, consumed>>
      /\ \E c \in Reading : c < Expires(r)
    BY DEF Validate, Usable
<1>2. pc'[r] \in {"revalidate", "selected"} /\ \A q \in Run \ {r} : pc'[q] = pc[q]
    BY <1>0, <1>1, JobSteps
<1>3. CASE pc'[r] = "revalidate"
    <2>1. pc[r] \in Preparing /\ pc'[r] \in Preparing
        BY <1>1, <1>3 DEF Preparing
    <2> QED BY <1>1, <1>2, <2>1, Quiet DEF files
<1>4. CASE pc'[r] = "selected"
    <2>1. Needs(r)
        <3>1. now < Expires(r)
            BY <1>0, <1>1, TimeAssumption DEF Reading, Expires, TypeOK
        <3> QED BY <1>1, <3>1 DEF StoreInv, FreshInv, Preparing, Needs
    <2>2. items # {} /\ items \subseteq Generation /\ items \subseteq Pinned[r] \cap Readable
        BY <1>1, <2>1, SelectionHeld
    <2>3. \A q \in Run \ {r} : SameView(q)
        BY <1>1, <1>2 DEF SameView, HasSelection
    <2>4. HasSelection(r)' /\ ~HasSelection(r)
        BY <1>1, <1>4 DEF HasSelection, Waiting, Restoring
    <2>5. Given'[r] = items
        BY <1>1, <2>4 DEF Given
    <2>6. ~(now >= Expires(r)) /\ ~(now >= Expires(r))' /\ r \notin consumed'
        BY <1>0, <1>1, <2>1, TimeAssumption DEF Needs, Expires, TypeOK
    <2>7. Phase[r] = "open" /\ Phase'[r] = "handed"
        BY <1>1, <1>4, <2>1, <2>4, <2>6 DEF Phase, Needs
    <2>8. Phase' = [Phase EXCEPT ![r] = "handed"] /\ Given' = [Given EXCEPT ![r] = items]
        BY <2>3, <2>5, <2>7, OneView
    <2>9. Pinned' = Pinned /\ Readable' = Readable /\ ready' = ready
        BY <1>1 DEF Pinned, Readable, files
    <2> HIDE DEF items
    <2>10. Store!Hand(r, items)
        BY <2>2, <2>7, <2>8, <2>9 DEF Store!Hand
    <2> QED BY <2>2, <2>10 DEF StoreStep, Store!Next
<1> QED BY <1>2, <1>3, <1>4

LEMMA FinishStep ==
    ASSUME StoreInv, Skew <= Allowance, NEW r \in Run, NEW k \in Key, Restore(r, k)
    PROVE  StoreStep
<1>0. TypeOK
    BY DEF StoreInv, PinInv, FilesInv
<1>1. /\ pc[r] = "restore" /\ Advance(r, {k}, "release")
      /\ UNCHANGED <<now, files, born, sel>>
      /\ consumed' = IF left[r] = {k} THEN consumed \union {r} ELSE consumed
      /\ \E c \in Reading : c < Expires(r)
    BY DEF Restore, Usable
<1>2. pc'[r] \in {"restore", "release"} /\ \A q \in Run \ {r} : pc'[q] = pc[q]
    BY <1>0, <1>1, JobSteps
<1>3. HasSelection(r) /\ HasSelection(r)'
    BY <1>1, <1>2 DEF HasSelection, Restoring
<1>4. CASE consumed' = consumed
    BY <1>1, <1>2, <1>3, <1>4, Quiet DEF files
<1>5. CASE r \notin consumed /\ consumed' = consumed \union {r}
    <2>1. ~(now >= Expires(r)) /\ now < Expires(r)
        BY <1>0, <1>1, TimeAssumption DEF Reading, Expires, TypeOK
    <2>2. Needs(r)
        BY <1>5, <2>1 DEF Needs
    <2>3. Given[r] \subseteq Pinned[r] \cap Readable
        BY <1>1, <1>3, <2>2, SelectionHeld DEF Given, Handed
    <2>4. \A q \in Run \ {r} : SameView(q)
        BY <1>1, <1>2, <1>5 DEF SameView, HasSelection
    <2>5. Given'[r] = Given[r]
        BY <1>1, <1>3 DEF Given
    <2>6. Phase[r] = "handed" /\ Phase'[r] = "done"
        BY <1>1, <1>2, <1>3, <1>5, <2>1 DEF Phase
    <2>7. Phase' = [Phase EXCEPT ![r] = "done"] /\ Given' = Given
        BY <2>4, <2>5, <2>6, OneView DEF Given
    <2>8. Pinned' = Pinned /\ Readable' = Readable /\ ready' = ready
        BY <1>1 DEF Pinned, Readable, files
    <2>9. Store!Finish(r)
        BY <2>3, <2>6, <2>7, <2>8 DEF Store!Finish
    <2> QED BY <2>9 DEF StoreStep, Store!Next
<1>6. consumed' = consumed \/ (r \notin consumed /\ consumed' = consumed \union {r})
    BY <1>1
<1> QED BY <1>4, <1>5, <1>6

\* The leases that end with a tick.
LEMMA EndStep ==
    ASSUME StoreInv, Tick
    PROVE  StoreStep
<1>0. TypeOK
    BY DEF StoreInv, PinInv, FilesInv
<1> DEFINE hs == {r \in Run : Phase'[r] # Phase[r]}
<1>1. now' = now + 1 /\ UNCHANGED <<files, born, pc, sel, consumed>>
    BY DEF Tick, local
<1>2. \A r \in Run : now >= Expires(r) => (now >= Expires(r))'
    BY <1>0, <1>1, TimeAssumption DEF Expires, TypeOK
<1>3. \A r \in hs : Phase[r] \in {"open", "handed"} /\ Phase'[r] = "ended"
    BY <1>1, <1>2 DEF Phase, HasSelection
<1>4. Phase' = [r \in Run |-> IF r \in hs THEN "ended" ELSE Phase[r]]
    <2>1. Phase' = [r \in Run |-> Phase'[r]]
        BY DEF Phase
    <2> QED BY <1>3, <2>1
<1>5. Pinned' = Pinned /\ Readable' = Readable /\ ready' = ready /\ Given' = Given
    BY <1>1 DEF Pinned, Readable, files, Given, HasSelection
<1> HIDE DEF hs
<1>6. hs \in SUBSET Run
    BY DEF hs
<1>7. Store!End(hs)
    BY <1>3, <1>4, <1>5 DEF Store!End
<1> QED BY <1>6, <1>7 DEF StoreStep, Store!Next

\* What FreshInv says of a run stays true: a run leaves "new" by its beginning, has pins only
\* from then on, and is restored only by a restore job.
LEMMA StepFresh ==
    ASSUME StoreInv, [Next]_vars, NEW q \in Run
    PROVE  FreshInv(q)'
<1> DEFINE Early == Preparing \union {"new", "failed"}
           Stays == /\ pc'[q] = "new" => pc[q] = "new"
                    /\ pc'[q] \in Early => pc[q] \in Early
                    /\ pc[q] = "new" => \A t \in Tag : lease'[t][q].refs \subseteq lease[t][q].refs
                    /\ q \in consumed' => q \in consumed \/ pc'[q] \notin Early
<1>0. TypeOK /\ TypeOK'
    BY StepTypes DEF StoreInv, PinInv, FilesInv
<1> USE DEF Preparing, Waiting, Restoring
<1>1. ASSUME Stays PROVE FreshInv(q)'
    BY <1>1 DEF StoreInv, FreshInv
<1>2. ASSUME UNCHANGED <<lease, pc, consumed>> PROVE Stays
    BY <1>2
<1>3. ASSUME NEW r \in Run, Begin(r) PROVE Stays
    BY <1>0, <1>3 DEF Begin, TypeOK, files
<1>4. ASSUME NEW r \in Run, EndProbes(r) \/ EndPublish(r) \/ StartRestore(r) \/ Interrupt(r)
      PROVE  Stays
    <2>1. UNCHANGED <<lease, consumed>>
        BY <1>4 DEF EndProbes, EndPublish, StartRestore, Interrupt, files
    <2>2. /\ pc'[q] = "new" => pc[q] = "new"
          /\ pc'[q] \in Early => pc[q] \in Early
        BY <1>0, <1>4 DEF EndProbes, EndPublish, StartRestore, Interrupt, TypeOK
    <2> QED BY <2>1, <2>2
<1>5. ASSUME NEW r \in Run, Abort(r) PROVE Stays
    <2>1. Forget(r) /\ pc[r] \in Preparing /\ UNCHANGED <<lease, consumed>>
        BY <1>5 DEF Abort, files
    <2>2. /\ pc'[q] = "new" => pc[q] = "new"
          /\ pc'[q] \in Early => pc[q] \in Early
        BY <1>0, <2>1, JobSteps
    <2> QED BY <2>1, <2>2
<1>6. ASSUME NEW r \in Run, NEW k \in Key,
             Probe(r, k) \/ Miss(r, k) \/ Warm(r, k) \/ Publish(r, k) \/ WriteReady(r, k)
      PROVE  Stays
    <2>1. UNCHANGED <<lease, pc, consumed>>
        BY <1>6 DEF Probe, Miss, Warm, Publish, WriteReady, files
    <2> QED BY <1>2, <2>1
<1>7. ASSUME NEW r \in Run, NEW k \in Key, Pin(r, k) PROVE Stays
    <2>1. /\ pc[r] # "new" /\ UNCHANGED <<pc, consumed>>
          /\ lease' = [lease EXCEPT ![TagOf[k]][r].refs = @ \union {sel[r][k]}]
        BY <1>7 DEF Pin
    <2>2. \A t \in Tag : q # r => lease'[t][q] = lease[t][q]
        BY <1>0, <2>1, KeyAssumption DEF TypeOK
    <2> QED BY <2>1, <2>2
<1>8. ASSUME NEW r \in Run, NEW visited, NEW next \in Stage \ {"new"},
             Advance(r, visited, next), pc[r] # "new", next \in Early => pc[r] \in Early
      PROVE  /\ pc'[q] = "new" => pc[q] = "new"
             /\ pc'[q] \in Early => pc[q] \in Early
    BY <1>0, <1>8, JobSteps
<1>9. ASSUME NEW t \in Tag, NEW c, NEW protected, NEW deleted, NEW torn,
             PruneTag(t, c, protected, deleted, torn)
      PROVE  \A u \in Tag : lease'[u][q].refs \subseteq lease[u][q].refs
    BY <1>9, PruneSpares DEF StoreInv, PinInv
<1>10. ASSUME NEW r \in Run, NEW t \in Tag, Prune(r, t) PROVE Stays
    <2>1. /\ pc[r] = "prune" /\ Advance(r, {k \in Key : TagOf[k] = t}, "seal")
          /\ consumed' = consumed
          /\ \E c \in Reading :
                PruneTag(t, c, Chosen(r, t), Reclaimable(t, c, Chosen(r, t)), {})
        BY <1>10 DEF Prune
    <2>2. /\ pc'[q] = "new" => pc[q] = "new"
          /\ pc'[q] \in Early => pc[q] \in Early
        BY <1>8, <2>1 DEF Stage
    <2> QED BY <1>9, <2>1, <2>2
<1>11. ASSUME NEW r \in Run, NEW t \in Tag, PruneCut(r, t) PROVE Stays
    <2>1. /\ pc[r] = "prune" /\ Forget(r) /\ consumed' = consumed
          /\ \E c, deleted, torn : PruneTag(t, c, Chosen(r, t), deleted, torn)
        BY <1>11 DEF PruneCut, PruneUntil
    <2>2. /\ pc'[q] = "new" => pc[q] = "new"
          /\ pc'[q] \in Early => pc[q] \in Early
        BY <1>0, <2>1, JobSteps
    <2> QED BY <1>9, <2>1, <2>2
<1>12. ASSUME NEW t \in Tag, PruneCommand(t) PROVE Stays
    <2>1. /\ UNCHANGED <<pc, consumed>>
          /\ \E c, deleted, torn : PruneTag(t, c, {}, deleted, torn)
        BY <1>12 DEF PruneCommand, PruneUntil, local
    <2> QED BY <1>9, <2>1
<1>13. ASSUME NEW r \in Run, NEW t \in Tag, Seal(r, t) PROVE Stays
    <2>1. /\ pc[r] = "seal" /\ Advance(r, {k \in Key : TagOf[k] = t}, "validate")
          /\ consumed' = consumed /\ lease' = [lease EXCEPT ![t][r].sealed = TRUE]
        BY <1>13 DEF Seal
    <2>2. \A u \in Tag : lease'[u][q].refs = lease[u][q].refs
        BY <1>0, <2>1 DEF TypeOK
    <2>3. /\ pc'[q] = "new" => pc[q] = "new"
          /\ pc'[q] \in Early => pc[q] \in Early
        BY <1>8, <2>1 DEF Stage
    <2> QED BY <2>1, <2>2, <2>3
<1>14. ASSUME NEW r \in Run, NEW k \in Key,
              \/ Validate(r, k, "validate", "revalidate")
              \/ Validate(r, k, "revalidate", "selected")
              \/ Validate(r, k, "verify", "restore")
       PROVE  Stays
    <2>1. UNCHANGED <<lease, consumed>>
        BY <1>14 DEF Validate, files
    <2>2. \/ pc[r] = "validate" /\ Advance(r, {k}, "revalidate")
          \/ pc[r] = "revalidate" /\ Advance(r, {k}, "selected")
          \/ pc[r] = "verify" /\ Advance(r, {k}, "restore")
        BY <1>14 DEF Validate
    <2>3. /\ pc'[q] = "new" => pc[q] = "new"
          /\ pc'[q] \in Early => pc[q] \in Early
        BY <1>8, <2>2 DEF Stage
    <2> QED BY <2>1, <2>3
<1>15. ASSUME NEW r \in Run, NEW k \in Key, Restore(r, k) PROVE Stays
    <2>1. /\ pc[r] = "restore" /\ Advance(r, {k}, "release") /\ lease' = lease
          /\ consumed' \subseteq consumed \union {r}
        BY <1>15 DEF Restore, files
    <2>2. /\ pc'[q] = "new" => pc[q] = "new"
          /\ pc'[q] \in Early => pc[q] \in Early
        BY <1>8, <2>1 DEF Stage
    <2> QED BY <2>1, <2>2
<1>16. ASSUME NEW r \in Run, NEW t \in Tag, Release(r, t) PROVE Stays
    <2>1. /\ pc[r] = "release" /\ Advance(r, {k \in Key : TagOf[k] = t}, "restored")
          /\ consumed' = consumed /\ lease' = [lease EXCEPT ![t][r] = NoLease]
        BY <1>16 DEF Release
    <2>2. \A u \in Tag : lease'[u][q].refs \subseteq lease[u][q].refs
        BY <1>0, <2>1 DEF TypeOK, NoLease
    <2>3. /\ pc'[q] = "new" => pc[q] = "new"
          /\ pc'[q] \in Early => pc[q] \in Early
        BY <1>8, <2>1 DEF Stage
    <2> QED BY <2>1, <2>2, <2>3
<1>17. ASSUME Tick \/ UNCHANGED vars PROVE Stays
    <2>1. UNCHANGED <<lease, pc, consumed>>
        BY <1>17 DEF Tick, vars, files, local
    <2> QED BY <1>2, <2>1
<1> HIDE DEF Stays
<1>18. Stays
    BY <1>3, <1>4, <1>5, <1>6, <1>7, <1>10, <1>11, <1>12, <1>13, <1>14, <1>15, <1>16, <1>17
       DEF Next, PrepareStep, RestoreStep
<1> QED BY <1>1, <1>18 DEF Stays

LEMMA StoreInvariant == Spec => []StoreInv
<1>1. Init => StoreInv
    <2>1. Init => \A r \in Run : FreshInv(r)
        BY DEF Init, FreshInv, NoLease
    <2> QED BY <2>1, InitPins DEF StoreInv
<1>2. StoreInv /\ [Next]_vars => StoreInv'
    <2>1. StoreInv /\ [Next]_vars => PinInv'
        BY StepPins DEF StoreInv
    <2>2. ASSUME StoreInv, [Next]_vars PROVE \A r \in Run : FreshInv(r)'
        BY <2>2, StepFresh
    <2> QED BY <2>1, <2>2 DEF StoreInv
<1> QED BY <1>1, <1>2, PTL DEF Spec

\* Every step of the cache is one of the store, or changes nothing of it.
LEMMA StepStore ==
    ASSUME Skew <= Allowance, StoreInv, [Next]_vars
    PROVE  StoreStep
<1>0. TypeOK /\ PinInv
    BY DEF StoreInv, PinInv, FilesInv
<1>1. ASSUME UNCHANGED vars PROVE StoreStep
    BY <1>1 DEF vars, files, local, StoreStep, Store!vars, Readable, Pinned, Given, Phase,
                HasSelection, Expires
<1>2. ASSUME NEW r \in Run, PrepareStep(r) PROVE StoreStep
    BY <1>0, <1>2, BeginStep, QuietSteps, HintSteps, PublishStep, PinStep, HandStep, CollectSteps
       DEF PrepareStep
<1>3. ASSUME NEW r \in Run, RestoreStep(r) PROVE StoreStep
    BY <1>0, <1>3, QuietSteps, FinishStep, CollectSteps DEF RestoreStep
<1> QED BY <1>0, <1>1, <1>2, <1>3, QuietSteps, CollectSteps, EndStep DEF Next

LEMMA InitStore == Init => Store!Init
<1> SUFFICES ASSUME Init PROVE Store!Init
    OBVIOUS
<1>1. Readable = {} /\ ready = [t \in Tag |-> NoOne]
    BY DEF Init, Readable
<1>2. Phase = [r \in Run |-> "idle"] /\ Given = [r \in Run |-> {}]
    BY DEF Init, Phase, Given, HasSelection, Waiting, Restoring
<1>3. \A r \in Run : UNION {lease[t][r].refs : t \in Tag} = {}
    BY DEF Init, NoLease
<1>4. Pinned = [r \in Run |-> {}]
    BY <1>3 DEF Pinned
<1> QED BY <1>1, <1>2, <1>4 DEF Store!Init

\* With clocks that differ by no more than the allowance the cache keeps what it promises to
\* the runs (idb_cache_leases.py, prune_tag, restore_cache_selection): what a run has pinned
\* stays readable, and its selection can be restored as a whole, until it was restored or its
\* lease has ended, whoever prunes, crashes or restores in between.
THEOREM CacheImplementsPinStore == Skew <= Allowance /\ Spec => ImplementsPinStore
<1> SUFFICES ASSUME Skew <= Allowance PROVE Spec => ImplementsPinStore
    OBVIOUS
<1>1. StoreInv /\ [Next]_vars => [Store!Next]_(Store!vars)
    BY StepStore DEF StoreStep
<1> QED BY <1>1, InitStore, StoreInvariant, PTL DEF Spec, ImplementsPinStore, Store!Spec
=============================================================================
