------------------------------ MODULE PinStore ------------------------------
(***************************************************************************)
(* What the IDB cache promises to its holders, the workflow runs: what a   *)
(* holder pins stays readable until the holder is done with it or its time *)
(* has ended, so that the selection it was given can be used as a whole    *)
(* however late, by whomever, and whatever fails before; and a place never *)
(* names what is not readable.                                             *)
(***************************************************************************)
CONSTANTS Item, Holder, Place, None

VARIABLES good,   \* the items that can be read
          hint,   \* the item a place names, or None
          pins,   \* what each holder has pinned
          chosen, \* the selection a holder was given
          phase   \* of each holder: idle, open, handed, then done or ended

vars == <<good, hint, pins, chosen, phase>>
holders == <<pins, chosen, phase>>

Init == /\ good = {} /\ hint = [p \in Place |-> None]
        /\ pins = [h \in Holder |-> {}] /\ chosen = [h \in Holder |-> {}]
        /\ phase = [h \in Holder |-> "idle"]

Publish(i) == /\ i \notin good /\ good' = good \cup {i}
              /\ UNCHANGED <<hint, holders>>

Point(p, i) == /\ i \in good /\ hint' = [hint EXCEPT ![p] = i]
               /\ UNCHANGED <<good, holders>>

Open(h) == /\ phase[h] = "idle"
           /\ \E s \in {"open", "ended"} : phase' = [phase EXCEPT ![h] = s]
           /\ UNCHANGED <<good, hint, pins, chosen>>

\* Only a holder that nobody relies on yet pins, and only what can be read.
Pin(h, i) == /\ phase[h] = "open" /\ i \in good
             /\ pins' = [pins EXCEPT ![h] = @ \cup {i}]
             /\ UNCHANGED <<good, hint, chosen, phase>>

\* A selection is given to whoever comes with it later: all of it is pinned.
Hand(h, items) ==
    /\ phase[h] = "open" /\ phase' = [phase EXCEPT ![h] = "handed"]
    /\ items # {} /\ items \subseteq pins[h] \cap good
    /\ chosen' = [chosen EXCEPT ![h] = items]
    /\ UNCHANGED <<good, hint, pins>>

\* Its use is complete while all of it is still there.
Finish(h) ==
    /\ phase[h] = "handed" /\ phase' = [phase EXCEPT ![h] = "done"]
    /\ chosen[h] \subseteq pins[h] \cap good
    /\ UNCHANGED <<good, hint, pins, chosen>>

\* The time of some holders ends.
End(hs) ==
    /\ \A h \in hs : phase[h] \in {"open", "handed"}
    /\ phase' = [h \in Holder |-> IF h \in hs THEN "ended" ELSE phase[h]]
    /\ UNCHANGED <<good, hint, pins, chosen>>

\* What the done and the ended had pinned is unpinned; what is then neither pinned nor named
\* may go.
Collect ==
    /\ pins' \in [Holder -> SUBSET Item]
    /\ \A h \in Holder :
          pins'[h] = pins[h] \/ (phase[h] \in {"done", "ended"} /\ pins'[h] \subseteq pins[h])
    /\ good' \subseteq good
    /\ \A i \in good \ good' : (\A p \in Place : hint[p] # i) /\ (\A h \in Holder : i \notin pins'[h])
    /\ UNCHANGED <<hint, chosen, phase>>

Next ==
    \/ \E i \in Item : Publish(i) \/ (\E p \in Place : Point(p, i)) \/ (\E h \in Holder : Pin(h, i))
    \/ \E h \in Holder : Open(h) \/ Finish(h) \/ (\E items \in SUBSET Item : Hand(h, items))
    \/ \E hs \in SUBSET Holder : End(hs)
    \/ Collect

Spec == Init /\ [][Next]_vars
=============================================================================
