------------------------- MODULE IdempotencyContract -------------------------
(***************************************************************************)
(* What an IdempotencyStore promises about one key (stores/base.py,        *)
(* IdempotencyStore): reserve is one step, one caller at a time has won,   *)
(* the others learn of its result or are refused, and a row goes away      *)
(* under nobody who works on its strength.                                 *)
(***************************************************************************)
CONSTANTS
    Callers,      \* the calls that submit with this key, at any time
    Fingerprints  \* what they may mean by it

VARIABLES
    slot,    \* the row of the key, at most one: [fingerprint, done]
    outcome, \* per caller: the answer to its reserve - won, lost, replayed,
             \* conflict or failed; none as long as it has none
    meant    \* per caller: the fingerprint it reserves with

cvars == <<slot, outcome, meant>>

Init ==
    /\ slot = {}
    /\ outcome = [c \in Callers |-> "none"]
    /\ meant \in [Callers -> Fingerprints]

Answer(c, o) ==
    /\ outcome' = [outcome EXCEPT ![c] = o]
    /\ UNCHANGED meant

(* A caller makes up its mind. *)
Mean(c, fingerprint) ==
    /\ outcome[c] = "none"
    /\ meant' = [meant EXCEPT ![c] = fingerprint]
    /\ UNCHANGED <<slot, outcome>>

(* reserve: a free key is won, a taken one is looked up. *)
Reserve(c) ==
    /\ outcome[c] = "none"
    /\ \/ /\ slot = {}
          /\ slot' = {[fingerprint |-> meant[c], done |-> FALSE]}
          /\ Answer(c, "won")
       \/ \E row \in slot :
          /\ Answer(c, IF row.fingerprint # meant[c] THEN "conflict"
                       ELSE IF row.done THEN "replayed" ELSE "lost")
          /\ UNCHANGED slot

(* A store call may raise; then it did nothing. *)
Fail(c) ==
    /\ outcome[c] = "none"
    /\ Answer(c, "failed")
    /\ UNCHANGED slot

Complete(c) ==
    /\ outcome[c] = "won"
    /\ slot' = {[row EXCEPT !.done = TRUE] : row \in slot}
    /\ Answer(c, "none")

Release(c) ==
    /\ outcome[c] = "won"
    /\ slot' = {}
    /\ Answer(c, "none")

(* The caller has its answer and goes, or it crashed. *)
Leave(c) ==
    /\ outcome[c] # "none"
    /\ Answer(c, "none")
    /\ UNCHANGED slot

(* A row may go, but not while somebody has won it. *)
Lapse ==
    /\ slot # {}
    /\ \A c \in Callers : outcome[c] # "won"
    /\ slot' = {}
    /\ UNCHANGED <<outcome, meant>>

Next ==
    \/ \E c \in Callers :
          \/ \E fingerprint \in Fingerprints : Mean(c, fingerprint)
          \/ Reserve(c) \/ Fail(c) \/ Complete(c) \/ Release(c) \/ Leave(c)
    \/ Lapse

Spec == Init /\ [][Next]_cvars
=============================================================================
