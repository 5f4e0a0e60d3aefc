------------------------------- MODULE Ledger -------------------------------
(***************************************************************************)
(* What ApprovalService._append and an EventStore together promise a       *)
(* caller, with no head reads, no conflicts and no retries in sight: one   *)
(* log, extended one event at a time, at most once per call.  A call that  *)
(* reports success has its event in the log, a call that gave up under     *)
(* contention has left nothing there, and a call cut short by any other    *)
(* error may have gone either way.                                         *)
(*                                                                         *)
(* AppendLoop implements this specification; ApprovalService builds on it. *)
(***************************************************************************)
EXTENDS Naturals, Sequences

CONSTANTS
    Writers,   \* the callers of _append: tasks of any number of processes
    Payloads   \* the events they append

VARIABLES
    ledger,    \* the events of one log, in seq order
    call       \* per writer: the state of its current or last call

vars == <<ledger, call>>

Outcomes == {"recorded", "exhausted", "failed"}

NotRunning == [state : {"idle"} \cup Outcomes]
Running == [state : {"running"}, payload : Payloads]

TypeOK ==
    /\ ledger \in Seq(Payloads)
    /\ call \in [Writers -> NotRunning \cup Running]

Init ==
    /\ ledger = <<>>
    /\ call = [w \in Writers |-> [state |-> "idle"]]

Start(w, p) ==
    /\ call[w].state # "running"
    /\ call' = [call EXCEPT ![w] = [state |-> "running", payload |-> p]]
    /\ UNCHANGED ledger

Finish(w, outcome) ==
    /\ call[w].state = "running"
    /\ call' = [call EXCEPT ![w] = [state |-> outcome]]

(* The event is in the log, and the caller knows it. *)
Record(w) ==
    /\ Finish(w, "recorded")
    /\ ledger' = Append(ledger, call[w].payload)

(* The event is in the log, but the caller never hears of it. *)
RecordUnheard(w) ==
    /\ Finish(w, "failed")
    /\ ledger' = Append(ledger, call[w].payload)

(* The call ends with nothing written: ConcurrencyExhausted, or a failure. *)
GiveUp(w) ==
    /\ \E outcome \in {"exhausted", "failed"} : Finish(w, outcome)
    /\ UNCHANGED ledger

Next ==
    \E w \in Writers :
        \/ \E p \in Payloads : Start(w, p)
        \/ Record(w)
        \/ RecordUnheard(w)
        \/ GiveUp(w)

Spec == Init /\ [][Next]_vars
=============================================================================
