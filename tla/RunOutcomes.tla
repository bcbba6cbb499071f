---------------------------- MODULE RunOutcomes ----------------------------
(***************************************************************************)
(* What a campaign promises the people in its audience, and nothing of how *)
(* it goes about it: jobs, batches, retries, locks and the campaign's own  *)
(* status are gone.  A recipient of a run is decided at most once, for     *)
(* good, and a message is accepted in the very step that decides "queued". *)
(* A run is closed only when nobody in it is waiting; it completes once    *)
(* closed, and a run that is complete or stopped never opens again.        *)
(* (docs/API.md, Campaigns.)                                               *)
(***************************************************************************)
EXTENDS Naturals

CONSTANTS Run, Contact

VARIABLES
  phase,     \* of each run
  outcome,   \* of each contact in each run
  messages   \* messages accepted for each contact by each run

vars == <<phase, outcome, messages>>

Init ==
  /\ phase    = [r \in Run |-> "none"]
  /\ outcome  = [r \in Run |-> [k \in Contact |-> "none"]]
  /\ messages = [r \in Run |-> [k \in Contact |-> 0]]

Open(r) ==
  /\ phase[r] = "none"
  /\ phase' = [phase EXCEPT ![r] = "open"]
  /\ UNCHANGED <<outcome, messages>>

(* More of the audience is written down, also late: see README, finding    *)
(* late_snapshot.                                                          *)
Snapshot(r, added) ==
  /\ phase[r] /= "none"
  /\ UNCHANGED <<phase, messages>>
  /\ \A k \in added : outcome[r][k] = "none"
  /\ outcome' = [outcome EXCEPT ![r] = [k \in Contact |-> IF k \in added THEN "pending" ELSE @[k]]]

Decide(r, k, result) ==
  /\ outcome[r][k] = "pending"
  /\ outcome' = [outcome EXCEPT ![r][k] = result]
  /\ messages' = IF result = "queued" THEN [messages EXCEPT ![r][k] = 1] ELSE messages
  /\ UNCHANGED phase

(* Everybody in the run has been decided. *)
Close(r) ==
  /\ phase[r] = "open"
  /\ \A k \in Contact : outcome[r][k] /= "pending"
  /\ phase' = [phase EXCEPT ![r] = "closing"]
  /\ UNCHANGED <<outcome, messages>>

(* The attempt to complete it came to nothing. *)
Reopen(r) ==
  /\ phase[r] = "closing"
  /\ phase' = [phase EXCEPT ![r] = "open"]
  /\ UNCHANGED <<outcome, messages>>

(* Whoever was written down since it closed may still be waiting. *)
Complete(r) ==
  /\ phase[r] = "closing"
  /\ phase' = [phase EXCEPT ![r] = "complete"]
  /\ UNCHANGED <<outcome, messages>>

Active(r) == phase[r] \in {"open", "closing"}

(* A run failed: whoever is pending stays so. *)
Fail(r) ==
  /\ Active(r)
  /\ phase' = [phase EXCEPT ![r] = "stopped"]
  /\ UNCHANGED <<outcome, messages>>

(* Every active run among runs is cancelled at once, its pending skipped. *)
Cancel(runs) ==
  /\ \A r \in runs : Active(r)
  /\ phase' = [r \in Run |-> IF r \in runs THEN "stopped" ELSE phase[r]]
  /\ outcome' = [r \in Run |-> [k \in Contact |->
                   IF r \in runs /\ outcome[r][k] = "pending" THEN "skipped" ELSE outcome[r][k]]]
  /\ UNCHANGED messages

Next ==
  \/ \E r \in Run : \/ \E added \in SUBSET Contact : Snapshot(r, added)
                    \/ \E k \in Contact, result \in {"queued", "blocked", "skipped"} : Decide(r, k, result)
                    \/ Open(r) \/ Close(r) \/ Reopen(r) \/ Complete(r) \/ Fail(r)
  \/ \E runs \in SUBSET Run : Cancel(runs)

Spec == Init /\ [][Next]_vars
=============================================================================
