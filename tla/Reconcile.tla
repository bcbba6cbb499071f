----------------------------- MODULE Reconcile -----------------------------
(***************************************************************************)
(* GET /v1/promocodes/reconcile (modules/promocodes/index.ts:496) beside   *)
(* the checkouts of Promocodes.  reconcile sums the redemptions in one     *)
(* query and asks the ledger for one balance per party in others: under    *)
(* READ COMMITTED each sees what was committed when it ran.                *)
(***************************************************************************)
EXTENDS Promocodes

VARIABLE report   \* the reconcile request

allVars == <<vars, report>>

IdleReport == [pc |-> "idle", party |-> 0, settled |-> 0, reserved |-> 0,
               captured |-> 0, outstanding |-> 0]

RInit == Init /\ report = IdleReport

ReadRedemptions ==
  /\ report.pc = "idle"
  /\ report' = [IdleReport EXCEPT !.pc = "reading", !.party = 1,
                  !.settled = Amounts(InStatus("settled")), !.reserved = Amounts(InStatus("reserved"))]
  /\ UNCHANGED vars

Mutant_FirstPartyOnly ==
  /\ report.pc = "reading"
  /\ report' = [report EXCEPT !.pc = "reported", !.captured = Postings("capture", 1)]
  /\ UNCHANGED vars

ReadBalance ==
  LET i == report.party IN
  /\ report.pc = "reading"
  /\ report' = [report EXCEPT
       !.pc = IF i = Len(Shares) THEN "reported" ELSE "reading",
       !.party = i + 1,
       !.captured = @ + Postings("capture", i),
       !.outstanding = @ + Postings("hold", i) - Postings("capture", i) - Postings("release", i)]
  /\ UNCHANGED vars

ReportRead ==
  /\ report.pc = "reported"
  /\ report' = IdleReport
  /\ UNCHANGED vars

ReconcileRequest == ReadRedemptions \/ ReadBalance \/ ReportRead

RNext == (Next /\ UNCHANGED report) \/ ReconcileRequest

RSpec == RInit /\ [][RNext]_allVars

(* The fairness of Promocodes; nobody is bound to ask for a report. *)
RFairSpec == RSpec /\ \A x \in Expirer : WF_allVars(Expire(x) /\ UNCHANGED report)

---------------------------------------------------------------------------
(* Properties *)

(* What was settled is read before what was captured, and neither is ever  *)
(* taken back: however many checkouts commit in between, a report never    *)
(* says that more was settled than the ledger captured (reconcile).        *)
SettledIsCaptured == report.pc = "reported" => report.settled <= report.captured

(* API.md:841 "Reconcile whenever you like; both `agrees` should always be *)
(* true".                                                                  *)
ReconcileAgrees ==
  report.pc = "reported" =>
    report.settled = report.captured /\ report.reserved = report.outstanding
=============================================================================
