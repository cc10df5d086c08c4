----------------------------- MODULE ScanLedger -----------------------------
(* What the portal promises about an upload, without saying how: a scan is   *)
(* recorded, then has every document it came with, then is in the audit log, *)
(* and only then is acknowledged. Each stage is one step and none is undone. *)
(* An upload may stop at any stage: nothing here promises progress.          *)

CONSTANT Uploads   \* the uploads that may be made

VARIABLE phase     \* phase[u]: how far upload u has come

Phases == {"absent", "recorded", "complete", "audited", "acknowledged"}

TypeOK == phase \in [Uploads -> Phases]

Init == phase = [u \in Uploads |-> "absent"]

Advance(u, from, to) == /\ phase[u] = from
                        /\ phase' = [phase EXCEPT ![u] = to]

\* An upload without documents is complete as soon as it is recorded.
Record(u) == \E to \in {"recorded", "complete"} : Advance(u, "absent", to)
Complete(u) == Advance(u, "recorded", "complete")
Audit(u) == Advance(u, "complete", "audited")
Acknowledge(u) == Advance(u, "audited", "acknowledged")

Next == \E u \in Uploads : Record(u) \/ Complete(u) \/ Audit(u) \/ Acknowledge(u)

Spec == Init /\ [][Next]_phase
=============================================================================
