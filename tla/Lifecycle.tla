----------------------------- MODULE Lifecycle -----------------------------
(***************************************************************************)
(* The two lifecycles of the federation: a member (one incarnation of an   *)
(* accelerator) and a migration plan.  The code keeps them as tables of    *)
(* legal transitions; here a transition is read off its target.            *)
(***************************************************************************)

MemberStates == {"Discovered", "Observed", "Admitted", "Active", "Degraded",
                 "Draining", "Fenced", "Retired"}

LegalTransition(s, t) ==
  \/ t = "Observed" /\ s \in {"Discovered", "Fenced"}
  \/ t = "Admitted" /\ s = "Observed"
  \/ t = "Active"   /\ s \in {"Admitted", "Degraded", "Draining"}
  \/ t = "Degraded" /\ s \in {"Admitted", "Active"}
  \/ t = "Draining" /\ s \in {"Admitted", "Active", "Degraded"}
  \/ t = "Fenced"   /\ s \notin {"Fenced", "Retired"}
  \/ t = "Retired"  /\ s # "Retired"

IsTerminalState(s) == s = "Retired"

(* Live members hold durable membership and are restored as Degraded.      *)
IsLive(s) == s \in {"Admitted", "Active", "Degraded", "Draining"}

(* Competing members keep another boot from claiming the same device.      *)
HoldsCompetingAuthority(s) == s \in {"Admitted", "Active", "Draining"}

AcceptsNewWork(s) == s = "Active"

-----------------------------------------------------------------------------

MigrationStates == {"Planned", "Validated", "Prepared", "Transferring",
                    "Verified", "Committed", "Aborted", "Refused"}

IsTerminalMigrationState(s) == s \in {"Committed", "Aborted", "Refused"}

(* Mutant: a committed plan may still be aborted.                          *)
AbortableAnyTime(s) == s \notin {"Aborted", "Refused"}

Abortable(s) == s \in {"Planned", "Validated", "Prepared", "Transferring", "Verified"}

LegalMigrationTransition(s, t) ==
  \/ t = "Validated"    /\ s = "Planned"
  \/ t = "Prepared"     /\ s = "Validated"
  \/ t = "Transferring" /\ s = "Prepared"
  \/ t = "Verified"     /\ s = "Transferring"
  \/ t = "Committed"    /\ s = "Verified"
  \/ t = "Refused"      /\ s = "Planned"
  \/ t = "Aborted"      /\ Abortable(s)
=============================================================================
