------------------------------- MODULE Callers -------------------------------
(***************************************************************************)
(* The federation together with the callers that mutate it.  A caller (the *)
(* control plane on behalf of an agent, the command line, a test) reads    *)
(* the federation, builds an AuthorityClaim from what it read, and may     *)
(* present the claim at any later time: after other mutations, after the   *)
(* coordinator restarted, more than once.                                  *)
(***************************************************************************)
EXTENDS Federation

CONSTANTS
  Users,    \* the callers
  Shapes,   \* which fields their claims check, as sets of field names
  NoClaim

ASSUME ShapesAssumption ==
  Shapes \subseteq SUBSET {"generation", "epoch", "agent", "boot", "capGen", "policy"}

VARIABLES
  held   \* the claim each caller holds, with what it saw when it built it

callerVars == <<vars, held>>

Authoritative == <<policy, members, workloads, plans>>

CallersInit == Init /\ held = [u \in Users |-> NoClaim]

(* epoch_only_claim checks the epoch; agent_claim the epoch, the agent and *)
(* its boot; a caller may check any further generation it has read.        *)
MakeClaim(a, checked) ==
  [generation |-> IF "generation" \in checked THEN generation ELSE Unchecked,
   epoch |-> IF "epoch" \in checked THEN epoch ELSE Unchecked,
   agent |-> IF "agent" \in checked THEN Agent[a] ELSE Unchecked,
   boot |-> IF "boot" \in checked THEN Boot[a] ELSE Unchecked,
   capGen |-> IF "capGen" \in checked THEN members[a].capGen ELSE Unchecked,
   policy |-> IF "policy" \in checked THEN policy ELSE Unchecked]

TakeClaim(u, a, checked) ==
  /\ mode = "up"
  /\ "capGen" \in checked => a \in Known
  /\ held' = [held EXCEPT ![u] = [claim |-> MakeClaim(a, checked), accelerator |-> a,
                                  seen |-> Authoritative]]
  /\ UNCHANGED vars

PresentClaim(u) ==
  /\ held[u] # NoClaim
  /\ Mutate(held[u].claim)
  /\ UNCHANGED held

(* Everything else that happens to the federation, mutations by other       *)
(* callers under the claims of Claims included.                            *)
FederationAlone == Next /\ UNCHANGED held

CallersNext ==
  \/ FederationAlone
  \/ \E u \in Users :
       \/ PresentClaim(u)
       \/ \E a \in Accelerators, checked \in Shapes : TakeClaim(u, a, checked)

CallersSpec == CallersInit /\ [][CallersNext]_callerVars

-----------------------------------------------------------------------------

(* A claim that checks the epoch and the federation generation is accepted *)
(* only while members, policy, workloads and plans are what its holder saw *)
(* (no update in between is lost or comes back unnoticed).                 *)
AcceptedClaimsSawThePresent ==
  \A u \in Users :
    /\ held[u] # NoClaim /\ held[u].claim.epoch # Unchecked /\ held[u].claim.generation # Unchecked
    /\ ValidateAuthority(held[u].claim) /\ epoch < MaxValue /\ generation < MaxValue
    => held[u].seen = Authoritative

(* A claim scoped to a member by epoch and capability generation is        *)
(* accepted only while the member has the capabilities its holder saw.     *)
ScopedClaimsSawTheCapabilities ==
  \A u \in Users :
    LET h == held[u] IN
      /\ h # NoClaim /\ h.claim.epoch # Unchecked /\ h.claim.capGen # Unchecked
      /\ ValidateMemberAuthority(h.claim, h.accelerator)
      /\ epoch < MaxValue /\ h.claim.capGen < MaxValue
      => members[h.accelerator].caps = h.seen[2][h.accelerator].caps
=============================================================================
