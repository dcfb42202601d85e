------------------------ MODULE MCBackgroundServices ------------------------
(***************************************************************************)
(* The two services beneath the main page, each by itself, with all of     *)
(* their operations.  They share no state, so a behaviour of both is a     *)
(* behaviour of each: one runs while the other is at rest, and the run     *)
(* does not multiply their states.                                         *)
(***************************************************************************)
EXTENDS HostDiscovery, HostAvailability

CONSTANTS pc1, pc2
MCLists == {<< >>, <<pc1, pc2>>, <<pc2, pc1>>, <<pc2>>}

VARIABLE chosen   \* the service that runs

Init == DiscoveryInit /\ AvailabilityInit /\ chosen \in {"search", "scans"}

Search == chosen = "search" /\ DiscoveryNext /\ UNCHANGED <<availability, chosen>>
Scans  == chosen = "scans" /\ AvailabilityNext /\ UNCHANGED <<discovery, chosen>>

Spec == /\ Init /\ [][Search \/ Scans]_<<discovery, availability, chosen>>
        /\ WF_discovery(chosen = "search" /\ ThreadStep)
        /\ WF_discovery(chosen = "search" /\ JoinSearch)
=============================================================================
