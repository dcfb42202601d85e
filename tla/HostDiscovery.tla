---------------------------- MODULE HostDiscovery ----------------------------
(***************************************************************************)
(* The background mDNS search: legacy_host_discovery.c and the service     *)
(* that reads it, HostDiscoveryService.                                    *)
(*                                                                         *)
(* The main thread leases the search frame by frame (start), withdraws it  *)
(* (stop), reads the snapshot and shuts the search down.  One pthread      *)
(* serves the lease: it holds the mDNS socket, delivers sightings to       *)
(* on_mdns_host and ages the hosts.  They share state under s_mutex, and   *)
(* the thread gives the mutex up between any two of its steps.             *)
(*                                                                         *)
(* The process clock is kept only as far as the code compares it: leased   *)
(* says that the clock is before s_lease_until, and every host has the     *)
(* healthy time since it was seen.  A local of the thread that is no       *)
(* longer read takes its first value again.                                *)
(***************************************************************************)
EXTENDS Integers, Sequences

CONSTANTS Addresses,     \* (ip, port) pairs that answer
          Names,         \* names they announce
          MaxHosts,      \* MOONLIGHT_MAX_DISCOVERED_HOSTS
          Expiry,        \* DISCOVERY_EXPIRY_USEC in ticks of healthy time
          MaxGeneration, \* bound on searches started
          MaxRevision    \* bound on revisions published

ASSUME DiscoveryAssumption ==
    /\ MaxHosts \in Nat /\ Expiry \in Nat \ {0}
    /\ MaxGeneration \in Nat /\ MaxRevision \in Nat

VARIABLES
    enabled,     \* s_enabled
    down,        \* s_shutdown
    leased,      \* now < s_lease_until
    generation,  \* s_generation
    active,      \* s_active_generation, 0 when idle
    snapshot,    \* s_snapshot: generation, revision and hosts in order
    unseen,      \* s_healthy_time - s_seen[i], host by host
    pc,          \* where discovery_thread is
    mine,        \* its local generation
    sampled,     \* its local now, as a comparison with the lease
    healthy,     \* its local healthy
    due,         \* now >= next_query
    socket,      \* the sniffer's socket is open
    m_generation,\* HostDiscoveryService::m_generation
    m_snapshot   \* HostDiscoveryService::m_snapshot

shared    == <<enabled, down, leased, generation, active, snapshot, unseen>>
local     == <<mine, sampled, healthy, due>>
service   == <<m_generation, m_snapshot>>
discovery == <<shared, pc, local, socket, service>>

Empty == [generation |-> 0, revision |-> 0, hosts |-> << >>]

(* legacy_host_discovery_init and the service's constructor.               *)
DiscoveryInit ==
    /\ enabled = FALSE /\ down = FALSE /\ leased = FALSE
    /\ generation = 0 /\ active = 0 /\ snapshot = Empty /\ unseen = << >>
    /\ pc = "none" /\ mine = 0 /\ sampled = FALSE /\ healthy = FALSE /\ due = TRUE
    /\ socket = FALSE
    /\ m_generation = 0 /\ m_snapshot = Empty

(* generation_active at the present time.                                  *)
GenerationActive(g) == enabled /\ ~down /\ g = generation /\ leased

(* pthread_cond_broadcast(&s_wake)                                         *)
Broadcast == IF pc = "waiting" THEN "check" ELSE pc

-----------------------------------------------------------------------------
(* The main thread *)

(* Mutant: a renewed search does not wake the thread.                      *)
StartSilently ==
    /\ ~down
    /\ pc' = IF pc = "none" THEN "check" ELSE pc
    /\ IF ~enabled \/ ~leased
         THEN /\ generation < MaxGeneration /\ snapshot.revision < MaxRevision
              /\ generation' = generation + 1
              /\ snapshot' = [snapshot EXCEPT !.generation = generation + 1,
                                              !.revision = @ + 1]
         ELSE UNCHANGED <<generation, snapshot>>
    /\ enabled' = TRUE /\ leased' = TRUE
    /\ m_generation' = generation'
    /\ UNCHANGED <<down, active, unseen, local, socket, m_snapshot>>

(* legacy_host_discovery_start through HostDiscoveryService::Start: the    *)
(* thread is created on first use, a lapsed or withdrawn lease begins a    *)
(* new generation, and a live one is only prolonged.                       *)
Start ==
    /\ ~down
    /\ IF ~enabled \/ ~leased
         THEN /\ generation < MaxGeneration /\ snapshot.revision < MaxRevision
              /\ generation' = generation + 1
              /\ snapshot' = [snapshot EXCEPT !.generation = generation + 1,
                                              !.revision = @ + 1]
              /\ pc' = IF pc = "none" THEN "check" ELSE Broadcast
         ELSE UNCHANGED <<generation, snapshot, pc>>
    /\ enabled' = TRUE /\ leased' = TRUE
    /\ m_generation' = generation'
    /\ UNCHANGED <<down, active, unseen, local, socket, m_snapshot>>

(* Start refused: the search is shut down, or no thread can be created.    *)
StartFails ==
    /\ down \/ pc = "none"
    /\ UNCHANGED discovery

(* legacy_host_discovery_stop, which ConnectionService::BeginOperation     *)
(* calls without the service.                                              *)
StopSearch ==
    /\ enabled' = FALSE
    /\ UNCHANGED <<down, leased, generation, active, snapshot, unseen, pc, local,
                   socket, service>>

(* HostDiscoveryService::Stop                                              *)
Stop ==
    /\ enabled' = FALSE
    /\ m_generation' = 0
    /\ UNCHANGED <<down, leased, generation, active, snapshot, unseen, pc, local,
                   socket, m_snapshot>>

(* legacy_host_discovery_is_idle                                           *)
SearchIdle == active = 0

(* legacy_host_discovery_read: a copy when the reader's is out of date.    *)
Changed == /\ GenerationActive(generation)
           /\ \/ m_snapshot.generation # snapshot.generation
              \/ m_snapshot.revision # snapshot.revision

(* HostDiscoveryService::Poll: DISCOVERY_CHANGED is published when the     *)
(* copy belongs to the service's own search.                               *)
Poll ==
    /\ m_generation # 0 /\ Changed
    /\ m_snapshot' = snapshot
    /\ UNCHANGED <<shared, pc, local, socket, m_generation>>

(* legacy_host_discovery_shutdown; its caller then joins the thread.       *)
ShutdownSearch ==
    /\ ~down
    /\ down' = TRUE /\ enabled' = FALSE
    /\ pc' = Broadcast
    /\ UNCHANGED <<leased, generation, active, snapshot, unseen, local, socket, service>>

(* pthread_join returns.                                                   *)
JoinSearch ==
    /\ down /\ pc = "exit"
    /\ pc' = "none"
    /\ UNCHANGED <<shared, local, socket, service>>

(* 250 ms pass without a renewal.                                          *)
LeaseExpires ==
    /\ leased
    /\ leased' = FALSE
    /\ UNCHANGED <<enabled, down, generation, active, snapshot, unseen, pc, local,
                   socket, service>>

-----------------------------------------------------------------------------
(* discovery_thread, one critical section or one unlocked stretch a step *)

(* The wait loop: sleep, leave, or take the lease up.                      *)
Check ==
    /\ pc = "check"
    /\ \/ /\ down
          /\ pc' = "exit" /\ UNCHANGED <<active, mine>>
       \/ /\ ~down /\ ~(enabled /\ leased)
          /\ pc' = "waiting" /\ UNCHANGED <<active, mine>>
       \/ /\ ~down /\ enabled /\ leased
          /\ mine' = generation /\ active' = generation
          /\ pc' = "open"
    /\ UNCHANGED <<enabled, down, leased, generation, snapshot, unseen, sampled,
                   healthy, due, socket, service>>

(* udp_sniffer_vita_init, set_callback and the loop's locals.  From here   *)
(* to CloseSniffer on_mdns_host is registered.                             *)
OpenSniffer ==
    /\ pc = "open"
    /\ healthy' = FALSE /\ due' = TRUE
    /\ pc' = "sample"
    /\ UNCHANGED <<shared, mine, sampled, socket, service>>

(* The clock is read before the mutex is taken.                            *)
Sample ==
    /\ pc = "sample"
    /\ sampled' = leased
    /\ pc' = "decide"
    /\ UNCHANGED <<shared, mine, healthy, due, socket, service>>

(* Is the thread's own search still wanted?                                *)
Decide ==
    /\ pc = "decide"
    /\ pc' = IF enabled /\ ~down /\ mine = generation /\ sampled
               THEN "query" ELSE "close"
    /\ sampled' = FALSE
    /\ UNCHANGED <<shared, mine, healthy, due, socket, service>>

(* A query every five seconds, the first at once; a failed one closes the  *)
(* socket.                                                                 *)
Query ==
    /\ pc = "query"
    /\ pc' = "poll"
    /\ \/ /\ \E ok \in BOOLEAN : healthy' = ok /\ socket' = ok
          /\ due' = FALSE
       \/ ~due /\ UNCHANGED <<healthy, socket, due>>
    /\ UNCHANGED <<shared, mine, sampled, service>>

(* udp_sniffer_vita_poll found nothing, failed, or was not due.            *)
PollSniffer ==
    /\ pc = "poll"
    /\ pc' = "age"
    /\ \/ UNCHANGED <<healthy, socket>>
       \/ healthy /\ healthy' = FALSE /\ socket' = FALSE
    /\ UNCHANGED <<shared, mine, sampled, due, service>>

Known(a) == {i \in DOMAIN snapshot.hosts : snapshot.hosts[i].address = a}

(* on_mdns_host, called from the poll: a new host, a new name, or only a   *)
(* fresh sighting, and nothing once the search is no longer wanted.        *)
Sighting(a, n) ==
    /\ pc = "poll" /\ healthy
    /\ GenerationActive(active)
    /\ \/ \E i \in Known(a) :
            /\ unseen' = [unseen EXCEPT ![i] = 0]
            /\ IF snapshot.hosts[i].name = n THEN UNCHANGED snapshot
               ELSE /\ snapshot.revision < MaxRevision
                    /\ snapshot' = [snapshot EXCEPT !.hosts[i].name = n, !.revision = @ + 1]
       \/ /\ Known(a) = {} /\ Len(snapshot.hosts) < MaxHosts
          /\ snapshot.revision + 2 <= MaxRevision
          /\ snapshot' = [snapshot EXCEPT
                !.hosts = Append(@, [address |-> a, name |-> n]), !.revision = @ + 2]
          /\ unseen' = Append(unseen, 0)
    /\ UNCHANGED <<enabled, down, leased, generation, active, pc, local, socket, service>>

(* The hosts that stay, in order.                                          *)
Kept(ages) ==
    LET K[n \in 0..Len(ages)] ==
          IF n = 0 THEN << >>
          ELSE IF ages[n] < Expiry THEN Append(K[n - 1], n) ELSE K[n - 1]
    IN  K[Len(ages)]

(* Mutant: hosts leave without a new revision.                             *)
ExpireQuietly(ages) ==
    LET keep == Kept(ages) IN
    /\ unseen' = [j \in DOMAIN keep |-> ages[keep[j]]]
    /\ snapshot' = [snapshot EXCEPT
          !.hosts = [j \in DOMAIN keep |-> snapshot.hosts[keep[j]]]]

(* expire_hosts: one revision per host lost.                               *)
ExpireHosts(ages) ==
    LET keep == Kept(ages) IN
    /\ unseen' = [j \in DOMAIN keep |-> ages[keep[j]]]
    /\ snapshot' = [snapshot EXCEPT
          !.hosts = [j \in DOMAIN keep |-> snapshot.hosts[keep[j]]],
          !.revision = @ + Len(ages) - Len(keep)]

(* Healthy time passes, for a healthy and wanted search only.              *)
Age ==
    /\ pc = "age"
    /\ pc' = "sample"
    /\ \/ /\ healthy /\ GenerationActive(mine)
          /\ snapshot.revision + Len(unseen) <= MaxRevision
          /\ ExpireHosts([i \in DOMAIN unseen |-> unseen[i] + 1])
       \/ UNCHANGED <<unseen, snapshot>>
    /\ UNCHANGED <<enabled, down, leased, generation, active, local, socket, service>>

(* set_callback(NULL), udp_sniffer_vita_deinit                             *)
CloseSniffer ==
    /\ pc = "close"
    /\ socket' = FALSE
    /\ healthy' = FALSE /\ due' = TRUE
    /\ pc' = "idle"
    /\ UNCHANGED <<shared, mine, sampled, service>>

(* The search is over: idle again, under the mutex.                        *)
GoIdle ==
    /\ pc = "idle"
    /\ active' = 0 /\ mine' = 0
    /\ pc' = "check"
    /\ UNCHANGED <<enabled, down, leased, generation, snapshot, unseen, sampled, healthy,
                   due, socket, service>>

ThreadStep == \/ Check \/ OpenSniffer \/ Sample \/ Decide \/ Query \/ PollSniffer
              \/ Age \/ CloseSniffer \/ GoIdle
Sightings == \E a \in Addresses, n \in Names : Sighting(a, n)

-----------------------------------------------------------------------------
DiscoveryNext ==
    \/ Start \/ StartFails \/ Stop \/ StopSearch \/ Poll
    \/ ShutdownSearch \/ JoinSearch \/ LeaseExpires
    \/ ThreadStep \/ Sightings

DiscoverySpec == /\ DiscoveryInit /\ [][DiscoveryNext]_discovery
                 /\ WF_discovery(ThreadStep) /\ WF_discovery(JoinSearch)

-----------------------------------------------------------------------------

(* The service compares only generation and revision before it decides     *)
(* that its copy is current.  Whenever they agree the hosts agree too, so  *)
(* no arrival, renaming or expiry is ever withheld from the list.          *)
RevisionTellsChange ==
    (m_snapshot.generation = snapshot.generation /\
     m_snapshot.revision = snapshot.revision) => m_snapshot.hosts = snapshot.hosts

(* The thread reports itself active for as long as it may hold a socket;   *)
(* it takes up leased searches only, and the first has number 1.           *)
Searching == {"open", "sample", "decide", "query", "poll", "age", "close", "idle"}
SearchInv ==
    /\ generation \in Nat
    /\ enabled => generation # 0
    /\ pc \in Searching => active # 0
    /\ socket => pc \in Searching \ {"open", "idle"}

(* A leased search is taken up by the thread, however the renewal fell     *)
(* between its steps, unless the lease is withdrawn or lapses; and a       *)
(* shutdown is always joined.                                              *)
SearchFollowsRequests ==
    /\ \A g \in 1..MaxGeneration :
         (GenerationActive(g)) ~> (active = g \/ ~GenerationActive(g))
    /\ down ~> pc = "none"
=============================================================================
