-------------------------- MODULE GameStreamClient --------------------------
(***************************************************************************)
(* The GameStream client of the selected PC: loading the client's own      *)
(* credentials, the pinned server certificate, serverinfo over HTTP and    *)
(* HTTPS, and the pairing handshake (legacy_gamestream.c), as              *)
(* moonlight_api_connect_host and moonlight_api_pair_current_host (api.cpp)*)
(* drive it over the saved PCs of HostStore.                               *)
(*                                                                         *)
(* A certificate is the PC that owns it.  Which PC answers at an address   *)
(* is chosen anew for every request: addresses move between PCs.  A wrong  *)
(* PIN, and a PC that does not know the PIN, is proof.right = FALSE.  The  *)
(* job owns the list of PCs except in the single steps of the main page;   *)
(* store operations of the two threads do not overlap (the list has no     *)
(* lock).  Streaming, applications and disconnecting are in HostControl.   *)
(***************************************************************************)
EXTENDS HostStore

CONSTANT MaxOps    \* bound: operations of the user and crashes

VARIABLES
    creds,         \* client.pem and key.pem: "none", "torn", "whole"
    server,        \* s_server
    initialized,   \* s_game_stream_initialized
    state,         \* s_connection_state
    current,       \* s_current_host
    job,           \* the next step of ConnectJob or PairJob, or "idle"
    host,          \* the host ConnectJob was given
    proof,         \* pair(): who sent plaincert, PIN known there, previous pin
    cancel,        \* the pairing job's cancellation token
    front,         \* the main page is on top
    ops,
    proven,        \* history: PCs that proved the PIN and finished pairing
    spoke          \* history: TLS peers since the connection was opened

connection == <<server, initialized, state, current>>
work       == <<job, host, proof, cancel>>
client     == <<creds, connection, work, front, ops, proven, spoke>>
vars       == <<storeVars, client>>

Fresh(path) == [path |-> path, cert |-> None, paired |-> FALSE,
                unique_id |-> Empty, mac |-> Empty]
NoProof     == [peer |-> None, right |-> FALSE, previous |-> None]

ConnectSteps == {"credentials", "keys", "pin", "http", "https", "unauthorized"}
Exchanges    == {"getservercert", "clientchallenge", "serverchallengeresp",
                 "clientpairingsecret", "pairchallenge"}
PairSteps    == Exchanges \cup {"save", "refresh", "result", "mark"}

ClientInit ==
    /\ server = Fresh(Empty) /\ initialized = FALSE /\ state = "disconnected"
    /\ current = Blank /\ host = Blank /\ proof = NoProof
    /\ job = "idle" /\ cancel = FALSE /\ front = TRUE /\ spoke = {}

Init == /\ StoreInit /\ ClientInit
        /\ creds = "none" /\ ops = 0 /\ proven = {}

Goto(step) == job' = step /\ UNCHANGED <<host, proof, cancel>>

----------------------------------------------------------------------------
(* moonlight_api_connect_host                                              *)

(* Mutant: the pin lies under the record's name.                           *)
CertificatePathByName(h) ==
    LET i == FindStoredHost(known, h)
    IN IF i = 0 THEN Empty ELSE known[i].name

CertificatePath(h) ==
    LET i == FindStoredHost(known, h)
    IN IF i = 0 THEN Empty ELSE ServerPem(known[i])

(* The last connection is shut down and the pin's path resolved before the *)
(* network is asked anything.                                              *)
Connect(h) ==
    /\ StoreIdle /\ front /\ job = "idle" /\ ops < MaxOps
    /\ server' = Fresh(CertificatePath(h)) /\ initialized' = FALSE
    /\ job' = "credentials" /\ host' = h /\ proof' = NoProof /\ cancel' = FALSE
    /\ spoke' = {} /\ ops' = ops + 1
    /\ UNCHANGED <<storeVars, creds, state, current, front, proven>>

(* legacy_gamestream_init fails: shutdown.                                 *)
ConnectFails ==
    /\ job \in ConnectSteps
    /\ server' = [server EXCEPT !.cert = None, !.paired = FALSE]
    /\ state' = "disconnected" /\ spoke' = {}
    /\ Goto("idle")
    /\ UNCHANGED <<storeVars, creds, initialized, current, front, ops, proven>>

(* The three files are opened, and so truncated, one after the other.      *)
SaveCertificateFiles ==
    /\ job = "credentials" /\ creds = "none"
    /\ creds' = "torn" /\ Goto("keys")
    /\ UNCHANGED <<storeVars, connection, front, ops, proven, spoke>>

CertificateFilesSaved ==
    /\ job = "keys"
    /\ creds' = "whole" /\ Goto("credentials")
    /\ UNCHANGED <<storeVars, connection, front, ops, proven, spoke>>

(* An existing client.pem is never generated again: what a torn pair of    *)
(* files gives is ConnectFails.                                            *)
LoadCertificate ==
    /\ job = "credentials" /\ creds = "whole"
    /\ Goto("pin")
    /\ UNCHANGED <<storeVars, creds, connection, front, ops, proven, spoke>>

LoadPinnedCertificate ==
    /\ job = "pin"
    /\ server' = [server EXCEPT !.cert = IF server.path \in Strings THEN pem[server.path] ELSE None]
    /\ Goto("http")
    /\ UNCHANGED <<storeVars, creds, initialized, state, current, front, ops, proven, spoke>>

(* load_server_info: an answer without a UUID leaves the last one.  Every  *)
(* answer is taken to have a MAC, if only the placeholder.                 *)
ServerInfo(m, macs, paired) ==
    \E id \in {m, server.unique_id}, mac \in macs :
        server' = [server EXCEPT !.unique_id = id, !.mac = mac, !.paired = paired]

(* Over HTTP: anybody may answer, and nobody is paired.  Some PCs tell     *)
(* their MAC only to a paired client.                                      *)
HttpServerInfo ==
    /\ job \in {"http", "unauthorized"}
    /\ \E m \in Machines : ServerInfo(m, {m, Placeholder}, FALSE)
    /\ Goto(IF job = "http" /\ server.cert # None THEN "https" ELSE "identity")
    /\ UNCHANGED <<storeVars, creds, initialized, state, current, front, ops, proven, spoke>>

(* verify_pinned_certificate: only the pinned PC completes the handshake.  *)
TlsPeers == {m \in Machines : m = server.cert}

(* Over HTTPS, from the PC m, which may have forgotten us.                 *)
HttpsServerInfo(m) ==
    /\ \E paired \in BOOLEAN : ServerInfo(m, {m}, paired)
    /\ spoke' = spoke \cup {m}

(* Mutant: a failed handshake goes back to HTTP as a 401 does.             *)
LoadServerStatusAnyhow ==
    /\ job = "https"
    /\ \/ \E m \in TlsPeers : HttpsServerInfo(m) /\ Goto("identity")
       \/ Goto("unauthorized") /\ UNCHANGED <<server, spoke>>
    /\ UNCHANGED <<storeVars, creds, initialized, state, current, front, ops, proven>>

(* load_server_status: 401 goes back to HTTP, a TLS failure does not.      *)
LoadServerStatus ==
    /\ job = "https"
    /\ \E m \in TlsPeers :
         \/ HttpsServerInfo(m) /\ Goto("identity")
         \/ spoke' = spoke \cup {m} /\ Goto("unauthorized") /\ UNCHANGED server
    /\ UNCHANGED <<storeVars, creds, initialized, state, current, front, ops, proven>>

(* The answer's UUID, if it has one, becomes the identity of the selected  *)
(* record, or of a new one.                                                *)
RecordIdentity ==
    /\ job = "identity" /\ StoreIdle
    /\ IF server.unique_id = Empty THEN UNCHANGED storeVars ELSE SetHostId(host, server.unique_id)
    /\ Goto("connected")
    /\ UNCHANGED <<creds, connection, front, ops, proven, spoke>>

UpdateHostFromServer(h) ==
    [h EXCEPT !.paired = server.paired, !.mac = Overwrite(server.mac, @)]

(* A manual host that tells no UUID is not saved yet and has no path.      *)
PinDestination == IF server.unique_id = Empty THEN server.path
                  ELSE Overwrite(server.path, CertificatePath(host))

Connected ==
    /\ job = "connected" /\ saving = <<>>
    /\ server' = [server EXCEPT !.path = PinDestination]
    /\ initialized' = TRUE
    /\ current' = UpdateHostFromServer([host EXCEPT !.host_id = Overwrite(server.unique_id, @)])
    /\ state' = IF server.paired THEN "paired" ELSE "ready"
    /\ front' = FALSE /\ Goto("idle")
    /\ UNCHANGED <<storeVars, creds, ops, proven, spoke>>

(* legacy_gamestream_refresh_server_info                                   *)
RefreshServerInfo ==
    /\ state = "paired" /\ initialized /\ server.paired /\ job = "idle"
    /\ \E m \in TlsPeers : HttpsServerInfo(m)
    /\ UNCHANGED <<storeVars, creds, initialized, state, current, work, front, ops, proven>>

----------------------------------------------------------------------------
(* moonlight_api_prepare_pairing and moonlight_api_pair_current_host       *)

PreparePairing ==
    /\ StoreIdle /\ ~front /\ job = "idle" /\ initialized /\ state = "ready"
    /\ \/ /\ server.paired /\ state' = "paired"
          /\ UNCHANGED <<work, ops>>
       \/ /\ ~server.paired /\ ops < MaxOps
          /\ job' = "getservercert" /\ cancel' = FALSE /\ proof' = NoProof
          /\ ops' = ops + 1 /\ UNCHANGED <<host, state>>
    /\ UNCHANGED <<storeVars, creds, server, initialized, current, front, proven, spoke>>

(* The user leaves the page; a pairing is asked to stop.                   *)
GoBack ==
    /\ ~front /\ front' = TRUE
    /\ cancel' = (job \in PairSteps)
    /\ UNCHANGED <<storeVars, creds, connection, job, host, proof, ops, proven, spoke>>

(* Mutant: the candidate stays after a failed last exchange.               *)
PairFailsKeepingCandidate ==
    /\ job \in Exchanges /\ Goto("idle")
    /\ UNCHANGED <<storeVars, connection, creds, front, ops, proven, spoke>>

(* An exchange fails or is cancelled, or its answer is rejected: the       *)
(* candidate certificate goes, the one before it returns.                  *)
PairFails ==
    /\ job \in Exchanges
    /\ server' = [server EXCEPT !.cert = IF job = "pairchallenge" THEN proof.previous ELSE @]
    /\ Goto("idle")
    /\ UNCHANGED <<storeVars, creds, initialized, state, current, front, ops, proven, spoke>>

GetServerCert ==
    /\ job = "getservercert"
    /\ \E m \in Machines, right \in BOOLEAN :
         proof' = [peer |-> m, right |-> right, previous |-> server.cert]
    /\ job' = "clientchallenge"
    /\ UNCHANGED <<storeVars, creds, connection, host, cancel, front, ops, proven, spoke>>

ClientChallenge ==
    /\ job = "clientchallenge"
    /\ Goto("serverchallengeresp")
    /\ UNCHANGED <<storeVars, creds, connection, front, ops, proven, spoke>>

(* The proof is signed with plaincert's key and bound to the PIN.          *)
ServerChallengeResp ==
    /\ job = "serverchallengeresp" /\ proof.right
    /\ Goto("clientpairingsecret")
    /\ UNCHANGED <<storeVars, creds, connection, front, ops, proven, spoke>>

(* plaincert becomes the candidate.                                        *)
ClientPairingSecret ==
    /\ job = "clientpairingsecret"
    /\ server' = [server EXCEPT !.cert = proof.peer]
    /\ Goto("pairchallenge")
    /\ UNCHANGED <<storeVars, creds, initialized, state, current, front, ops, proven, spoke>>

(* The last exchange, over HTTPS with the candidate.                       *)
PairChallenge ==
    /\ job = "pairchallenge"
    /\ \E m \in TlsPeers :
         /\ spoke' = spoke \cup {m}
         /\ proven' = IF proof.right THEN proven \cup {m} ELSE proven
    /\ Goto("save")
    /\ UNCHANGED <<storeVars, creds, connection, front, ops>>

(* server.pem is replaced as a whole, by rename; a failure, as without a   *)
(* path, is only logged.                                                   *)
SavePinnedCertificate ==
    /\ job = "save"
    /\ \/ server.path \in dirs /\ pem' = [pem EXCEPT ![server.path] = server.cert]
       \/ UNCHANGED pem
    /\ server' = [server EXCEPT !.paired = TRUE]
    /\ Goto("refresh")
    /\ UNCHANGED <<up, store, dirs, ini, unsaved, creds, initialized, state, current,
                   front, ops, proven, spoke>>

(* Up to three attempts to learn the MAC; cancelled before any of them.    *)
RefreshAfterPairing ==
    /\ job = "refresh"
    /\ \/ cancel /\ Goto("idle") /\ UNCHANGED <<server, spoke>>
       \/ /\ Goto("result")
          /\ \/ \E m \in TlsPeers : HttpsServerInfo(m)
             \/ UNCHANGED <<server, spoke>>
    /\ UNCHANGED <<storeVars, creds, initialized, state, current, front, ops, proven>>

PairResult ==
    /\ job = "result"
    /\ Goto(IF cancel THEN "idle" ELSE "mark")
    /\ UNCHANGED <<storeVars, creds, connection, front, ops, proven, spoke>>

MarkCurrentPaired ==
    /\ job = "mark" /\ StoreIdle
    /\ current' = UpdateHostFromServer(current) /\ state' = "paired"
    /\ MarkPaired(UpdateHostFromServer(current))
    /\ Goto("idle")
    /\ UNCHANGED <<creds, server, initialized, front, ops, proven, spoke>>

----------------------------------------------------------------------------
(* The main page, also while a cancelled pairing winds down.               *)
AtMainPage == StoreIdle /\ front /\ (job = "idle" \/ cancel) /\ ops < MaxOps

SelectSaved == \E i \in DOMAIN known : Connect(FileOf(known[i]))

EnterAddress ==
    /\ Len(known) < MaxHosts
    /\ \E a \in Addresses : Connect([Blank EXCEPT !.name = a, !.internal = a])

AddDiscovered ==
    /\ AtMainPage /\ Len(known) < MaxHosts
    /\ \E a \in Addresses, n \in Names : AddHostByName(a, n)
    /\ ops' = ops + 1
    /\ UNCHANGED <<creds, connection, work, front, proven, spoke>>

DeleteSelected ==
    /\ AtMainPage
    /\ \E i \in DOMAIN known : DeleteHost(FileOf(known[i]))
    /\ ops' = ops + 1
    /\ UNCHANGED <<creds, connection, work, front, proven, spoke>>

Start == Boot /\ UNCHANGED client

Crash ==
    /\ CrashStore /\ ops < MaxOps /\ ops' = ops + 1
    /\ server' = Fresh(Empty) /\ initialized' = FALSE /\ state' = "disconnected"
    /\ current' = Blank /\ host' = Blank /\ proof' = NoProof
    /\ job' = "idle" /\ cancel' = FALSE /\ front' = TRUE /\ spoke' = {}
    /\ UNCHANGED <<creds, proven>>

StoreSteps == StoreStep /\ UNCHANGED client

ConnectJob == \/ ConnectFails \/ SaveCertificateFiles \/ CertificateFilesSaved
              \/ LoadCertificate \/ LoadPinnedCertificate \/ HttpServerInfo
              \/ LoadServerStatus \/ RecordIdentity \/ Connected
PairJob    == \/ PairFails \/ GetServerCert \/ ClientChallenge \/ ServerChallengeResp
              \/ ClientPairingSecret \/ PairChallenge \/ SavePinnedCertificate
              \/ RefreshAfterPairing \/ PairResult \/ MarkCurrentPaired
Pages      == \/ SelectSaved \/ EnterAddress \/ AddDiscovered \/ DeleteSelected
              \/ PreparePairing \/ GoBack \/ RefreshServerInfo

Next == Start \/ Crash \/ StoreSteps \/ ConnectJob \/ PairJob \/ Pages
Spec == Init /\ [][Next]_vars

----------------------------------------------------------------------------
(* Every certificate trusted on disk, and every one trusted in memory      *)
(* outside the last exchange of a pairing, is that of a PC that has proved *)
(* the PIN and completed that exchange (README.md:181), whichever requests *)
(* failed, were cancelled or were cut off by a crash.                      *)
TrustProven ==
    /\ \A d \in Strings : pem[d] \in proven \cup {None}
    /\ job # "pairchallenge" => server.cert \in proven \cup {None}

(* A connection to a PC with a pin has had a TLS exchange with exactly     *)
(* that PC, although serverinfo starts over HTTP and a 401 returns to it;  *)
(* the PC counts as paired only then, also after a pairing cancelled once  *)
(* the PC had accepted it; and the client's own credentials are whole.     *)
PeerAuthenticated ==
    initialized =>
        /\ creds = "whole"
        /\ job \notin PairSteps /\ server.cert # None => server.cert \in spoke
        /\ server.paired \/ state = "paired" => server.cert \in spoke \cap proven

(* The record that pairing marks as paired is the one whose directory got  *)
(* the pin, although the pin's path was resolved before the PC's UUID was  *)
(* known and the record is looked up again by UUID, MAC, address and name: *)
(* for a PC whose UUID is known, told by it or saved before, as long as    *)
(* the PCs in the list are different PCs, and the user has not gone back   *)
(* to the list after the last look at the token.  (A PC entered by hand    *)
(* that tells no UUID is paired without a place for its pin, and a saved   *)
(* one without a UUID may be found again under the MAC of another record.) *)
PinAndMarkAgree ==
    [][(job = "mark" /\ job' = "idle" /\ up' /\ Different /\ ~cancel
        /\ current.host_id # Empty) =>
         LET i == FindStoredHost(known, UpdateHostFromServer(current))
         IN i # 0 /\ ServerPem(known[i]) = server.path]_vars
=============================================================================
