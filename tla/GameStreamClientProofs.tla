---------------------- MODULE GameStreamClientProofs ------------------------
(***************************************************************************)
(* Proofs about GameStreamClient and the HostStore it drives: only PCs     *)
(* that proved the PIN are trusted, a connection has met the PC it trusts, *)
(* a restart finds the saved PCs, and pairing marks the record that has    *)
(* the pin, for every set of PCs, addresses and names, any number of saved *)
(* PCs, of operations and of crashes.                                      *)
(***************************************************************************)
EXTENDS GameStreamClient, FiniteSetTheorems, SequenceTheorems, WellFoundedInduction, TLAPS

Trusted == proven \cup {None}

(* A record is rebuilt from its fields: what EXCEPT needs to know of it.   *)
ServerShape ==
    server = [path |-> server.path, cert |-> server.cert, paired |-> server.paired,
              unique_id |-> server.unique_id, mac |-> server.mac]

(* TrustProven is not inductive: during the last exchange the candidate is *)
(* trusted, which is sound because its PIN was verified, and what comes    *)
(* back if the exchange fails was trusted before.                          *)
Challenged == Exchanges \ {"getservercert"}

TrustInv ==
    /\ ServerShape
    /\ pem \in [Strings -> Trusted]
    /\ job # "pairchallenge" => server.cert \in Trusted
    /\ job \in Challenged => proof.previous \in Trusted
    /\ job \in {"clientpairingsecret", "pairchallenge"} => proof.right

----------------------------------------------------------------------------
(* No operation of the store writes a certificate, except that deleting a  *)
(* PC removes one.                                                         *)

LEMMA SaveHostKeepsPins ==
    ASSUME NEW changed, SaveHost(changed)
    PROVE  pem' = pem
  BY DEF SaveHost

LEMMA StoreWritesNoPin ==
    ASSUME NEW h, NEW id, SetHostId(h, id) \/ MarkPaired(h) \/ AddHostByName(h,
           id) \/ DeleteHost(h)
    PROVE  pem' = pem
  <1>1. CASE SetHostId(h, id)
    BY <1>1, SaveHostKeepsPins DEF SetHostId
  <1>2. CASE MarkPaired(h)
    BY <1>2, SaveHostKeepsPins DEF MarkPaired
  <1>3. CASE AddHostByName(h, id)
    BY <1>3, SaveHostKeepsPins DEF AddHostByName
  <1>4. CASE DeleteHost(h)
    BY <1>4 DEF DeleteHost
  <1> QED
    BY <1>1, <1>2, <1>3, <1>4

(* What the steps of each kind do to it.                                   *)

LEMMA TrustInit == Init => TrustInv
  BY DEF Init, StoreInit, ClientInit, TrustInv, ServerShape, Fresh, Trusted, Challenged,
         Exchanges

LEMMA TrustStoreSteps == TrustInv /\ (Start \/ StoreSteps \/ Crash) => TrustInv'
  <1> SUFFICES ASSUME TrustInv, Start \/ StoreSteps \/ Crash PROVE TrustInv'
    OBVIOUS
  <1> USE DEF TrustInv, ServerShape, Trusted
  <1>1. CASE Start
    BY <1>1 DEF Start, Boot, client, connection, work, disk
  <1>2. CASE StoreSteps
    <2>1. UNCHANGED client
      BY <1>2 DEF StoreSteps
    <2>2. pem' \in [Strings -> Trusted]
      BY <1>2 DEF StoreSteps, StoreStep, SaveOpens, SaveCloses, EmptyDirectory, RemoveDirectory
    <2> QED
      BY <2>1, <2>2 DEF client, connection, work
  <1>3. CASE Crash
    BY <1>3 DEF Crash, CrashStore, disk, Fresh, Challenged, Exchanges
  <1> QED
    BY <1>1, <1>2, <1>3

LEMMA TrustConnect == TrustInv /\ ConnectJob => TrustInv'
  <1> SUFFICES ASSUME TrustInv, ConnectJob PROVE TrustInv'
    OBVIOUS
  <1> USE DEF TrustInv, ServerShape, Trusted, Challenged, Exchanges, Goto, storeVars, disk,
              connection
  <1>1. CASE ConnectFails
    BY <1>1 DEF ConnectFails, ConnectSteps
  <1>2. CASE SaveCertificateFiles \/ CertificateFilesSaved \/ LoadCertificate
    BY <1>2 DEF SaveCertificateFiles, CertificateFilesSaved, LoadCertificate
  <1>3. CASE LoadPinnedCertificate
    BY <1>3 DEF LoadPinnedCertificate
  <1>4. CASE HttpServerInfo
    BY <1>4 DEF HttpServerInfo, ServerInfo
  <1>5. CASE LoadServerStatus
    BY <1>5 DEF LoadServerStatus, HttpsServerInfo, ServerInfo
  <1>6. CASE RecordIdentity
    BY <1>6, StoreWritesNoPin DEF RecordIdentity
  <1>7. CASE Connected
    BY <1>7 DEF Connected, PinDestination
  <1> QED
    BY <1>1, <1>2, <1>3, <1>4, <1>5, <1>6, <1>7 DEF ConnectJob

LEMMA TrustPair == TrustInv /\ PairJob => TrustInv'
  <1> SUFFICES ASSUME TrustInv, PairJob PROVE TrustInv'
    OBVIOUS
  <1> USE DEF TrustInv, ServerShape, Trusted, Challenged, Exchanges, Goto, storeVars, disk,
              connection
  <1>1. CASE PairFails
    BY <1>1 DEF PairFails
  <1>2. CASE GetServerCert
    BY <1>2 DEF GetServerCert
  <1>3. CASE ClientChallenge \/ ServerChallengeResp
    BY <1>3 DEF ClientChallenge, ServerChallengeResp
  <1>4. CASE ClientPairingSecret
    BY <1>4 DEF ClientPairingSecret
  <1>5. CASE PairChallenge
    BY <1>5 DEF PairChallenge, TlsPeers
  <1>6. CASE SavePinnedCertificate
    BY <1>6 DEF SavePinnedCertificate
  <1>7. CASE RefreshAfterPairing
    BY <1>7 DEF RefreshAfterPairing, HttpsServerInfo, ServerInfo
  <1>8. CASE PairResult
    BY <1>8 DEF PairResult
  <1>9. CASE MarkCurrentPaired
    BY <1>9, StoreWritesNoPin DEF MarkCurrentPaired
  <1> QED
    BY <1>1, <1>2, <1>3, <1>4, <1>5, <1>6, <1>7, <1>8, <1>9 DEF PairJob

LEMMA TrustPages == TrustInv /\ Pages => TrustInv'
  <1> SUFFICES ASSUME TrustInv, Pages PROVE TrustInv'
    OBVIOUS
  <1> USE DEF TrustInv, ServerShape, Trusted, Challenged, Exchanges
  <1>1. ASSUME NEW h, Connect(h) PROVE TrustInv'
    BY <1>1 DEF Connect, Fresh, storeVars, disk
  <1>2. CASE SelectSaved \/ EnterAddress
    BY <1>1, <1>2 DEF SelectSaved, EnterAddress
  <1>3. CASE AddDiscovered \/ DeleteSelected
    BY <1>3, StoreWritesNoPin DEF AddDiscovered, DeleteSelected, connection, work
  <1>4. CASE PreparePairing
    BY <1>4 DEF PreparePairing, work, storeVars, disk
  <1>5. CASE GoBack
    BY <1>5 DEF GoBack, connection, storeVars, disk
  <1>6. CASE RefreshServerInfo
    BY <1>6 DEF RefreshServerInfo, HttpsServerInfo, ServerInfo, work, storeVars, disk
  <1> QED
    BY <1>2, <1>3, <1>4, <1>5, <1>6 DEF Pages

LEMMA TrustStep == TrustInv /\ [Next]_vars => TrustInv'
  <1> SUFFICES ASSUME TrustInv, [Next]_vars PROVE TrustInv'
    OBVIOUS
  <1>1. CASE Next
    BY <1>1, TrustStoreSteps, TrustConnect, TrustPair, TrustPages DEF Next
  <1>2. CASE UNCHANGED vars
    BY <1>2 DEF vars, client, connection, work, storeVars, disk, TrustInv, ServerShape, Trusted
  <1> QED
    BY <1>1, <1>2

LEMMA TrustAlways == Spec => []TrustInv
  BY TrustInit, TrustStep, PTL DEF Spec

(* Every certificate on disk, and every one in memory outside the last     *)
(* exchange of a pairing, belongs to a PC that has proved the PIN          *)
(* (pair, save_pinned_certificate, load_pinned_certificate).               *)
THEOREM TrustIsProven == Spec => []TrustProven
  <1>1. TrustInv => TrustProven
    BY DEF TrustInv, TrustProven, Trusted
  <1> QED
    BY <1>1, TrustAlways, PTL
----------------------------------------------------------------------------
(* PeerAuthenticated needs to know how far the job has come: no connection *)
(* is open while one is being made, credentials are read before anything   *)
(* else, and the PC with the pin has been spoken to before a 401, or its   *)
(* answer, ends the connect.                                               *)
Connects == ConnectSteps \cup {"identity", "connected"}
Settled  == {"save", "refresh", "result", "mark"}

(* The certificate in memory is of a TLS peer, or there is none.           *)
Met == server.cert \in spoke \cup {None}

ConnectPlace ==
    /\ job \in Connects => ~initialized
    /\ job \in Connects \ {"credentials", "keys"} => creds = "whole"
    /\ job \in {"unauthorized", "identity", "connected"} => Met
    /\ job \in {"identity", "connected"} /\ server.paired => server.cert \in spoke \cap proven

PairPlace ==
    /\ job \in PairSteps => initialized /\ state = "ready"
    /\ job \in Exchanges => ~server.paired
    /\ job \in Exchanges \ {"pairchallenge"} => Met
    /\ job \in Challenged => proof.previous \in spoke \cup {None}
    /\ job \in Settled => server.cert \in spoke \cap proven

OpenPlace ==
    initialized =>
        /\ creds = "whole"
        /\ job = "idle" => Met
        /\ server.paired \/ state = "paired" => server.cert \in spoke \cap proven

PeerInv ==
    /\ job \in {"idle"} \cup Connects \cup PairSteps
    /\ initialized \in BOOLEAN /\ None \notin spoke
    /\ ConnectPlace /\ PairPlace /\ OpenPlace

LEMMA PeerInit == Init => PeerInv
  BY StoreAssumption DEF Init, StoreInit, ClientInit, PeerInv, ConnectPlace, PairPlace,
     OpenPlace, Connects, ConnectSteps, PairSteps, Exchanges, Challenged, Settled

LEMMA PeerStoreSteps == PeerInv /\ (Start \/ StoreSteps \/ Crash) => PeerInv'
  <1> SUFFICES ASSUME PeerInv, Start \/ StoreSteps \/ Crash PROVE PeerInv'
    OBVIOUS
  <1> USE DEF PeerInv, ConnectPlace, PairPlace, OpenPlace, Met
  <1>1. CASE Start \/ StoreSteps
    BY <1>1 DEF Start, StoreSteps, client, connection, work
  <1>2. CASE Crash
    BY <1>2 DEF Crash, Connects, ConnectSteps, PairSteps, Exchanges, Challenged, Settled
  <1> QED
    BY <1>1, <1>2

LEMMA PeerConnect == TrustInv /\ PeerInv /\ ConnectJob => PeerInv'
  <1> SUFFICES ASSUME TrustInv, PeerInv, ConnectJob PROVE PeerInv'
    OBVIOUS
  <1> USE StoreAssumption
      DEF PeerInv, ConnectPlace, PairPlace, OpenPlace, Met, Connects, ConnectSteps,
          PairSteps, Exchanges, Challenged, Settled, Goto, connection
  <1>1. CASE ConnectFails
    BY <1>1 DEF ConnectFails
  <1>2. CASE SaveCertificateFiles \/ CertificateFilesSaved \/ LoadCertificate
    BY <1>2 DEF SaveCertificateFiles, CertificateFilesSaved, LoadCertificate
  <1>3. CASE LoadPinnedCertificate
    BY <1>3 DEF LoadPinnedCertificate
  <1>4. CASE HttpServerInfo
    BY <1>4 DEF HttpServerInfo, ServerInfo, TrustInv, ServerShape
  <1>5. CASE LoadServerStatus
    BY <1>5 DEF LoadServerStatus, HttpsServerInfo, ServerInfo, TlsPeers, TrustInv, ServerShape, Trusted
  <1>6. CASE RecordIdentity
    BY <1>6 DEF RecordIdentity
  <1>7. CASE Connected
    BY <1>7 DEF Connected, PinDestination, TrustInv, ServerShape
  <1> QED
    BY <1>1, <1>2, <1>3, <1>4, <1>5, <1>6, <1>7 DEF ConnectJob

LEMMA PeerPair == TrustInv /\ PeerInv /\ PairJob => PeerInv'
  <1> SUFFICES ASSUME TrustInv, PeerInv, PairJob PROVE PeerInv'
    OBVIOUS
  <1> USE StoreAssumption
      DEF PeerInv, ConnectPlace, PairPlace, OpenPlace, Met, Connects, ConnectSteps,
          PairSteps, Exchanges, Challenged, Settled, Goto, connection
  <1>1. CASE PairFails
    BY <1>1 DEF PairFails, TrustInv, ServerShape
  <1>2. CASE GetServerCert
    BY <1>2 DEF GetServerCert
  <1>3. CASE ClientChallenge \/ ServerChallengeResp
    BY <1>3 DEF ClientChallenge, ServerChallengeResp
  <1>4. CASE ClientPairingSecret
    BY <1>4 DEF ClientPairingSecret, TrustInv, ServerShape
  <1>5. CASE PairChallenge
    BY <1>5 DEF PairChallenge, TlsPeers, TrustInv
  <1>6. CASE SavePinnedCertificate
    BY <1>6 DEF SavePinnedCertificate, TrustInv, ServerShape
  <1>7. CASE RefreshAfterPairing
    BY <1>7 DEF RefreshAfterPairing, HttpsServerInfo, ServerInfo, TlsPeers, TrustInv, ServerShape
  <1>8. CASE PairResult
    BY <1>8 DEF PairResult
  <1>9. CASE MarkCurrentPaired
    BY <1>9 DEF MarkCurrentPaired
  <1> QED
    BY <1>1, <1>2, <1>3, <1>4, <1>5, <1>6, <1>7, <1>8, <1>9 DEF PairJob

LEMMA PeerPages == TrustInv /\ PeerInv /\ Pages => PeerInv'
  <1> SUFFICES ASSUME TrustInv, PeerInv, Pages PROVE PeerInv'
    OBVIOUS
  <1> USE StoreAssumption
      DEF PeerInv, ConnectPlace, PairPlace, OpenPlace, Met, Connects, ConnectSteps,
          PairSteps, Exchanges, Challenged, Settled
  <1>1. ASSUME NEW h, Connect(h) PROVE PeerInv'
    BY <1>1 DEF Connect, Fresh
  <1>2. CASE SelectSaved \/ EnterAddress
    BY <1>1, <1>2 DEF SelectSaved, EnterAddress
  <1>3. CASE AddDiscovered \/ DeleteSelected
    BY <1>3 DEF AddDiscovered, DeleteSelected, connection, work
  <1>4. CASE PreparePairing
    BY <1>4 DEF PreparePairing, work
  <1>5. CASE GoBack
    BY <1>5 DEF GoBack, connection
  <1>6. CASE RefreshServerInfo
    BY <1>6 DEF RefreshServerInfo, HttpsServerInfo, ServerInfo, TlsPeers, work, TrustInv, ServerShape
  <1> QED
    BY <1>2, <1>3, <1>4, <1>5, <1>6 DEF Pages

LEMMA PeerStep == TrustInv /\ PeerInv /\ [Next]_vars => PeerInv'
  <1> SUFFICES ASSUME TrustInv, PeerInv, [Next]_vars PROVE PeerInv'
    OBVIOUS
  <1>1. CASE Next
    BY <1>1, PeerStoreSteps, PeerConnect, PeerPair, PeerPages DEF Next
  <1>2. CASE UNCHANGED vars
    BY <1>2 DEF vars, client, connection, work, PeerInv, ConnectPlace, PairPlace, OpenPlace, Met
  <1> QED
    BY <1>1, <1>2

LEMMA PeerAlways == Spec => []PeerInv
  BY PeerInit, PeerStep, TrustAlways, PTL DEF Spec

(* An open connection has spoken TLS with the PC whose pin it holds, and   *)
(* counts as paired only with a PC that proved the PIN                     *)
(* (moonlight_api_connect_host, load_server_status).                       *)
THEOREM PeerIsAuthenticated == Spec => []PeerAuthenticated
  <1>1. PeerInv => PeerAuthenticated
    BY DEF PeerInv, ConnectPlace, PairPlace, OpenPlace, Met, PeerAuthenticated, Connects,
           ConnectSteps, PairSteps, Exchanges, Challenged, Settled
  <1> QED
    BY <1>1, PeerAlways, PTL
----------------------------------------------------------------------------
(* The store's lookups.                                                    *)
(* Induction on the length of a list goes through its least                *)
(* counterexample.                                                         *)
LEMMA NatSetInduction ==
    ASSUME NEW S, 0 \in S, \A n \in Nat : n \in S => n + 1 \in S
    PROVE  Nat \subseteq S
  <1> DEFINE T == Nat \ S
  <1> SUFFICES ASSUME T # {} PROVE FALSE
    OBVIOUS
  <1>1. T \subseteq Nat
    OBVIOUS
  <1> HIDE DEF T
  <1>2. PICK x \in T : \A y \in T : <<y, x>> \notin OpToRel(<, Nat)
    BY <1>1, NatLessThanWellFounded, WFMin
  <1>3. \A y \in T : ~(y < x)
    BY <1>1, <1>2 DEF OpToRel
  <1>4. x # 0 /\ x - 1 \in Nat /\ x - 1 < x
    BY <1>1 DEF T
  <1>5. x - 1 \in S
    BY <1>3, <1>4 DEF T
  <1> QED
    BY <1>4, <1>5 DEF T

LEMMA MinOfNats ==
    ASSUME NEW I, I \subseteq Nat, I # {}
    PROVE  Min(I) \in I /\ \A j \in I : Min(I) <= j
  <1>0. I \subseteq Nat /\ I # {}
    OBVIOUS
  <1>1. PICK x \in I : \A y \in I : <<y, x>> \notin OpToRel(<, Nat)
    BY <1>0, NatLessThanWellFounded, WFMin
  <1>2. \A y \in I : ~(y < x)
    BY <1>1 DEF OpToRel
  <1>3. \A y \in I : x <= y
    BY <1>2
  <1> QED BY <1>3 DEF Min

(* A lookup returns the first record that answers, or 0.                   *)
FirstWith(list, i, hits) ==
    /\ i \in 0..Len(list)
    /\ i = 0 => hits = {}
    /\ i # 0 => i \in hits /\ \A j \in hits : i <= j

LEMMA LookupFirst ==
    ASSUME NEW list, Len(list) \in Nat, NEW hits, hits \subseteq 1..Len(list)
    PROVE  FirstWith(list, IF hits # {} THEN Min(hits) ELSE 0, hits)
  <1>1. hits \subseteq Nat /\ \A i \in hits : i \in 0..Len(list) /\ i # 0
    OBVIOUS
  <1>2. hits # {} => Min(hits) \in hits /\ \A j \in hits : Min(hits) <= j
    BY <1>1, MinOfNats
  <1>3. 0 \in 0..Len(list)
    OBVIOUS
  <1> QED BY <1>1, <1>2, <1>3 DEF FirstWith

(* The records that answer to each part of an identity.                    *)
HostIdHits(list, id)  == {i \in 1..Len(list) : Match(list[i].host_id, id)}
MacHits(list, mac)    == {i \in 1..Len(list) : Match(list[i].mac, mac)}
AddressHits(list, a)  == {i \in 1..Len(list) : Match(list[i].internal, a)}
NameHits(list, name)  == {i \in 1..Len(list) : Match(list[i].name, name)}

LEMMA Lookups ==
    ASSUME NEW list, Len(list) \in Nat, NEW v
    PROVE  /\ FirstWith(list, FindDeviceByHostId(list, v), HostIdHits(list, v))
           /\ FirstWith(list, FindDeviceByMac(list, v), MacHits(list, v))
           /\ FirstWith(list, FindDeviceByAddress(list, v), AddressHits(list, v))
           /\ FirstWith(list, FindDevice(list, v), NameHits(list, v))
  <1>1. FirstWith(list, FindDeviceByHostId(list, v), HostIdHits(list, v))
    BY LookupFirst DEF FindDeviceByHostId, SelectInSeq, HostIdHits
  <1>2. FirstWith(list, FindDeviceByMac(list, v), MacHits(list, v))
    BY LookupFirst DEF FindDeviceByMac, SelectInSeq, MacHits
  <1>3. FirstWith(list, FindDeviceByAddress(list, v), AddressHits(list, v))
    BY LookupFirst DEF FindDeviceByAddress, SelectInSeq, AddressHits
  <1>4. FirstWith(list, FindDevice(list, v), NameHits(list, v))
    BY LookupFirst DEF FindDevice, SelectInSeq, NameHits
  <1> QED BY <1>1, <1>2, <1>3, <1>4

(* The first lookup that found anything decides.                           *)
LEMMA FirstHitIs ==
    ASSUME NEW s \in Seq(Nat)
    PROVE  \/ FirstHit(s) = 0 /\ \A j \in 1..Len(s) : s[j] = 0
           \/ \E k \in 1..Len(s) : /\ FirstHit(s) = s[k] /\ s[k] # 0
                                  /\ \A j \in 1..Len(s) : j < k => s[j] = 0
  <1> DEFINE I == {i \in 1..Len(s) : s[i] # 0}
             hit == IF I # {} THEN Min(I) ELSE 0
  <1>1. FirstHit(s) = IF hit = 0 THEN 0 ELSE s[hit]
    BY DEF FirstHit, SelectInSeq
  <1>2. I \subseteq 1..Len(s) /\ \A i \in 1..Len(s) : i \in I <=> s[i] # 0
    OBVIOUS
  <1>3. I \subseteq Nat /\ \A m \in 1..Len(s) : m # 0
    OBVIOUS
  <1> HIDE DEF I, hit
  <1>4. CASE I = {}
    BY <1>1, <1>2, <1>4 DEF hit
  <1>5. CASE I # {}
    <2>1. Min(I) \in I /\ \A j \in I : Min(I) <= j
      BY <1>3, <1>5, MinOfNats
    <2>2. hit = Min(I)
      BY <1>5 DEF hit
    <2>3. hit \in 1..Len(s) /\ hit # 0
      BY <1>2, <1>3, <2>1, <2>2, Zenon
    <2>4. FirstHit(s) = s[hit] /\ s[hit] # 0
      BY <1>1, <1>2, <2>1, <2>2, <2>3
    <2>5. ASSUME NEW j \in 1..Len(s), j < hit PROVE s[j] = 0
      <3>1. j \notin I
        BY <2>1, <2>2, <2>3, <2>5
      <3> QED BY <1>2, <3>1
    <2> QED BY <2>3, <2>4, <2>5
  <1> QED BY <1>4, <1>5

LEMMA FirstOfFour ==
    ASSUME NEW a \in Nat, NEW b \in Nat, NEW c \in Nat, NEW d \in Nat
    PROVE  FirstHit(<<a, b, c, d>>) =
             IF a # 0 THEN a ELSE IF b # 0 THEN b ELSE IF c # 0 THEN c ELSE d
  <1> DEFINE s == <<a, b, c, d>>
  <1>1. /\ s \in Seq(Nat) /\ Len(s) = 4 /\ 1..4 = {1, 2, 3, 4}
        /\ s[1] = a /\ s[2] = b /\ s[3] = c /\ s[4] = d
    OBVIOUS
  <1> SUFFICES FirstHit(s) = IF a # 0 THEN a ELSE IF b # 0 THEN b ELSE IF c # 0 THEN c ELSE d
    OBVIOUS
  <1> HIDE DEF s
  <1>2. CASE FirstHit(s) = 0 /\ \A j \in 1..Len(s) : s[j] = 0
    BY <1>1, <1>2
  <1>3. ASSUME NEW k \in 1..4, FirstHit(s) = s[k], s[k] # 0,
               \A j \in 1..4 : j < k => s[j] = 0
        PROVE  FirstHit(s) = IF a # 0 THEN a ELSE IF b # 0 THEN b ELSE IF c # 0 THEN c ELSE d
    BY <1>1, <1>3
  <1> QED BY <1>1, <1>2, <1>3, FirstHitIs

----------------------------------------------------------------------------
Records == [name : Strings, host_id : Machines \cup {Empty},
            storage : Strings, internal : Addresses \cup {Empty},
            mac : Machines \cup {Placeholder, Empty}, paired : BOOLEAN]

(* A record before the store has chosen its directory.                     *)
Offered == [name : Strings, host_id : Machines \cup {Empty},
            storage : Strings \cup {Empty}, internal : Addresses \cup {Empty},
            mac : Machines \cup {Placeholder, Empty}, paired : BOOLEAN]

(* Every record in the list names its directory, and that is kept by       *)
(* merging and by taking over new metadata.                                *)
LEMMA Identified ==
    /\ \A r \in Offered : EnsureHostIdentity(r) \in Records
    /\ \A r \in Records : EnsureHostIdentity(r) = r
    /\ Records \subseteq Offered
  <1>1. Empty \notin Strings
    BY StoreAssumption DEF Empty
  <1>2. ASSUME NEW r \in Offered PROVE EnsureHostIdentity(r) \in Records
    BY <1>1 DEF Offered, Records, EnsureHostIdentity, Overwrite
  <1>3. ASSUME NEW r \in Records PROVE EnsureHostIdentity(r) = r
    BY <1>1 DEF Records, EnsureHostIdentity
  <1>4. Records \subseteq Offered
    BY DEF Records, Offered
  <1> QED BY <1>2, <1>3, <1>4

LEMMA Merged ==
    ASSUME NEW r \in Records, NEW info \in Offered
    PROVE  MergeDeviceInfo(r, info) \in Records
  BY DEF Offered, Records, MergeDeviceInfo, Overwrite

LEMMA Extended ==
    ASSUME NEW r \in Records, NEW info \in Offered
    PROVE  [r EXCEPT !.host_id = Overwrite(@, info.host_id),
                     !.storage = Overwrite(@, info.storage)] \in Records
  BY DEF Offered, Records, Overwrite

(* The list has changed at one place.                                      *)
ChangesOnePlace(old, c) ==
    /\ c.list \in Seq(Records) /\ c.at \in 1..Len(c.list)
    /\ \A j \in 1..Len(c.list) : j # c.at => j \in 1..Len(old) /\ c.list[j] = old[j]

LEMMA FoundByIdentity ==
    ASSUME NEW list, Len(list) \in Nat, NEW info
    PROVE  /\ FindDeviceByIdentity(list, info) \in 0..Len(list)
           /\ FindStoredHost(list, info) \in 0..Len(list)
  <1> DEFINE a == FindDeviceByHostId(list, info.host_id)
             b == FindDeviceByMac(list, info.mac)
             c == FindDeviceByAddress(list, info.internal)
             d == FindDevice(list, info.name)
             e == IF info.mac = Empty /\ info.internal = Empty THEN d ELSE 0
  <1>1. a \in 0..Len(list) /\ b \in 0..Len(list) /\ c \in 0..Len(list) /\ d \in 0..Len(list)
    BY Lookups DEF FirstWith
  <1>2. /\ FindDeviceByIdentity(list, info) = FirstHit(<<a, b, c, e>>)
        /\ FindStoredHost(list, info) = FirstHit(<<a, b, c, d>>)
    BY Zenon DEF FindDeviceByIdentity, FindStoredHost
  <1>3. e \in 0..Len(list)
    BY <1>1
  <1> HIDE DEF a, b, c, d, e
  <1>4. /\ FirstHit(<<a, b, c, e>>) \in {a, b, c, e}
        /\ FirstHit(<<a, b, c, d>>) \in {a, b, c, d}
    BY <1>1, <1>3, FirstOfFour
  <1> QED BY <1>1, <1>2, <1>3, <1>4

LEMMA Appended ==
    ASSUME NEW list \in Seq(Records), NEW info \in Offered
    PROVE  ChangesOnePlace(list, AppendDevice(list, info))
  <1> DEFINE i == FindDeviceByIdentity(list, info)
             r == [MergeDeviceInfo(list[i], info) EXCEPT
                     !.host_id = Overwrite(@, info.host_id),
                     !.storage = Overwrite(@, info.storage)]
  <1>1. i \in 0..Len(list)
    BY FoundByIdentity
  <1>2. CASE i = 0
    <2>1. AppendDevice(list, info) =
            [list |-> Append(list, EnsureHostIdentity(info)), at |-> Len(list) + 1]
      BY <1>2 DEF AppendDevice
    <2>2. EnsureHostIdentity(info) \in Records
      BY Identified
    <2> QED BY <2>1, <2>2 DEF ChangesOnePlace
  <1>3. CASE i # 0
    <2>1. AppendDevice(list, info) = [at |-> i, list |-> [list EXCEPT ![i] = r]]
      BY <1>3 DEF AppendDevice
    <2>2. r \in Records
      <3>1. list[i] \in Records
        BY <1>1, <1>3
      <3>2. MergeDeviceInfo(list[i], info) \in Records
        BY <3>1, Merged
      <3> QED BY <3>2, Extended
    <2> HIDE DEF r, i
    <2> QED BY <1>1, <1>3, <2>1, <2>2 DEF ChangesOnePlace
  <1> QED BY <1>2, <1>3

----------------------------------------------------------------------------
(* What the pages and the jobs name a PC by.                               *)
Selected == [name : Strings, host_id : Machines \cup {Empty}, storage : {Empty},
             internal : Addresses \cup {Empty},
             mac : Machines \cup {Placeholder, Empty}, paired : BOOLEAN]

LEMMA Updated ==
    ASSUME NEW r \in Records, NEW h \in Selected
    PROVE  UpdateHostMetadata(r, h) \in Records
  BY DEF Selected, Records, UpdateHostMetadata, Overwrite

LEMMA OfferedHost ==
    ASSUME NEW h \in Selected, NEW id \in Machines \cup {Empty}, NEW paired \in BOOLEAN
    PROVE  [UpdateHostMetadata(Blank, h) EXCEPT
                !.name = Overwrite(@, h.internal), !.host_id = id, !.paired = paired] \in Offered
  <1> DEFINE b == UpdateHostMetadata(Blank, h)
  <1>1. Empty \notin Strings
    BY StoreAssumption DEF Empty
  <1>2. b \in Offered
    BY <1>1 DEF Selected, Offered, UpdateHostMetadata, Overwrite, Blank
  <1>3. Overwrite(b.name, h.internal) = b.name
    BY <1>1, <1>2 DEF Offered, Overwrite
  <1> HIDE DEF b
  <1>4. [b EXCEPT !.name = Overwrite(@, h.internal), !.host_id = id, !.paired = paired] \in Offered
    BY <1>2, <1>3 DEF Offered
  <1> QED BY <1>4 DEF b

(* Each operation that saves changes the list at one place and saves the   *)
(* record there (legacy_device_store.cpp).                                 *)
LEMMA HostAppended ==
    ASSUME known \in Seq(Records),
           NEW h \in Selected, NEW id \in Machines \cup {Empty}, NEW paired \in BOOLEAN
    PROVE  ChangesOnePlace(known, AppendHost(h, id, paired))
  BY OfferedHost, Appended DEF AppendHost

LEMMA PlaceReplaced ==
    ASSUME NEW list \in Seq(Records), NEW i \in 1..Len(list), NEW r \in Records
    PROVE  ChangesOnePlace(list, [at |-> i, list |-> [list EXCEPT ![i] = r]])
  BY DEF ChangesOnePlace

LEMMA SetHostIdSaves ==
    ASSUME known \in Seq(Records), NEW h \in Selected, NEW id \in Machines \cup {Empty},
           SetHostId(h, id)
    PROVE  \E c : ChangesOnePlace(known, c) /\ SaveHost(c)
  <1> DEFINE i == FindStoredHost(known, h)
             r == UpdateHostMetadata([known[i] EXCEPT !.host_id = id], h)
  <1>1. i \in 0..Len(known)
    BY FoundByIdentity
  <1>2. CASE i = 0
    <2>1. SaveHost(AppendHost(h, id, FALSE))
      BY <1>2 DEF SetHostId
    <2> QED BY <2>1, HostAppended
  <1>3. CASE i # 0
    <2>1. SaveHost([at |-> i, list |-> [known EXCEPT ![i] = r]])
      BY <1>3 DEF SetHostId
    <2>2. r \in Records
      <3>1. known[i] \in Records
        BY <1>1, <1>3
      <3>2. [known[i] EXCEPT !.host_id = id] \in Records
        BY <3>1 DEF Records
      <3> QED BY <3>2, Updated
    <2> HIDE DEF r, i
    <2> QED BY <1>1, <1>3, <2>1, <2>2, PlaceReplaced
  <1> QED BY <1>2, <1>3

LEMMA MarkPairedSaves ==
    ASSUME known \in Seq(Records), NEW h \in Selected, MarkPaired(h)
    PROVE  \E c : ChangesOnePlace(known, c) /\ SaveHost(c)
  <1> DEFINE i == FindStoredHost(known, h)
             updated == UpdateHostMetadata(known[i], h)
             r == [updated EXCEPT !.host_id = Overwrite(@, h.host_id), !.paired = TRUE]
  <1>1. i \in 0..Len(known)
    BY FoundByIdentity
  <1>2. CASE i = 0
    <2>1. SaveHost(AppendHost(h, h.host_id, TRUE))
      BY <1>2 DEF MarkPaired
    <2>2. h.host_id \in Machines \cup {Empty}
      BY DEF Selected
    <2> QED BY <2>1, <2>2, HostAppended
  <1>3. CASE i # 0
    <2>1. SaveHost([at |-> i, list |-> [known EXCEPT ![i] = r]])
      BY <1>3 DEF MarkPaired
    <2>2. r \in Records
      <3>1. known[i] \in Records
        BY <1>1, <1>3
      <3>2. updated \in Records
        BY <3>1, Updated
      <3> HIDE DEF updated
      <3> QED BY <3>2 DEF Records, Selected, Overwrite
    <2> HIDE DEF r, i
    <2> QED BY <1>1, <1>3, <2>1, <2>2, PlaceReplaced
  <1> QED BY <1>2, <1>3

LEMMA AddHostByNameSaves ==
    ASSUME known \in Seq(Records), NEW a \in Addresses, NEW n \in Names, AddHostByName(a, n)
    PROVE  \E c : ChangesOnePlace(known, c) /\ SaveHost(c)
  <1> DEFINE byAddress == FindDeviceByAddress(known, a)
             byName == FindDevice(known, n)
             i == FirstHit(<<byAddress, byName>>)
             info == [Blank EXCEPT !.name = n, !.internal = a]
             list == [known EXCEPT ![i].name = n, ![i].internal = a]
             r == [known[i] EXCEPT !.name = n, !.internal = a]
  <1>1. i \in 0..Len(known)
    <2> DEFINE s == <<byAddress, byName>>
    <2>1. byAddress \in 0..Len(known) /\ byName \in 0..Len(known)
      BY Lookups DEF FirstWith
    <2> HIDE DEF byAddress, byName
    <2>2. /\ s \in Seq(Nat) /\ Len(s) = 2
          /\ \A k \in 1..2 : s[k] \in 0..Len(known)
      BY <2>1
    <2>3. i = FirstHit(s)
      OBVIOUS
    <2> HIDE DEF s, i
    <2> QED BY <2>2, <2>3, FirstHitIs
  <1>2. SaveHost(IF i = 0 THEN AppendDevice(known, info) ELSE [at |-> i, list |-> list])
    BY DEF AddHostByName
  <1> HIDE DEF i
  <1>3. CASE i = 0
    <2>1. SaveHost(AppendDevice(known, info))
      BY <1>2, <1>3
    <2>2. info \in Offered
      BY DEF Blank, Offered, Strings
    <2> QED BY <2>1, <2>2, Appended
  <1>4. CASE i # 0
    <2>1. known[i] \in Records /\ i \in 1..Len(known)
      BY <1>1, <1>4
    <2>2. r \in Records
      BY <2>1 DEF Records, Strings
    <2>3. list = [known EXCEPT ![i] = r]
      BY <2>1
    <2>4. SaveHost([at |-> i, list |-> list])
      BY <1>2, <1>4
    <2> HIDE DEF r, list
    <2> QED BY <2>1, <2>2, <2>3, <2>4, PlaceReplaced
  <1> QED BY <1>3, <1>4

----------------------------------------------------------------------------
(* The two folds of the load.                                              *)
LoadStep(list, d) == AppendDevice(list, EnsureHostIdentity(LoadDeviceInfo(d))).list

Step(kind, list, x) == IF kind = "load" THEN LoadStep(list, x) ELSE NormalizeOne(list, x)

(* The recursion FoldLeft stands for, over the places 1..n.                *)
Fold(kind, it, seq, n) ==
    it = [s \in SUBSET (1..n) |->
            IF s = {} THEN << >> ELSE Step(kind, it[s \ {Max(s)}], seq[Max(s)])]

LEMMA MaxOfPlaces ==
    ASSUME NEW n \in Nat, NEW s \in SUBSET (1..n), s # {}
    PROVE  Max(s) \in s /\ \A j \in s : j <= Max(s)
  <1> DEFINE bounds == {m \in Nat : \A y \in s : y <= m}
  <1>1. bounds \subseteq Nat /\ n \in bounds
    OBVIOUS
  <1>2. \A m \in Nat : m \in bounds <=> \A y \in s : y <= m
    OBVIOUS
  <1> HIDE DEF bounds
  <1>3. Min(bounds) \in bounds /\ \A j \in bounds : Min(bounds) <= j
    BY <1>1, MinOfNats
  <1> DEFINE m == Min(bounds)
  <1> HIDE DEF m
  <1>4. m \in Nat /\ (\A y \in s : y <= m) /\ \A j \in bounds : m <= j
    BY <1>1, <1>2, <1>3 DEF m
  <1>5. m \in s
    <2> SUFFICES ASSUME m \notin s PROVE FALSE
      OBVIOUS
    <2>1. PICK y \in s : TRUE
      OBVIOUS
    <2>2. m - 1 \in Nat
      BY <1>4, <2>1
    <2>3. \A z \in s : z <= m - 1
      BY <1>4
    <2>4. m <= m - 1
      <3>1. m - 1 \in bounds
        BY <1>2, <2>2, <2>3
      <3> QED BY <1>4, <3>1
    <2> QED BY <1>4, <2>4
  <1>6. \E x \in s : \A y \in s : x >= y
    BY <1>4, <1>5
  <1>7. Max(s) \in s /\ \A y \in s : Max(s) >= y
    BY <1>6 DEF Max
  <1> QED BY <1>7

LEMMA FoldExists ==
    ASSUME NEW kind, NEW seq PROVE \A n \in Nat : \E it : Fold(kind, it, seq, n)
  <1> DEFINE S == {n \in Nat : \E it : Fold(kind, it, seq, n)}
  <1>1. 0 \in S
    <2> DEFINE it == [s \in SUBSET (1..0) |-> << >>]
    <2>1. \A s \in SUBSET (1..0) : s = {}
      OBVIOUS
    <2>2. Fold(kind, it, seq, 0)
      BY <2>1 DEF Fold
    <2> HIDE DEF it
    <2>3. \E f : Fold(kind, f, seq, 0)
      BY <2>2
    <2> QED BY <2>3
  <1>2. ASSUME NEW n \in Nat, n \in S PROVE n + 1 \in S
    <2>1. PICK it : Fold(kind, it, seq, n)
      BY <1>2
    <2> DEFINE more == [s \in SUBSET (1..(n + 1)) |->
                          IF n + 1 \in s THEN Step(kind, it[s \ {n + 1}],
                          seq[n + 1]) ELSE it[s]]
    <2>2. ASSUME NEW s \in SUBSET (1..(n + 1))
          PROVE  more[s] = IF s = {} THEN << >> ELSE Step(kind, more[s \ {Max(s)}], seq[Max(s)])
      <3>1. CASE n + 1 \in s
        <4>1. Max(s) = n + 1
          <5>1. n + 1 \in Nat /\ s # {}
            BY <3>1
          <5>2. Max(s) \in s /\ \A j \in s : j <= Max(s)
            BY <5>1, MaxOfPlaces
          <5>3. Max(s) \in 1..(n + 1) /\ n + 1 <= Max(s)
            BY <3>1, <5>2
          <5> QED BY <5>3
        <4>2. /\ s \ {n + 1} \in SUBSET (1..(n + 1)) /\ n + 1 \notin s \ {n + 1} /\ s # {}
          BY <3>1
        <4>3. more[s \ {n + 1}] = it[s \ {n + 1}]
          BY <4>2
        <4>4. more[s] = Step(kind, it[s \ {n + 1}], seq[n + 1])
          BY <3>1
        <4> HIDE DEF more
        <4> QED BY <4>1, <4>2, <4>3, <4>4
      <3>2. CASE n + 1 \notin s
        <4>1. s \in SUBSET (1..n)
          BY <3>2
        <4>2. more[s] = it[s]
          BY <3>2
        <4>3. it[s] = IF s = {} THEN << >> ELSE Step(kind, it[s \ {Max(s)}], seq[Max(s)])
          BY <2>1, <4>1 DEF Fold
        <4>4. /\ s \ {Max(s)} \in SUBSET (1..(n + 1))
              /\ n + 1 \notin s \ {Max(s)}
          BY <3>2
        <4>5. more[s \ {Max(s)}] = it[s \ {Max(s)}]
          BY <4>4
        <4> HIDE DEF more
        <4> QED BY <4>2, <4>3, <4>5
      <3> QED BY <3>1, <3>2
    <2>3. more = [s \in SUBSET (1..(n + 1)) |-> more[s]]
      OBVIOUS
    <2> HIDE DEF more
    <2>4. Fold(kind, more, seq, n + 1)
      <3>1. more = [s \in SUBSET (1..(n + 1)) |->
                      IF s = {} THEN << >> ELSE Step(kind, more[s \ {Max(s)}], seq[Max(s)])]
        BY <2>2, <2>3, Zenon
      <3> QED BY <3>1 DEF Fold
    <2>5. \E f : Fold(kind, f, seq, n + 1)
      BY <2>4
    <2> QED BY <2>5
  <1> HIDE DEF S
  <1>3. Nat \subseteq S
    BY <1>1, <1>2, NatSetInduction
  <1> QED BY <1>3 DEF S

(* What it holds of the places up to i, from what it holds up to i - 1.    *)
Chain(kind, it, seq, n) ==
    /\ it[1..0] = << >>
    /\ \A i \in 1..n : it[1..i] = Step(kind, it[1..(i - 1)], seq[i])

LEMMA FoldChain ==
    ASSUME NEW kind, NEW seq, NEW n \in Nat, NEW it, Fold(kind, it, seq, n)
    PROVE  Chain(kind, it, seq, n)
  <1>1. 1..0 = {} /\ 1..0 \in SUBSET (1..n)
    OBVIOUS
  <1>2. it[1..0] = << >>
    BY <1>1 DEF Fold
  <1>3. ASSUME NEW i \in 1..n PROVE it[1..i] = Step(kind, it[1..(i - 1)], seq[i])
    <2>1. i \in Nat /\ 1..i \in SUBSET (1..n) /\ 1..i # {} /\ i \in 1..i
      OBVIOUS
    <2>2. Max(1..i) \in 1..i /\ \A j \in 1..i : j <= Max(1..i)
      BY <2>1, MaxOfPlaces
    <2>3. Max(1..i) = i
      BY <2>1, <2>2
    <2>4. (1..i) \ {i} = 1..(i - 1)
      BY <2>1
    <2> QED BY <2>1, <2>3, <2>4 DEF Fold
  <1> QED BY <1>2, <1>3 DEF Chain

(* The two passes of load_all_known_devices.                               *)
LEMMA LoadIsFold ==
    ASSUME NEW order, NEW n \in Nat, DOMAIN order = 1..n
    PROVE  \E it : /\ Fold("load", it, order, n)
                  /\ LoadAllKnownDevices(order) = NormalizeKnownDevices(it[1..n])
  <1>1. \E it : Fold("load", it, order, n)
    BY FoldExists
  <1>2. LoadAllKnownDevices(order) =
          NormalizeKnownDevices((CHOOSE it : Fold("load", it, order, n))[1..n])
    BY DEF LoadAllKnownDevices, FoldLeft, MapThenFoldSet, Fold, Step, LoadStep
  <1> QED BY <1>1, <1>2

LEMMA NormalizeIsFold ==
    ASSUME NEW list, NEW n \in Nat, DOMAIN list = 1..n
    PROVE  \E it : /\ Fold("normalize", it, list, n)
                  /\ NormalizeKnownDevices(list) =
                        [i \in DOMAIN it[1..n] |-> EnsureHostIdentity(it[1..n][i])]
  <1>1. \E it : Fold("normalize", it, list, n)
    BY FoldExists
  <1>2. FoldLeft(NormalizeOne, << >>, list) = (CHOOSE it : Fold("normalize", it, list, n))[1..n]
    BY DEF FoldLeft, MapThenFoldSet, Fold, Step
  <1> QED BY <1>1, <1>2 DEF NormalizeKnownDevices

----------------------------------------------------------------------------
(* The files that a load reads, each once.                                 *)
Readable == {d \in dirs : ini[d] # None}

DiskTyped == /\ dirs \subseteq Strings /\ IsFiniteSet(dirs)
             /\ ini \in [Strings -> Files \cup {None}]

ReadsAll(order, n) ==
    /\ order \in [1..n -> Readable]
    /\ \A i, j \in 1..n : i # j => order[i] # order[j]
    /\ \A d \in Readable : \E i \in 1..n : order[i] = d

(* An order without repetition over all files leaves no file out.          *)
LEMMA OrdersReadAll ==
    ASSUME DiskTyped, NEW order \in Orders
    PROVE  \E n \in Nat : ReadsAll(order, n)
  <1> DEFINE n == Cardinality(Readable)
  <1>1. IsFiniteSet(Readable) /\ n \in Nat
    BY FS_Subset, FS_CardinalityType DEF DiskTyped, Readable
  <1>2. order \in [1..n -> Readable] /\ \A i, j \in 1..n : i # j => order[i] # order[j]
    BY DEF Orders, SetToSeqs, Readable
  <1> HIDE DEF n
  <1>3. order \in Injection(1..n, Readable)
    BY <1>2 DEF Injection, IsInjective
  <1>4. Cardinality(1..n) = Cardinality(Readable)
    BY <1>1, FS_Interval DEF n
  <1>5. order \in Surjection(1..n, Readable)
    BY <1>1, <1>3, <1>4, FS_Injection
  <1> QED BY <1>1, <1>2, <1>5 DEF Surjection, ReadsAll

LEMMA LoadedRecord ==
    ASSUME DiskTyped, NEW d \in Readable
    PROVE  /\ LoadDeviceInfo(d) \in Records
           /\ EnsureHostIdentity(LoadDeviceInfo(d)) = LoadDeviceInfo(d)
  <1>1. d \in Strings /\ ini[d] \in Files
    BY DEF DiskTyped, Readable
  <1>2. LoadDeviceInfo(d) \in Records
    BY <1>1 DEF Files, Records, LoadDeviceInfo, Overwrite
  <1> QED BY <1>2, Identified

LEMMA NormalizedOne ==
    ASSUME NEW kept \in Seq(Records), NEW source \in Records
    PROVE  NormalizeOne(kept, source) \in Seq(Records)
  <1> DEFINE hits == {i \in 1..Len(kept) : DevicesSameIdentity(kept[i], source)}
             match == IF hits # {} THEN Min(hits) ELSE 0
             one == IF ShouldKeepDevice(source, kept[match])
                    THEN MergeDeviceInfo(source, kept[match])
                    ELSE MergeDeviceInfo(kept[match], source)
  <1>1. NormalizeOne(kept, source) = IF match = 0 THEN Append(kept, source)
                                     ELSE [kept EXCEPT ![match] = one]
    BY DEF NormalizeOne, SelectInSeq
  <1>2. hits \subseteq 1..Len(kept) /\ Len(kept) \in Nat
    OBVIOUS
  <1> HIDE DEF hits
  <1>3. FirstWith(kept, match, hits)
    BY <1>2, LookupFirst
  <1>4. match \in 0..Len(kept)
    BY <1>3 DEF FirstWith
  <1> HIDE DEF match
  <1>5. CASE match = 0
    BY <1>1, <1>5
  <1>6. CASE match # 0
    <2>1. kept[match] \in Records
      BY <1>4, <1>6
    <2>2. /\ MergeDeviceInfo(source, kept[match]) \in Records
          /\ MergeDeviceInfo(kept[match], source) \in Records
      BY <2>1, Merged, Identified
    <2>3. one \in Records
      BY <2>2
    <2> HIDE DEF one
    <2> QED BY <1>1, <1>4, <1>6, <2>3
  <1> QED BY <1>5, <1>6

LEMMA StepTyped ==
    ASSUME DiskTyped, NEW list \in Seq(Records)
    PROVE  /\ \A d \in Readable : Step("load", list, d) \in Seq(Records)
           /\ \A r \in Records : Step("normalize", list, r) \in Seq(Records)
  <1>1. ASSUME NEW d \in Readable PROVE Step("load", list, d) \in Seq(Records)
    <2>1. EnsureHostIdentity(LoadDeviceInfo(d)) \in Offered
      BY LoadedRecord, Identified
    <2>2. ChangesOnePlace(list, AppendDevice(list, EnsureHostIdentity(LoadDeviceInfo(d))))
      BY <2>1, Appended
    <2> QED BY <2>2 DEF ChangesOnePlace, Step, LoadStep
  <1>2. ASSUME NEW r \in Records PROVE Step("normalize", list, r) \in Seq(Records)
    BY NormalizedOne DEF Step
  <1> QED BY <1>1, <1>2

LEMMA FoldTyped ==
    ASSUME NEW kind, NEW seq, NEW n \in Nat, NEW it, Fold(kind, it, seq, n),
           \A list \in Seq(Records), i \in 1..n : Step(kind, list, seq[i]) \in Seq(Records)
    PROVE  it[1..n] \in Seq(Records)
  <1> DEFINE S == {i \in Nat : i <= n => it[1..i] \in Seq(Records)}
  <1>0. /\ it[1..0] = << >>
        /\ \A i \in 1..n : it[1..i] = Step(kind, it[1..(i - 1)], seq[i])
    <2>1. Chain(kind, it, seq, n)
      BY FoldChain
    <2> QED BY <2>1 DEF Chain
  <1>1. 0 \in S
    <2>1. it[1..0] \in Seq(Records)
      BY <1>0
    <2> QED BY <2>1, Zenon
  <1>2. ASSUME NEW i \in Nat, i \in S PROVE i + 1 \in S
    <2> SUFFICES ASSUME i + 1 <= n PROVE it[1..(i + 1)] \in Seq(Records)
      OBVIOUS
    <2>1. it[1..i] \in Seq(Records)
      BY <1>2
    <2>2. i + 1 \in 1..n /\ (i + 1) - 1 = i
      OBVIOUS
    <2>3. it[1..(i + 1)] = Step(kind, it[1..i], seq[i + 1])
      BY <1>0, <2>2
    <2> QED BY <2>1, <2>2, <2>3
  <1> HIDE DEF S
  <1>3. Nat \subseteq S
    BY <1>1, <1>2, NatSetInduction
  <1> QED BY <1>3 DEF S

LEMMA Loaded ==
    ASSUME DiskTyped, NEW order \in Orders
    PROVE  LoadAllKnownDevices(order) \in Seq(Records)
  <1>1. PICK n \in Nat : order \in [1..n -> Readable]
    BY OrdersReadAll DEF ReadsAll
  <1>2. PICK it : /\ Fold("load", it, order, n)
                  /\ LoadAllKnownDevices(order) = NormalizeKnownDevices(it[1..n])
    BY <1>1, LoadIsFold
  <1> DEFINE list == it[1..n]
  <1>3. list \in Seq(Records)
    <2>1. \A l \in Seq(Records), i \in 1..n : Step("load", l, order[i]) \in Seq(Records)
      BY <1>1, StepTyped
    <2> QED BY <1>2, <2>1, FoldTyped
  <1> HIDE DEF list
  <1>4. Len(list) \in Nat /\ DOMAIN list = 1..Len(list)
    BY <1>3
  <1>5. PICK jt : /\ Fold("normalize", jt, list, Len(list))
                  /\ NormalizeKnownDevices(list) =
                        [i \in DOMAIN jt[1..Len(list)] |-> EnsureHostIdentity(jt[1..Len(list)][i])]
    BY <1>4, NormalizeIsFold
  <1> DEFINE kept == jt[1..Len(list)]
  <1>6. kept \in Seq(Records)
    <2>1. \A i \in 1..Len(list) : list[i] \in Records
      BY <1>3
    <2>2. \A l \in Seq(Records), i \in 1..Len(list) :
             Step("normalize", l, list[i]) \in Seq(Records)
      BY <2>1, StepTyped
    <2>3. Fold("normalize", jt, list, Len(list)) /\ Len(list) \in Nat
      BY <1>4, <1>5
    <2> QED BY <2>2, <2>3, FoldTyped
  <1>7. NormalizeKnownDevices(list) = [i \in DOMAIN kept |-> EnsureHostIdentity(kept[i])]
    BY <1>5
  <1> HIDE DEF kept
  <1>8. \A i \in DOMAIN kept : EnsureHostIdentity(kept[i]) \in Records
    BY <1>6, Identified
  <1>9. NormalizeKnownDevices(list) \in Seq(Records)
    BY <1>6, <1>7, <1>8
  <1> QED BY <1>2, <1>9 DEF list

----------------------------------------------------------------------------
(* RestartKeepsHosts rests on what an interrupted operation has left: a    *)
(* directory that counts as saved holds the file of the one record in the  *)
(* list that it belongs to (KeptInv), and everything still to be written   *)
(* or removed counts as not saved (SavingInv).                             *)
StoreTyped ==
    /\ DiskTyped
    /\ known \in Seq(Records) /\ saving \in Seq(Records)
    /\ deleting \in Strings \cup {Empty}
    /\ ~up => known = << >> /\ saving = << >> /\ deleting = Empty

SavingInv ==
    /\ \A k \in 1..Len(saving) : \E i \in 1..Len(known) : known[i] = saving[k]
    /\ \A k \in 1..Len(saving) : ServerPem(saving[k]) \in unsaved
    /\ \A j, k \in 1..Len(saving) :
         j # k /\ ServerPem(saving[j]) = ServerPem(saving[k])
            => Shared(known, ServerPem(saving[k]))
    /\ writing => saving # << >> /\ ServerPem(Head(saving)) \in dirs
    /\ deleting # Empty => saving = << >>

KeptInv ==
    \A i \in 1..Len(known) :
        LET d == ServerPem(known[i])
        IN /\ d \notin unsaved => d \in dirs /\ ini[d] = FileOf(known[i])
           /\ d = deleting => d \in unsaved

StoreInv == StoreTyped /\ SavingInv /\ KeptInv

LEMMA PemPlace ==
    \A r \in Records : /\ ServerPem(r) = r.storage /\ ServerPem(r) \in Strings
                      /\ ServerPem(r) # Empty
  BY StoreAssumption DEF Records, ServerPem, Overwrite, Empty

LEMMA FilesOf ==
    ASSUME NEW r \in Records
    PROVE  FileOf(r) \in Files /\ CutShort(r) \subseteq Files \cup {None}
  <1>1. FileOf(r) \in Files
    BY DEF Records, Files, FileOf
  <1>2. Blank \in Files
    BY DEF Blank, Files
  <1>3. [FileOf(r) EXCEPT !.internal = Empty, !.mac = Empty] \in Files
    BY <1>1 DEF Files
  <1> QED BY <1>1, <1>2, <1>3 DEF CutShort

(* Each step of the store keeps the invariant.                             *)
LEMMA StoreInitInv == StoreInit => StoreInv
  BY FS_EmptySet DEF StoreInit, StoreInv, StoreTyped, DiskTyped, SavingInv, KeptInv

LEMMA BootStep == StoreInv /\ Boot => StoreInv'
  <1> SUFFICES ASSUME StoreInv, Boot PROVE StoreInv'
    OBVIOUS
  <1>1. PICK order \in Orders : /\ known' = LoadAllKnownDevices(order)
                               /\ saving' = known'
                               /\ unsaved' = {known'[i].storage : i \in DOMAIN known'}
    BY DEF Boot
  <1>2. ~up /\ up' /\ UNCHANGED <<writing, deleting, dirs, ini>>
    BY DEF Boot, disk
  <1>3. known' \in Seq(Records)
    BY <1>1, Loaded DEF StoreInv, StoreTyped
  <1>4. StoreTyped'
    BY <1>1, <1>2, <1>3 DEF StoreInv, StoreTyped, DiskTyped
  <1>5. \A i \in 1..Len(known') : ServerPem(known'[i]) \in unsaved'
    <2> SUFFICES ASSUME NEW i \in 1..Len(known') PROVE ServerPem(known'[i]) \in unsaved'
      OBVIOUS
    <2>1. known'[i] \in Records /\ i \in DOMAIN known'
      BY <1>3
    <2>2. ServerPem(known'[i]) = known'[i].storage
      BY <2>1, PemPlace
    <2> QED BY <1>1, <2>1, <2>2
  <1>6. ~writing /\ deleting = Empty
    BY <1>2 DEF StoreInv, StoreTyped, SavingInv
  <1>7. SavingInv'
    <2>1. \A j, k \in 1..Len(saving') :
             j # k /\ ServerPem(saving'[j]) = ServerPem(saving'[k])
                => Shared(known', ServerPem(saving'[k]))
      BY <1>1, <1>3 DEF Shared
    <2> QED BY <1>1, <1>2, <1>5, <1>6, <2>1 DEF SavingInv
  <1>8. KeptInv'
    BY <1>5 DEF KeptInv
  <1> QED BY <1>4, <1>7, <1>8 DEF StoreInv

LEMMA CrashStep == StoreInv /\ CrashStore => StoreInv'
  BY DEF CrashStore, disk, StoreInv, StoreTyped, DiskTyped, SavingInv, KeptInv

LEMMA SaveOpensStep == StoreInv /\ SaveOpens => StoreInv'
  <1> SUFFICES ASSUME StoreInv, SaveOpens PROVE StoreInv'
    OBVIOUS
  <1> DEFINE r == Head(saving)
             d == ServerPem(r)
  <1>1. /\ saving \in Seq(Records) /\ saving # << >> /\ r = saving[1] /\ 1 \in 1..Len(saving)
        /\ r \in Records
    BY DEF StoreInv, StoreTyped, SaveOpens
  <1>2. d \in Strings /\ d \in unsaved /\ up /\ deleting = Empty
    BY <1>1, PemPlace DEF StoreInv, SavingInv, StoreTyped
  <1>3. UNCHANGED <<up, known, deleting, dirs, unsaved>>
    BY DEF SaveOpens
  <1>4. CASE /\ d \in dirs /\ writing' = TRUE /\ UNCHANGED saving
             /\ \E cut \in CutShort(r) : ini' = [ini EXCEPT ![d] = cut]
    <2>1. PICK cut \in Files \cup {None} : ini' = [ini EXCEPT ![d] = cut]
      BY <1>1, <1>4, FilesOf
    <2> HIDE DEF d
    <2>2. StoreTyped'
      BY <1>2, <1>3, <1>4, <2>1 DEF StoreInv, StoreTyped, DiskTyped
    <2>3. SavingInv'
      BY <1>1, <1>2, <1>3, <1>4 DEF StoreInv, SavingInv, d
    <2>4. \A e \in Strings : e \notin unsaved => ini'[e] = ini[e]
      BY <1>2, <2>1 DEF StoreInv, StoreTyped, DiskTyped
    <2>5. \A i \in 1..Len(known) : ServerPem(known[i]) \in Strings
      BY PemPlace DEF StoreInv, StoreTyped
    <2>6. KeptInv'
      BY <1>3, <2>4, <2>5 DEF StoreInv, KeptInv
    <2> QED BY <2>2, <2>3, <2>6 DEF StoreInv
  <1>5. CASE UNCHANGED <<ini, writing>> /\ saving' = Tail(saving)
    <2>1. StoreTyped' /\ KeptInv'
      BY <1>1, <1>2, <1>3, <1>5 DEF StoreInv, StoreTyped, DiskTyped, KeptInv
    <2>2. ~writing'
      BY <1>5 DEF SaveOpens
    <2>3. \A k \in 1..Len(saving') : k + 1 \in 1..Len(saving) /\ saving'[k] = saving[k + 1]
      BY <1>1, <1>5
    <2>4. SavingInv'
      BY <1>2, <1>3, <2>2, <2>3 DEF StoreInv, SavingInv
    <2> QED BY <2>1, <2>4 DEF StoreInv
  <1> QED BY <1>4, <1>5 DEF SaveOpens

LEMMA SaveClosesStep == StoreInv /\ SaveCloses => StoreInv'
  <1> SUFFICES ASSUME StoreInv, SaveCloses PROVE StoreInv'
    OBVIOUS
  <1> DEFINE r == Head(saving)
             d == ServerPem(r)
  <1>1. /\ saving \in Seq(Records) /\ saving # << >> /\ r = saving[1] /\ 1 \in 1..Len(saving)
        /\ r \in Records
    BY DEF StoreInv, StoreTyped, SavingInv, SaveCloses
  <1>2. d \in Strings /\ d \in dirs /\ up /\ deleting = Empty
    BY <1>1, PemPlace DEF StoreInv, SavingInv, StoreTyped, SaveCloses
  <1>3. /\ UNCHANGED <<up, known, deleting, dirs>> /\ ~writing' /\ saving' = Tail(saving)
    BY DEF SaveCloses
  <1>4. \A k \in 1..Len(saving') : k + 1 \in 1..Len(saving) /\ saving'[k] = saving[k + 1]
    BY <1>1, <1>3
  <1>5. saving' \in Seq(Records)
    BY <1>1, <1>3
  <1>6. CASE UNCHANGED <<ini, unsaved>>
    <2>1. StoreTyped' /\ KeptInv'
      BY <1>2, <1>3, <1>5, <1>6 DEF StoreInv, StoreTyped, DiskTyped, KeptInv
    <2>2. SavingInv'
      BY <1>2, <1>3, <1>4, <1>6 DEF StoreInv, SavingInv
    <2> QED BY <2>1, <2>2 DEF StoreInv
  <1>7. CASE /\ ini' = [ini EXCEPT ![d] = FileOf(r)]
             /\ unsaved' = IF Shared(known, d) THEN unsaved ELSE unsaved \ {d}
    <2>0. FileOf(r) \in Files
      BY <1>1, FilesOf
    <2> HIDE DEF d, r
    <2>1. StoreTyped'
      BY <1>2, <1>3, <1>5, <1>7, <2>0 DEF StoreInv, StoreTyped, DiskTyped
    <2>2. ASSUME NEW k \in 1..Len(saving') PROVE ServerPem(saving'[k]) \in unsaved'
      <3>1. /\ k + 1 \in 1..Len(saving) /\ k + 1 # 1 /\ saving'[k] = saving[k + 1]
            /\ ServerPem(saving[k + 1]) \in unsaved
        BY <1>4 DEF StoreInv, SavingInv
      <3>2. CASE ServerPem(saving[k + 1]) = d
        <4>1. Shared(known, d)
          BY <1>1, <3>1, <3>2 DEF StoreInv, SavingInv, d
        <4> QED BY <1>7, <3>1, <4>1
      <3>3. CASE ServerPem(saving[k + 1]) # d
        BY <1>7, <3>1, <3>3
      <3> QED BY <3>2, <3>3
    <2>3. SavingInv'
      BY <1>2, <1>3, <1>4, <2>2 DEF StoreInv, SavingInv
    <2>4. ASSUME NEW i \in 1..Len(known), ServerPem(known[i]) \notin unsaved'
          PROVE  ServerPem(known[i]) \in dirs /\ ini'[ServerPem(known[i])] = FileOf(known[i])
      <3>1. ServerPem(known[i]) \in Strings
        BY PemPlace DEF StoreInv, StoreTyped
      <3>2. CASE ServerPem(known[i]) # d
        <4>1. ServerPem(known[i]) \notin unsaved
          BY <1>7, <2>4, <3>2
        <4>2. ini'[ServerPem(known[i])] = ini[ServerPem(known[i])]
          BY <1>7, <3>1, <3>2 DEF StoreInv, StoreTyped, DiskTyped
        <4> QED BY <4>1, <4>2 DEF StoreInv, KeptInv
      <3>3. CASE ServerPem(known[i]) = d
        <4>1. d \in unsaved /\ \E j \in 1..Len(known) : known[j] = r
          BY <1>1 DEF StoreInv, SavingInv, d
        <4>2. ~Shared(known, d)
          BY <1>7, <2>4, <3>3, <4>1
        <4>3. PICK j \in 1..Len(known) : known[j] = r
          BY <4>1
        <4>4. DOMAIN known = 1..Len(known)
          BY DEF StoreInv, StoreTyped
        <4>5. j = i
          BY <3>3, <4>2, <4>3, <4>4 DEF Shared, d
        <4>6. ini'[d] = FileOf(r)
          BY <1>2, <1>7 DEF StoreInv, StoreTyped, DiskTyped
        <4> QED BY <1>2, <3>3, <4>3, <4>5, <4>6
      <3> QED BY <3>2, <3>3
    <2>5. \A i \in 1..Len(known) : ServerPem(known[i]) # deleting
      BY <1>2, PemPlace DEF StoreInv, StoreTyped
    <2>6. KeptInv'
      BY <1>3, <2>4, <2>5 DEF KeptInv
    <2> QED BY <2>1, <2>3, <2>6 DEF StoreInv
  <1> QED BY <1>6, <1>7 DEF SaveCloses

LEMMA EmptyDirectoryStep == StoreInv /\ EmptyDirectory => StoreInv'
  BY DEF EmptyDirectory, StoreInv, StoreTyped, DiskTyped, SavingInv, KeptInv

LEMMA RemoveDirectoryStep == StoreInv /\ RemoveDirectory => StoreInv'
  <1> SUFFICES ASSUME StoreInv, RemoveDirectory PROVE StoreInv'
    OBVIOUS
  <1>1. /\ UNCHANGED <<up, known, saving, writing, ini, unsaved>> /\ deleting' = Empty
        /\ dirs \ {deleting} \subseteq dirs' /\ dirs' \subseteq dirs
    BY DEF RemoveDirectory
  <1>2. IsFiniteSet(dirs')
    BY <1>1, FS_Subset DEF StoreInv, StoreTyped, DiskTyped
  <1>3. StoreTyped'
    BY <1>1, <1>2 DEF StoreInv, StoreTyped, DiskTyped
  <1>4. SavingInv'
    <2>1. writing => ServerPem(Head(saving)) # Empty /\ deleting = Empty
      <3> SUFFICES ASSUME writing PROVE ServerPem(Head(saving)) # Empty /\ deleting = Empty
        OBVIOUS
      <3>1. saving \in Seq(Records) /\ saving # << >> /\ deleting = Empty
        BY DEF StoreInv, StoreTyped, SavingInv
      <3> QED BY <3>1, PemPlace
    <2> QED BY <1>1, <2>1 DEF StoreInv, SavingInv
  <1>5. \A i \in 1..Len(known) : ServerPem(known[i]) # Empty
    BY PemPlace DEF StoreInv, StoreTyped
  <1>6. KeptInv'
    BY <1>1, <1>5 DEF StoreInv, KeptInv
  <1> QED BY <1>3, <1>4, <1>6 DEF StoreInv

LEMMA SaveHostStep ==
    ASSUME StoreInv, StoreIdle, NEW c, ChangesOnePlace(known, c), SaveHost(c)
    PROVE  StoreInv'
  <1> DEFINE r == c.list[c.at]
             d == ServerPem(r)
  <1>1. /\ known' = c.list /\ unsaved' = unsaved \cup {d}
        /\ UNCHANGED <<up, writing, deleting, ini>>
    BY DEF SaveHost
  <1>2. \/ dirs' = dirs \cup {d} /\ saving' = <<r>>
        \/ UNCHANGED <<dirs, saving>>
    BY DEF SaveHost
  <1>3. up /\ saving = << >> /\ deleting = Empty /\ ~writing
    BY DEF StoreIdle, StoreInv, SavingInv
  <1>4. /\ c.list \in Seq(Records) /\ c.at \in 1..Len(c.list) /\ r \in Records
        /\ \A j \in 1..Len(c.list) : j # c.at => j \in 1..Len(known) /\ c.list[j] = known[j]
    BY DEF ChangesOnePlace
  <1>5. d \in Strings
    BY <1>4, PemPlace
  <1> HIDE DEF d
  <1>6. dirs' \subseteq Strings /\ IsFiniteSet(dirs') /\ dirs \subseteq dirs'
    <2>1. dirs \subseteq Strings /\ IsFiniteSet(dirs)
      BY DEF StoreInv, StoreTyped, DiskTyped
    <2>2. IsFiniteSet(dirs \cup {d})
      BY <2>1, FS_AddElement
    <2> QED BY <1>2, <1>5, <2>1, <2>2
  <1> HIDE DEF r
  <1>7. /\ saving' \in Seq(Records) /\ Len(saving') \in {0, 1}
        /\ \A k \in 1..Len(saving') : saving'[k] = r
    <2>1. CASE saving' = <<r>>
      <3>1. /\ <<r>> \in Seq(Records) /\ Len(<<r>>) = 1 /\ <<r>>[1] = r
            /\ \A k \in 1..1 : k = 1
        BY <1>4
      <3> QED BY <2>1, <3>1
    <2>2. CASE UNCHANGED saving
      BY <1>3, <2>2
    <2> QED BY <1>2, <2>1, <2>2
  <1>8. StoreTyped'
    BY <1>1, <1>3, <1>4, <1>6, <1>7 DEF StoreInv, StoreTyped, DiskTyped
  <1>9. SavingInv'
    <2>1. \A k \in 1..Len(saving') :
             k = 1 /\ saving'[k] = known'[c.at] /\ ServerPem(saving'[k]) = d
      BY <1>1, <1>7 DEF d, r
    <2>2. c.at \in 1..Len(known') /\ d \in unsaved'
      BY <1>1, <1>4
    <2> QED BY <1>1, <1>3, <2>1, <2>2 DEF SavingInv
  <1>10. KeptInv'
    <2> SUFFICES ASSUME NEW i \in 1..Len(known')
                 PROVE  LET e == ServerPem(known'[i])
                        IN /\ e \notin unsaved' => e \in dirs' /\ ini'[e] = FileOf(known'[i])
                           /\ e = deleting' => e \in unsaved'
      BY DEF KeptInv
    <2>1. CASE i = c.at
      BY <1>1, <2>1 DEF d, r
    <2>2. CASE i # c.at
      <3>1. i \in 1..Len(known) /\ known'[i] = known[i]
        BY <1>1, <1>4, <2>2
      <3> QED BY <1>1, <1>6, <3>1 DEF StoreInv, KeptInv
    <2> QED BY <2>1, <2>2
  <1> QED BY <1>8, <1>9, <1>10 DEF StoreInv

LEMMA Removed ==
    ASSUME NEW S, NEW s \in Seq(S), NEW i \in 1..Len(s)
    PROVE  /\ RemoveAt(s, i) \in Seq(S) /\ Len(RemoveAt(s, i)) = Len(s) - 1
           /\ \A k \in 1..(Len(s) - 1) : RemoveAt(s, i)[k] = IF k < i THEN s[k] ELSE s[k + 1]
  <1> DEFINE before == SubSeq(s, 1, i - 1)
             behind  == SubSeq(s, i + 1, Len(s))
  <1>1. /\ before \in Seq(S) /\ Len(before) = i - 1
        /\ \A k \in 1..(i - 1) : before[k] = s[k]
    OBVIOUS
  <1>2. /\ behind \in Seq(S) /\ Len(behind) = Len(s) - i
        /\ \A k \in 1..(Len(s) - i) : behind[k] = s[i + k]
    OBVIOUS
  <1>3. RemoveAt(s, i) = before \o behind
    BY DEF RemoveAt
  <1> HIDE DEF before, behind
  <1>4. /\ before \o behind \in Seq(S)
        /\ Len(before \o behind) = Len(before) + Len(behind)
        /\ \A k \in 1..(Len(before) + Len(behind)) :
              (before \o behind)[k] = IF k <= Len(before) THEN before[k]
                                            ELSE behind[k - Len(before)]
    BY <1>1, <1>2, ConcatProperties
  <1> QED BY <1>1, <1>2, <1>3, <1>4

LEMMA DeleteHostStep ==
    ASSUME StoreInv, StoreIdle, NEW h, DeleteHost(h)
    PROVE  StoreInv'
  <1> DEFINE i == FindStoredHost(known, h)
             d == ServerPem(known[i])
  <1>0. known \in Seq(Records) /\ Len(known) \in Nat
    BY DEF StoreInv, StoreTyped
  <1>1. i \in 1..Len(known)
    BY <1>0, FoundByIdentity DEF DeleteHost
  <1>2. /\ known' = RemoveAt(known, i) /\ ini' = [ini EXCEPT ![d] = None] /\ deleting' = d
        /\ unsaved' = IF Shared(known, d) THEN unsaved \cup {d} ELSE unsaved \ {d}
        /\ UNCHANGED <<up, saving, writing, dirs>>
    BY DEF DeleteHost
  <1>3. up /\ saving = << >> /\ ~writing
    BY DEF StoreIdle, StoreInv, SavingInv
  <1> HIDE DEF i
  <1>4. known[i] \in Records /\ d \in Strings
    BY <1>0, <1>1, PemPlace
  <1>5. /\ known' \in Seq(Records) /\ Len(known') = Len(known) - 1
        /\ \A k \in 1..Len(known') : known'[k] = IF k < i THEN known[k] ELSE known[k + 1]
    BY <1>0, <1>1, <1>2, Removed
  <1>6. ASSUME NEW k \in 1..Len(known')
        PROVE  \E j \in 1..Len(known) : j # i /\ known'[k] = known[j]
    <2>1. CASE k < i
      BY <1>0, <1>1, <1>5, <2>1
    <2>2. CASE ~(k < i)
      <3>1. k + 1 \in 1..Len(known) /\ k + 1 # i /\ known'[k] = known[k + 1]
        BY <1>0, <1>1, <1>5, <2>2
      <3> QED BY <3>1
    <2> QED BY <2>1, <2>2
  <1> HIDE DEF d
  <1>7. StoreTyped'
    BY <1>2, <1>3, <1>4, <1>5 DEF StoreInv, StoreTyped, DiskTyped
  <1>8. SavingInv'
    BY <1>2, <1>3 DEF SavingInv
  <1>9. KeptInv'
    <2> SUFFICES ASSUME NEW k \in 1..Len(known')
                 PROVE  LET e == ServerPem(known'[k])
                        IN /\ e \notin unsaved' => e \in dirs' /\ ini'[e] = FileOf(known'[k])
                           /\ e = deleting' => e \in unsaved'
      BY DEF KeptInv
    <2>1. PICK j \in 1..Len(known) : j # i /\ known'[k] = known[j]
      BY <1>6
    <2>2. ServerPem(known[j]) = d => d \in unsaved'
      <3> SUFFICES ASSUME ServerPem(known[j]) = d PROVE d \in unsaved'
        OBVIOUS
      <3>1. Shared(known, d)
        BY <1>0, <1>1, <2>1 DEF Shared, d
      <3> QED BY <1>2, <3>1
    <2>3. ServerPem(known[j]) # d /\ ServerPem(known[j]) \notin unsaved' =>
             ServerPem(known[j]) \in dirs /\ ini[ServerPem(known[j])] = FileOf(known[j])
      BY <1>2 DEF StoreInv, KeptInv
    <2>4. ServerPem(known[j]) # d => ini'[ServerPem(known[j])] = ini[ServerPem(known[j])]
      <3>1. ServerPem(known[j]) \in Strings
        BY <1>0, PemPlace
      <3> QED BY <1>2, <1>4, <3>1 DEF StoreInv, StoreTyped, DiskTyped
    <2> QED BY <1>2, <2>1, <2>2, <2>3, <2>4
  <1> QED BY <1>7, <1>8, <1>9 DEF StoreInv
----------------------------------------------------------------------------
(* What the connection and the jobs name a PC by is well formed.           *)
HostsTyped ==
    /\ server.mac \in Machines \cup {Placeholder, Empty}
    /\ server.unique_id \in Machines \cup {Empty} /\ server.paired \in BOOLEAN
    /\ job \in Connects => host \in Selected
    /\ initialized => current \in Selected

LEMMA HostsInit == Init => HostsTyped
  BY DEF Init, ClientInit, HostsTyped, Fresh, Connects, ConnectSteps

LEMMA SelectedHosts ==
    /\ \A r \in Records : FileOf(r) \in Selected
    /\ \A a \in Addresses : [Blank EXCEPT !.name = a, !.internal = a] \in Selected
    /\ HostsTyped => \A h \in Selected :
          /\ UpdateHostFromServer(h) \in Selected
          /\ UpdateHostFromServer([h EXCEPT !.host_id = Overwrite(server.unique_id, @)])
                \in Selected
  <1>1. \A r \in Records : FileOf(r) \in Selected
    BY DEF Records, Selected, FileOf
  <1>2. \A a \in Addresses : [Blank EXCEPT !.name = a, !.internal = a] \in Selected
    BY DEF Blank, Selected, Strings
  <1>3. ASSUME HostsTyped, NEW h \in Selected
        PROVE  UpdateHostFromServer(h) \in Selected
    BY <1>3 DEF HostsTyped, UpdateHostFromServer, Overwrite, Selected
  <1>4. ASSUME HostsTyped, NEW h \in Selected
        PROVE  [h EXCEPT !.host_id = Overwrite(server.unique_id, @)] \in Selected
    BY <1>4 DEF HostsTyped, Selected, Overwrite
  <1>5. ASSUME HostsTyped, NEW h \in Selected
        PROVE  UpdateHostFromServer([h EXCEPT !.host_id = Overwrite(server.unique_id, @)])
                 \in Selected
    BY <1>3, <1>4, <1>5
  <1> QED BY <1>1, <1>2, <1>3, <1>5

LEMMA HostsConnect == TrustInv /\ PeerInv /\ HostsTyped /\ ConnectJob => HostsTyped'
  <1> SUFFICES ASSUME TrustInv, PeerInv, HostsTyped, ConnectJob PROVE HostsTyped'
    OBVIOUS
  <1> USE DEF HostsTyped, Connects, ConnectSteps, Goto, connection
  <1>1. CASE ConnectFails
    BY <1>1 DEF ConnectFails, TrustInv, ServerShape
  <1>2. CASE SaveCertificateFiles \/ CertificateFilesSaved \/ LoadCertificate
    BY <1>2 DEF SaveCertificateFiles, CertificateFilesSaved, LoadCertificate
  <1>3. CASE LoadPinnedCertificate
    BY <1>3 DEF LoadPinnedCertificate, TrustInv, ServerShape
  <1>4. CASE HttpServerInfo
    BY <1>4 DEF HttpServerInfo, ServerInfo, TrustInv, ServerShape
  <1>5. CASE LoadServerStatus
    BY <1>5 DEF LoadServerStatus, HttpsServerInfo, ServerInfo, TlsPeers, TrustInv, ServerShape
  <1>6. CASE RecordIdentity
    BY <1>6 DEF RecordIdentity
  <1>7. CASE Connected
    <2>1. host \in Selected
      BY <1>7 DEF Connected, PinDestination
    <2> QED BY <1>7, <2>1, SelectedHosts DEF Connected, PinDestination, TrustInv, ServerShape
  <1> QED
    BY <1>1, <1>2, <1>3, <1>4, <1>5, <1>6, <1>7 DEF ConnectJob

LEMMA HostsPair == TrustInv /\ PeerInv /\ HostsTyped /\ PairJob => HostsTyped'
  <1> SUFFICES ASSUME TrustInv, PeerInv, HostsTyped, PairJob PROVE HostsTyped'
    OBVIOUS
  <1> USE DEF HostsTyped, Connects, ConnectSteps, PairSteps, Exchanges, Goto, connection
  <1>1. CASE PairFails
    BY <1>1 DEF PairFails, TrustInv, ServerShape
  <1>2. CASE GetServerCert
    BY <1>2 DEF GetServerCert
  <1>3. CASE ClientChallenge \/ ServerChallengeResp
    BY <1>3 DEF ClientChallenge, ServerChallengeResp
  <1>4. CASE ClientPairingSecret
    BY <1>4 DEF ClientPairingSecret, TrustInv, ServerShape
  <1>5. CASE PairChallenge
    BY <1>5 DEF PairChallenge
  <1>6. CASE SavePinnedCertificate
    BY <1>6 DEF SavePinnedCertificate, TrustInv, ServerShape
  <1>7. CASE RefreshAfterPairing
    BY <1>7 DEF RefreshAfterPairing, HttpsServerInfo, ServerInfo, TlsPeers, TrustInv, ServerShape
  <1>8. CASE PairResult
    BY <1>8 DEF PairResult
  <1>9. CASE MarkCurrentPaired
    <2>1. current \in Selected
      BY <1>9 DEF MarkCurrentPaired, PeerInv, PairPlace
    <2> QED BY <1>9, <2>1, SelectedHosts DEF MarkCurrentPaired
  <1> QED
    BY <1>1, <1>2, <1>3, <1>4, <1>5, <1>6, <1>7, <1>8, <1>9 DEF PairJob

LEMMA HostsPages == TrustInv /\ StoreInv /\ HostsTyped /\ Pages => HostsTyped'
  <1> SUFFICES ASSUME TrustInv, StoreInv, HostsTyped, Pages PROVE HostsTyped'
    OBVIOUS
  <1> USE DEF HostsTyped, Connects, ConnectSteps
  <1>1. ASSUME NEW h \in Selected, Connect(h) PROVE HostsTyped'
    BY <1>1 DEF Connect, Fresh
  <1>2. CASE SelectSaved
    <2>1. PICK i \in DOMAIN known : Connect(FileOf(known[i]))
      BY <1>2 DEF SelectSaved
    <2>2. known[i] \in Records
      BY DEF StoreInv, StoreTyped
    <2> QED BY <1>1, <2>1, <2>2, SelectedHosts
  <1>3. CASE EnterAddress
    BY <1>1, <1>3, SelectedHosts DEF EnterAddress
  <1>4. CASE AddDiscovered \/ DeleteSelected
    BY <1>4 DEF AddDiscovered, DeleteSelected, connection, work
  <1>5. CASE PreparePairing
    BY <1>5 DEF PreparePairing, work
  <1>6. CASE GoBack
    BY <1>6 DEF GoBack, connection
  <1>7. CASE RefreshServerInfo
    BY <1>7 DEF RefreshServerInfo, HttpsServerInfo, ServerInfo, TlsPeers, work, TrustInv, ServerShape
  <1> QED
    BY <1>2, <1>3, <1>4, <1>5, <1>6, <1>7 DEF Pages

LEMMA HostsStoreSteps == HostsTyped /\ (Start \/ StoreSteps \/ Crash) => HostsTyped'
  <1>1. HostsTyped /\ (Start \/ StoreSteps) => HostsTyped'
    BY DEF HostsTyped, Start, StoreSteps, client, connection, work
  <1>2. HostsTyped /\ Crash => HostsTyped'
    BY DEF HostsTyped, Crash, Fresh, Connects, ConnectSteps
  <1> QED BY <1>1, <1>2

LEMMA HostsStep == TrustInv /\ PeerInv /\ StoreInv /\ HostsTyped /\ [Next]_vars => HostsTyped'
  <1> SUFFICES ASSUME TrustInv, PeerInv, StoreInv, HostsTyped, [Next]_vars PROVE HostsTyped'
    OBVIOUS
  <1>1. CASE Next
    BY <1>1, HostsStoreSteps, HostsConnect, HostsPair, HostsPages DEF Next
  <1>2. CASE UNCHANGED vars
    BY <1>2 DEF vars, client, connection, work, HostsTyped
  <1> QED BY <1>1, <1>2

(* The store changes only through its own operations.                      *)
Unsaving == UNCHANGED <<up, known, saving, writing, deleting, dirs, ini, unsaved>>

LEMMA UntouchedStep == StoreInv /\ Unsaving => StoreInv'
  BY DEF Unsaving, StoreInv, StoreTyped, DiskTyped, SavingInv, KeptInv

LEMMA StoreInvConnect == StoreInv /\ HostsTyped /\ ConnectJob => StoreInv'
  <1> SUFFICES ASSUME StoreInv, HostsTyped, ConnectJob PROVE StoreInv'
    OBVIOUS
  <1>1. CASE RecordIdentity /\ server.unique_id # Empty
    <2>1. /\ known \in Seq(Records) /\ StoreIdle /\ SetHostId(host, server.unique_id)
          /\ host \in Selected /\ server.unique_id \in Machines \cup {Empty}
      BY <1>1 DEF RecordIdentity, StoreInv, StoreTyped, HostsTyped, Connects
    <2>2. PICK c : ChangesOnePlace(known, c) /\ SaveHost(c)
      BY <2>1, SetHostIdSaves
    <2> QED BY <2>1, <2>2, SaveHostStep
  <1>2. CASE Unsaving
    BY <1>2, UntouchedStep
  <1>3. ConnectJob => (RecordIdentity /\ server.unique_id # Empty) \/ Unsaving
    BY Zenon DEF ConnectJob, ConnectFails, SaveCertificateFiles, CertificateFilesSaved,
                 LoadCertificate,
           LoadPinnedCertificate, HttpServerInfo, LoadServerStatus, RecordIdentity, Connected, storeVars,
           store, disk, Unsaving
  <1> QED BY <1>1, <1>2, <1>3

LEMMA StoreInvPair == StoreInv /\ PeerInv /\ HostsTyped /\ PairJob => StoreInv'
  <1> SUFFICES ASSUME StoreInv, PeerInv, HostsTyped, PairJob PROVE StoreInv'
    OBVIOUS
  <1>1. CASE MarkCurrentPaired
    <2>1. /\ known \in Seq(Records) /\ StoreIdle /\ MarkPaired(UpdateHostFromServer(current))
          /\ current \in Selected
      BY <1>1 DEF MarkCurrentPaired, StoreInv, StoreTyped, HostsTyped, PeerInv, PairPlace,
                  PairSteps
    <2>2. UpdateHostFromServer(current) \in Selected
      BY <2>1, SelectedHosts
    <2>3. PICK c : ChangesOnePlace(known, c) /\ SaveHost(c)
      BY <2>1, <2>2, MarkPairedSaves
    <2> QED BY <2>1, <2>3, SaveHostStep
  <1>2. CASE Unsaving
    BY <1>2, UntouchedStep
  <1>3. PairJob => MarkCurrentPaired \/ Unsaving
    BY Zenon DEF PairJob, PairFails, GetServerCert, ClientChallenge, ServerChallengeResp,
           ClientPairingSecret, PairChallenge, SavePinnedCertificate, RefreshAfterPairing,
           PairResult, storeVars, store, disk, Unsaving
  <1> QED BY <1>1, <1>2, <1>3

LEMMA StoreInvPages == StoreInv /\ Pages => StoreInv'
  <1> SUFFICES ASSUME StoreInv, Pages PROVE StoreInv'
    OBVIOUS
  <1>1. CASE AddDiscovered
    <2>1. known \in Seq(Records) /\ StoreIdle
      BY <1>1 DEF AddDiscovered, AtMainPage, StoreInv, StoreTyped
    <2>2. PICK a \in Addresses, n \in Names : AddHostByName(a, n)
      BY <1>1 DEF AddDiscovered
    <2>3. PICK c : ChangesOnePlace(known, c) /\ SaveHost(c)
      BY <2>1, <2>2, AddHostByNameSaves
    <2> QED BY <2>1, <2>3, SaveHostStep
  <1>2. CASE DeleteSelected
    BY <1>2, DeleteHostStep DEF DeleteSelected, AtMainPage
  <1>3. CASE Unsaving
    BY <1>3, UntouchedStep
  <1>4. Pages => AddDiscovered \/ DeleteSelected \/ Unsaving
    BY Zenon DEF Pages, SelectSaved, EnterAddress, Connect, PreparePairing, GoBack,
                 RefreshServerInfo,
           storeVars, store, disk, Unsaving
  <1> QED BY <1>1, <1>2, <1>3, <1>4

LEMMA StoreInvStep == PeerInv /\ StoreInv /\ HostsTyped /\ [Next]_vars => StoreInv'
  <1> SUFFICES ASSUME PeerInv, StoreInv, HostsTyped, [Next]_vars PROVE StoreInv'
    OBVIOUS
  <1>1. CASE Start
    BY <1>1, BootStep DEF Start
  <1>2. CASE Crash
    BY <1>2, CrashStep DEF Crash
  <1>3. CASE StoreSteps
    BY <1>3, SaveOpensStep, SaveClosesStep, EmptyDirectoryStep, RemoveDirectoryStep
       DEF StoreSteps, StoreStep
  <1>4. CASE ConnectJob \/ PairJob \/ Pages
    BY <1>4, StoreInvConnect, StoreInvPair, StoreInvPages
  <1>5. CASE UNCHANGED vars
    BY <1>5, UntouchedStep DEF vars, storeVars, store, disk, Unsaving
  <1> QED BY <1>1, <1>2, <1>3, <1>4, <1>5 DEF Next

LEMMA StoreAlways == Spec => [](StoreInv /\ HostsTyped)
  <1>1. Init => StoreInv /\ HostsTyped
    BY StoreInitInv, HostsInit DEF Init
  <1>2. TrustInv /\ PeerInv /\ (StoreInv /\ HostsTyped) /\ [Next]_vars
          => (StoreInv /\ HostsTyped)'
    BY StoreInvStep, HostsStep
  <1> QED BY <1>1, <1>2, TrustAlways, PeerAlways, PTL DEF Spec
----------------------------------------------------------------------------
(* The first i places of a list.                                           *)
Part(list, i) == [j \in 1..i |-> list[j]]

LEMMA FoldKeepsAll ==
    ASSUME NEW kind, NEW seq, NEW n \in Nat, NEW it, Fold(kind, it, seq, n), NEW list,
           \A i \in 1..n : Step(kind, Part(list, i - 1), seq[i]) = Part(list, i)
    PROVE  it[1..n] = Part(list, n)
  <1> DEFINE S == {i \in Nat : i <= n => it[1..i] = Part(list, i)}
  <1>0. /\ it[1..0] = << >>
        /\ \A i \in 1..n : it[1..i] = Step(kind, it[1..(i - 1)], seq[i])
    <2>1. Chain(kind, it, seq, n)
      BY FoldChain
    <2> QED BY <2>1 DEF Chain
  <1>1. 0 \in S
    <2>1. Part(list, 0) = << >>
      BY DEF Part
    <2>2. it[1..0] = Part(list, 0)
      BY <1>0, <2>1
    <2> QED BY <2>2, Zenon
  <1>2. ASSUME NEW i \in Nat, i \in S PROVE i + 1 \in S
    <2> SUFFICES ASSUME i + 1 <= n PROVE it[1..(i + 1)] = Part(list, i + 1)
      OBVIOUS
    <2>1. it[1..i] = Part(list, i)
      BY <1>2
    <2>2. i + 1 \in 1..n /\ (i + 1) - 1 = i
      OBVIOUS
    <2>3. it[1..(i + 1)] = Step(kind, it[1..i], seq[i + 1])
      BY <1>0, <2>2
    <2>4. Step(kind, Part(list, (i + 1) - 1), seq[i + 1]) = Part(list, i + 1)
      BY <2>2
    <2> QED BY <2>1, <2>2, <2>3, <2>4
  <1> HIDE DEF S
  <1>3. Nat \subseteq S
    BY <1>1, <1>2, NatSetInduction
  <1> QED BY <1>3 DEF S

(* A record that stands for no PC in a list joins none of its records.     *)
Apart(left, right) == left.name # right.name /\ ~DevicesSameIdentity(left, right)

LEMMA ApartIsNew ==
    ASSUME NEW list \in Seq(Records), NEW r \in Records,
           \A i \in 1..Len(list) : Apart(list[i], r)
    PROVE  /\ AppendDevice(list, r).list = Append(list, r)
           /\ NormalizeOne(list, r) = Append(list, r)
  <1>0. Len(list) \in Nat
    OBVIOUS
  <1>1. /\ HostIdHits(list, r.host_id) = {} /\ MacHits(list, r.mac) = {}
        /\ AddressHits(list, r.internal) = {} /\ NameHits(list, r.name) = {}
    BY DEF Apart, DevicesSameIdentity, HostIdHits, MacHits, AddressHits, NameHits, Match
  <1>2. /\ FindDeviceByHostId(list, r.host_id) = 0 /\ FindDeviceByMac(list, r.mac) = 0
        /\ FindDeviceByAddress(list, r.internal) = 0 /\ FindDevice(list, r.name) = 0
    BY <1>0, <1>1, Lookups DEF FirstWith
  <1>3. FirstHit(<<0, 0, 0, 0>>) = 0
    BY FirstOfFour
  <1>4. FindDeviceByIdentity(list, r) = 0
    BY <1>2, <1>3, Zenon DEF FindDeviceByIdentity
  <1>5. AppendDevice(list, r).list = Append(list, r)
    BY <1>4, Identified DEF AppendDevice
  <1> DEFINE hits == {i \in 1..Len(list) : DevicesSameIdentity(list[i], r)}
  <1>6. hits = {}
    BY DEF Apart
  <1>7. SelectInSeq(list, LAMBDA x : DevicesSameIdentity(x, r)) = 0
    BY <1>6 DEF SelectInSeq
  <1>8. NormalizeOne(list, r) = Append(list, r)
    BY <1>7 DEF NormalizeOne
  <1> QED BY <1>5, <1>8

LEMMA PartGrows ==
    ASSUME NEW n \in Nat, NEW list \in [1..n -> Records], NEW i \in 1..n
    PROVE  /\ Part(list, i - 1) \in Seq(Records) /\ Len(Part(list, i - 1)) = i - 1
           /\ \A j \in 1..(i - 1) : Part(list, i - 1)[j] = list[j]
           /\ Append(Part(list, i - 1), list[i]) = Part(list, i)
  BY DEF Part

(* Files of different PCs are loaded as they are, one record each.         *)
LEMMA LoadKeepsAll ==
    ASSUME DiskTyped, NEW n \in Nat, NEW order \in [1..n -> Readable],
           \A i, j \in 1..n : i # j => order[i] # order[j],
           \A c, d \in Readable : c # d => Apart(LoadDeviceInfo(c), LoadDeviceInfo(d))
    PROVE  LoadAllKnownDevices(order) = [i \in 1..n |-> LoadDeviceInfo(order[i])]
  <1> DEFINE list == [i \in 1..n |-> LoadDeviceInfo(order[i])]
  <1>1. list \in [1..n -> Records]
    BY LoadedRecord
  <1>2. ASSUME NEW i \in 1..n
        PROVE  /\ list[i] \in Records /\ list[i] = LoadDeviceInfo(order[i])
               /\ EnsureHostIdentity(list[i]) = list[i]
    BY LoadedRecord
  <1>3. \A i, j \in 1..n : i # j => Apart(list[i], list[j])
    BY <1>2
  <1>4. list = Part(list, n)
    BY <1>1 DEF Part
  <1> HIDE DEF list
  <1>5. ASSUME NEW i \in 1..n
        PROVE  /\ Step("load", Part(list, i - 1), order[i]) = Part(list, i)
               /\ Step("normalize", Part(list, i - 1), list[i]) = Part(list, i)
    <2>1. /\ Part(list, i - 1) \in Seq(Records) /\ Len(Part(list, i - 1)) = i - 1
          /\ \A j \in 1..(i - 1) : Part(list, i - 1)[j] = list[j]
          /\ Append(Part(list, i - 1), list[i]) = Part(list, i)
      BY <1>1, PartGrows
    <2>2. \A j \in 1..(i - 1) : j \in 1..n /\ j # i
      OBVIOUS
    <2>3. \A j \in 1..Len(Part(list, i - 1)) : Apart(Part(list, i - 1)[j], list[i])
      BY <1>3, <2>1, <2>2
    <2>4. /\ AppendDevice(Part(list, i - 1), list[i]).list = Part(list, i)
          /\ NormalizeOne(Part(list, i - 1), list[i]) = Part(list, i)
      BY <1>2, <2>1, <2>3, ApartIsNew
    <2> QED BY <1>2, <2>4 DEF Step, LoadStep
  <1>6. PICK it : /\ Fold("load", it, order, n)
                  /\ LoadAllKnownDevices(order) = NormalizeKnownDevices(it[1..n])
    BY LoadIsFold
  <1>7. it[1..n] = list
    BY <1>4, <1>5, <1>6, FoldKeepsAll
  <1>8. DOMAIN list = 1..n
    BY <1>1
  <1>9. PICK jt : /\ Fold("normalize", jt, list, n)
                  /\ NormalizeKnownDevices(list) =
                        [i \in DOMAIN jt[1..n] |-> EnsureHostIdentity(jt[1..n][i])]
    BY <1>8, NormalizeIsFold
  <1>10. jt[1..n] = list
    BY <1>4, <1>5, <1>9, FoldKeepsAll
  <1>11. [i \in DOMAIN list |-> EnsureHostIdentity(list[i])] = list
    BY <1>1, <1>2, <1>8
  <1> QED BY <1>6, <1>7, <1>9, <1>10, <1>11 DEF list

(* A saved PC's file is read once and gives back its record.               *)
LEMMA KeptIsLoaded ==
    ASSUME StoreInv, Separate, NEW order \in Orders, NEW i \in 1..Len(known),
           ServerPem(known[i]) \notin unsaved
    PROVE  \E j \in DOMAIN LoadAllKnownDevices(order) :
              LoadAllKnownDevices(order)[j] = known[i]
  <1> DEFINE d == ServerPem(known[i])
  <1>1. known[i] \in Records /\ DiskTyped
    BY DEF StoreInv, StoreTyped
  <1>2. d \in dirs /\ ini[d] = FileOf(known[i])
    BY DEF StoreInv, KeptInv
  <1>3. d \in Readable
    BY <1>1, <1>2, FilesOf, StoreAssumption DEF Readable
  <1>4. LoadDeviceInfo(d) = known[i]
    <2>1. d = known[i].storage /\ known[i].name # Empty
      BY <1>1, PemPlace, StoreAssumption DEF Records, Empty
    <2> DEFINE r == known[i]
               f == FileOf(r)
    <2>2. f = [r EXCEPT !.storage = Empty]
      BY DEF FileOf
    <2>3. f.name = r.name
      BY <1>1, <2>2 DEF Records
    <2>4. LoadDeviceInfo(d) = [f EXCEPT !.name = r.name, !.storage = d]
      BY <1>2, <2>1, <2>3 DEF LoadDeviceInfo, Overwrite
    <2>5. r \in Records /\ d = r.storage
      BY <1>1, <2>1
    <2> HIDE DEF d, r, f
    <2>6. r = [name |-> r.name, host_id |-> r.host_id, storage |-> r.storage,
               internal |-> r.internal, mac |-> r.mac, paired |-> r.paired]
      BY <2>5 DEF Records
    <2>7. [f EXCEPT !.name = r.name, !.storage = d] =
            [name |-> r.name, host_id |-> r.host_id, storage |-> r.storage,
             internal |-> r.internal, mac |-> r.mac, paired |-> r.paired]
      BY <2>2, <2>5, <2>6
    <2> QED BY <2>4, <2>6, <2>7 DEF r
  <1> HIDE DEF d
  <1>0. PICK n \in Nat : ReadsAll(order, n)
    BY <1>1, OrdersReadAll
  <1>5. /\ order \in [1..n -> Readable]
        /\ \A k, j \in 1..n : k # j => order[k] # order[j]
        /\ \A e \in Readable : \E k \in 1..n : order[k] = e
    BY <1>0 DEF ReadsAll
  <1>6. \A c, e \in Readable : c # e => Apart(LoadDeviceInfo(c), LoadDeviceInfo(e))
    BY DEF Separate, Readable, Apart
  <1>7. LoadAllKnownDevices(order) = [k \in 1..n |-> LoadDeviceInfo(order[k])]
    BY <1>1, <1>5, <1>6, LoadKeepsAll
  <1> QED BY <1>3, <1>4, <1>5, <1>7

(* A restart at any moment finds every PC whose last save succeeded as it  *)
(* was, in whatever order the directory is read (load_all_known_devices,   *)
(* save_device_info, remove_device_index).                                 *)
THEOREM RestartFindsHosts == Spec => []RestartKeepsHosts
  <1>1. StoreInv => RestartKeepsHosts
    <2> SUFFICES ASSUME StoreInv PROVE RestartKeepsHosts
      OBVIOUS
    <2>1. DOMAIN known = 1..Len(known)
      BY DEF StoreInv, StoreTyped
    <2> QED BY <2>1, KeptIsLoaded DEF RestartKeepsHosts
  <1> QED BY <1>1, StoreAlways, PTL
----------------------------------------------------------------------------
(* PinAndMarkAgree follows what is known of the record: the path of the    *)
(* pin is that of the record the host is found as, then of one that bears  *)
(* the PC's UUID if one is known, and nobody changes the list until the    *)
(* pairing ends.                                                           *)
Owned(id, path) ==
    id \in Machines
    /\ \E i \in 1..Len(known) : known[i].host_id = id /\ ServerPem(known[i]) = path
OwnedIfKnown(id, path) == id # Empty => Owned(id, path)

Undisturbed ==
    /\ ~up => front /\ job = "idle"
    /\ job \in Connects => front /\ ~cancel
    /\ job \in PairSteps /\ ~cancel => ~front

PinPlace ==
    /\ job \in ConnectSteps \cup {"identity"} =>
         server.path = CertificatePath(host) /\ OwnedIfKnown(host.host_id, server.path)
    /\ job = "connected" =>
         OwnedIfKnown(Overwrite(server.unique_id, host.host_id), PinDestination)
    /\ ~front /\ state = "ready" => OwnedIfKnown(current.host_id, server.path)

PinInv == Undisturbed /\ PinPlace

(* What the store's lookup finds answers to some part of the identity.     *)
LEMMA FoundIsHit ==
    ASSUME NEW list \in Seq(Records), NEW h
    PROVE  LET i == FindStoredHost(list, h)
           IN /\ i \in 0..Len(list)
              /\ HostIdHits(list, h.host_id) # {} => i \in HostIdHits(list, h.host_id)
              /\ i = 0 => /\ HostIdHits(list, h.host_id) = {} /\ MacHits(list, h.mac) = {}
                          /\ AddressHits(list, h.internal) = {} /\ NameHits(list, h.name) = {}
              /\ i # 0 => \/ i \in HostIdHits(list, h.host_id) \/ i \in MacHits(list, h.mac)
                          \/ i \in AddressHits(list, h.internal)
                          \/ i \in NameHits(list, h.name)
  <1> DEFINE a == FindDeviceByHostId(list, h.host_id)
             b == FindDeviceByMac(list, h.mac)
             c == FindDeviceByAddress(list, h.internal)
             d == FindDevice(list, h.name)
  <1>0. Len(list) \in Nat
    OBVIOUS
  <1>1. /\ FirstWith(list, a, HostIdHits(list, h.host_id))
        /\ FirstWith(list, b, MacHits(list, h.mac))
        /\ FirstWith(list, c, AddressHits(list, h.internal))
        /\ FirstWith(list, d, NameHits(list, h.name))
    BY <1>0, Lookups
  <1>2. FindStoredHost(list, h) = FirstHit(<<a, b, c, d>>)
    BY Zenon DEF FindStoredHost
  <1> HIDE DEF a, b, c, d
  <1>3. a \in Nat /\ b \in Nat /\ c \in Nat /\ d \in Nat
    BY <1>1 DEF FirstWith
  <1>4. FindStoredHost(list, h) = IF a # 0 THEN a ELSE IF b # 0 THEN b
                                   ELSE IF c # 0 THEN c ELSE d
    BY <1>2, <1>3, FirstOfFour
  <1>5. HostIdHits(list, h.host_id) # {} => a # 0 /\ a \in HostIdHits(list, h.host_id)
    <2>1. \A i \in HostIdHits(list, h.host_id) : i # 0
      BY DEF HostIdHits
    <2> QED BY <1>1, <2>1 DEF FirstWith
  <1> QED BY <1>1, <1>4, <1>5 DEF FirstWith

(* Among different PCs the UUID finds its record.                          *)
LEMMA OwnerIsFound ==
    ASSUME known \in Seq(Records), Different, NEW h, NEW path, Owned(h.host_id, path)
    PROVE  FindStoredHost(known, h) # 0 /\ ServerPem(known[FindStoredHost(known, h)]) = path
  <1> DEFINE f == FindStoredHost(known, h)
  <1>1. PICK i \in 1..Len(known) : known[i].host_id = h.host_id /\ ServerPem(known[i]) = path
    BY DEF Owned
  <1>2. h.host_id # Empty
    BY StoreAssumption DEF Owned
  <1>3. i \in HostIdHits(known, h.host_id)
    BY <1>1, <1>2 DEF HostIdHits, Match
  <1>4. f \in HostIdHits(known, h.host_id)
    BY <1>3, FoundIsHit
  <1> HIDE DEF f
  <1>5. f \in 1..Len(known) /\ f # 0 /\ known[f].host_id = h.host_id
    BY <1>4 DEF HostIdHits, Match
  <1>6. f = i
    BY <1>1, <1>2, <1>5 DEF Different, DevicesSameIdentity, Match
  <1> QED BY <1>1, <1>5, <1>6 DEF f

(* The new record keeps the UUID and the name it was offered with.         *)
LEMMA AppendedRecord ==
    ASSUME known \in Seq(Records), NEW h \in Selected, NEW id \in Machines,
           FindStoredHost(known, h) = 0
    PROVE  LET c == AppendHost(h, id, FALSE)
           IN c.list[c.at].host_id = id /\ c.list[c.at].name = h.name
  <1> DEFINE c == AppendHost(h, id, FALSE)
             b == UpdateHostMetadata(Blank, h)
             info == [b EXCEPT !.name = Overwrite(@, h.internal), !.host_id = id,
                               !.paired = FALSE]
             i == FindDeviceByIdentity(known, info)
             merged == MergeDeviceInfo(known[i], info)
             r == [merged EXCEPT !.host_id = Overwrite(@, info.host_id),
                                 !.storage = Overwrite(@, info.storage)]
  <1>0. Empty \notin Strings /\ Empty \notin Machines /\ Len(known) \in Nat
    BY StoreAssumption DEF Empty
  <1> SUFFICES c.list[c.at].host_id = id /\ c.list[c.at].name = h.name
    OBVIOUS
  <1>1. c = AppendDevice(known, info)
    BY DEF AppendHost
  <1> HIDE DEF c
  <1>2. info \in Offered
    BY OfferedHost
  <1>3. /\ info.host_id = id /\ info.name = h.name /\ info.mac = h.mac
        /\ info.internal = h.internal
    <2>1. b.name = h.name /\ b.mac = h.mac /\ b.internal = h.internal
      BY <1>0 DEF Selected, UpdateHostMetadata, Overwrite, Blank
    <2>2. b \in Offered /\ h.name \in Strings
      BY <1>0 DEF Selected, Offered, UpdateHostMetadata, Overwrite, Blank
    <2> HIDE DEF b
    <2> QED BY <1>0, <2>1, <2>2 DEF Offered, Overwrite
  <1>4. id # Empty /\ h.name # Empty
    BY <1>0 DEF Selected
  <1> HIDE DEF info
  <1>5. CASE i = 0
    <2>1. AppendDevice(known, info) =
            [list |-> Append(known, EnsureHostIdentity(info)), at |-> Len(known) + 1]
      BY <1>5 DEF AppendDevice
    <2>2. EnsureHostIdentity(info).host_id = id /\ EnsureHostIdentity(info).name = h.name
      BY <1>2, <1>3 DEF EnsureHostIdentity, Offered
    <2> DEFINE e == EnsureHostIdentity(info)
    <2>3. e \in Records
      BY <1>2, Identified
    <2> HIDE DEF e
    <2>4. Append(known, e)[Len(known) + 1] = e
      BY <2>3
    <2>5. c = [list |-> Append(known, e), at |-> Len(known) + 1]
      BY <1>1, <2>1 DEF e
    <2>6. e.host_id = id /\ e.name = h.name
      BY <2>2 DEF e
    <2> QED BY <2>4, <2>5, <2>6
  <1>6. CASE i # 0
    <2>1. /\ MacHits(known, h.mac) = {} /\ AddressHits(known, h.internal) = {}
          /\ NameHits(known, h.name) = {}
      BY FoundIsHit
    <2>2. /\ FindDeviceByMac(known, h.mac) = 0 /\ FindDeviceByAddress(known, h.internal) = 0
          /\ FindDevice(known, h.name) = 0
      BY <1>0, <2>1, Lookups DEF FirstWith
    <2> DEFINE a == FindDeviceByHostId(known, id)
    <2>3. FirstWith(known, a, HostIdHits(known, id))
      BY <1>0, Lookups
    <2>4. i = FirstHit(<<a, 0, 0, 0>>)
      BY <1>3, <2>2, Zenon DEF FindDeviceByIdentity
    <2> HIDE DEF i, a
    <2>5. a \in Nat
      BY <2>3 DEF FirstWith
    <2>6. i = a
      BY <2>4, <2>5, FirstOfFour
    <2>7. i \in 1..Len(known) /\ known[i].host_id = id
      BY <1>6, <2>3, <2>6 DEF FirstWith, HostIdHits, Match
    <2>8. AppendDevice(known, info) = [at |-> i, list |-> [known EXCEPT ![i] = r]]
      BY <1>6 DEF AppendDevice, i
    <2>9. merged.host_id = id /\ merged.name = h.name /\ merged \in Records
      <3>1. known[i] \in Records
        BY <2>7
      <3>2. merged \in Records
        BY <1>2, <3>1, Merged
      <3> QED BY <1>3, <1>4, <2>7, <3>1, <3>2 DEF MergeDeviceInfo, Overwrite, Records
    <2> HIDE DEF merged
    <2>10. r.host_id = id /\ r.name = h.name
      BY <1>4, <2>9 DEF Overwrite, Records
    <2> HIDE DEF r
    <2>11. c = [at |-> i, list |-> [known EXCEPT ![i] = r]]
      BY <1>1, <2>8
    <2>12. [known EXCEPT ![i] = r][i] = r
      BY <2>7
    <2> QED BY <2>10, <2>11, <2>12
  <1> QED BY <1>5, <1>6

(* The certificate lies in the directory of the record that now bears the  *)
(* PC's UUID.                                                              *)
LEMMA IdentityOwned ==
    ASSUME known \in Seq(Records), host \in Selected, NEW id \in Machines, NEW path,
           path = CertificatePath(host), SetHostId(host, id), host' = host
    PROVE  Owned(id, Overwrite(path, CertificatePath(host)))'
  <1> DEFINE i == FindStoredHost(known, host)
             old == known[i]
             r == UpdateHostMetadata([old EXCEPT !.host_id = id], host)
             c == AppendHost(host, id, FALSE)
  <1>1. path = IF i = 0 THEN Empty ELSE ServerPem(known[i])
    BY DEF CertificatePath
  <1>2. i \in 0..Len(known)
    BY FoundIsHit
  <1>3. SaveHost(IF i = 0 THEN c ELSE [at |-> i, list |-> [known EXCEPT ![i] = r]])
    BY DEF SetHostId
  <1>4. CASE i # 0
    <2>1. known' = [known EXCEPT ![i] = r]
      BY <1>3, <1>4 DEF SaveHost
    <2>2. old \in Records
      BY <1>2, <1>4
    <2> HIDE DEF i, old
    <2>3. r \in Records /\ r.host_id = id /\ r.storage = old.storage
      <3>1. [old EXCEPT !.host_id = id] \in Records
        BY <2>2 DEF Records
      <3>2. r \in Records
        BY <3>1, Updated
      <3> QED BY <2>2, <3>2 DEF UpdateHostMetadata, Records
    <2> HIDE DEF r
    <2>4. known' \in Seq(Records) /\ i \in 1..Len(known') /\ known'[i] = r
      BY <1>2, <1>4, <2>1, <2>3
    <2>5. path = ServerPem(r) /\ path # Empty
      BY <1>1, <1>4, <2>2, <2>3, PemPlace DEF old
    <2> QED BY <2>3, <2>4, <2>5 DEF Owned, Overwrite
  <1>5. CASE i = 0
    <2>1. known' = c.list
      BY <1>3, <1>5 DEF SaveHost
    <2>2. ChangesOnePlace(known, c)
      BY HostAppended
    <2>3. c.list[c.at].host_id = id /\ c.list[c.at].name = host.name
      BY <1>5, AppendedRecord
    <2> HIDE DEF c
    <2> DEFINE f == FindStoredHost(known', host)
               at == c.at
    <2>4. /\ known' \in Seq(Records) /\ at \in 1..Len(known') /\ known'[at].host_id = id
          /\ known'[at].name = host.name
          /\ \A j \in 1..Len(known') : j # at => j \in 1..Len(known) /\ known'[j] = known[j]
      BY <2>1, <2>2, <2>3 DEF ChangesOnePlace
    <2>5. /\ HostIdHits(known, host.host_id) = {} /\ MacHits(known, host.mac) = {}
          /\ AddressHits(known, host.internal) = {} /\ NameHits(known, host.name) = {}
      BY <1>5, FoundIsHit
    <2> HIDE DEF at
    <2>6. /\ HostIdHits(known', host.host_id) \subseteq {at}
          /\ MacHits(known', host.mac) \subseteq {at}
          /\ AddressHits(known', host.internal) \subseteq {at}
          /\ NameHits(known', host.name) \subseteq {at}
      BY <2>4, <2>5 DEF HostIdHits, MacHits, AddressHits, NameHits
    <2>7. at \in NameHits(known', host.name)
      <3>1. host.name # Empty
        BY StoreAssumption DEF Selected, Empty
      <3> QED BY <2>4, <3>1 DEF NameHits, Match
    <2>8. f = at
      <3>1. /\ f = 0 => NameHits(known', host.name) = {}
            /\ f # 0 => \/ f \in HostIdHits(known', host.host_id)
                        \/ f \in MacHits(known', host.mac)
                        \/ f \in AddressHits(known', host.internal)
                        \/ f \in NameHits(known', host.name)
        BY <2>4, FoundIsHit
      <3> HIDE DEF f
      <3> QED BY <2>6, <2>7, <3>1
    <2>9. at # 0 /\ path = Empty
      BY <1>1, <1>5, <2>4
    <2>10. CertificatePath(host)' = ServerPem(known'[at])
      BY <2>8, <2>9 DEF CertificatePath
    <2> QED BY <2>4, <2>9, <2>10 DEF Owned, Overwrite
  <1> QED BY <1>4, <1>5
LEMMA PinInit == Init => PinInv
  BY DEF Init, StoreInit, ClientInit, PinInv, Undisturbed, PinPlace, Connects, ConnectSteps,
         PairSteps, Exchanges

(* An unchanged list finds the same record.                                *)
LEMMA SameList ==
    ASSUME known' = known
    PROVE  /\ \A id, path : Owned(id, path)' <=> Owned(id, path)
           /\ host' = host => CertificatePath(host)' = CertificatePath(host)
  BY DEF Owned, CertificatePath

(* A saved record that has a UUID is found by it.                          *)
LEMMA SelectedOwned ==
    ASSUME known \in Seq(Records), NEW h, h.host_id \in Machines \cup {Empty},
           h.host_id # Empty => \E i \in 1..Len(known) : known[i].host_id = h.host_id
    PROVE  OwnedIfKnown(h.host_id, CertificatePath(h))
  <1> SUFFICES ASSUME h.host_id # Empty PROVE Owned(h.host_id, CertificatePath(h))
    BY DEF OwnedIfKnown
  <1> DEFINE f == FindStoredHost(known, h)
  <1>1. HostIdHits(known, h.host_id) # {}
    BY DEF HostIdHits, Match
  <1>2. f \in HostIdHits(known, h.host_id)
    BY <1>1, FoundIsHit
  <1>3. CertificatePath(h) = IF f = 0 THEN Empty ELSE ServerPem(known[f])
    BY DEF CertificatePath
  <1> HIDE DEF f
  <1>4. f \in 1..Len(known) /\ known[f].host_id = h.host_id
    BY <1>2 DEF HostIdHits, Match
  <1> QED BY <1>3, <1>4 DEF Owned

LEMMA PinStoreSteps == PinInv /\ (Start \/ StoreSteps \/ Crash) => PinInv'
  <1> SUFFICES ASSUME PinInv, Start \/ StoreSteps \/ Crash PROVE PinInv'
    OBVIOUS
  <1>1. CASE Start
    BY <1>1 DEF Start, Boot, client, connection, work, PinInv, Undisturbed, PinPlace,
       Connects, ConnectSteps, PairSteps, Exchanges
  <1>2. CASE StoreSteps
    <2>1. known' = known /\ up' = up /\ UNCHANGED client
      BY <1>2 DEF StoreSteps, StoreStep, SaveOpens, SaveCloses, EmptyDirectory, RemoveDirectory
    <2> QED BY <2>1 DEF client, connection, work, PinInv, Undisturbed, PinPlace, OwnedIfKnown,
                        Owned, CertificatePath, PinDestination
  <1>3. CASE Crash
    BY <1>3 DEF Crash, PinInv, Undisturbed, PinPlace, Connects, ConnectSteps, PairSteps,
                Exchanges
  <1> QED BY <1>1, <1>2, <1>3

LEMMA PinConnect == TrustInv /\ StoreInv /\ HostsTyped /\ PinInv /\ ConnectJob => PinInv'
  <1> SUFFICES ASSUME TrustInv, StoreInv, HostsTyped, PinInv, ConnectJob PROVE PinInv'
    OBVIOUS
  <1> DEFINE Steady == /\ UNCHANGED <<up, known, host, front, cancel, state, current>>
                       /\ server'.path = server.path
                       /\ job \in ConnectSteps /\ job' \in ConnectSteps \cup {"identity"}
  <1>1. CASE Steady
    <2>1. Undisturbed'
      BY <1>1 DEF PinInv, Undisturbed, Connects, ConnectSteps, PairSteps, Exchanges
    <2>2. CertificatePath(host)' = CertificatePath(host)
          /\ (OwnedIfKnown(host.host_id, server.path)' <=> OwnedIfKnown(host.host_id, server.path))
      BY <1>1 DEF CertificatePath, OwnedIfKnown, Owned
    <2>3. front' /\ job' # "connected"
      BY <1>1 DEF PinInv, Undisturbed, Connects, ConnectSteps
    <2>4. PinPlace'
      BY <1>1, <2>2, <2>3 DEF PinInv, PinPlace
    <2> QED BY <2>1, <2>4 DEF PinInv
  <1>2. CASE ConnectFails
    BY <1>2 DEF ConnectFails, Goto, PinInv, Undisturbed, PinPlace, Connects, ConnectSteps,
                PairSteps, Exchanges, storeVars, store
  <1>3. CASE SaveCertificateFiles \/ CertificateFilesSaved \/ LoadCertificate
    BY <1>1, <1>3 DEF SaveCertificateFiles, CertificateFilesSaved, LoadCertificate, Goto,
                connection, storeVars, store, ConnectSteps
  <1>4. CASE LoadPinnedCertificate \/ HttpServerInfo
    BY <1>1, <1>4 DEF LoadPinnedCertificate, HttpServerInfo, ServerInfo, Goto, TrustInv,
                ServerShape, storeVars, store, ConnectSteps
  <1>5. CASE LoadServerStatus
    <2>1. UNCHANGED <<up, known, host, front, cancel, state, current>> /\ job = "https"
          /\ job' \in {"identity", "unauthorized"}
      BY <1>5 DEF LoadServerStatus, Goto, storeVars, store
    <2>2. server'.path = server.path
      BY <1>5 DEF LoadServerStatus, HttpsServerInfo, ServerInfo, TrustInv, ServerShape
    <2> QED BY <1>1, <2>1, <2>2 DEF ConnectSteps
  <1>6. CASE RecordIdentity
    <2>1. /\ known \in Seq(Records) /\ host \in Selected
          /\ server.unique_id \in Machines \cup {Empty}
          /\ server.path = CertificatePath(host) /\ OwnedIfKnown(host.host_id, server.path)
          /\ UNCHANGED <<server, host, front, cancel>> /\ job' = "connected" /\ front
          /\ ~cancel /\ up
      BY <1>6 DEF RecordIdentity, StoreIdle, StoreInv, StoreTyped, HostsTyped, PinInv,
                  Undisturbed, PinPlace, Connects, ConnectSteps, Goto, connection
    <2>2. CASE server.unique_id = Empty
      <3>1. known' = known /\ up' = up
        BY <1>6, <2>2 DEF RecordIdentity, storeVars, store
      <3>2. PinDestination' = server.path
            /\ Overwrite(server.unique_id, host.host_id)' = host.host_id
        BY <2>1, <2>2 DEF PinDestination, Overwrite
      <3>3. OwnedIfKnown(Overwrite(server.unique_id, host.host_id), PinDestination)'
        BY <2>1, <3>1, <3>2 DEF OwnedIfKnown, Owned
      <3> QED BY <2>1, <3>1, <3>3 DEF PinInv, Undisturbed, PinPlace, Connects, ConnectSteps,
                 PairSteps, Exchanges
    <2>3. CASE server.unique_id # Empty
      <3>1. SetHostId(host, server.unique_id)
        BY <1>6, <2>3 DEF RecordIdentity
      <3>2. up'
        BY <2>1, <3>1 DEF SetHostId, SaveHost
      <3> DEFINE id == server.unique_id
                 path == server.path
      <3>3. id \in Machines
        BY <2>1, <2>3
      <3>4. Owned(id, Overwrite(path, CertificatePath(host)))'
        BY <2>1, <3>1, <3>3, IdentityOwned
      <3>5. PinDestination' = Overwrite(path, CertificatePath(host))'
            /\ Overwrite(server.unique_id, host.host_id)' = id
        BY <2>1, <2>3 DEF PinDestination, Overwrite
      <3>6. OwnedIfKnown(Overwrite(server.unique_id, host.host_id), PinDestination)'
        <4> HIDE DEF id, path
        <4> DEFINE new == Overwrite(server.unique_id, host.host_id)
                   at == PinDestination
        <4>1. new' = id /\ at' = Overwrite(path, CertificatePath(host))' /\ id' = id
          BY <2>1, <3>5 DEF id
        <4> HIDE DEF new, at
        <4>2. Owned(new, at)'
          BY <3>4, <4>1 DEF Owned
        <4> QED BY <4>2 DEF OwnedIfKnown, new, at
      <3> QED BY <2>1, <3>2, <3>6 DEF PinInv, Undisturbed, PinPlace, Connects, ConnectSteps,
                 PairSteps, Exchanges
    <2> QED BY <2>2, <2>3
  <1>7. CASE Connected
    <2>1. /\ OwnedIfKnown(Overwrite(server.unique_id, host.host_id), PinDestination)
          /\ host \in Selected /\ job' = "idle" /\ UNCHANGED <<known, up, cancel>> /\ ~cancel
          /\ up
      BY <1>7 DEF Connected, PinInv, PinPlace, HostsTyped, Undisturbed, Connects, ConnectSteps,
                  Goto, storeVars, store
    <2>2. current'.host_id = Overwrite(server.unique_id, host.host_id)
      BY <1>7, <2>1 DEF Connected, UpdateHostFromServer, Selected
    <2>3. server'.path = PinDestination
      BY <1>7 DEF Connected, TrustInv, ServerShape
    <2>4. OwnedIfKnown(current.host_id, server.path)'
      BY <2>1, <2>2, <2>3 DEF OwnedIfKnown, Owned
    <2> QED BY <2>1, <2>4 DEF PinInv, Undisturbed, PinPlace, Connects, ConnectSteps, PairSteps,
               Exchanges
  <1> QED
    BY <1>2, <1>3, <1>4, <1>5, <1>6, <1>7 DEF ConnectJob

LEMMA PinPair == TrustInv /\ PeerInv /\ PinInv /\ PairJob => PinInv'
  <1> SUFFICES ASSUME TrustInv, PeerInv, PinInv, PairJob PROVE PinInv'
    OBVIOUS
  <1> DEFINE Steady == /\ UNCHANGED <<up, known, front, cancel, state, current>>
                       /\ server'.path = server.path
                       /\ job \in PairSteps /\ job' \in PairSteps \cup {"idle"}
  <1>1. CASE Steady
    BY <1>1 DEF PinInv, Undisturbed, PinPlace, Connects, ConnectSteps, PairSteps, Exchanges,
                OwnedIfKnown, Owned
  <1> USE DEF Goto, connection, storeVars, store, disk, PairSteps, Exchanges
  <1>2. CASE PairFails
    BY <1>1, <1>2 DEF PairFails, TrustInv, ServerShape
  <1>3. CASE GetServerCert \/ ClientChallenge \/ ServerChallengeResp \/ PairChallenge
    BY <1>1, <1>3 DEF GetServerCert, ClientChallenge, ServerChallengeResp, PairChallenge
  <1>4. CASE ClientPairingSecret
    BY <1>1, <1>4 DEF ClientPairingSecret, TrustInv, ServerShape
  <1>5. CASE SavePinnedCertificate
    BY <1>1, <1>5 DEF SavePinnedCertificate, TrustInv, ServerShape
  <1>6. CASE RefreshAfterPairing
    BY <1>1, <1>6 DEF RefreshAfterPairing, HttpsServerInfo, ServerInfo, TrustInv, ServerShape
  <1>7. CASE PairResult
    BY <1>1, <1>7 DEF PairResult
  <1>8. CASE MarkCurrentPaired
    <2>1. up' = up
      BY <1>8 DEF MarkCurrentPaired, MarkPaired, SaveHost
    <2>2. /\ state' = "paired" /\ job' = "idle" /\ UNCHANGED <<front, cancel>>
      BY <1>8 DEF MarkCurrentPaired
    <2>3. up
      BY <1>8 DEF MarkCurrentPaired, StoreIdle
    <2> QED BY <2>1, <2>2, <2>3 DEF PinInv, Undisturbed, PinPlace, Connects, ConnectSteps
  <1> QED
    BY <1>2, <1>3, <1>4, <1>5, <1>6, <1>7, <1>8 DEF PairJob

LEMMA PinPages == TrustInv /\ StoreInv /\ PeerInv /\ PinInv /\ Pages => PinInv'
  <1> SUFFICES ASSUME TrustInv, StoreInv, PeerInv, PinInv, Pages PROVE PinInv'
    OBVIOUS
  <1> USE DEF PinInv, Undisturbed, PinPlace, Connects, ConnectSteps, PairSteps, Exchanges
  <1>1. ASSUME NEW h, Connect(h), OwnedIfKnown(h.host_id, CertificatePath(h)) PROVE PinInv'
    <2>1. /\ UNCHANGED <<up, known, front, state, current>> /\ host' = h /\ front /\ up
          /\ job' = "credentials" /\ ~cancel' /\ server'.path = CertificatePath(h)
      BY <1>1 DEF Connect, Fresh, StoreIdle, storeVars, store
    <2>2. CertificatePath(host)' = CertificatePath(h)
          /\ OwnedIfKnown(host.host_id, server.path)'
      BY <1>1, <2>1 DEF CertificatePath, OwnedIfKnown, Owned
    <2> QED BY <2>1, <2>2
  <1>0. known \in Seq(Records)
    BY DEF StoreInv, StoreTyped
  <1>2. CASE SelectSaved
    <2>1. PICK i \in DOMAIN known : Connect(FileOf(known[i]))
      BY <1>2 DEF SelectSaved
    <2> HIDE DEF PinInv, Undisturbed, PinPlace
    <2>4. i \in 1..Len(known) /\ known[i] \in Records
      BY <1>0
    <2>5. \A r \in Records : FileOf(r).host_id = r.host_id
                            /\ r.host_id \in Machines \cup {Empty}
      BY DEF FileOf, Records
    <2>2. i \in 1..Len(known) /\ FileOf(known[i]).host_id = known[i].host_id
          /\ known[i].host_id \in Machines \cup {Empty}
      BY <2>4, <2>5
    <2>3. OwnedIfKnown(FileOf(known[i]).host_id, CertificatePath(FileOf(known[i])))
      BY <1>0, <2>2, SelectedOwned
    <2> QED BY <1>1, <2>1, <2>3
  <1>7. CASE EnterAddress
    <2>1. PICK a \in Addresses : Connect([Blank EXCEPT !.name = a, !.internal = a])
      BY <1>7 DEF EnterAddress
    <2> DEFINE h == [Blank EXCEPT !.name = a, !.internal = a]
    <2>2. h.host_id = Empty
      BY DEF Blank
    <2>3. OwnedIfKnown(h.host_id, CertificatePath(h))
      BY <2>2 DEF OwnedIfKnown
    <2> HIDE DEF h
    <2> QED BY <1>1, <2>1, <2>3 DEF h
  <1>3. CASE AddDiscovered \/ DeleteSelected
    <2>1. AtMainPage /\ UNCHANGED <<connection, work, front>>
      BY <1>3 DEF AddDiscovered, DeleteSelected
    <2>2. up' = up
      <3>1. \A c : SaveHost(c) => up' = up
        BY DEF SaveHost
      <3>2. \A a, n : AddHostByName(a, n) => up' = up
        BY <3>1, Zenon DEF AddHostByName
      <3>3. \A h : DeleteHost(h) => up' = up
        BY Zenon DEF DeleteHost
      <3> QED BY <1>3, <3>2, <3>3 DEF AddDiscovered, DeleteSelected
    <2> QED BY <2>1, <2>2 DEF AtMainPage, connection, work
  <1>4. CASE PreparePairing
    BY <1>4 DEF PreparePairing, StoreIdle, work, storeVars, store, OwnedIfKnown, Owned
  <1>5. CASE GoBack
    BY <1>5 DEF GoBack, connection, storeVars, store, OwnedIfKnown, Owned
  <1>6. CASE RefreshServerInfo
    BY <1>6 DEF RefreshServerInfo, HttpsServerInfo, ServerInfo, work, TrustInv, ServerShape, storeVars,
                store, OwnedIfKnown, Owned
  <1> QED
    BY <1>2, <1>3, <1>4, <1>5, <1>6, <1>7 DEF Pages

LEMMA PinStep ==
    TrustInv /\ PeerInv /\ StoreInv /\ HostsTyped /\ PinInv /\ [Next]_vars => PinInv'
  <1> SUFFICES ASSUME TrustInv, PeerInv, StoreInv, HostsTyped, PinInv, [Next]_vars PROVE PinInv'
    OBVIOUS
  <1>1. CASE Next
    BY <1>1, PinStoreSteps, PinConnect, PinPair, PinPages DEF Next
  <1>2. CASE UNCHANGED vars
    BY <1>2 DEF vars, client, connection, work, storeVars, store, PinInv, Undisturbed,
                PinPlace, OwnedIfKnown, Owned, CertificatePath, PinDestination
  <1> QED BY <1>1, <1>2

LEMMA PinAlways == Spec => []PinInv
  BY PinInit, PinStep, TrustAlways, PeerAlways, StoreAlways, PTL DEF Spec

(* Pairing a PC whose UUID is known marks the record whose directory holds *)
(* the pin (moonlight_api_pair_current_host,                               *)
(* legacy_device_store_mark_paired).                                       *)
THEOREM MarkFollowsPin == Spec => PinAndMarkAgree
  <1> DEFINE i == FindStoredHost(known, UpdateHostFromServer(current))
  <1>1. ASSUME PeerInv, StoreInv, HostsTyped, PinInv, job = "mark", Different, ~cancel,
               current.host_id # Empty
        PROVE  i # 0 /\ ServerPem(known[i]) = server.path
    <2> DEFINE h == UpdateHostFromServer(current)
    <2>1. job \in PairSteps
      BY <1>1 DEF PairSteps
    <2>2. /\ known \in Seq(Records) /\ Owned(current.host_id, server.path)
          /\ current \in Selected
      BY <1>1, <2>1 DEF StoreInv, StoreTyped, PeerInv, PairPlace, PinInv, Undisturbed, PinPlace,
                 HostsTyped, OwnedIfKnown
    <2>3. h.host_id = current.host_id
      BY <2>2 DEF UpdateHostFromServer, Selected
    <2> HIDE DEF h
    <2>4. Owned(h.host_id, server.path)
      BY <2>2, <2>3
    <2>5. /\ FindStoredHost(known, h) # 0
          /\ ServerPem(known[FindStoredHost(known, h)]) = server.path
      BY <1>1, <2>2, <2>4, OwnerIsFound
    <2> QED BY <2>5 DEF h
  <1>2. PeerInv /\ StoreInv /\ HostsTyped /\ PinInv /\ [Next]_vars =>
          [(job = "mark" /\ job' = "idle" /\ up' /\ Different /\ ~cancel
            /\ current.host_id # Empty) =>
             LET j == FindStoredHost(known, UpdateHostFromServer(current))
             IN j # 0 /\ ServerPem(known[j]) = server.path]_vars
    BY <1>1
  <1> QED
    BY <1>2, PeerAlways, StoreAlways, PinAlways, PTL DEF Spec, PinAndMarkAgree
=============================================================================
