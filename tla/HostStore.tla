----------------------------- MODULE HostStore -----------------------------
(***************************************************************************)
(* Saved PCs: the list in memory (known_devices), one directory per PC     *)
(* with device.ini and server.pem, and the store operations on them        *)
(* (src/backend/legacy/device.c, src/backend/legacy_device_store.cpp).     *)
(*                                                                         *)
(* Strings that name a directory are numbers in the order of strcmp and    *)
(* Empty is the empty string.  The port, the external address (nothing in  *)
(* the program assigns one) and prefer_external are left out: they follow  *)
(* the fields kept here through the same copies.  Running out of memory is *)
(* not modelled.                                                           *)
(***************************************************************************)
EXTENDS Naturals, SequencesExt

CONSTANTS Addresses,     \* addresses a PC may answer at
          Names,         \* display names
          Machines,      \* PCs, each identified by its server UUID
          Placeholder,   \* the MAC every PC reports over plain HTTP
          None,          \* no file, no certificate
          MaxHosts       \* bound: saved PCs

Empty   == 0
Strings == Addresses \cup Names

(* What device.ini may hold, in its directory.                             *)
Files == [name : Strings \cup {Empty}, host_id : Machines \cup {Empty},
          storage : {Empty}, internal : Addresses \cup {Empty},
          mac : Machines \cup {Placeholder, Empty}, paired : BOOLEAN]

ASSUME StoreAssumption ==
    /\ Strings \subseteq Nat \ {Empty} /\ Addresses \cap Names = {}
    /\ Empty \notin Machines \cup {Placeholder} /\ Placeholder \notin Machines
    /\ None \notin Machines \cup Files
    /\ MaxHosts \in Nat

VARIABLES
    up,        \* s_initialized
    known,     \* known_devices
    saving,    \* records whose device.ini is still to be written
    writing,   \* device.ini of Head(saving) has been truncated by fopen
    deleting,  \* directory being removed, its device.ini already gone
    emptied,   \* its other files are gone too
    dirs,      \* directories under key_dir
    ini,       \* device.ini of each directory, possibly cut short; None if it
               \* is missing or cannot be parsed
    pem,       \* server.pem: whose certificate it holds
    unsaved    \* history: directories whose last save has not succeeded, or
               \* that were another PC's too at their last save or since

store     == <<known, saving, writing, deleting, emptied>>
disk      == <<dirs, ini, pem>>
storeVars == <<up, store, disk, unsaved>>

Blank     == [name |-> Empty, host_id |-> Empty, storage |-> Empty,
              internal |-> Empty, mac |-> Empty, paired |-> FALSE]

----------------------------------------------------------------------------
(* Identity and merging.                                                   *)

Match(left, right)    == left # Empty /\ left = right
Overwrite(new, old)   == IF new # Empty THEN new ELSE old

EnsureHostIdentity(r) ==
    [r EXCEPT !.storage = IF @ # Empty THEN @ ELSE Overwrite(r.name, r.host_id)]

DevicesSameIdentity(left, right) ==
    \/ Match(left.host_id, right.host_id)
    \/ Match(left.mac, right.mac)
    \/ Match(left.internal, right.internal)
    \/ /\ left.internal = Empty /\ right.internal = Empty
       /\ Match(left.name, right.name)

(* The code compares the first characters of two UUIDs; UUIDs that differ  *)
(* are taken to differ there.                                              *)
ShouldKeepDevice(candidate, current) ==
    IF candidate.paired # current.paired THEN candidate.paired
    ELSE IF candidate.host_id # current.host_id THEN candidate.host_id # Empty
    ELSE candidate.storage < current.storage

MergeDeviceInfo(destination, source) ==
    [destination EXCEPT !.paired   = @ \/ source.paired,
                        !.name     = Overwrite(source.name, @),
                        !.internal = Overwrite(source.internal, @),
                        !.mac      = Overwrite(source.mac, @)]

FindDeviceByHostId(list, id)    == SelectInSeq(list, LAMBDA r : Match(r.host_id, id))
FindDeviceByMac(list, mac)      == SelectInSeq(list, LAMBDA r : Match(r.mac, mac))
FindDeviceByAddress(list, addr) == SelectInSeq(list, LAMBDA r : Match(r.internal, addr))
FindDevice(list, name)          == SelectInSeq(list, LAMBDA r : Match(r.name, name))

FirstHit(hits) ==
    LET hit == SelectInSeq(hits, LAMBDA h : h # 0) IN IF hit = 0 THEN 0 ELSE hits[hit]

(* A name counts only when the PC has no stronger identity.                *)
FindDeviceByIdentity(list, info) ==
    FirstHit(<<FindDeviceByHostId(list, info.host_id), FindDeviceByMac(list, info.mac),
               FindDeviceByAddress(list, info.internal),
               IF info.mac = Empty /\ info.internal = Empty
                   THEN FindDevice(list, info.name) ELSE 0>>)

(* The store's own lookup falls back to the name in any case.              *)
FindStoredHost(list, host) ==
    FirstHit(<<FindDeviceByHostId(list, host.host_id), FindDeviceByMac(list, host.mac),
               FindDeviceByAddress(list, host.internal), FindDevice(list, host.name)>>)

AppendDevice(list, info) ==
    LET i      == FindDeviceByIdentity(list, info)
        merged == MergeDeviceInfo(list[i], info)
    IN IF i = 0 THEN [list |-> Append(list, EnsureHostIdentity(info)), at |-> Len(list) + 1]
       ELSE [at |-> i,
             list |-> [list EXCEPT ![i] =
                 [merged EXCEPT !.host_id = Overwrite(@, info.host_id),
                                !.storage = Overwrite(@, info.storage)]]]

(* One pass over the list: each record joins the first kept one that       *)
(* stands for the same PC.                                                 *)
NormalizeOne(kept, source) ==
    LET match == SelectInSeq(kept, LAMBDA r : DevicesSameIdentity(r, source))
    IN IF match = 0 THEN Append(kept, source)
       ELSE [kept EXCEPT ![match] = IF ShouldKeepDevice(source, kept[match])
                                    THEN MergeDeviceInfo(source, kept[match])
                                    ELSE MergeDeviceInfo(kept[match], source)]

NormalizeKnownDevices(list) ==
    LET kept == FoldLeft(NormalizeOne, <<>>, list)
    IN [i \in DOMAIN kept |-> EnsureHostIdentity(kept[i])]

----------------------------------------------------------------------------
(* Files.  device.ini holds every field but the directory it lies in.  A   *)
(* file cut short lacks its last lines, which read as empty fields, or ends*)
(* in a line without '=': then ini_parse fails and the file counts for     *)
(* nothing, as None does.                                                  *)

FileOf(r)     == [r EXCEPT !.storage = Empty]
CutShort(r)   == {None, Blank, [FileOf(r) EXCEPT !.internal = Empty, !.mac = Empty]}
ServerPem(r)  == Overwrite(r.storage, r.name)
Shared(list, d) == \E i, j \in DOMAIN list :
                       i # j /\ ServerPem(list[i]) = d /\ ServerPem(list[j]) = d

(* Mutant: the directory is derived from the record again.                 *)
LoadDeviceInfoByName(d) == [ini[d] EXCEPT !.name = Overwrite(@, d)]

LoadDeviceInfo(d) ==
    [ini[d] EXCEPT !.name = Overwrite(@, d), !.storage = d]

Orders == SetToSeqs({d \in dirs : ini[d] # None})

LoadAllKnownDevices(order) ==
    NormalizeKnownDevices(
        FoldLeft(LAMBDA list, d : AppendDevice(list, EnsureHostIdentity(LoadDeviceInfo(d))).list,
                 <<>>, order))

StoreInit ==
    /\ up = FALSE /\ known = <<>>
    /\ saving = <<>> /\ writing = FALSE /\ deleting = Empty /\ emptied = FALSE
    /\ dirs = {} /\ unsaved = {}
    /\ ini = [d \in Strings |-> None] /\ pem = [d \in Strings |-> None]

(* legacy_device_store_init: every record is rewritten after the load.     *)
Boot ==
    /\ ~up
    /\ \E order \in Orders :
        /\ known' = LoadAllKnownDevices(order)
        /\ saving' = known'
        /\ unsaved' = {known'[i].storage : i \in DOMAIN known'}
    /\ up' = TRUE
    /\ UNCHANGED <<writing, deleting, emptied, disk>>

(* Power loss or the end of the process, also in the middle of a save.     *)
CrashStore ==
    /\ up
    /\ up' = FALSE
    /\ known' = <<>> /\ saving' = <<>> /\ writing' = FALSE
    /\ deleting' = Empty /\ emptied' = FALSE
    /\ UNCHANGED <<disk, unsaved>>

StoreIdle == up /\ saving = <<>> /\ deleting = Empty

(* save_device_info: fopen truncates, fclose reports what was not written. *)
SaveOpens ==
    /\ saving # <<>> /\ ~writing
    /\ LET d == ServerPem(Head(saving))
       IN \/ /\ d \in dirs
             /\ \E cut \in CutShort(Head(saving)) : ini' = [ini EXCEPT ![d] = cut]
             /\ writing' = TRUE /\ UNCHANGED saving
          \/ UNCHANGED <<ini, writing>> /\ saving' = Tail(saving)
    /\ UNCHANGED <<up, known, deleting, emptied, dirs, pem, unsaved>>

SaveCloses ==
    /\ writing
    /\ LET d == ServerPem(Head(saving))
       IN \/ /\ ini' = [ini EXCEPT ![d] = FileOf(Head(saving))]
             /\ unsaved' = IF Shared(known, d) THEN unsaved ELSE unsaved \ {d}
          \/ UNCHANGED <<ini, unsaved>>
    /\ writing' = FALSE /\ saving' = Tail(saving)
    /\ UNCHANGED <<up, known, deleting, emptied, dirs, pem>>

(* The end of every store operation: the list has changed at one place and *)
(* save_host creates the directory and saves the record there.             *)
SaveHost(changed) ==
    LET r == changed.list[changed.at]
    IN /\ known' = changed.list
       /\ unsaved' = unsaved \cup {ServerPem(r)}
       /\ \/ dirs' = dirs \cup {ServerPem(r)} /\ saving' = <<r>>
          \/ ServerPem(r) \notin dirs /\ UNCHANGED <<dirs, saving>>
       /\ UNCHANGED <<up, writing, deleting, emptied, ini, pem>>

UpdateHostMetadata(stored, host) ==
    [stored EXCEPT !.name     = Overwrite(host.name, @),
                   !.internal = Overwrite(host.internal, @),
                   !.mac      = Overwrite(host.mac, @)]

AppendHost(host, host_id, paired) ==
    AppendDevice(known,
        [UpdateHostMetadata(Blank, host) EXCEPT
            !.name = Overwrite(@, host.internal), !.host_id = host_id, !.paired = paired])

(* legacy_device_store_add_host: by address, then by name.                 *)
AddHostByName(address, name) ==
    LET i == FirstHit(<<FindDeviceByAddress(known, address), FindDevice(known, name)>>)
    IN SaveHost(IF i = 0
                THEN AppendDevice(known, [Blank EXCEPT !.name = name, !.internal = address])
                ELSE [at |-> i, list |-> [known EXCEPT ![i].name = name,
                                                       ![i].internal = address]])

SetHostId(host, host_id) ==
    LET i == FindStoredHost(known, host)
    IN SaveHost(IF i = 0 THEN AppendHost(host, host_id, FALSE)
                ELSE [at |-> i, list |-> [known EXCEPT ![i] =
                        UpdateHostMetadata([known[i] EXCEPT !.host_id = host_id], host)]])

MarkPaired(host) ==
    LET i       == FindStoredHost(known, host)
        updated == UpdateHostMetadata(known[i], host)
    IN SaveHost(IF i = 0 THEN AppendHost(host, host.host_id, TRUE)
                ELSE [at |-> i, list |-> [known EXCEPT ![i] =
                        [updated EXCEPT !.host_id = Overwrite(@, host.host_id),
                                        !.paired = TRUE]]])

(* remove_device_index: the record, then device.ini ...                    *)
DeleteHost(host) ==
    LET i == FindStoredHost(known, host)
        d == ServerPem(known[i])
    IN /\ i # 0
       /\ known' = RemoveAt(known, i)
       /\ ini' = [ini EXCEPT ![d] = None]
       /\ deleting' = d
       /\ unsaved' = IF Shared(known, d) THEN unsaved \cup {d} ELSE unsaved \ {d}
       /\ UNCHANGED <<up, saving, writing, emptied, dirs, pem>>

(* ... then the other files, found by reading the directory ...             *)
EmptyDirectory ==
    /\ deleting # Empty /\ ~emptied
    /\ pem' = [pem EXCEPT ![deleting] = None]
    /\ emptied' = TRUE
    /\ UNCHANGED <<up, known, saving, writing, deleting, dirs, ini, unsaved>>

(* ... then the directory, which goes only if nothing has been added.       *)
RemoveDirectory ==
    /\ emptied
    /\ dirs' = IF pem[deleting] = None THEN dirs \ {deleting} ELSE dirs
    /\ deleting' = Empty /\ emptied' = FALSE
    /\ UNCHANGED <<up, known, saving, writing, ini, pem, unsaved>>

StoreStep == SaveOpens \/ SaveCloses \/ EmptyDirectory \/ RemoveDirectory

----------------------------------------------------------------------------
(* The PCs in the list are different PCs in different directories.         *)
Different ==
    \A i, j \in DOMAIN known : i # j =>
        /\ known[i].name # known[j].name /\ ~DevicesSameIdentity(known[i], known[j])
        /\ ServerPem(known[i]) # ServerPem(known[j])

(* The files of the saved PCs stand for different PCs, and no two PCs in   *)
(* the list share a directory.                                             *)
Separate ==
    /\ \A i, j \in DOMAIN known : i # j => ServerPem(known[i]) # ServerPem(known[j])
    /\ \A c, d \in dirs : c # d /\ ini[c] # None /\ ini[d] # None =>
         LET left == LoadDeviceInfo(c) right == LoadDeviceInfo(d)
         IN left.name # right.name /\ ~DevicesSameIdentity(left, right)

(* A restart at any moment, also between the truncation and the rewriting  *)
(* of another PC's file or halfway through a deletion, finds every PC      *)
(* whose last save succeeded, unaltered and with the same directory,       *)
(* whatever the order of the directory: as long as the files are of        *)
(* different PCs.                                                          *)
RestartKeepsHosts ==
    (up /\ Separate) =>
        \A order \in Orders, i \in DOMAIN known :
            ServerPem(known[i]) \in unsaved
            \/ \E j \in DOMAIN LoadAllKnownDevices(order) :
                  LoadAllKnownDevices(order)[j] = known[i]
=============================================================================
