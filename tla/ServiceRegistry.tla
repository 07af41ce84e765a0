--------------------------- MODULE ServiceRegistry ---------------------------
(***************************************************************************)
(* The service registry of src/registry/service.go: a service name is a    *)
(* lock in etcd, held by the peer whose name is the value of               *)
(* /service/<name>, with the twin key /peer/service/<peer>/<name>.  Every  *)
(* peer mirrors /service/* into its `services` map through a watch, and    *)
(* keeps the services it registered itself in `selfServices`, with the     *)
(* create revision that its stop-time cleanup compares against.           *)
(*                                                                         *)
(* RegisterService commits its transaction and only then, in a separate    *)
(* step, stores the service locally; the watch goroutine applies PUT and   *)
(* DELETE events in revision order, concurrently with it.  The keys carry  *)
(* no lease: a crashed peer keeps its services until it restarts and       *)
(* initServices deletes them.  The prefix index (the word trie) is left    *)
(* to the WordTrie module: here it holds the same names as `services`.     *)
(***************************************************************************)
EXTENDS Integers, SequencesExt, FiniteSets

CONSTANTS
    Peers,      \* application instances (model values)
    Services,   \* service full names (model values)
    MaxRev,     \* bound on the etcd revision
    NoPeer      \* no value / no entry

NoRev == -1     \* no entry in selfServices, no Register in flight

VARIABLES
    rev,          \* etcd store revision
    svcKey,       \* /service/<s>: [val, crev]; crev = 0 when absent
    peerKey,      \* /peer/service/<p>/<s> exists
    up,           \* peer process running
    services,     \* services map of each peer: s -> owner, NoPeer if absent
    selfServices, \* selfServices map: s -> recorded CreateRevision, NoRev if absent
    notified,     \* OnServiceAdd minus OnServiceDelete delivered for s at p
    watchQ,       \* /service/ events not yet applied by p's watch goroutine
    regPending    \* RegisterService of s by p committed, local store not yet done

vars == <<rev, svcKey, peerKey, up, services, selfServices, notified, watchQ, regPending>>

Revs == 0 .. MaxRev
Absent == [val |-> NoPeer, crev |-> 0]
Event == [type : {"PUT", "DELETE"}, s : Services, val : Peers \cup {NoPeer}]

\* deliver events to the watch of every running peer
Publish(es) == [q \in Peers |-> IF up[q] THEN watchQ[q] \o es ELSE watchQ[q]]

Init ==
    /\ rev = 1
    /\ svcKey = [s \in Services |-> Absent]
    /\ peerKey = [k \in Peers \X Services |-> FALSE]
    /\ up = [p \in Peers |-> TRUE]
    /\ services = [p \in Peers |-> [s \in Services |-> NoPeer]]
    /\ selfServices = [p \in Peers |-> [s \in Services |-> NoRev]]
    /\ notified = [p \in Peers |-> [s \in Services |-> 0]]
    /\ watchQ = [p \in Peers |-> <<>>]
    /\ regPending = [p \in Peers |-> [s \in Services |-> NoRev]]

-----------------------------------------------------------------------------
(* RegisterService (525-578).  The transaction: if CreateRevision of       *)
(* /service/s is 0, put both keys; its revision becomes the create         *)
(* revision.  On conflict nothing changes (ErrServiceLocked).              *)

\* Mutant: the create revision is taken one past the commit revision.
RegisterServiceOffByOne(p, s) ==
    /\ up[p] /\ rev < MaxRev /\ regPending[p][s] = NoRev
    /\ svcKey[s].crev = 0
    /\ rev' = rev + 1
    /\ svcKey' = [svcKey EXCEPT ![s] = [val |-> p, crev |-> rev + 1]]
    /\ peerKey' = [peerKey EXCEPT ![p, s] = TRUE]
    /\ watchQ' = Publish(<<[type |-> "PUT", s |-> s, val |-> p]>>)
    /\ regPending' = [regPending EXCEPT ![p][s] = rev + 2]
    /\ UNCHANGED <<up, services, selfServices, notified>>

\* Mutant: the txn puts both keys without its CreateRevision = 0 guard.
RegisterServiceUnguarded(p, s) ==
    /\ up[p] /\ rev < MaxRev /\ regPending[p][s] = NoRev
    /\ rev' = rev + 1
    /\ svcKey' = [svcKey EXCEPT ![s] = [val |-> p,
                      crev |-> IF svcKey[s].crev = 0 THEN rev + 1 ELSE svcKey[s].crev]]
    /\ peerKey' = [peerKey EXCEPT ![p, s] = TRUE]
    /\ watchQ' = Publish(<<[type |-> "PUT", s |-> s, val |-> p]>>)
    /\ regPending' = [regPending EXCEPT ![p][s] = rev + 1]
    /\ UNCHANGED <<up, services, selfServices, notified>>

RegisterService(p, s) ==
    /\ up[p] /\ rev < MaxRev /\ regPending[p][s] = NoRev
    /\ svcKey[s].crev = 0
    /\ rev' = rev + 1
    /\ svcKey' = [svcKey EXCEPT ![s] = [val |-> p, crev |-> rev + 1]]
    /\ peerKey' = [peerKey EXCEPT ![p, s] = TRUE]
    /\ watchQ' = Publish(<<[type |-> "PUT", s |-> s, val |-> p]>>)
    /\ regPending' = [regPending EXCEPT ![p][s] = rev + 1]
    /\ UNCHANGED <<up, services, selfServices, notified>>

\* After the commit: services.LoadOrStore, prefixIndex.add,
\* selfServices.Store, onServiceAdd.
RegisterStore(p, s) ==
    /\ up[p] /\ regPending[p][s] # NoRev
    /\ services' = [services EXCEPT ![p][s] = IF @ = NoPeer THEN p ELSE @]
    /\ selfServices' = [selfServices EXCEPT ![p][s] = regPending[p][s]]
    /\ notified' = [notified EXCEPT ![p][s] = @ + 1]
    /\ regPending' = [regPending EXCEPT ![p][s] = NoRev]
    /\ UNCHANGED <<rev, svcKey, peerKey, up, watchQ>>

\* Mutant: only /service/s is deleted, the peer key is forgotten.
UnregisterServiceHalf(p, s) ==
    /\ up[p] /\ rev < MaxRev
    /\ svcKey[s].val = p /\ svcKey[s].crev # 0
    /\ rev' = rev + 1
    /\ svcKey' = [svcKey EXCEPT ![s] = Absent]
    /\ watchQ' = Publish(<<[type |-> "DELETE", s |-> s, val |-> NoPeer]>>)
    /\ UNCHANGED <<peerKey, up, services, selfServices, notified, regPending>>

\* UnregisterService (581-612): if Value(/service/s) = self and its
\* CreateRevision # 0, delete both keys.  The local maps are left to the watch.
UnregisterService(p, s) ==
    /\ up[p] /\ rev < MaxRev
    /\ svcKey[s].val = p /\ svcKey[s].crev # 0
    /\ rev' = rev + 1
    /\ svcKey' = [svcKey EXCEPT ![s] = Absent]
    /\ peerKey' = [peerKey EXCEPT ![p, s] = FALSE]
    /\ watchQ' = Publish(<<[type |-> "DELETE", s |-> s, val |-> NoPeer]>>)
    /\ UNCHANGED <<up, services, selfServices, notified, regPending>>

-----------------------------------------------------------------------------
(* watchServices (454-481): the next event, in revision order.            *)

\* onKvAdd (331-377): a name already in services is ignored; otherwise it is
\* stored (IsSelf when the value is this peer, with CreateRevision 0),
\* indexed, and OnServiceAdd fires.
OnKvAdd(p, e) ==
    IF services[p][e.s] = NoPeer
    THEN /\ services' = [services EXCEPT ![p][e.s] = e.val]
         /\ selfServices' = IF e.val = p
                            THEN [selfServices EXCEPT ![p][e.s] = 0]
                            ELSE selfServices
         /\ notified' = [notified EXCEPT ![p][e.s] = @ + 1]
    ELSE UNCHANGED <<services, selfServices, notified>>

\* onKvDelete (379-406): a known name is removed from services and the
\* index, OnServiceDelete fires, and a self service leaves selfServices.
OnKvDelete(p, e) ==
    IF services[p][e.s] # NoPeer
    THEN /\ services' = [services EXCEPT ![p][e.s] = NoPeer]
         /\ notified' = [notified EXCEPT ![p][e.s] = @ - 1]
         /\ selfServices' = IF services[p][e.s] = p
                            THEN [selfServices EXCEPT ![p][e.s] = NoRev]
                            ELSE selfServices
    ELSE UNCHANGED <<services, selfServices, notified>>

WatchEvent(p) ==
    /\ up[p] /\ watchQ[p] # <<>>
    /\ LET e == Head(watchQ[p]) IN
         IF e.type = "PUT" THEN OnKvAdd(p, e) ELSE OnKvDelete(p, e)
    /\ watchQ' = [watchQ EXCEPT ![p] = Tail(@)]
    /\ UNCHANGED <<rev, svcKey, peerKey, up, regPending>>

-----------------------------------------------------------------------------
(* Stop, crash and restart.                                                *)

\* the keys of the services in `freed` deleted, one transaction each
DeleteAll(p, freed) ==
    /\ rev + Cardinality(freed) <= MaxRev
    /\ rev' = rev + Cardinality(freed)
    /\ svcKey' = [s \in Services |-> IF s \in freed THEN Absent ELSE svcKey[s]]
    /\ peerKey' = [k \in Peers \X Services |->
                     IF k[1] = p /\ k[2] \in freed THEN FALSE ELSE peerKey[k]]

\* the process is gone: its maps and its watch with it
LocalGone(p) ==
    /\ up' = [up EXCEPT ![p] = FALSE]
    /\ services' = [services EXCEPT ![p] = [s \in Services |-> NoPeer]]
    /\ selfServices' = [selfServices EXCEPT ![p] = [s \in Services |-> NoRev]]
    /\ notified' = [notified EXCEPT ![p] = [s \in Services |-> 0]]
    /\ regPending' = [regPending EXCEPT ![p] = [s \in Services |-> NoRev]]

\* stop -> unregisterServices (483-511): for every entry of selfServices, if
\* CreateRevision(/service/s) equals the recorded one, delete both keys;
\* then the process exits.
Stop(p) ==
    LET freed == {s \in Services : /\ selfServices[p][s] # NoRev
                                   /\ svcKey[s].crev # 0
                                   /\ svcKey[s].crev = selfServices[p][s]}
    IN /\ up[p]
       /\ DeleteAll(p, freed)
       /\ LocalGone(p)
       /\ watchQ' = [Publish([i \in 1 .. Cardinality(freed) |->
                        [type |-> "DELETE", s |-> SetToSeq(freed)[i], val |-> NoPeer]])
                     EXCEPT ![p] = <<>>]

\* The process dies; keys carry no lease and stay.
Crash(p) ==
    /\ up[p]
    /\ LocalGone(p)
    /\ watchQ' = [watchQ EXCEPT ![p] = <<>>]
    /\ UNCHANGED <<rev, svcKey, peerKey>>

\* initServices (408-452) and notify (303-310): delete every service named
\* under /peer/service/<p>/ whose /service key exists, load the /service
\* snapshot through onKvAdd (no callbacks yet), replay OnServiceAdd for
\* every loaded name, and watch from the snapshot revision + 1.
Restart(p) ==
    LET freed == {s \in Services : peerKey[p, s] /\ svcKey[s].crev # 0}
        others == [i \in 1 .. Cardinality(freed) |->
                     [type |-> "DELETE", s |-> SetToSeq(freed)[i], val |-> NoPeer]]
    IN /\ ~up[p]
       /\ DeleteAll(p, freed)
       /\ up' = [up EXCEPT ![p] = TRUE]
       /\ services' = [services EXCEPT ![p] = [s \in Services |-> svcKey'[s].val]]
       /\ selfServices' = [selfServices EXCEPT ![p] =
                             [s \in Services |-> IF svcKey'[s].val = p THEN 0 ELSE NoRev]]
       /\ notified' = [notified EXCEPT ![p] =
                         [s \in Services |-> IF svcKey'[s].val # NoPeer THEN 1 ELSE 0]]
       /\ watchQ' = [Publish(others) EXCEPT ![p] = <<>>]
       /\ UNCHANGED regPending

-----------------------------------------------------------------------------
(* WhereIsService (613-647) for a plain name: services.Load gives the      *)
(* owning peer, or no peer.  (The Catalog/Prefix form walks the word trie; *)
(* its search is the WordTrie module's Search.)                            *)
WhereIsService(p, s) ==
    IF services[p][s] = NoPeer THEN {} ELSE {services[p][s]}

\* what etcd says: the peer named by /service/<s>
WhereIsInStore(s) ==
    IF svcKey[s].val = NoPeer THEN {} ELSE {svcKey[s].val}

-----------------------------------------------------------------------------
Next ==
    \/ \E p \in Peers, s \in Services :
          \/ RegisterService(p, s) \/ RegisterStore(p, s) \/ UnregisterService(p, s)
    \/ \E p \in Peers : WatchEvent(p) \/ Stop(p) \/ Crash(p) \/ Restart(p)

Spec == Init /\ [][Next]_vars

-----------------------------------------------------------------------------
TypeOK ==
    /\ rev \in Revs
    /\ svcKey \in [Services -> [val : Peers \cup {NoPeer}, crev : Revs]]
    /\ peerKey \in [Peers \X Services -> BOOLEAN]
    /\ up \in [Peers -> BOOLEAN]
    /\ services \in [Peers -> [Services -> Peers \cup {NoPeer}]]
    /\ selfServices \in [Peers -> [Services -> {NoRev} \cup 0 .. rev]]
    /\ notified \in [Peers -> [Services -> Nat]]
    /\ \A p \in Peers : watchQ[p] \in Seq(Event)
    /\ regPending \in [Peers -> [Services -> {NoRev} \cup 1 .. rev]]

(***************************************************************************)
(* The two keys of a service stay paired (spec 7: the dual deletes are     *)
(* atomic): /peer/service/<p>/<s> exists exactly when /service/<s> names   *)
(* p.  initServices deletes /service/<s> on the strength of the peer key   *)
(* alone, so a peer key left beside another peer's service key would let   *)
(* a restart delete that peer's service.                                   *)
(***************************************************************************)
KeysPaired ==
    \A p \in Peers, s \in Services : peerKey[p, s] <=> svcKey[s].val = p

(***************************************************************************)
(* Stop releases everything a running peer holds: for each service whose   *)
(* /service key names p, and no RegisterService of it is between commit   *)
(* and local store, selfServices records its true create revision, so      *)
(* unregisterServices' compare succeeds.  Since the keys carry no lease, a *)
(* service missed here stays locked by p after p has stopped.             *)
(***************************************************************************)
SelfRecordAccurate ==
    \A p \in Peers, s \in Services :
        (up[p] /\ svcKey[s].val = p /\ regPending[p][s] = NoRev)
            => selfServices[p][s] = svcKey[s].crev

(***************************************************************************)
(* A running peer whose watch has caught up and which has no               *)
(* RegisterService between commit and local store answers WhereIsService  *)
(* as etcd would.  onKvAdd ignores a name already in `services`, so a     *)
(* stale entry is never corrected by a later PUT: the name would be       *)
(* routed to the wrong peer until the process restarts.                   *)
(***************************************************************************)
WhereIsServiceAgrees ==
    \A p \in Peers, s \in Services :
        (up[p] /\ watchQ[p] = <<>> /\ \A x \in Services : regPending[p][x] = NoRev)
            => WhereIsService(p, s) = WhereIsInStore(s)

(***************************************************************************)
(* The registry implements a name lock (UserLock with one lock type): a    *)
(* service only goes from free to held and from held to free, never from  *)
(* one peer straight to another.                                           *)
(***************************************************************************)
ServiceLock == INSTANCE UserLock
    WITH Users <- Services, Types <- {"service"},
         PeerType <- [p \in Peers |-> "service"],
         owner <- [k \in {"service"} \X Services |-> svcKey[k[2]].val]
RefinesServiceLock == ServiceLock!Spec

====
