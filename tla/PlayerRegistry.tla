--------------------------- MODULE PlayerRegistry ---------------------------
(***************************************************************************)
(* The player registry of src/registry/player.go: per-user ownership locks *)
(* kept in etcd, and each peer's local mirror of the users it owns.        *)
(*                                                                         *)
(* etcd keys (values abstracted to what the code compares):                *)
(*   /user/<uid>                     -> userKey[u]   = [val, crev]         *)
(*   /peer_type/user/<type>/<uid>    -> typeKey[t,u] = [val, crev]         *)
(*   /peer/user/<peer>/<uid>         -> localKey[p,u] = crev (0 = absent)  *)
(* crev is the key's CreateRevision; the keys carry no lease (comment at   *)
(* the head of player.go), so they outlive a crashed peer.                 *)
(*                                                                         *)
(* A peer runs LockLocalUser / UnlockLocalUser on caller goroutines and a  *)
(* watcher goroutine on /peer/user/<self>/.  Each etcd transaction is one  *)
(* atomic step; the local sync.Map update that follows a committed         *)
(* transaction is a separate step, because another goroutine (the watcher  *)
(* or another call) may run in between.                                    *)
(***************************************************************************)
EXTENDS Naturals, Sequences, FiniteSets

CONSTANTS
    Peers,      \* peer full names (model values)
    Users,      \* user ids (model values)
    Types,      \* application types (the registry's r.name)
    PeerType,   \* the type of each peer
    MaxRev,     \* bound on the etcd revision
    NoPeer      \* value of an absent key

ASSUME PeerType \in [Peers -> Types] /\ NoPeer \notin Peers /\ MaxRev \in Nat

VARIABLES
    rev,            \* etcd store revision
    userKey,        \* /user/<uid>
    typeKey,        \* /peer_type/user/<type>/<uid>
    localKey,       \* /peer/user/<peer>/<uid>
    localPlayers,   \* per peer: sync.Map userId -> LocalPlayer.CreateRevision (0 = absent)
    watchQ,         \* per peer: watch events on its own prefix not yet handled
    lockPending,    \* per peer, user: revisions of committed Lock txns before localPlayers.Store
    unlockPending,  \* per peer, user: an Unlock txn committed before localPlayers.Delete
    up              \* the peer process is running

vars == <<rev, userKey, typeKey, localKey, localPlayers, watchQ,
          lockPending, unlockPending, up>>

Revs == 0 .. MaxRev
KV == [val : Peers \cup {NoPeer}, crev : Revs]
Absent == [val |-> NoPeer, crev |-> 0]
Event == [op : {"PUT", "DELETE"}, user : Users, crev : Revs]

\* etcd Put: a new key is created at the txn's revision, an existing key keeps its CreateRevision.
Put(kv, v) == [val |-> v, crev |-> IF kv.crev = 0 THEN rev + 1 ELSE kv.crev]
PutRev(c) == IF c = 0 THEN rev + 1 ELSE c

NoLocal == [u \in Users |-> 0]

Init ==
    /\ rev = 1
    /\ userKey = [u \in Users |-> Absent]
    /\ typeKey = [k \in Types \X Users |-> Absent]
    /\ localKey = [k \in Peers \X Users |-> 0]
    /\ localPlayers = [p \in Peers |-> NoLocal]
    /\ watchQ = [p \in Peers |-> <<>>]
    /\ lockPending = [p \in Peers |-> [u \in Users |-> {}]]
    /\ unlockPending = [p \in Peers |-> [u \in Users |-> FALSE]]
    /\ up = [p \in Peers |-> TRUE]

(***************************************************************************)
(* LockLocalUser (player.go 226-272): the txn                              *)
(*   If CreateRevision(peerKey) = 0                                        *)
(*   Then Put(userKey), Put(localKey), Put(peerKey)  Else Get(peerKey).    *)
(* The Else branch changes nothing and returns ErrUserLocked.  On success  *)
(* the goroutine still has to Store the LocalPlayer with the txn revision. *)
(***************************************************************************)
LockCommit(p, u) ==
    /\ rev' = rev + 1
    /\ userKey' = [userKey EXCEPT ![u] = Put(@, p)]
    /\ localKey' = [localKey EXCEPT ![p, u] = PutRev(@)]
    /\ typeKey' = [typeKey EXCEPT ![PeerType[p], u] = Put(@, p)]
    /\ watchQ' = [watchQ EXCEPT ![p] =
                    Append(@, [op |-> "PUT", user |-> u, crev |-> localKey'[p, u]])]
    /\ lockPending' = [lockPending EXCEPT ![p][u] = @ \cup {rev + 1}]
    /\ UNCHANGED <<localPlayers, unlockPending, up>>

\* Mutant: the txn guards on the peer's own /peer/user key instead of /peer_type/user.
LockLocalUserOwnKey(p, u) ==
    /\ up[p] /\ rev < MaxRev
    /\ localKey[p, u] = 0
    /\ LockCommit(p, u)

LockLocalUser(p, u) ==
    /\ up[p]
    /\ rev < MaxRev
    /\ typeKey[PeerType[p], u].crev = 0
    /\ LockCommit(p, u)

\* Mutant: the stored CreateRevision is one past the txn's revision.
LockStoreOffByOne(p, u) ==
    /\ up[p]
    /\ \E r \in lockPending[p][u] :
        /\ localPlayers' = [localPlayers EXCEPT ![p][u] = r + 1]
        /\ lockPending' = [lockPending EXCEPT ![p][u] = @ \ {r}]
    /\ UNCHANGED <<rev, userKey, typeKey, localKey, watchQ, unlockPending, up>>

\* The rest of a successful LockLocalUser: localPlayers.Store(userId, player).
LockStore(p, u) ==
    /\ up[p]
    /\ \E r \in lockPending[p][u] :
        /\ localPlayers' = [localPlayers EXCEPT ![p][u] = r]
        /\ lockPending' = [lockPending EXCEPT ![p][u] = @ \ {r}]
    /\ UNCHANGED <<rev, userKey, typeKey, localKey, watchQ, unlockPending, up>>

(***************************************************************************)
(* UnlockLocalUser (player.go 275-314): Load the local player, then        *)
(*   If CreateRevision(userKey) = player.CreateRevision                    *)
(*   Then Delete(localKey), Delete(peerKey), Delete(userKey).              *)
(* A missing local player returns ErrUserNotFound, a guard miss            *)
(* ErrUserLocked; neither changes state.  etcd emits a DELETE event only   *)
(* for a key that existed.                                                 *)
(***************************************************************************)
UnlockCommit(p, u) ==
    /\ rev' = rev + 1
    /\ userKey' = [userKey EXCEPT ![u] = Absent]
    /\ localKey' = [localKey EXCEPT ![p, u] = 0]
    /\ typeKey' = [typeKey EXCEPT ![PeerType[p], u] = Absent]
    /\ watchQ' = IF localKey[p, u] # 0
                 THEN [watchQ EXCEPT ![p] = Append(@, [op |-> "DELETE", user |-> u, crev |-> 0])]
                 ELSE watchQ
    /\ unlockPending' = [unlockPending EXCEPT ![p][u] = TRUE]
    /\ UNCHANGED <<localPlayers, lockPending, up>>

UnlockLocalUser(p, u) ==
    /\ up[p]
    /\ rev < MaxRev
    /\ ~unlockPending[p][u]
    /\ localPlayers[p][u] # 0
    /\ userKey[u].crev = localPlayers[p][u]
    /\ UnlockCommit(p, u)

\* The rest of a successful UnlockLocalUser: localPlayers.Delete(userId).
UnlockDelete(p, u) ==
    /\ up[p]
    /\ unlockPending[p][u]
    /\ localPlayers' = [localPlayers EXCEPT ![p][u] = 0]
    /\ unlockPending' = [unlockPending EXCEPT ![p][u] = FALSE]
    /\ UNCHANGED <<rev, userKey, typeKey, localKey, watchQ, lockPending, up>>

\* onLocalKvAdd (90-117): store the player only if the uid is absent.
OnLocalKvAdd(p, e) ==
    localPlayers' = [localPlayers EXCEPT ![p][e.user] = IF @ = 0 THEN e.crev ELSE @]

\* onLocalKvDelete (119-135): delete the player if present.
OnLocalKvDelete(p, e) ==
    localPlayers' = [localPlayers EXCEPT ![p][e.user] = 0]

\* watchSelfPeerPlayers (154-180): the next event on /peer/user/<self>/.
WatchEvent(p) ==
    /\ up[p]
    /\ watchQ[p] # <<>>
    /\ LET e == Head(watchQ[p]) IN
         IF e.op = "PUT" THEN OnLocalKvAdd(p, e) ELSE OnLocalKvDelete(p, e)
    /\ watchQ' = [watchQ EXCEPT ![p] = Tail(@)]
    /\ UNCHANGED <<rev, userKey, typeKey, localKey, lockPending, unlockPending, up>>

(***************************************************************************)
(* stop -> unregisterLocalPlayers (49-55, 183-213), then the process       *)
(* exits.  For every local player:                                         *)
(*   If CreateRevision(localKey) != 0                                      *)
(*   Then Delete(localKey), Delete(peerKey), Delete(userKey).              *)
(* The per-user txns touch disjoint keys, so they are taken together; the  *)
(* revision advances once for them.                                        *)
(***************************************************************************)
ShutdownFreeing(p, freed) ==
    /\ up[p]
    /\ rev < MaxRev
    /\ rev' = IF freed = {} THEN rev ELSE rev + 1
    /\ userKey' = [u \in Users |-> IF u \in freed THEN Absent ELSE userKey[u]]
    /\ typeKey' = [k \in Types \X Users |->
                     IF k[1] = PeerType[p] /\ k[2] \in freed THEN Absent ELSE typeKey[k]]
    /\ localKey' = [k \in Peers \X Users |->
                      IF k[1] = p /\ k[2] \in freed THEN 0 ELSE localKey[k]]
    /\ up' = [up EXCEPT ![p] = FALSE]
    /\ localPlayers' = [localPlayers EXCEPT ![p] = NoLocal]
    /\ watchQ' = [watchQ EXCEPT ![p] = <<>>]
    /\ lockPending' = [lockPending EXCEPT ![p] = [u \in Users |-> {}]]
    /\ unlockPending' = [unlockPending EXCEPT ![p] = [u \in Users |-> FALSE]]

\* Mutant: the cleanup deletes every local player's keys without the txn's If.
ShutdownUnguarded(p) ==
    ShutdownFreeing(p, {u \in Users : localPlayers[p][u] # 0})

Shutdown(p) ==
    ShutdownFreeing(p, {u \in Users : localPlayers[p][u] # 0 /\ localKey[p, u] # 0})

\* The process dies: every in-memory structure is lost, the keys stay (no lease).
Crash(p) ==
    /\ up[p]
    /\ up' = [up EXCEPT ![p] = FALSE]
    /\ localPlayers' = [localPlayers EXCEPT ![p] = NoLocal]
    /\ watchQ' = [watchQ EXCEPT ![p] = <<>>]
    /\ lockPending' = [lockPending EXCEPT ![p] = [u \in Users |-> {}]]
    /\ unlockPending' = [unlockPending EXCEPT ![p] = [u \in Users |-> FALSE]]
    /\ UNCHANGED <<rev, userKey, typeKey, localKey>>

\* Mutant: recovery loads /user/ (every peer's users) instead of /peer/user/<self>/.
RestartUserPrefix(p) ==
    /\ ~up[p]
    /\ up' = [up EXCEPT ![p] = TRUE]
    /\ localPlayers' = [localPlayers EXCEPT ![p] = [u \in Users |-> userKey[u].crev]]
    /\ UNCHANGED <<rev, userKey, typeKey, localKey, watchQ, lockPending, unlockPending>>

(***************************************************************************)
(* Restart: recoverSelfPeerPlayers (137-152) loads /peer/user/<self>/ into *)
(* localPlayers with each key's CreateRevision, and the watch resumes at   *)
(* the snapshot revision + 1, so the event queue starts empty.             *)
(***************************************************************************)
Restart(p) ==
    /\ ~up[p]
    /\ up' = [up EXCEPT ![p] = TRUE]
    /\ localPlayers' = [localPlayers EXCEPT ![p] = [u \in Users |-> localKey[p, u]]]
    /\ UNCHANGED <<rev, userKey, typeKey, localKey, watchQ, lockPending, unlockPending>>

(***************************************************************************)
(* WhereIsUser (player.go 316-341): the local map first, then /user/<uid>  *)
(* and the peer registry's GetPeer.  The peer registry is not in this      *)
(* repository; its peers carry a lease, so GetPeer finds a peer exactly    *)
(* while it runs (lease expiry taken as immediate).                        *)
(***************************************************************************)
GetPeer(q) == IF up[q] THEN q ELSE "PeerNotFound"

WhereIsInStore(u) ==
    IF userKey[u].val = NoPeer THEN "UserNotFound" ELSE GetPeer(userKey[u].val)

WhereIsUser(p, u) ==
    IF localPlayers[p][u] # 0 THEN p ELSE WhereIsInStore(u)

Next ==
    \/ \E p \in Peers, u \in Users :
        \/ LockLocalUser(p, u)
        \/ LockStore(p, u)
        \/ UnlockLocalUser(p, u)
        \/ UnlockDelete(p, u)
    \/ \E p \in Peers :
        \/ WatchEvent(p)
        \/ Shutdown(p)
        \/ Crash(p)
        \/ Restart(p)

Spec == Init /\ [][Next]_vars

-----------------------------------------------------------------------------
TypeOK ==
    /\ rev \in 1 .. MaxRev
    /\ userKey \in [Users -> KV]
    /\ typeKey \in [Types \X Users -> KV]
    /\ localKey \in [Peers \X Users -> Revs]
    /\ localPlayers \in [Peers -> [Users -> 0 .. rev]]
    /\ watchQ \in [Peers -> Seq(Event)]
    /\ lockPending \in [Peers -> [Users -> SUBSET Revs]]
    /\ unlockPending \in [Peers -> [Users -> BOOLEAN]]
    /\ up \in [Peers -> BOOLEAN]

(***************************************************************************)
(* In etcd, at most one peer of a type holds a user: no two peers of the   *)
(* same type both have /peer/user/<peer>/<uid>, whatever the interleaving  *)
(* of Lock, Unlock, the stop-time cleanup, crashes and restarts.           *)
(***************************************************************************)
StoreExclusive ==
    \A p, q \in Peers, u \in Users :
        (p # q /\ PeerType[p] = PeerType[q] /\ localKey[p, u] # 0) => localKey[q, u] = 0

(***************************************************************************)
(* The three keys of a held user move together: a peer has its             *)
(* /peer/user key exactly when /peer_type/user names it, and then /user    *)
(* names it with the same CreateRevision, which is what a later Unlock     *)
(* compares.  Broken by any txn that deletes a strict subset of the keys   *)
(* or by a cleanup that deletes another peer's keys.                       *)
(***************************************************************************)
KeysTogether ==
    \A p \in Peers, u \in Users :
        /\ (localKey[p, u] # 0) <=> (typeKey[PeerType[p], u].val = p)
        /\ localKey[p, u] # 0 => userKey[u] = [val |-> p, crev |-> localKey[p, u]]

(***************************************************************************)
(* Once a running peer has no Lock/Unlock goroutine in flight and its      *)
(* watcher has caught up, every user it holds in etcd is in localPlayers,  *)
(* so UnlockLocalUser can still release it.                                *)
(***************************************************************************)
Quiescent(p) ==
    /\ up[p]
    /\ watchQ[p] = <<>>
    /\ \A u \in Users : lockPending[p][u] = {} /\ ~unlockPending[p][u]

HeldIsLocalWhenQuiescent ==
    \A p \in Peers : Quiescent(p) =>
        \A u \in Users : localKey[p, u] # 0 => localPlayers[p][u] # 0

(***************************************************************************)
(* WhereIsUser (player.go 317-) answers from /user/<uid>: while a peer      *)
(* holds a user's lock, /user/<uid> names a peer that holds it.  With two   *)
(* types, the second type's LockLocalUser overwrites /user/<uid> keeping    *)
(* its CreateRevision, so the first type's UnlockLocalUser passes its guard *)
(* and deletes the key the second still holds.                              *)
(***************************************************************************)
UserKeyNamesHolder ==
    \A p \in Peers, u \in Users :
        localKey[p, u] # 0 =>
            \E q \in Peers : userKey[u].val = q /\ localKey[q, u] # 0

(***************************************************************************)
(* A running peer whose Lock/Unlock calls and watch have settled answers   *)
(* WhereIsUser from its local map exactly as etcd would: a user it still   *)
(* has in localPlayers is held by it in /user/<uid>.  A stale entry (left  *)
(* by an unlock, a lost watch DELETE, or a restart that loads the wrong    *)
(* keys) would route the user's requests to this peer after another peer  *)
(* took the user.                                                          *)
(***************************************************************************)
WhereIsUserAgrees ==
    \A p \in Peers, u \in Users :
        Quiescent(p) => WhereIsUser(p, u) = WhereIsInStore(u)

(***************************************************************************)
(* Refinement: the owner recorded in /peer_type/user/<type>/<uid> behaves  *)
(* as the abstract per-type user lock of UserLock.                         *)
(***************************************************************************)
Abs == INSTANCE UserLock WITH owner <- [k \in Types \X Users |-> typeKey[k].val]
RefinesUserLock == Abs!Spec
=============================================================================
