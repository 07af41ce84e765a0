---------------------------- MODULE RegistryClient ----------------------------
(***************************************************************************)
(* The registry client's peer view, src/registryclient/peer.go, over the  *)
(* /peer/attribute/ keys that peers publish (spec 4.2: one key             *)
(* /peer/attribute/<full_name>/<attr> per attribute, under a lease).  A    *)
(* full name holds no '/' (player.go 91-95 splits /peer/user/<full_name>/  *)
(* <uid> into exactly five segments); it is "<type>_<id>".                 *)
(*                                                                         *)
(* GetPeer and UnregisterPeer select keys with clientv3.WithPrefix() on    *)
(* "/peer/attribute/<full_name>" with no trailing '/', so the question is  *)
(* which keys share a byte prefix.  A key is therefore a sequence of byte  *)
(* codes below "/peer/attribute/": the type and the attribute name are     *)
(* each one byte (the instance uses names that differ in their first byte  *)
(* and of which none is a prefix of another), the id keeps its decimal     *)
(* digits.  An attribute's value is abstracted to the peer that published  *)
(* it.                                                                     *)
(***************************************************************************)
EXTENDS Integers, Sequences, SequencesExt

CONSTANTS
    Types,    \* application type names, one byte each
    Ids,      \* application ids, as their decimal digit byte sequences
    Attrs,    \* attribute names, one byte each
    GrpcKey,  \* GRPC_KEY, the attribute holding the peer's address
    NoAddr    \* Peer.Address left empty

Slash == 47   \* '/'
Sep == 95     \* '_' between type and id

Names == [type : Types, id : Ids]
KeySet == Names \X Attrs   \* <<name, attr>>: the key name's attr

VARIABLE store   \* the /peer/attribute/ keys present in etcd

NameBytes(n) == <<n.type, Sep>> \o n.id
KeyBytes(kv) == NameBytes(kv[1]) \o <<Slash, kv[2]>>

\* etcd orders keys by their bytes
RECURSIVE ByteLess(_, _)
ByteLess(a, b) ==
    IF a = <<>> THEN b # <<>>
    ELSE IF b = <<>> THEN FALSE
    ELSE IF Head(a) # Head(b) THEN Head(a) < Head(b)
    ELSE ByteLess(Tail(a), Tail(b))

\* kv.Get(key, clientv3.WithPrefix()) with key = prefix + fullName
Matches(n, kvs) == {kv \in kvs : IsPrefix(NameBytes(n), KeyBytes(kv))}

(* GetPeer (lines 28-55): Id and Name from the parsed full name, FullName  *)
(* from r.appFullName, Address from the last key (in etcd order) whose     *)
(* last segment is GRPC_KEY, every other key into Metadata.                *)
GetPeer(self, n, kvs) ==
    LET ms == Matches(n, kvs)
        grpcs == {kv \in ms : kv[2] = GrpcKey}
        last == CHOOSE kv \in grpcs :
                    \A o \in grpcs \ {kv} : ByteLess(KeyBytes(o), KeyBytes(kv))
    IN [id |-> n.id, name |-> n.type, fullName |-> self,
        address |-> IF grpcs = {} THEN NoAddr ELSE last[1],
        metadata |-> ms \ grpcs]

\* UnregisterPeer (lines 57-66): delete with prefix prefix + fullName
UnregisterPeer(n, kvs) == kvs \ Matches(n, kvs)

\* ListPeerKvs (lines 68-80): every key under the prefix
ListPeerKvs(kvs) == kvs

(* The spec's peer: its own attributes, under its own full name.           *)
PeerOf(n, kvs) ==
    [id |-> n.id, name |-> n.type, fullName |-> n,
     address |-> IF <<n, GrpcKey>> \in kvs THEN n ELSE NoAddr,
     metadata |-> {kv \in kvs : kv[1] = n /\ kv[2] # GrpcKey}]

OwnKeys(n, kvs) == {kv \in kvs : kv[1] = n}

-----------------------------------------------------------------------------
(* A peer publishes or overwrites an attribute (spec 4.2, peer registry,   *)
(* not in this repository); its lease expires and all its keys go.        *)
PeerPublish(kv) == store' = store \cup {kv}

PeerLeaseExpire(n) == store' = store \ OwnKeys(n, store)

ClientUnregisterPeer(n) == store' = UnregisterPeer(n, store)

Init == store = {}

Next ==
    \/ \E kv \in KeySet : PeerPublish(kv)
    \/ \E n \in Names : PeerLeaseExpire(n) \/ ClientUnregisterPeer(n)

Spec == Init /\ [][Next]_store

-----------------------------------------------------------------------------
(* GetPeer(name) describes the peer called name: its address and metadata *)
(* are that peer's own attributes, whatever other peers have published.    *)
GetPeerAddressOwn ==
    \A self, n \in Names :
        LET got == GetPeer(self, n, store) IN
            /\ got.address = PeerOf(n, store).address
            /\ got.metadata = PeerOf(n, store).metadata

(* The Peer that GetPeer returns carries the full name it was asked for.   *)
GetPeerNamesPeer ==
    \A self, n \in Names : GetPeer(self, n, store).fullName = n

(* UnregisterPeer(name) removes that peer's attributes and no other's.     *)
UnregisterPeerOwnKeys ==
    [][\A n \in Names : ClientUnregisterPeer(n) => store' = store \ OwnKeys(n, store)]_store
=============================================================================
