------------------------------ MODULE UserLock ------------------------------
(***************************************************************************)
(* What the player registry promises (spec.md 4.4): for each application   *)
(* type, a user is held by at most one peer of that type; a peer acquires  *)
(* a free user and only the holder releases it (one user on Unlock, any    *)
(* number of its users on the stop-time cleanup).                          *)
(***************************************************************************)
CONSTANTS Peers, Users, Types, PeerType, NoPeer

VARIABLE owner    \* [Types \X Users -> Peers \cup {NoPeer}]

Init == owner = [k \in Types \X Users |-> NoPeer]

Acquire(p, u) ==
    /\ owner[PeerType[p], u] = NoPeer
    /\ owner' = [owner EXCEPT ![PeerType[p], u] = p]

Release(p, us) ==
    /\ us # {}
    /\ \A u \in us : owner[PeerType[p], u] = p
    /\ owner' = [k \in DOMAIN owner |->
                   IF k[1] = PeerType[p] /\ k[2] \in us THEN NoPeer ELSE owner[k]]

Next == \E p \in Peers :
          \/ \E u \in Users : Acquire(p, u)
          \/ \E us \in SUBSET Users : Release(p, us)

Spec == Init /\ [][Next]_owner
=============================================================================
