---------------------------- MODULE UpstreamPool ----------------------------
(***************************************************************************)
(* The gateway's pool of hall upstreams (server/upstream.go): one agent    *)
(* per hall peer, created and closed by the peer registry's callbacks,     *)
(* each running Upstream.serve (dial, gate stream, Info, then heartbeat    *)
(* and stream receive), and SelectPeer reading the agents' snapshots.      *)
(*                                                                         *)
(* The halls and the peer registry are the environment: a hall crashes    *)
(* and restarts, possibly on another address and with a newer build; the   *)
(* registry reports a peer added when a hall registers, updated when its   *)
(* attributes change, and deleted when its lease expires or it leaves.     *)
(* As the spec promises (4.2), adds and deletes of one peer alternate,    *)
(* up to MaxDupAdds faults: an OnPeerAdd delivered again for a peer that   *)
(* is already added, the case OnPeerAdd's LoadOrStore guards against.      *)
(*                                                                         *)
(* An agent is a slot of `agent`; its fields are the Upstream struct's     *)
(* (client as a flag, ctx as ctxDone) and serve's locals (the dialled      *)
(* address, the program counter, the gate stream).  SelectPeer reads the   *)
(* fields without synchronisation; it is modelled as reading them in one   *)
(* step.                                                                   *)
(***************************************************************************)
EXTENDS Integers, FiniteSetsExt

CONSTANTS Ids,          \* hall peer ids
          Addrs,        \* grpc addresses a hall may listen on
          Builds,       \* build times, as integers > 0
          MaxPlayers,   \* bound on a hall's player count
          MaxAgents,    \* bound on agents created (OnPeerAdd calls)
          MaxRestarts,  \* bound on hall restarts
          MaxDupAdds,   \* bound on duplicate OnPeerAdd deliveries (0: none)
          NoId          \* SelectPeer returned nil

ASSUME Builds \subseteq Nat \ {0} /\ NoId \notin Ids

Slots == 1 .. MaxAgents

\* addresses are interchangeable: every hall starts on the same one
FirstAddr == CHOOSE x \in Addrs : TRUE
NoAgent == 0

VARIABLES pool,       \* upstream_map: peer id -> agent slot, NoAgent if absent
          nAgents,    \* agents created so far
          agent,      \* agent slot -> Upstream and its serve goroutine
          hall,       \* peer id -> the hall process
          registered, \* peer id -> the peer registry lists it
          restarts,
          dupAdds     \* duplicate OnPeerAdd deliveries so far

vars == <<pool, nAgents, agent, hall, registered, restarts, dupAdds>>

Pcs == {"none", "dial", "stream", "info", "serving", "exited"}

Agent == [id : Ids \cup {NoId}, address : Addrs, dialled : Addrs, pc : Pcs,
          ctxDone : BOOLEAN, client : BOOLEAN, build : {0} \cup Builds,
          players : 0 .. MaxPlayers, stream : 0 .. MaxRestarts + 1]

Unborn == [id |-> NoId, address |-> FirstAddr,
           dialled |-> FirstAddr, pc |-> "none", ctxDone |-> FALSE,
           client |-> FALSE, build |-> 0, players |-> 0, stream |-> 0]

Init ==
    /\ pool = [i \in Ids |-> NoAgent]
    /\ nAgents = 0
    /\ agent = [a \in Slots |-> Unborn]
    /\ hall = [i \in Ids |-> [up |-> TRUE, addr |-> FirstAddr, build |-> Min(Builds),
                              players |-> 0, inc |-> 1]]
    /\ registered = [i \in Ids |-> FALSE]
    /\ restarts = 0
    /\ dupAdds = 0

\* the hall answers on the address the agent's ClientConn dialled
Reachable(a) == LET h == hall[agent[a].id] IN h.up /\ h.addr = agent[a].dialled

\* HealthCheck: a call on the agent's client that the hall answers OK
Healthy(a) == agent[a].client /\ Reachable(a)

-----------------------------------------------------------------------------
(* SelectPeer: the largest build time among agents with a client, then,    *)
(* among those not cancelled, the one with fewest players (ties go to the  *)
(* map's iteration order, so any of them), then a health check.  The set  *)
(* of values it can return.                                                 *)

Pooled == {pool[i] : i \in {j \in Ids : pool[j] # NoAgent}}

MaxBuildTime == Max({0} \cup {agent[a].build : a \in {b \in Pooled : agent[b].client}})

SelectPeer ==
    LET cand  == {a \in Pooled : agent[a].client /\ agent[a].build = MaxBuildTime
                                 /\ ~agent[a].ctxDone}
        least == {a \in cand : \A b \in cand : agent[a].players <= agent[b].players}
    IN IF cand = {} THEN {NoId}
       ELSE {IF Healthy(a) THEN agent[a].id ELSE NoId : a \in least}

-----------------------------------------------------------------------------
(* The peer registry's callbacks.                                          *)

\* Mutant: the defer leaves server.client set.
ExitAgentKeepClient(a) ==
    agent' = [agent EXCEPT ![a].ctxDone = TRUE, ![a].stream = 0, ![a].pc = "exited"]

\* the deferred exit of serve: client = nil, stream and upstream ctx cancelled
ExitAgent(a) ==
    agent' = [agent EXCEPT ![a].client = FALSE, ![a].ctxDone = TRUE,
                           ![a].stream = 0, ![a].pc = "exited"]

\* OnPeerAdd: newUpstream, LoadOrStore (an existing agent is closed and kept,
\* the new one is not stored), go serve
OnPeerAdd(i) ==
    /\ ~registered[i] \/ dupAdds < MaxDupAdds
    /\ hall[i].up /\ nAgents < MaxAgents
    /\ LET a == nAgents + 1
           old == pool[i]
           fresh == [Unborn EXCEPT !.id = i, !.address = hall[i].addr,
                                   !.dialled = hall[i].addr, !.pc = "dial"]
       IN /\ agent' = IF old = NoAgent THEN [agent EXCEPT ![a] = fresh]
                       ELSE [agent EXCEPT ![a] = fresh, ![old].ctxDone = TRUE]
          /\ pool' = IF old = NoAgent THEN [pool EXCEPT ![i] = a] ELSE pool
          /\ nAgents' = a
    /\ registered' = [registered EXCEPT ![i] = TRUE]
    /\ dupAdds' = IF registered[i] THEN dupAdds + 1 ELSE dupAdds
    /\ UNCHANGED <<hall, restarts>>

\* Mutant: LoadAndDelete without close(); the agent leaves the map still running.
OnPeerDeleteNoClose(i) ==
    /\ registered[i]
    /\ registered' = [registered EXCEPT ![i] = FALSE]
    /\ pool' = [pool EXCEPT ![i] = NoAgent]
    /\ UNCHANGED <<agent, nAgents, hall, restarts, dupAdds>>

\* OnPeerDelete: LoadAndDelete, close
OnPeerDelete(i) ==
    /\ registered[i]
    /\ registered' = [registered EXCEPT ![i] = FALSE]
    /\ pool' = [pool EXCEPT ![i] = NoAgent]
    /\ agent' = IF pool[i] = NoAgent THEN agent
                ELSE [agent EXCEPT ![pool[i]].ctxDone = TRUE]
    /\ UNCHANGED <<nAgents, hall, restarts, dupAdds>>

\* OnPeerUpdate: the hall re-published a new grpc address; only the
\* Address field changes, serve keeps dialling the address it captured
OnPeerUpdate(i) ==
    /\ registered[i] /\ hall[i].up /\ pool[i] # NoAgent
    /\ agent[pool[i]].address # hall[i].addr
    /\ agent' = [agent EXCEPT ![pool[i]].address = hall[i].addr]
    /\ UNCHANGED <<pool, nAgents, hall, registered, restarts, dupAdds>>

-----------------------------------------------------------------------------
(* Upstream.serve.  grpc.Dial without WithBlock does not connect and       *)
(* fails only on a malformed target, so the dial loop exits at once; the   *)
(* ClientConn stays bound to the address captured before it.               *)

Dial(a) ==
    /\ agent[a].pc = "dial"
    /\ agent' = [agent EXCEPT ![a].pc = "stream"]
    /\ UNCHANGED <<pool, nAgents, hall, registered, restarts, dupAdds>>

\* Mutant: the retry waits on the ticker only, never on server.ctx.
GateStreamRetryForever(a) ==
    /\ agent[a].pc = "stream" /\ Reachable(a) /\ ~agent[a].ctxDone
    /\ agent' = [agent EXCEPT ![a].pc = "info", ![a].stream = hall[agent[a].id].inc]
    /\ UNCHANGED <<pool, nAgents, hall, registered, restarts, dupAdds>>

\* client.GateStream(streamCtx); on failure the loop waits for the 1 s
\* ticker and retries (no state change) unless server.ctx is done
GateStream(a) ==
    /\ agent[a].pc = "stream"
    /\ \/ /\ Reachable(a) /\ ~agent[a].ctxDone
          /\ agent' = [agent EXCEPT ![a].pc = "info",
                                    ![a].stream = hall[agent[a].id].inc]
       \/ /\ agent[a].ctxDone
          /\ ExitAgent(a)
    /\ UNCHANGED <<pool, nAgents, hall, registered, restarts, dupAdds>>

\* client.Info: on success record the build time, then publish the client;
\* on failure serve returns
Info(a) ==
    /\ agent[a].pc = "info"
    /\ IF Reachable(a) /\ ~agent[a].ctxDone
       THEN agent' = [agent EXCEPT ![a].build = hall[agent[a].id].build,
                                   ![a].client = TRUE, ![a].pc = "serving"]
       ELSE ExitAgent(a)
    /\ UNCHANGED <<pool, nAgents, hall, registered, restarts, dupAdds>>

\* heartbeat goroutine: a successful HealthCheck stores the player count
Heartbeat(a) ==
    /\ agent[a].pc = "serving" /\ ~agent[a].ctxDone /\ Reachable(a)
    /\ agent[a].players # hall[agent[a].id].players
    /\ agent' = [agent EXCEPT ![a].players = hall[agent[a].id].players]
    /\ UNCHANGED <<pool, nAgents, hall, registered, restarts, dupAdds>>

\* stream goroutine: Recv fails once the hall process it was opened on is
\* gone or the stream ctx is cancelled; it marks the hall UnAvailable and
\* returns nil, which does not cancel errCtx: the heartbeat keeps running
GateRecvFail(a) ==
    /\ agent[a].pc = "serving" /\ agent[a].stream # 0
    /\ LET h == hall[agent[a].id]
       IN agent[a].ctxDone \/ ~h.up \/ h.inc # agent[a].stream
    /\ agent' = [agent EXCEPT ![a].stream = 0]
    /\ UNCHANGED <<pool, nAgents, hall, registered, restarts, dupAdds>>

\* errGroup.Wait returns once both goroutines have: the heartbeat returns
\* only when server.ctx is done
ServeExit(a) ==
    /\ agent[a].pc = "serving" /\ agent[a].ctxDone /\ agent[a].stream = 0
    /\ ExitAgent(a)
    /\ UNCHANGED <<pool, nAgents, hall, registered, restarts, dupAdds>>

AgentStep(a) ==
    Dial(a) \/ GateStream(a) \/ Info(a) \/ Heartbeat(a) \/ GateRecvFail(a) \/ ServeExit(a)

-----------------------------------------------------------------------------
(* The halls.                                                               *)

HallCrash(i) ==
    /\ hall[i].up /\ restarts < MaxRestarts
    /\ hall' = [hall EXCEPT ![i].up = FALSE]
    /\ restarts' = restarts + 1
    /\ UNCHANGED <<pool, nAgents, agent, registered, dupAdds>>

\* a new process, on any address, with the same or a newer build
HallRestart(i) ==
    /\ ~hall[i].up
    /\ \E ad \in Addrs, b \in {x \in Builds : x >= hall[i].build} :
          hall' = [hall EXCEPT ![i] = [up |-> TRUE, addr |-> ad, build |-> b,
                                       players |-> 0, inc |-> @.inc + 1]]
    /\ UNCHANGED <<pool, nAgents, agent, registered, restarts, dupAdds>>

HallLoad(i) ==
    /\ hall[i].up
    /\ \E n \in 0 .. MaxPlayers : n # hall[i].players /\ hall' = [hall EXCEPT ![i].players = n]
    /\ UNCHANGED <<pool, nAgents, agent, registered, restarts, dupAdds>>

Next ==
    \/ \E i \in Ids : OnPeerAdd(i) \/ OnPeerDelete(i) \/ OnPeerUpdate(i)
    \/ \E a \in Slots : AgentStep(a)
    \/ \E i \in Ids : HallCrash(i) \/ HallRestart(i) \/ HallLoad(i)

\* every serve goroutine is scheduled and its 1 s ticker fires; the halls
\* and the registry are owed nothing
Spec == Init /\ [][Next]_vars /\ \A a \in Slots : WF_vars(AgentStep(a))

-----------------------------------------------------------------------------
TypeOK ==
    /\ pool \in [Ids -> {NoAgent} \cup Slots]
    /\ nAgents \in 0 .. MaxAgents
    /\ agent \in [Slots -> Agent]
    \* the client handle is published only while serve is serving
    /\ \A a \in Slots : agent[a].client => agent[a].pc = "serving"
    /\ hall \in [Ids -> [up : BOOLEAN, addr : Addrs, build : Builds,
                         players : 0 .. MaxPlayers, inc : 1 .. MaxRestarts + 1]]
    /\ registered \in [Ids -> BOOLEAN]

(***************************************************************************)
(* The selection policy of spec 4.5, over the agents with a live client    *)
(* handle: the freshest build, then the fewest players, then "no peer" if  *)
(* the chosen agent's health check fails.                                  *)
(***************************************************************************)
LiveAgents == {a \in Pooled : agent[a].client /\ ~agent[a].ctxDone}

PolicyChoices ==
    LET freshest == {a \in LiveAgents : \A b \in LiveAgents : agent[b].build <= agent[a].build}
        lightest == {a \in freshest : \A b \in freshest : agent[a].players <= agent[b].players}
    IN IF LiveAgents = {} THEN {NoId}
       ELSE {IF Healthy(a) THEN agent[a].id ELSE NoId : a \in lightest}

(***************************************************************************)
(* Whatever OnPeerAdd, OnPeerDelete, the serve goroutines and the halls    *)
(* have done, SelectPeer's two passes over the shared map return only what *)
(* the spec's policy allows: a cancelled agent still holding a client      *)
(* never raises the build time the second pass looks for.  Such an agent  *)
(* stays in the map only through OnPeerAdd's loaded branch, that is after  *)
(* a duplicate OnPeerAdd (MaxDupAdds > 0).                                 *)
(***************************************************************************)
SelectMatchesPolicy == SelectPeer \subseteq PolicyChoices

\* the agent's serve goroutine was started
Started(a) == agent[a].pc # "none"

(***************************************************************************)
(* No serve goroutine outlives the map's reference to its agent: an agent  *)
(* started and no longer (or never) held by upstream_map eventually exits, *)
(* closing its connection.  Once out of the map nothing can close it any   *)
(* more, so OnPeerDelete's close and OnPeerAdd's LoadOrStore are all that  *)
(* stand between peer churn and a leaked goroutine dialling a dead hall.   *)
(***************************************************************************)
UnpooledAgentExits ==
    \A a \in Slots : (Started(a) /\ a \notin Pooled) ~> agent[a].pc = "exited"

(***************************************************************************)
(* An agent whose context is cancelled (OnPeerDelete's close) eventually   *)
(* leaves serve and drops its client, whichever loop it is in: no serve    *)
(* goroutine or connection outlives its peer.                              *)
(***************************************************************************)
ClosedAgentExits ==
    \A a \in Slots : agent[a].ctxDone ~> agent[a].pc = "exited"

(***************************************************************************)
(* Once some hall is registered and every registered hall stays up,        *)
(* SelectPeer eventually always finds a hall: the pool recovers from       *)
(* whatever crashes, restarts and peer events came before (spec 4.5:      *)
(* agents dial until success, heartbeats refresh the snapshot).            *)
(***************************************************************************)
HallsSettled == (\E i \in Ids : registered[i]) /\ \A i \in Ids : registered[i] => hall[i].up

SelectEventuallySucceeds == <>[]HallsSettled => <>[](NoId \notin SelectPeer)
=============================================================================
