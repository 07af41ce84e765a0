-------------------------- MODULE SessionForwarder --------------------------
(***************************************************************************)
(* One gateway session of src/framework/smallgame/gateway/server/          *)
(* session.go: client_session.serve and the three goroutines it starts in  *)
(* an errgroup, against a set of hall upstreams that may crash and come    *)
(* back.                                                                   *)
(*                                                                         *)
(*   U  upstream=>client: Recv on its stream; on error suspend the client  *)
(*      and reselect a hall every second until a new stream opens.         *)
(*   C  client=>upstream: forward the login frame, then Recv client frames,*)
(*      draining the pending queue in order before each new frame.         *)
(*   W  watchdog: on session cancellation close the client and call        *)
(*      streamCancelFunc.                                                  *)
(*                                                                         *)
(* Client frames are numbered 1, 2, ... in the order the client sends      *)
(* them; frame 1 is the login request handed to serve.  session.stream and *)
(* streamCancelFunc are written by U and read by C and W without a lock:   *)
(* each read is a separate step, so a reader sees whatever was last        *)
(* written.  SelectPeer (upstream.go 44-81) is abstracted to its answer:   *)
(* peerChoice, the halls it may return now.  The pool changes that answer  *)
(* as agents come and go; it may be nil while halls are up (the top-ranked *)
(* agent fails its health check, with no fallback), and a hall that is     *)
(* down is never in it.                                                    *)
(***************************************************************************)
EXTENDS Naturals, Sequences, FiniteSets

CONSTANTS
    Halls,          \* hall peers (model values)
    MaxMsgs,        \* frames the client sends after the login frame, plus one
    MaxHallCrashes, \* bound on hall crashes
    SendMayLose,    \* a Send on a dead stream may return nil with the frame lost
    NoStream,       \* nil stream
    NoHall          \* nil *Upstream

ASSUME MaxMsgs \in Nat \ {0} /\ MaxHallCrashes \in Nat /\ SendMayLose \in BOOLEAN

VARIABLES
    phase,        \* "opening", "serving", "loginFailed", "done"
    upc,          \* U: "recv", "reselect", "connect", "exited"
    cpc,          \* C: "first", "recv", "drain", "tail", their "...Send" halves, "exited"
    wpc,          \* W: "wait", "exited"
    sessStream,   \* session.stream, read by C
    uStream,      \* U's local stream variable, the one it Recvs on
    cancelTarget, \* the stream whose context streamCancelFunc cancels
    selHall,      \* hall picked by SelectPeer, before NewClientStream
    streams,      \* every stream context created: [hall, broken]
    hallUp,       \* hall process is running and healthy
    peerChoice,   \* halls hall.SelectPeer() may return now; {} is nil
    crashes,      \* hall crashes so far
    sent,         \* frames the client has sent
    nextMsg,      \* next frame client.Recv returns
    msg,          \* `message`: the frame C is handling
    pending,      \* session.pendingMessages
    delivered,    \* frames the halls received, in order
    clientOpen,   \* client connection open
    cancelled,    \* session.ctx done
    cause,        \* why it was cancelled
    gatewayDone,  \* hall.ctx, the gateway's context, is cancelled
    notice,       \* last suspend/resume notice sent to the client
    lost          \* frames a Send on a dead stream accepted and dropped

vars == <<phase, upc, cpc, wpc, sessStream, uStream, cancelTarget, selHall,
          streams, hallUp, peerChoice, crashes, sent, nextMsg, msg, pending, delivered,
          clientOpen, cancelled, cause, gatewayDone, notice, lost>>

StreamIds == 1 .. (1 + MaxHallCrashes)
Live(s) == s # NoStream /\ ~streams[s].broken

\* context cancel of stream s: its Recv and Send fail from now on
Cancel(s) == [streams EXCEPT ![s].broken = TRUE]

\* session.cancelFunc(): the first cancellation fixes the cause
CancelSession(why) ==
    /\ cancelled' = TRUE
    /\ cause' = IF cancelled THEN cause ELSE why

Init ==
    /\ phase = "opening"
    /\ upc = "recv" /\ cpc = "first" /\ wpc = "wait"
    /\ sessStream = NoStream /\ uStream = NoStream /\ cancelTarget = NoStream
    /\ selHall = NoHall
    /\ streams = <<>>
    /\ hallUp = [h \in Halls |-> TRUE]
    /\ peerChoice \in SUBSET Halls
    /\ crashes = 0
    /\ sent = 1 /\ nextMsg = 2 /\ msg = 1
    /\ pending = <<>> /\ delivered = <<>>
    /\ clientOpen = TRUE /\ cancelled = FALSE /\ cause = "none"
    /\ gatewayDone = FALSE
    /\ notice = "none"
    /\ lost = {}

-----------------------------------------------------------------------------
(* serve, before the goroutines (session.go 36-67).                        *)

\* SelectPeer returns a healthy hall.
OpenSelect(h) ==
    /\ phase = "opening" /\ selHall = NoHall
    /\ h \in peerChoice
    /\ selHall' = h
    /\ UNCHANGED <<phase, upc, cpc, wpc, sessStream, uStream, cancelTarget, streams,
                   hallUp, peerChoice, crashes, sent, nextMsg, msg, pending, delivered,
                   clientOpen, cancelled, cause, gatewayDone, notice, lost>>

\* SelectPeer returns nil: loginErrResponse(ErrUpstreamUnavailable), return.
OpenNoPeer ==
    /\ phase = "opening" /\ selHall = NoHall
    /\ peerChoice = {}
    /\ phase' = "loginFailed"
    /\ UNCHANGED <<upc, cpc, wpc, sessStream, uStream, cancelTarget, selHall, streams,
                   hallUp, peerChoice, crashes, sent, nextMsg, msg, pending, delivered,
                   clientOpen, cancelled, cause, gatewayDone, notice, lost>>

\* NewClientStream(streamCtx): on error loginErrResponse(ErrUpstreamUnreachable);
\* otherwise the session is counted and the three goroutines start.
OpenStream ==
    /\ phase = "opening" /\ selHall # NoHall
    /\ IF hallUp[selHall]
       THEN /\ streams' = Append(streams, [hall |-> selHall, broken |-> FALSE])
            /\ sessStream' = Len(streams') /\ uStream' = Len(streams')
            /\ cancelTarget' = Len(streams')
            /\ phase' = "serving"
       ELSE /\ phase' = "loginFailed"
            /\ UNCHANGED <<streams, sessStream, uStream, cancelTarget>>
    /\ UNCHANGED <<upc, cpc, wpc, selHall, hallUp, peerChoice, crashes, sent, nextMsg, msg, pending,
                   delivered, clientOpen, cancelled, cause, gatewayDone, notice, lost>>

-----------------------------------------------------------------------------
(* U: upstream=>client (session.go 69-132).                                *)

\* stream.Recv() fails.  A cancelled session returns; otherwise session.stream
\* = nil, SendServerSuspend, and the reselect loop begins.
URecvError ==
    /\ phase = "serving" /\ upc = "recv"
    /\ streams[uStream].broken
    /\ IF cancelled
       THEN /\ upc' = "exited"
            /\ UNCHANGED <<sessStream, notice>>
       ELSE /\ upc' = "reselect"
            /\ sessStream' = NoStream
            /\ notice' = "suspend"
    /\ UNCHANGED <<phase, cpc, wpc, uStream, cancelTarget, selHall, streams, hallUp, peerChoice,
                   crashes, sent, nextMsg, msg, pending, delivered, clientOpen,
                   cancelled, cause, gatewayDone, lost>>

\* Mutant: the reselect loop takes a peer without its health check.
USelectUnchecked(h) ==
    /\ phase = "serving" /\ upc = "reselect"
    /\ streams' = Append(Cancel(cancelTarget), [hall |-> h, broken |-> FALSE])
    /\ cancelTarget' = Len(streams')
    /\ selHall' = h
    /\ upc' = "connect"
    /\ UNCHANGED <<phase, cpc, wpc, sessStream, uStream, hallUp, peerChoice, crashes, sent, nextMsg,
                   msg, pending, delivered, clientOpen, cancelled, cause, gatewayDone, notice, lost>>

\* SelectPeer returns h: streamCancelFunc() on the old context, then a new
\* context is made from h's context (not the session's) and becomes the one
\* streamCancelFunc cancels.
USelect(h) ==
    /\ phase = "serving" /\ upc = "reselect"
    /\ h \in peerChoice
    /\ streams' = Append(Cancel(cancelTarget), [hall |-> h, broken |-> FALSE])
    /\ cancelTarget' = Len(streams')
    /\ selHall' = h
    /\ upc' = "connect"
    /\ UNCHANGED <<phase, cpc, wpc, sessStream, uStream, hallUp, peerChoice, crashes, sent, nextMsg,
                   msg, pending, delivered, clientOpen, cancelled, cause, gatewayDone, notice, lost>>

\* SelectPeer returns nil and the session is done: return.  (Not done: sleep
\* 1 s, a stutter.)
USelectNone ==
    /\ phase = "serving" /\ upc = "reselect"
    /\ peerChoice = {}
    /\ cancelled
    /\ upc' = "exited"
    /\ UNCHANGED <<phase, cpc, wpc, sessStream, uStream, cancelTarget, selHall, streams,
                   hallUp, peerChoice, crashes, sent, nextMsg, msg, pending, delivered, clientOpen,
                   cancelled, cause, gatewayDone, notice, lost>>

\* Mutant: a failed NewClientStream ends the goroutine instead of retrying.
UConnectGiveUp ==
    /\ phase = "serving" /\ upc = "connect"
    /\ IF hallUp[selHall] /\ ~streams[cancelTarget].broken
       THEN /\ uStream' = cancelTarget /\ sessStream' = cancelTarget
            /\ notice' = "resume"
            /\ upc' = "recv"
            /\ UNCHANGED streams
       ELSE /\ streams' = Cancel(cancelTarget)
            /\ upc' = "exited"
            /\ UNCHANGED <<uStream, sessStream, notice>>
    /\ UNCHANGED <<phase, cpc, wpc, cancelTarget, selHall, hallUp, peerChoice, crashes, sent, nextMsg,
                   msg, pending, delivered, clientOpen, cancelled, cause, gatewayDone, lost>>

\* NewClientStream succeeds: session.stream = stream, SendServerResume, back to
\* Recv -- without looking at session.ctx.  On error: streamCancelFunc(), then
\* return if the session is done, else sleep and select again.
UConnect ==
    /\ phase = "serving" /\ upc = "connect"
    /\ IF hallUp[selHall] /\ ~streams[cancelTarget].broken
       THEN /\ uStream' = cancelTarget /\ sessStream' = cancelTarget
            /\ notice' = "resume"
            /\ upc' = "recv"
            /\ UNCHANGED streams
       ELSE /\ streams' = Cancel(cancelTarget)
            /\ upc' = IF cancelled THEN "exited" ELSE "reselect"
            /\ UNCHANGED <<uStream, sessStream, notice>>
    /\ UNCHANGED <<phase, cpc, wpc, cancelTarget, selHall, hallUp, peerChoice, crashes, sent, nextMsg,
                   msg, pending, delivered, clientOpen, cancelled, cause, gatewayDone, lost>>

-----------------------------------------------------------------------------
(* C: client=>upstream (session.go 133-182) and processClientMessage       *)
(* (189-208).  processClientMessage reads session.stream twice: once for   *)
(* the nil check, once for Send.                                           *)

Sending == {"firstSend", "drainSend", "tailSend"}
Checking == {"first", "drain", "tail"}

\* the frame being forwarded: the head of the queue while draining
Item == IF cpc \in {"drain", "drainSend"} THEN Head(pending) ELSE msg

\* processClientMessage returned nil
SendOk ==
    CASE cpc = "drainSend" ->
            /\ pending' = Tail(pending)
            /\ cpc' = IF Tail(pending) = <<>> THEN "tail" ELSE "drain"
      [] OTHER ->
            /\ cpc' = "recv"
            /\ UNCHANGED pending

\* processClientMessage returned an error: the current frame joins the queue
\* (after a failed drain, `len(pendingMessages) > 0` appends it too)
SendFailed ==
    /\ pending' = Append(pending, msg)
    /\ cpc' = "recv"

\* the nil check: a nil session.stream fails with ErrUpstreamUnavailable
CCheck ==
    /\ phase = "serving" /\ cpc \in Checking
    /\ IF sessStream = NoStream
       THEN SendFailed
       ELSE /\ cpc' = cpc \o "Send"
            /\ UNCHANGED pending
    /\ UNCHANGED <<phase, upc, wpc, sessStream, uStream, cancelTarget, selHall, streams,
                   hallUp, peerChoice, crashes, sent, nextMsg, msg, delivered, clientOpen,
                   cancelled, cause, gatewayDone, notice, lost>>

\* self.stream.Send(data).  If U set session.stream to nil after the check, the
\* call panics; the deferred recover cancels the session and the frame is gone.
CSend ==
    /\ phase = "serving" /\ cpc \in Sending
    /\ \/ /\ sessStream = NoStream
          /\ CancelSession("panic")
          /\ cpc' = "exited"
          /\ UNCHANGED <<pending, delivered, lost>>
       \/ /\ Live(sessStream)
          /\ delivered' = Append(delivered, Item)
          /\ SendOk
          /\ UNCHANGED <<cancelled, cause, lost>>
       \/ /\ sessStream # NoStream /\ streams[sessStream].broken
          /\ SendFailed
          /\ UNCHANGED <<delivered, cancelled, cause, lost>>
       \/ /\ SendMayLose
          /\ sessStream # NoStream /\ streams[sessStream].broken
          /\ SendOk
          /\ lost' = lost \cup {Item}
          /\ UNCHANGED <<delivered, cancelled, cause>>
    /\ UNCHANGED <<phase, upc, wpc, sessStream, uStream, cancelTarget, selHall, streams,
                   hallUp, peerChoice, crashes, sent, nextMsg, msg, clientOpen, gatewayDone,
                   notice>>

\* Mutant: a new frame is sent without first draining the queue.
CRecvNoDrain ==
    /\ phase = "serving" /\ cpc = "recv"
    /\ ~cancelled /\ clientOpen
    /\ nextMsg <= sent
    /\ msg' = nextMsg
    /\ nextMsg' = nextMsg + 1
    /\ cpc' = "tail"
    /\ UNCHANGED <<phase, upc, wpc, sessStream, uStream, cancelTarget, selHall, streams,
                   hallUp, peerChoice, crashes, sent, pending, delivered, clientOpen, cancelled,
                   cause, gatewayDone, notice, lost>>

\* client.Recv(session.ctx) returns the next frame; the drain loop runs first
\* when the queue is not empty.
CRecv ==
    /\ phase = "serving" /\ cpc = "recv"
    /\ ~cancelled /\ clientOpen
    /\ nextMsg <= sent
    /\ msg' = nextMsg
    /\ nextMsg' = nextMsg + 1
    /\ cpc' = IF pending = <<>> THEN "tail" ELSE "drain"
    /\ UNCHANGED <<phase, upc, wpc, sessStream, uStream, cancelTarget, selHall, streams,
                   hallUp, peerChoice, crashes, sent, pending, delivered, clientOpen, cancelled,
                   cause, gatewayDone, notice, lost>>

\* client.Recv fails (connection closed, or session.ctx done): cancel, return.
CRecvError ==
    /\ phase = "serving" /\ cpc = "recv"
    /\ cancelled \/ ~clientOpen
    /\ CancelSession("client")
    /\ cpc' = "exited"
    /\ UNCHANGED <<phase, upc, wpc, sessStream, uStream, cancelTarget, selHall, streams,
                   hallUp, peerChoice, crashes, sent, nextMsg, msg, pending, delivered, clientOpen,
                   gatewayDone, notice, lost>>

-----------------------------------------------------------------------------
(* W: the watchdog (session.go 133-140), and the end of serve (183-185     *)
(* with the deferred 49-51, 63-67).                                        *)

WatchDone ==
    /\ phase = "serving" /\ wpc = "wait"
    /\ cancelled
    /\ clientOpen' = FALSE
    /\ streams' = Cancel(cancelTarget)
    /\ wpc' = "exited"
    /\ UNCHANGED <<phase, upc, cpc, sessStream, uStream, cancelTarget, selHall, hallUp, peerChoice,
                   crashes, sent, nextMsg, msg, pending, delivered, cancelled, cause, gatewayDone,
                   notice, lost>>

\* errGroup.Wait() returns once all three goroutines have: SessionCount--,
\* session.cancelFunc(), streamCancelFunc().
SessionEnd ==
    /\ phase = "serving"
    /\ upc = "exited" /\ cpc = "exited" /\ wpc = "exited"
    /\ phase' = "done"
    /\ streams' = Cancel(cancelTarget)
    /\ UNCHANGED <<upc, cpc, wpc, sessStream, uStream, cancelTarget, selHall, hallUp, peerChoice,
                   crashes, sent, nextMsg, msg, pending, delivered, clientOpen,
                   cancelled, cause, gatewayDone, notice, lost>>

-----------------------------------------------------------------------------
(* The environment: the client, the halls, the gateway.                    *)

ClientSend ==
    /\ clientOpen /\ sent < MaxMsgs
    /\ sent' = sent + 1
    /\ UNCHANGED <<phase, upc, cpc, wpc, sessStream, uStream, cancelTarget, selHall,
                   streams, hallUp, peerChoice, crashes, nextMsg, msg, pending, delivered,
                   clientOpen, cancelled, cause, gatewayDone, notice, lost>>

\* The client connection closes: the client hung up, or a KICK or USER_INSTEAD
\* frame on U's stream made processStreamMessage (211-228) call client.Kick.
ClientClose ==
    /\ clientOpen
    /\ clientOpen' = FALSE
    /\ UNCHANGED <<phase, upc, cpc, wpc, sessStream, uStream, cancelTarget, selHall,
                   streams, hallUp, peerChoice, crashes, sent, nextMsg, msg, pending, delivered,
                   cancelled, cause, gatewayDone, notice, lost>>

\* A hall dies: every stream to it breaks.
HallCrash(h) ==
    /\ hallUp[h] /\ crashes < MaxHallCrashes
    /\ hallUp' = [hallUp EXCEPT ![h] = FALSE]
    /\ peerChoice' = peerChoice \ {h}
    /\ crashes' = crashes + 1
    /\ streams' = [s \in DOMAIN streams |->
                     IF streams[s].hall = h THEN [streams[s] EXCEPT !.broken = TRUE]
                     ELSE streams[s]]
    /\ UNCHANGED <<phase, upc, cpc, wpc, sessStream, uStream, cancelTarget, selHall,
                   sent, nextMsg, msg, pending, delivered, clientOpen, cancelled,
                   cause, gatewayDone, notice, lost>>

\* The hall process is back; SelectPeer offers it once the pool serves it.
HallRestart(h) ==
    /\ ~hallUp[h]
    /\ hallUp' = [hallUp EXCEPT ![h] = TRUE]
    /\ UNCHANGED <<phase, upc, cpc, wpc, sessStream, uStream, cancelTarget, selHall,
                   streams, peerChoice, crashes, sent, nextMsg, msg, pending, delivered,
                   clientOpen, cancelled, cause, gatewayDone, notice, lost>>

\* The gateway's context hall.ctx is cancelled.  It is the parent of session.ctx
\* and, through the pool's ctx and each Upstream's ctx (upstream.go 19-24), of
\* every stream context: every stream breaks and SelectPeer, skipping agents
\* whose ctx is done, returns nil from now on.
GatewayStop ==
    /\ phase = "serving" /\ ~gatewayDone
    /\ CancelSession("gateway")
    /\ gatewayDone' = TRUE
    /\ streams' = [s \in DOMAIN streams |-> [streams[s] EXCEPT !.broken = TRUE]]
    /\ peerChoice' = {}
    /\ UNCHANGED <<phase, upc, cpc, wpc, sessStream, uStream, cancelTarget, selHall,
                   hallUp, crashes, sent, nextMsg, msg, pending, delivered,
                   clientOpen, notice, lost>>

\* SelectPeer's answer changes as agents are added, deleted, reach serving or
\* change load: any set of halls that are up, or nil.
PoolChange ==
    /\ ~gatewayDone
    /\ \E S \in SUBSET {h \in Halls : hallUp[h]} :
          /\ S # peerChoice
          /\ peerChoice' = S
    /\ UNCHANGED <<phase, upc, cpc, wpc, sessStream, uStream, cancelTarget, selHall,
                   streams, hallUp, crashes, sent, nextMsg, msg, pending, delivered,
                   clientOpen, cancelled, cause, gatewayDone, notice, lost>>

-----------------------------------------------------------------------------
UStep == URecvError \/ (\E h \in Halls : USelect(h)) \/ USelectNone \/ UConnect
CStep == CCheck \/ CSend \/ CRecv \/ CRecvError
ServeStep == (\E h \in Halls : OpenSelect(h)) \/ OpenNoPeer \/ OpenStream \/ SessionEnd

Environment ==
    \/ ClientSend \/ ClientClose \/ GatewayStop \/ PoolChange
    \/ \E h \in Halls : HallCrash(h) \/ HallRestart(h)

Next == ServeStep \/ UStep \/ CStep \/ WatchDone \/ Environment

\* Goroutines are scheduled and the 1 s retry timer fires; the client, the
\* halls, the pool and the gateway owe nothing.
Fairness ==
    /\ WF_vars(ServeStep)
    /\ WF_vars(UStep)
    /\ WF_vars(CStep)
    /\ WF_vars(WatchDone)

Spec == Init /\ [][Next]_vars /\ Fairness

-----------------------------------------------------------------------------
TypeOK ==
    /\ phase \in {"opening", "serving", "loginFailed", "done"}
    /\ upc \in {"recv", "reselect", "connect", "exited"}
    /\ cpc \in Checking \cup Sending \cup {"recv", "exited"}
    /\ wpc \in {"wait", "exited"}
    /\ {sessStream, uStream, cancelTarget} \subseteq StreamIds \cup {NoStream}
    /\ selHall \in Halls \cup {NoHall}
    /\ Len(streams) <= 1 + MaxHallCrashes
    /\ streams \in Seq([hall : Halls, broken : BOOLEAN])
    /\ hallUp \in [Halls -> BOOLEAN]
    /\ peerChoice \subseteq {h \in Halls : hallUp[h]}
    /\ crashes \in 0 .. MaxHallCrashes
    /\ sent \in 1 .. MaxMsgs /\ nextMsg \in 2 .. sent + 1 /\ msg \in 1 .. MaxMsgs
    /\ pending \in Seq(1 .. MaxMsgs) /\ delivered \in Seq(1 .. MaxMsgs)
    /\ clientOpen \in BOOLEAN /\ cancelled \in BOOLEAN
    /\ cause \in {"none", "client", "gateway", "panic"}
    /\ gatewayDone \in BOOLEAN
    /\ notice \in {"none", "suspend", "resume"}
    /\ lost \subseteq 1 .. MaxMsgs

\* the frame C is holding and has not yet delivered or queued
InFlight == IF cpc \in Checking \cup Sending THEN <<msg>> ELSE <<>>

(***************************************************************************)
(* FIFO forwarding across failovers (spec 5, "ordering guarantees"): while *)
(* the session is alive, the frames the halls received, then the pending   *)
(* queue, then the frame in hand, are exactly the frames received from    *)
(* the client, in order, less those a Send on a dying stream accepted and  *)
(* dropped: nothing else lost, nothing duplicated or overtaken, whatever   *)
(* the interleaving of hall crashes, reselection and the drain loop.       *)
(***************************************************************************)
FifoConservation ==
    ~cancelled =>
        delivered \o pending \o InFlight
            = SelectSeq([i \in 1 .. (nextMsg - 1) |-> i], LAMBDA i : i \notin lost)

\* SelectPeer returns a healthy hall, not nil
PeerSelectable == peerChoice # {}

(***************************************************************************)
(* A client told "server suspend" is told "server resume" or the session   *)
(* is cancelled, provided SelectPeer eventually keeps returning a healthy  *)
(* hall: the reselect loop of U retries every second, through halls that   *)
(* crash between SelectPeer and NewClientStream, until a stream opens.     *)
(* A hall merely up is not enough (the upstream_stale_address run).       *)
(***************************************************************************)
SuspendEnds ==
    (<>[]PeerSelectable) => [](notice = "suspend" => <>(notice = "resume" \/ cancelled))

(***************************************************************************)
(* Every frame the gateway received is eventually forwarded to a hall, or  *)
(* the session ends, once SelectPeer keeps returning a healthy hall (spec   *)
(* 4.6: the pending queue is drained FIFO on reconnect).                   *)
(***************************************************************************)
ReceivedEventuallyDelivered ==
    (<>[]PeerSelectable) =>
        \A m \in 1 .. MaxMsgs :
            (nextMsg > m) ~> (cancelled \/ phase = "loginFailed" \/ \E i \in 1 .. Len(delivered) : delivered[i] = m)

(***************************************************************************)
(* Termination (spec 4.6): once the session is cancelled -- client gone,   *)
(* kicked, or gateway stopping -- every goroutine exits and serve returns, *)
(* decrementing SessionCount.                                              *)
(***************************************************************************)
SessionEndsAfterCancel == cancelled ~> (phase = "done")

(***************************************************************************)
(* Mid-session upstream loss suspends the session and never tears it down *)
(* (spec 4.6, 7): the session is cancelled only by the client, a kick or   *)
(* the gateway, never by a panic in the client=>upstream goroutine.        *)
(***************************************************************************)
FailoverKeepsSession == cause # "panic"
=============================================================================
