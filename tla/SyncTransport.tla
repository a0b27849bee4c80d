---------------------------- MODULE SyncTransport ----------------------------
(***************************************************************************)
(* The browser's one WebSocket to the gateway (lib/sync/transport.ts) and  *)
(* the two FIFO channels it carries.  SyncSession adds the session above   *)
(* it and the gateway's handlers below it.                                 *)
(*                                                                         *)
(* A frame is a record [t, ops, c]: its type, the operations it carries    *)
(* and the cursor or boundary it names.  Frames are lost only with their   *)
(* connection; what the client sent before that may still be served.       *)
(***************************************************************************)
EXTENDS Integers, Sequences, FiniteSets

CONSTANT Plans      \* each says how often each event may happen in a run

\* What the environment does: edits, here and by peers, compactions, faults.
Events == {"local", "peer", "compact", "drop", "token", "write", "reload", "database"}

ASSUME PlansAssumption == Plans \subseteq [Events -> Nat]

VARIABLES
    net,        \* SyncTransport: status, ws, backoff timer, authenticateInFlight
    c2s, s2c,   \* frames on their way to the gateway and to the client
    gw,         \* the gateway's Conn: state, rest of a join, catch-up in progress
    budget      \* events left of the plan of this run

wire == <<c2s, s2c>>

None == -1

Frame(t, ops, c) == [t |-> t, ops |-> ops, c |-> c]
Plain(t) == Frame(t, {}, None)

\* A connection the gateway does not have; `stream` is the cursor of a
\* catch-up being streamed, `joining` says that a join has not finished it.
NoConn == [state |-> "none", stream |-> None, joining |-> FALSE, durable |-> None]

Spend(kind) ==
    /\ budget[kind] > 0
    /\ budget' = [budget EXCEPT ![kind] = @ - 1]

TransportInit ==
    /\ net = [status |-> "disconnected", ws |-> "none", timer |-> FALSE, token |-> FALSE]
    /\ c2s = <<>> /\ s2c = <<>>
    /\ gw = NoConn
    /\ budget \in Plans

----------------------------------------------------------------------------
(* What the handlers of the session use.                                   *)

\* send(): dropped silently unless the socket, whichever it is, is open.
Send(f) == c2s' = IF net.ws = "open" THEN Append(c2s, f) ELSE c2s

Receive(t) == s2c # <<>> /\ Head(s2c).t = t /\ s2c' = Tail(s2c)

\* connect(): a no-op while a socket exists.
Connected(n) == IF n.ws = "none"
                THEN [n EXCEPT !.ws = "connecting",
                               !.status = IF @ = "disconnected" THEN "connecting" ELSE "reconnecting"]
                ELSE n

\* teardownSocket(), and scheduleReconnect() when `status` says so.  The
\* gateway loses the connection; `at` changes by the batches it still reads.
Teardown(status) ==
    /\ net' = [net EXCEPT !.status = status, !.ws = "none", !.timer = status = "reconnecting"]
    /\ c2s' = <<>> /\ s2c' = <<>>
    /\ gw' = NoConn

----------------------------------------------------------------------------
(* Steps of the transport itself.                                          *)

\* The backoff timer: connect() again.
TimerFires ==
    /\ net.timer
    /\ net' = Connected([net EXCEPT !.timer = FALSE])
    /\ UNCHANGED <<wire, gw, budget>>

\* ws.onopen: hello.
Opens ==
    /\ net.ws = "connecting"
    /\ net' = [net EXCEPT !.ws = "open"]
    /\ c2s' = <<Plain("hello")>>
    /\ gw' = [NoConn EXCEPT !.state = "connected"]
    /\ UNCHANGED <<s2c, budget>>

\* hello_ack: one getToken() at a time, whichever connection asked for it.
HelloAck ==
    /\ Receive("hello_ack")
    /\ net' = [net EXCEPT !.token = TRUE]
    /\ UNCHANGED <<c2s, gw, budget>>

TokenArrives ==
    /\ net.token
    /\ net' = [net EXCEPT !.token = FALSE]
    /\ Send(Plain("authenticate"))
    /\ UNCHANGED <<s2c, gw, budget>>

\* getToken() rejects: scheduleReconnect() without teardownSocket().
TokenFails ==
    /\ net.token
    /\ Spend("token")
    /\ net' = [net EXCEPT !.token = FALSE, !.timer = TRUE, !.status = "reconnecting"]
    /\ UNCHANGED <<wire, gw>>

----------------------------------------------------------------------------
(* The gateway up to the join (ws/mod.rs).  A frame that its state does not *)
(* allow is answered by an error the client only shows.                    *)

Serves(t) == gw.stream = None /\ ~gw.joining /\ c2s # <<>> /\ Head(c2s).t = t /\ c2s' = Tail(c2s)

GwHello ==
    /\ Serves("hello")
    /\ IF gw.state = "connected"
       THEN /\ gw' = [gw EXCEPT !.state = "hello_done"]
            /\ s2c' = Append(s2c, Plain("hello_ack"))
       ELSE UNCHANGED <<gw, s2c>>
    /\ UNCHANGED <<net, budget>>

GwAuthenticate ==
    /\ Serves("authenticate")
    /\ IF gw.state = "hello_done"
       THEN /\ gw' = [gw EXCEPT !.state = "authenticated"]
            /\ s2c' = Append(s2c, Plain("authenticated"))
       ELSE UNCHANGED <<gw, s2c>>
    /\ UNCHANGED <<net, budget>>

TransportNext == TimerFires \/ Opens \/ HelloAck \/ TokenArrives \/ TokenFails
                 \/ GwHello \/ GwAuthenticate
=============================================================================
