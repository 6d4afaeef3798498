----------------------------- MODULE IperfAccept -----------------------------
(* iperf_accept (iperf_server_api.c:42-82) and everything it calls: the state *)
(* byte, the parameter exchange and the on_connect callback, one step per     *)
(* system call that other processes can interleave with or that can fail. The *)
(* server is a single thread, `pc` its position; the peers are external       *)
(* processes, each opening one TCP connection.                                *)
EXTENDS IperfTest, Sequences, FiniteSets

CONSTANTS
  Peer,           \* the connections that may be opened to the listener
  NoPeer,         \* the -1 of a descriptor that holds no socket
  Backlog,        \* connections the listener queues, listen(s, 5) in net.c
  Params          \* the parameters objects the peers may send

ASSUME PeerAssumption == NoPeer \notin Peer
ASSUME BacklogAssumption == Backlog \in Nat \ {0}
ASSUME ParamsAssumption == \A m \in Params : IsParams(m)

VARIABLES
  \* The server process.
  pc,             \* where the server thread is
  test,           \* the descriptor's direction and protocol fields
  state,          \* test->state
  ctrl_sck,       \* test->ctrl_sck
  s,              \* the local s of iperf_accept: the socket just accepted
  open,           \* accepted sockets the process has not closed
  data_listener,  \* protocol->listen has succeeded
  report,         \* the peer the last "Accepted connection from" line names
  \* The network and the peers.
  queue,          \* completed connections that accept() has not returned yet
  conn,           \* each peer's end: "new", "open" or "closed"
  frame,          \* how much of a parameters frame each peer has sent
  params,         \* the object in that frame, once it is complete
  written         \* the control messages written to each peer's socket

peerVars == <<conn, frame, params>>
vars == <<pc, test, state, ctrl_sck, s, open, data_listener, report,
          queue, conn, frame, params, written>>

-----------------------------------------------------------------------------
\* No parameters: what params[p] is before p's frame is complete.
NoParams == [k \in {} |-> 0]

PcValues == {"idle", "accept", "param_exchange", "get_parameters", "listen",
             "create_streams", "server_error", "errno", "errno_again",
             "on_connect", "deny", "failed", "crashed"}

StateValues == {"unset", "PARAM_EXCHANGE", "CREATE_STREAMS", "SERVER_ERROR"}

\* "garbled" is a frame that JSON_read refuses although it arrived whole.
FrameValues == {"none", "part", "full", "garbled"}

Messages == {"PARAM_EXCHANGE", "CREATE_STREAMS", "SERVER_ERROR",
             "ACCESS_DENIED", "errno"}

\* The family of the listener: AF_INET6 when neither a family nor an address to
\* bind to is given. iperf_defaults gives no family and no option sets either.
netannounce(domain, local) ==
  IF domain = "AF_UNSPEC" /\ local = NULL THEN "AF_INET6" ELSE domain
ListenerFamily == netannounce("AF_UNSPEC", NULL)

Init ==
  /\ pc = "idle"
  /\ test \in ServerTests
  /\ state = "unset"
  /\ ctrl_sck = NoPeer
  /\ s = NoPeer
  /\ open = {}
  /\ data_listener = FALSE
  /\ report = NoPeer
  /\ queue = <<>>
  /\ conn = [p \in Peer |-> "new"]
  /\ frame = [p \in Peer |-> "none"]
  /\ params = [p \in Peer |-> NoParams]
  /\ written = [p \in Peer |-> <<>>]

-----------------------------------------------------------------------------
(* The peers and the network.                                                *)

Connect(p) ==
  /\ conn[p] = "new"
  /\ Len(queue) < Backlog
  /\ conn' = [conn EXCEPT ![p] = "open"]
  /\ queue' = Append(queue, p)
  /\ UNCHANGED <<pc, test, state, ctrl_sck, s, open, data_listener, report,
                 frame, params, written>>

\* A peer sends some bytes of its frame but not all: part of the length word,
\* or the length word and part of the text it announces.
SendPart(p) ==
  /\ conn[p] = "open" /\ frame[p] = "none"
  /\ frame' = [frame EXCEPT ![p] = "part"]
  /\ UNCHANGED <<pc, test, state, ctrl_sck, s, open, data_listener, report,
                 queue, conn, params, written>>

SendRest(p) ==
  /\ conn[p] = "open" /\ frame[p] = "part"
  /\ \/ /\ frame' = [frame EXCEPT ![p] = "full"]
        /\ \E m \in Params : params' = [params EXCEPT ![p] = m]
     \/ /\ frame' = [frame EXCEPT ![p] = "garbled"]
        /\ UNCHANGED params
  /\ UNCHANGED <<pc, test, state, ctrl_sck, s, open, data_listener, report,
                 queue, conn, written>>

\* A peer closes, resets or loses its connection.
Disconnect(p) ==
  /\ conn[p] = "open"
  /\ conn' = [conn EXCEPT ![p] = "closed"]
  /\ UNCHANGED <<pc, test, state, ctrl_sck, s, open, data_listener, report,
                 queue, frame, params, written>>

PeerStep == \E p \in Peer :
  Connect(p) \/ SendPart(p) \/ SendRest(p) \/ Disconnect(p)

-----------------------------------------------------------------------------
(* The server thread.                                                        *)

\* Nwrite of one control message to p. Sending is asynchronous, so a write to
\* a peer that has gone may still succeed; it may also return NET_HARDERROR,
\* and as SIGPIPE has its default disposition it may kill the process.
NwriteOK(p, msg) == written' = [written EXCEPT ![p] = Append(@, msg)]
NwriteFails(p) == conn[p] = "closed" /\ UNCHANGED written

\* A write whose failure makes iperf_accept return -1.
Nwrite(p, msg, next) ==
  \/ NwriteOK(p, msg) /\ pc' = next
  \/ NwriteFails(p) /\ pc' \in {"failed", "crashed"}

\* iperf_set_send_state: the state is assigned whether or not it gets sent.
iperf_set_send_state(new, next) ==
  /\ state' = new
  /\ Nwrite(ctrl_sck, new, next)

-----------------------------------------------------------------------------
(* Faulty variants of steps below: mistakes a change to the code could make,  *)
(* each of which some property must notice.                                   *)

\* End of file is not noticed: the read waits for the rest of the frame.
GetParametersIgnoringEOF ==
  /\ pc = "get_parameters"
  /\ frame[ctrl_sck] = "full"
  /\ test' = get_parameters(test, params[ctrl_sck])
  /\ pc' = IF test'.fault THEN "crashed" ELSE "listen"
  /\ UNCHANGED <<state, ctrl_sck, s, open, data_listener, report, queue,
                 peerVars, written>>

\* The caller is told that an exchange that ended in SERVER_ERROR succeeded.
SendErrnoThenReturn0 ==
  /\ \/ pc = "errno" /\ Nwrite(ctrl_sck, "errno", "errno_again")
     \/ pc = "errno_again" /\ Nwrite(ctrl_sck, "errno", "idle")
  /\ UNCHANGED <<test, state, ctrl_sck, s, open, data_listener, report, queue,
                 peerVars>>

DenyRest == UNCHANGED <<test, ctrl_sck, s, data_listener, report, queue, peerVars>>

\* The denied socket is not closed.
DenyWithoutClose ==
  /\ pc = "deny" /\ Nwrite(s, "ACCESS_DENIED", "idle")
  /\ DenyRest /\ UNCHANGED <<open, state>>

\* The denial goes out on the control socket.
DenyOnControlSocket ==
  /\ pc = "deny" /\ Nwrite(ctrl_sck, "ACCESS_DENIED", "idle")
  /\ open' = IF pc' = "idle" THEN open \ {s} ELSE open
  /\ DenyRest /\ UNCHANGED state

\* The denial is recorded as the state of the test, as other messages are.
DenyAsState ==
  /\ pc = "deny" /\ Nwrite(s, "ACCESS_DENIED", "idle")
  /\ open' = IF pc' = "idle" THEN open \ {s} ELSE open
  /\ state' = "ACCESS_DENIED"
  /\ DenyRest

-----------------------------------------------------------------------------
EnterAccept ==
  /\ pc = "idle"
  /\ pc' = "accept"
  /\ UNCHANGED <<test, state, ctrl_sck, s, open, data_listener, report, queue,
                 peerVars, written>>

\* The loop of iperf_run_server calls iperf_accept while no test is set up.
Call == state # "CREATE_STREAMS" /\ EnterAccept

\* Any other caller, who may call it during a test: what iperf_accept does with
\* the client it finds then (its else branch) is written for such a caller, and
\* no caller in the tree is one. IperfServer has Call alone.
CallAgain == state = "CREATE_STREAMS" /\ EnterAccept

Accept ==
  /\ pc = "accept"
  /\ queue # <<>>
  /\ s' = Head(queue)
  /\ queue' = Tail(queue)
  /\ open' = open \cup {s'}
  /\ IF ctrl_sck = NoPeer
     THEN ctrl_sck' = s' /\ pc' = "param_exchange"
     ELSE pc' = "deny" /\ UNCHANGED ctrl_sck
  /\ UNCHANGED <<test, state, data_listener, report, peerVars, written>>

\* accept() itself fails: a connection aborted in the queue, no descriptor left.
AcceptFails ==
  /\ pc = "accept"
  /\ pc' = "failed"
  /\ UNCHANGED <<test, state, ctrl_sck, s, open, data_listener, report, queue,
                 peerVars, written>>

SendParamExchange ==
  /\ pc = "param_exchange"
  /\ iperf_set_send_state("PARAM_EXCHANGE", "get_parameters")
  /\ UNCHANGED <<test, ctrl_sck, s, open, data_listener, report, queue, peerVars>>

\* get_parameters blocks in JSON_read until the whole frame has come or the
\* connection has ended; end of file inside the frame, an error or a text that
\* does not parse makes JSON_read return NULL.
GetParameters ==
  /\ pc = "get_parameters"
  /\ \/ /\ frame[ctrl_sck] = "full"
        /\ test' = get_parameters(test, params[ctrl_sck])
        /\ pc' = IF test'.fault THEN "crashed" ELSE "listen"
     \/ /\ frame[ctrl_sck] = "garbled" \/ conn[ctrl_sck] = "closed"
        /\ pc' = "failed"
        /\ UNCHANGED test
  /\ UNCHANGED <<state, ctrl_sck, s, open, data_listener, report, queue,
                 peerVars, written>>

\* test->protocol->listen(test): the call through a NULL protocol crashes;
\* iperf_tcp_listen is external and may fail.
Listen ==
  /\ pc = "listen"
  /\ \/ /\ test.protocol = NULL
        /\ test' = [test EXCEPT !.fault = TRUE]
        /\ pc' = "crashed" /\ UNCHANGED data_listener
     \/ /\ test.protocol # NULL
        /\ data_listener' = TRUE
        /\ pc' = "create_streams" /\ UNCHANGED test
     \/ /\ test.protocol # NULL
        /\ pc' = "server_error" /\ UNCHANGED <<test, data_listener>>
  /\ UNCHANGED <<state, ctrl_sck, s, open, report, queue, peerVars, written>>

SendCreateStreams ==
  /\ pc = "create_streams"
  /\ iperf_set_send_state("CREATE_STREAMS", "on_connect")
  /\ UNCHANGED <<test, ctrl_sck, s, open, data_listener, report, queue, peerVars>>

SendServerError ==
  /\ pc = "server_error"
  /\ iperf_set_send_state("SERVER_ERROR", "errno")
  /\ UNCHANGED <<test, ctrl_sck, s, open, data_listener, report, queue, peerVars>>

\* errno goes out twice, and then the call returns -1.
SendErrno ==
  /\ \/ pc = "errno" /\ Nwrite(ctrl_sck, "errno", "errno_again")
     \/ pc = "errno_again" /\ Nwrite(ctrl_sck, "errno", "failed")
  /\ UNCHANGED <<test, state, ctrl_sck, s, open, data_listener, report, queue,
                 peerVars>>

\* The callback names the peer from buffers that are filled only for an
\* AF_INET control socket whose peer is still connected; otherwise it prints
\* what the stack held.
OnConnect ==
  /\ pc = "on_connect"
  /\ report' \in IF ListenerFamily = "AF_INET" /\ conn[ctrl_sck] = "open"
                 THEN {ctrl_sck} ELSE Peer \cup {NoPeer}
  /\ pc' = "idle"
  /\ UNCHANGED <<test, state, ctrl_sck, s, open, data_listener, queue, peerVars,
                 written>>

\* The socket of a denied peer is closed only if the write succeeded.
Deny ==
  /\ pc = "deny"
  /\ Nwrite(s, "ACCESS_DENIED", "idle")
  /\ open' = IF pc' = "idle" THEN open \ {s} ELSE open
  /\ UNCHANGED <<test, state, ctrl_sck, s, data_listener, report, queue, peerVars>>

\* The steps the server thread takes by itself once the system lets it.
ServerStep ==
  \/ Accept \/ SendParamExchange \/ GetParameters \/ Listen
  \/ SendCreateStreams \/ SendServerError \/ SendErrno \/ OnConnect \/ Deny

AcceptStep == ServerStep \/ AcceptFails

Next == PeerStep \/ Call \/ CallAgain \/ AcceptStep

Spec == Init /\ [][Next]_vars

(* Inside iperf_accept the thread runs when it can. Nothing makes it be       *)
(* called, and nothing makes a peer act.                                      *)
FairSpec == Spec /\ WF_vars(ServerStep)

-----------------------------------------------------------------------------
(* Properties.                                                               *)

\* The variables hold values of their types; the queue is within the backlog.
TypeOK ==
  /\ pc \in PcValues
  /\ test \in Tests
  /\ state \in StateValues
  /\ ctrl_sck \in Peer \cup {NoPeer}
  /\ s \in Peer \cup {NoPeer}
  /\ open \subseteq Peer
  /\ data_listener \in BOOLEAN
  /\ report \in Peer \cup {NoPeer}
  /\ queue \in Seq(Peer) /\ Len(queue) <= Backlog
  /\ conn \in [Peer -> {"new", "open", "closed"}]
  /\ frame \in [Peer -> FrameValues]
  /\ params \in [Peer -> Params \cup {NoParams}]
  /\ written \in [Peer -> Seq(Messages)]

\* What the peer that holds the control socket may have been sent so far.
OwnerTranscripts ==
  {<<>>,
   <<"PARAM_EXCHANGE">>,
   <<"PARAM_EXCHANGE", "CREATE_STREAMS">>,
   <<"PARAM_EXCHANGE", "SERVER_ERROR">>,
   <<"PARAM_EXCHANGE", "SERVER_ERROR", "errno">>,
   <<"PARAM_EXCHANGE", "SERVER_ERROR", "errno", "errno">>}

\* The control protocol, seen from the sockets: the peer in ctrl_sck receives a
\* prefix of one of the two legal conversations, every other peer at most one
\* ACCESS_DENIED, whatever order peers connect, send and leave in.
OneSession ==
  \A p \in Peer : written[p] \in (IF p = ctrl_sck THEN OwnerTranscripts
                                  ELSE {<<>>, <<"ACCESS_DENIED">>})

\* A peer told to create its streams has had its whole frame read, there is a
\* listener to connect the streams to, and the descriptor says what that peer
\* asked for: TCP, the data direction (the server sends exactly when the test
\* is reversed), retransmit statistics for a sender, and the duration.
SessionAgreed ==
  \A p \in Peer :
    (Len(written[p]) > 1 /\ written[p][2] = "CREATE_STREAMS") =>
      /\ frame[p] = "full" /\ "tcp" \in DOMAIN params[p]
      /\ data_listener
      /\ test.protocol = "tcp"
      /\ test.reverse = ("reverse" \in DOMAIN params[p])
      /\ test.sender = test.reverse
      /\ test.sender_has_retransmits = test.sender
      /\ "time" \in DOMAIN params[p] => test.duration = params[p]["time"]

\* Whatever later clients do, once a test has been set up its state, control
\* socket, negotiated fields and data listener never change: denying a client
\* must not touch them (the comment at iperf_server_api.c:70-73).
OngoingTestUndisturbed ==
  [][state = "CREATE_STREAMS" => UNCHANGED <<state, test, ctrl_sck, data_listener>>]_vars

\* When a call returns 0 the process holds the control socket and no other
\* accepted socket: denied clients leak no descriptor.
SocketAccounting == pc = "idle" => open = {ctrl_sck} \ {NoPeer}

\* The "Accepted connection from" line names the peer that was accepted, unless
\* that peer had already gone (iperf_locale.c:134, iperf_on_connect).
ReportNamesPeer ==
  (pc = "idle" /\ ctrl_sck # NoPeer) =>
    (report = ctrl_sck \/ conn[ctrl_sck] = "closed")

Dead == pc \in {"failed", "crashed"}

\* The owner keeps the server waiting: it is connected, the rest of its frame is
\* owed, and JSON_read, which has no time-out, blocks on it.
HeldBy(p) ==
  /\ pc = "get_parameters" /\ ctrl_sck = p
  /\ conn[p] = "open" /\ frame[p] \in {"none", "part"}

\* An offered exchange stays half done only while its client keeps silent:
\* else it ends in CREATE_STREAMS, in SERVER_ERROR or with the end of the server,
\* whatever the client sends, in how many pieces, and wherever it leaves.
OfferResolved ==
  \A p \in Peer :
    written[p] = <<"PARAM_EXCHANGE">> ~> (Len(written[p]) > 1 \/ Dead \/ []HeldBy(p))

-----------------------------------------------------------------------------
(* Refinement of ControlSession: the abstract answer is read off the socket.  *)

AnswerTo(transcript) ==
  CASE transcript = <<>>                  -> "none"
    [] transcript = <<"ACCESS_DENIED">>   -> "denied"
    [] transcript = <<"PARAM_EXCHANGE">>  -> "offered"
    [] transcript = <<"PARAM_EXCHANGE", "CREATE_STREAMS">> -> "created"
    [] OTHER                              -> "refused"

Session == INSTANCE ControlSession
             WITH owner <- ctrl_sck, answer <- [p \in Peer |-> AnswerTo(written[p])]

\* iperf_accept implements ControlSession: in particular nobody is denied
\* before the owner's own exchange has succeeded.
ImplementsControlSession == Session!Spec

=============================================================================
