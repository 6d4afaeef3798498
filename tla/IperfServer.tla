----------------------------- MODULE IperfServer -----------------------------
(* iperf_run_server (iperf_server_api.c:85-127) around iperf_accept: it sets  *)
(* up the epoll set, the listener and the record timer, and then alternates   *)
(* between iperf_accept, called only while no test has been set up, and       *)
(* epoll_wait. Nothing in the tree ever adds a descriptor to the epoll set    *)
(* (iperf_register_timerfd has no caller), so epoll_wait returns only with an *)
(* error, and nothing assigns IPERF_DONE, so the loop has no other exit.      *)
EXTENDS IperfAccept

VARIABLES
  lpc,        \* where iperf_run_server is
  rc,         \* what it returned, once lpc = "returned"
  epoll,      \* test->epoll_fd is an epoll descriptor
  listening,  \* test->listener is a listening socket
  timer       \* test->timer_fd is a timer

setupVars == <<epoll, listening, timer>>
serverVars == <<vars, lpc, rc, setupVars>>

ServerInit ==
  /\ Init
  /\ lpc = "create_epoll" /\ rc = 0
  /\ epoll = FALSE /\ listening = FALSE /\ timer = FALSE

Running == lpc \notin {"returned", "exited"} /\ pc # "crashed"

Return(n) == lpc' = "returned" /\ rc' = n
GoTo(l) == lpc' = l /\ UNCHANGED rc

-----------------------------------------------------------------------------
\* The peers: a connection is completed only by a listening socket.
ServerPeerStep ==
  /\ \E p \in Peer : \/ Running /\ listening /\ Connect(p)
                     \/ SendPart(p) \/ SendRest(p) \/ Disconnect(p)
  /\ UNCHANGED <<lpc, rc, setupVars>>

\* iperf_create_epoll answers 1 when epoll_create1 fails, and the caller looks
\* for a negative result.
CreateEpoll ==
  /\ lpc = "create_epoll"
  /\ \E ret \in {0, 1} :
       /\ epoll' = (ret = 0)
       /\ IF ret < 0 THEN Return(-2) ELSE GoTo("server_listen")
  /\ UNCHANGED <<vars, listening, timer>>

iperf_server_listen ==
  /\ lpc = "server_listen"
  /\ \E ret \in {0, -1} :
       /\ listening' = (ret = 0)
       /\ IF ret < 0 THEN Return(-2) ELSE GoTo("create_timerfd")
  /\ UNCHANGED <<vars, epoll, timer>>

\* Faulty variants: a timer that cannot be made is reported but the set-up goes
\* on; the loop's test is the wrong way round; the result of iperf_accept is
\* not looked at.
CreateTimerfdIgnored ==
  /\ lpc = "create_timerfd"
  /\ timer' \in BOOLEAN
  /\ GoTo("loop")
  /\ UNCHANGED <<vars, epoll, listening>>

LoopInverted ==
  /\ lpc = "loop"
  /\ IF state = "CREATE_STREAMS"
     THEN Call /\ GoTo("accept")
     ELSE GoTo("epoll_wait") /\ UNCHANGED vars
  /\ UNCHANGED setupVars

AcceptReturnsUnchecked ==
  /\ lpc = "accept" /\ pc \in {"idle", "failed"}
  /\ GoTo("epoll_wait")
  /\ UNCHANGED <<vars, setupVars>>

CreateTimerfd ==
  /\ lpc = "create_timerfd"
  /\ \E ret \in {0, -1} :
       /\ timer' = (ret = 0)
       /\ IF ret < 0 THEN Return(-2) ELSE GoTo("loop")
  /\ UNCHANGED <<vars, epoll, listening>>

Loop ==
  /\ lpc = "loop"
  /\ state # "IPERF_DONE"
  /\ IF state # "CREATE_STREAMS"
     THEN Call /\ GoTo("accept")
     ELSE GoTo("epoll_wait") /\ UNCHANGED vars
  /\ UNCHANGED setupVars

\* A step of iperf_accept, for as long as it has not returned or crashed.
InAccept(step) ==
  /\ lpc = "accept"
  /\ step
  /\ UNCHANGED <<lpc, rc, setupVars>>

AcceptReturns ==
  /\ lpc = "accept"
  /\ \/ pc = "idle" /\ GoTo("epoll_wait")
     \/ pc = "failed" /\ Return(-1)
  /\ UNCHANGED <<vars, setupVars>>

\* The set is empty and the time-out infinite: the call ends with EBADF, or
\* with EINTR when the process has been stopped and continued.
EpollWaitFails ==
  /\ lpc = "epoll_wait"
  /\ Return(1)
  /\ UNCHANGED <<vars, setupVars>>

\* SIGINT, SIGTERM and SIGHUP: sighandler (main.c:119-123) leaves with exit(0).
Signal ==
  /\ Running
  /\ GoTo("exited")
  /\ UNCHANGED <<vars, setupVars>>

SetUp == CreateEpoll \/ iperf_server_listen \/ CreateTimerfd

ServerNext ==
  \/ ServerPeerStep \/ SetUp \/ Loop \/ InAccept(AcceptStep)
  \/ AcceptReturns \/ EpollWaitFails \/ Signal

ServerOnlySpec == ServerInit /\ [][ServerNext]_serverVars

(* The server thread runs whenever the system lets it: the blocking calls     *)
(* (accept, read, epoll_wait) carry no fairness of their own beyond returning *)
(* when what they wait for is there, an invalid epoll descriptor included.    *)
(* The clients owe nothing: one may stay silent for ever.                     *)
ServerSpec ==
  /\ ServerOnlySpec
  /\ WF_serverVars(SetUp) /\ WF_serverVars(Loop)
  /\ WF_serverVars(InAccept(ServerStep)) /\ WF_serverVars(AcceptReturns)
  /\ WF_serverVars(~epoll /\ EpollWaitFails)

-----------------------------------------------------------------------------
(* Properties.                                                               *)

\* The server goes to wait for events only with a session that is complete on
\* both sides: the owner has been told to create its streams, the data listener
\* is up, and that owner's socket is the only one held.
WaitsWithSession ==
  lpc = "epoll_wait" =>
    /\ state = "CREATE_STREAMS" /\ data_listener
    /\ open = {ctrl_sck}
    /\ written[ctrl_sck] = <<"PARAM_EXCHANGE", "CREATE_STREAMS">>

\* A return of -2 means that the set-up failed before any client was accepted,
\* and no client is ever accepted without listener and timer. (The epoll set is
\* not among the things checked: see CreateEpoll.)
NoServiceWithoutSetUp ==
  /\ (lpc = "returned" /\ rc = -2) => open = {} /\ ctrl_sck = NoPeer
  /\ open # {} => listening /\ timer

\* The first client to connect is always offered its exchange, unless it
\* leaves first or the server ends.
FirstClientAnswered ==
  \A p \in Peer :
    (queue # <<>> /\ queue[1] = p /\ ctrl_sck = NoPeer)
      ~> (written[p] # <<>> \/ conn[p] = "closed" \/ ~Running)

\* A connection waits in the backlog for ever only for one of two reasons: the
\* client before it holds the exchange and stays silent, or a test is set up and
\* the loop waits for events. Else accept() returns it, or the server ends. A
\* client that leaves, or a frame that is cut or refused, holds nobody up.
WaitHasReason ==
  \A p \in Peer :
    (\E i \in DOMAIN queue : queue[i] = p) ~>
      \/ p \in open \/ ~Running
      \/ [](\E q \in Peer \ {p} : HeldBy(q))
      \/ [](lpc = "epoll_wait" /\ state = "CREATE_STREAMS")

\* A client that connects while a test is under way is sent ACCESS_DENIED (the
\* comment at iperf_server_api.c:70-73, "Just send ACCESS_DENIED."), unless it
\* leaves first or the server ends.
SecondClientDenied ==
  \A p \in Peer :
    (conn[p] = "open" /\ p # ctrl_sck /\ state = "CREATE_STREAMS")
      ~> (written[p] = <<"ACCESS_DENIED">> \/ conn[p] = "closed" \/ ~Running)

\* Whatever test a client asks for, setting it up never goes through a NULL
\* pointer, if iperf_defaults listed TCP: UDP is one of the two tests the program offers (iperf_locale.c:32,
\* "use UDP rather than TCP").
NoNullProtocol == test.protocols # {} => ~test.fault

=============================================================================
