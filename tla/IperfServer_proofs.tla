-------------------------- MODULE IperfServer_proofs --------------------------
(* The safety of iperf_accept, for any set of peers, any backlog and any set   *)
(* of parameters objects; and on top of its session invariant that of          *)
(* iperf_run_server, which calls it: a step of the server is a step of         *)
(* IperfAccept or leaves its variables alone.                                  *)
EXTENDS IperfServer, IperfTest_proofs

-----------------------------------------------------------------------------
(* Type correctness.                                                          *)

\* The initial states are of their types.
LEMMA InitType == Init => TypeOK
<1> SUFFICES ASSUME Init PROVE TypeOK
  OBVIOUS
<1>1. test \in Tests
  BY ServerTestValue DEF Init
<1>2. queue \in Seq(Peer) /\ Len(queue) <= Backlog
  BY BacklogAssumption DEF Init
<1>3. written \in [Peer -> Seq(Messages)]
  BY DEF Init
<1>4. /\ conn \in [Peer -> {"new", "open", "closed"}]
      /\ frame \in [Peer -> FrameValues]
      /\ params \in [Peer -> Params \cup {NoParams}]
  BY DEF Init, FrameValues
<1>5. pc \in PcValues /\ state \in StateValues
  BY DEF Init, PcValues, StateValues
<1> QED BY <1>1, <1>2, <1>3, <1>4, <1>5 DEF Init, TypeOK

\* A write of one control message keeps the types, if `next` is a position.
LEMMA NwriteType ==
  ASSUME TypeOK, NEW p \in Peer, NEW msg \in Messages, NEW next \in PcValues,
         Nwrite(p, msg, next)
  PROVE  written' \in [Peer -> Seq(Messages)] /\ pc' \in PcValues
<1>1. CASE NwriteOK(p, msg) /\ pc' = next
  <2>1. Append(written[p], msg) \in Seq(Messages)
    BY DEF TypeOK
  <2> QED BY <1>1, <2>1 DEF NwriteOK, TypeOK
<1>2. CASE NwriteFails(p) /\ pc' \in {"failed", "crashed"}
  BY <1>2 DEF NwriteFails, TypeOK, PcValues
<1> QED BY <1>1, <1>2 DEF Nwrite

\* In every position in which the control socket is used, it holds a peer; in
\* "deny", s does.
SocketsInUse ==
  /\ pc \in {"param_exchange", "get_parameters", "listen", "create_streams",
             "server_error", "errno", "errno_again", "on_connect", "deny"}
       => ctrl_sck \in Peer
  /\ pc = "deny" => s \in Peer

\* A peer's step keeps the types and the sockets in use.
LEMMA PeerStepType ==
  ASSUME TypeOK, SocketsInUse, PeerStep
  PROVE  TypeOK' /\ SocketsInUse'
<1>1. PICK p \in Peer : Connect(p) \/ SendPart(p) \/ SendRest(p) \/ Disconnect(p)
  BY DEF PeerStep
<1>2. CASE Connect(p)
  BY <1>2, BacklogAssumption DEF Connect, TypeOK, SocketsInUse
<1>3. CASE SendPart(p)
  BY <1>3 DEF SendPart, TypeOK, SocketsInUse, FrameValues
<1>4. CASE SendRest(p)
  <2>1. frame' \in [Peer -> FrameValues]
    BY <1>4 DEF SendRest, TypeOK, FrameValues
  <2>2. params' \in [Peer -> Params \cup {NoParams}]
    BY <1>4 DEF SendRest, TypeOK
  <2> QED BY <1>4, <2>1, <2>2 DEF SendRest, TypeOK, SocketsInUse
<1>5. CASE Disconnect(p)
  BY <1>5 DEF Disconnect, TypeOK, SocketsInUse
<1> QED BY <1>1, <1>2, <1>3, <1>4, <1>5

\* A step of the server thread keeps the types and the sockets in use.
LEMMA ServerStepType ==
  ASSUME TypeOK, SocketsInUse, Call \/ CallAgain \/ AcceptStep
  PROVE  TypeOK' /\ SocketsInUse'
<1> USE DEF peerVars
<1>1. CASE Call \/ CallAgain
  BY <1>1 DEF Call, CallAgain, EnterAccept, TypeOK, SocketsInUse, PcValues
<1>2. CASE Accept
  <2>1. Head(queue) \in Peer /\ Tail(queue) \in Seq(Peer) /\ Len(Tail(queue)) <= Backlog
    BY <1>2, BacklogAssumption DEF Accept, TypeOK
  <2> QED BY <1>2, <2>1 DEF Accept, TypeOK, SocketsInUse, PcValues
<1>3. CASE AcceptFails
  BY <1>3 DEF AcceptFails, TypeOK, SocketsInUse, PcValues
<1>4. CASE SendParamExchange
  <2>1. /\ ctrl_sck \in Peer /\ Nwrite(ctrl_sck, "PARAM_EXCHANGE", "get_parameters")
        /\ state' \in StateValues
    BY <1>4 DEF SendParamExchange, SocketsInUse, iperf_set_send_state, StateValues
  <2>2. written' \in [Peer -> Seq(Messages)] /\ pc' \in PcValues
    BY <2>1, NwriteType DEF Messages, PcValues
  <2>3. pc' \in {"get_parameters", "failed", "crashed"}
    BY <2>1 DEF Nwrite
  <2> QED BY <1>4, <2>1, <2>2, <2>3 DEF SendParamExchange, TypeOK, SocketsInUse
<1>5. CASE GetParameters
  <2>1. test' \in Tests
    <3>1. CASE frame[ctrl_sck] = "full" /\ test' = get_parameters(test, params[ctrl_sck])
      <4>1. IsParams(params[ctrl_sck])
        <5>1. ctrl_sck \in Peer
          BY <1>5 DEF GetParameters, SocketsInUse
        <5>2. params[ctrl_sck] \in Params \cup {NoParams}
          BY <5>1 DEF TypeOK
        <5>3. IsParams(NoParams)
          BY DEF IsParams, NoParams
        <5> QED BY <5>2, <5>3, ParamsAssumption
      <4> QED BY <3>1, <4>1, ParamsTime, ParametersType DEF TypeOK
    <3>2. CASE UNCHANGED test
      BY <3>2 DEF TypeOK
    <3> QED BY <1>5, <3>1, <3>2 DEF GetParameters
  <2>2. pc' \in {"listen", "crashed", "failed"}
    BY <1>5 DEF GetParameters
  <2> QED BY <1>5, <2>1, <2>2 DEF GetParameters, TypeOK, SocketsInUse, PcValues
<1>6. CASE Listen
  <2>1. test' \in Tests
    BY <1>6 DEF Listen, TypeOK, Tests
  <2>2. pc' \in {"create_streams", "crashed", "server_error"}
    BY <1>6 DEF Listen
  <2> QED BY <1>6, <2>1, <2>2 DEF Listen, TypeOK, SocketsInUse, PcValues
<1>7. CASE SendCreateStreams
  <2>1. /\ ctrl_sck \in Peer /\ Nwrite(ctrl_sck, "CREATE_STREAMS", "on_connect")
        /\ state' \in StateValues
    BY <1>7 DEF SendCreateStreams, SocketsInUse, iperf_set_send_state, StateValues
  <2>2. written' \in [Peer -> Seq(Messages)] /\ pc' \in PcValues
    BY <2>1, NwriteType DEF Messages, PcValues
  <2>3. pc' \in {"on_connect", "failed", "crashed"}
    BY <2>1 DEF Nwrite
  <2> QED BY <1>7, <2>1, <2>2, <2>3 DEF SendCreateStreams, TypeOK, SocketsInUse
<1>8. CASE SendServerError
  <2>1. /\ ctrl_sck \in Peer /\ Nwrite(ctrl_sck, "SERVER_ERROR", "errno")
        /\ state' \in StateValues
    BY <1>8 DEF SendServerError, SocketsInUse, iperf_set_send_state, StateValues
  <2>2. written' \in [Peer -> Seq(Messages)] /\ pc' \in PcValues
    BY <2>1, NwriteType DEF Messages, PcValues
  <2>3. pc' \in {"errno", "failed", "crashed"}
    BY <2>1 DEF Nwrite
  <2> QED BY <1>8, <2>1, <2>2, <2>3 DEF SendServerError, TypeOK, SocketsInUse
<1>9. CASE SendErrno
  <2>1. ctrl_sck \in Peer
    BY <1>9 DEF SendErrno, SocketsInUse
  <2>2. \/ Nwrite(ctrl_sck, "errno", "errno_again")
        \/ Nwrite(ctrl_sck, "errno", "failed")
    BY <1>9 DEF SendErrno
  <2>3. written' \in [Peer -> Seq(Messages)] /\ pc' \in PcValues
    <3>1. "errno" \in Messages /\ "errno_again" \in PcValues /\ "failed" \in PcValues
      BY DEF Messages, PcValues
    <3> QED BY <2>1, <2>2, <3>1, NwriteType
  <2>4. pc' \in {"errno_again", "failed", "crashed"}
    BY <2>2 DEF Nwrite
  <2> QED BY <1>9, <2>1, <2>3, <2>4 DEF SendErrno, TypeOK, SocketsInUse
<1>10. CASE OnConnect
  BY <1>10 DEF OnConnect, TypeOK, SocketsInUse, PcValues
<1>11. CASE Deny
  <2>1. s \in Peer /\ Nwrite(s, "ACCESS_DENIED", "idle")
    BY <1>11 DEF Deny, SocketsInUse
  <2>2. written' \in [Peer -> Seq(Messages)] /\ pc' \in PcValues
    BY <2>1, NwriteType DEF Messages, PcValues
  <2>3. pc' \in {"idle", "failed", "crashed"}
    BY <2>1 DEF Nwrite
  <2> QED BY <1>11, <2>1, <2>2, <2>3 DEF Deny, TypeOK, SocketsInUse
<1> QED BY <1>1, <1>2, <1>3, <1>4, <1>5, <1>6, <1>7, <1>8, <1>9, <1>10, <1>11
        DEF AcceptStep, ServerStep

\* Every reachable state of iperf_accept is of its type: in particular the
\* descriptor stays well formed and the queue within the backlog.
THEOREM TypeCorrect == Spec => []TypeOK
<1>1. Init => TypeOK /\ SocketsInUse
  BY InitType DEF Init, SocketsInUse
<1>2. TypeOK /\ SocketsInUse /\ [Next]_vars => TypeOK' /\ SocketsInUse'
  <2> SUFFICES ASSUME TypeOK, SocketsInUse, [Next]_vars
               PROVE  TypeOK' /\ SocketsInUse'
    OBVIOUS
  <2>1. CASE PeerStep
    BY <2>1, PeerStepType
  <2>2. CASE Call \/ CallAgain \/ AcceptStep
    BY <2>2, ServerStepType
  <2>3. CASE UNCHANGED vars
    BY <2>3 DEF vars, TypeOK, SocketsInUse
  <2> QED BY <2>1, <2>2, <2>3 DEF Next
<1> QED BY <1>1, <1>2, PTL DEF Spec

-----------------------------------------------------------------------------
(* The session invariant. OneSession says what each peer may have been sent,  *)
(* but not where the thread is when it was sent; the invariant adds that the  *)
(* position of the thread fixes the transcript of the owner (Stage), that a   *)
(* connection still in the queue has been sent nothing and is queued once     *)
(* (Arrivals), which sockets are open at each position (Sockets), and that    *)
(* the test counts as set up only after an exchange (SetUpDone).              *)

Untouched(p) == written[p] = <<>> /\ p # ctrl_sck /\ p \notin open

Arrivals ==
  /\ \A p \in Peer : conn[p] = "new" => Untouched(p)
  /\ \A i \in 1..Len(queue) : conn[queue[i]] # "new" /\ Untouched(queue[i])
  /\ \A i, j \in 1..Len(queue) : queue[i] = queue[j] => i = j

Stage ==
  /\ ctrl_sck = NoPeer => pc \in {"idle", "accept", "failed"}
  /\ ctrl_sck \in Peer =>
       /\ pc = "param_exchange" => written[ctrl_sck] = <<>>
       /\ pc \in {"get_parameters", "listen", "create_streams", "server_error"}
            => written[ctrl_sck] = <<"PARAM_EXCHANGE">>
       /\ pc = "errno"
            => written[ctrl_sck] = <<"PARAM_EXCHANGE", "SERVER_ERROR">>
       /\ pc = "errno_again"
            => written[ctrl_sck] = <<"PARAM_EXCHANGE", "SERVER_ERROR", "errno">>
       /\ pc \in {"idle", "accept", "deny", "on_connect"}
            => written[ctrl_sck] = <<"PARAM_EXCHANGE", "CREATE_STREAMS">>

Sockets ==
  /\ pc \notin {"deny", "failed", "crashed"} => open = {ctrl_sck} \ {NoPeer}
  /\ pc = "deny" => s # ctrl_sck /\ written[s] = <<>> /\ open = {ctrl_sck, s}

SetUpDone ==
  state = "CREATE_STREAMS" =>
    /\ ctrl_sck \in Peer
    /\ pc \in {"on_connect", "idle", "accept", "deny", "failed", "crashed"}

SessionInv == TypeOK /\ SocketsInUse /\ OneSession /\ Arrivals /\ Stage /\ Sockets
              /\ SetUpDone

\* What a write of msg to the owner leaves: either msg was appended to the
\* owner's transcript, or nothing was written and the call or the process ended.
LEMMA OwnerWrite ==
  ASSUME TypeOK, ctrl_sck \in Peer, NEW msg \in Messages, NEW next \in PcValues,
         Nwrite(ctrl_sck, msg, next)
  PROVE  /\ \A p \in Peer \ {ctrl_sck} : written'[p] = written[p]
         /\ \/ /\ pc' = next
               /\ written'[ctrl_sck] = Append(written[ctrl_sck], msg)
            \/ /\ pc' \in {"failed", "crashed"}
               /\ written'[ctrl_sck] = written[ctrl_sck]
  BY DEF Nwrite, NwriteOK, NwriteFails, TypeOK

\* The initial states satisfy the session invariant.
LEMMA InitSession == Init => SessionInv
<1> SUFFICES ASSUME Init PROVE SessionInv
  OBVIOUS
<1>1. TypeOK /\ SocketsInUse
  BY InitType DEF Init, SocketsInUse
<1>2. OneSession /\ Arrivals
  BY PeerAssumption DEF Init, OneSession, Arrivals, Untouched, OwnerTranscripts
<1>3. Stage /\ Sockets /\ SetUpDone
  BY PeerAssumption DEF Init, Stage, Sockets, SetUpDone
<1> QED BY <1>1, <1>2, <1>3 DEF SessionInv

\* A peer's step keeps it.
LEMMA PeerStepSession ==
  ASSUME SessionInv, PeerStep
  PROVE  SessionInv'
<1> USE DEF SessionInv
<1>1. TypeOK' /\ SocketsInUse'
  BY PeerStepType
<1>2. PICK p \in Peer : Connect(p) \/ SendPart(p) \/ SendRest(p) \/ Disconnect(p)
  BY DEF PeerStep
<1>3. UNCHANGED <<pc, ctrl_sck, s, open, state, written>>
  BY <1>2 DEF Connect, SendPart, SendRest, Disconnect
<1>4. OneSession' /\ Stage' /\ Sockets' /\ SetUpDone'
  BY <1>3 DEF OneSession, Stage, Sockets, SetUpDone
<1>5. Arrivals'
  <2>1. CASE Connect(p)
    <3>1. conn[p] = "new" /\ Untouched(p)
      BY <2>1 DEF Connect, Arrivals
    <3>2. \A i \in 1..Len(queue) : queue[i] # p /\ queue[i] \in Peer
      BY <3>1 DEF Arrivals, TypeOK
    <3>3. /\ Len(queue') = Len(queue) + 1
          /\ queue'[Len(queue) + 1] = p
          /\ \A i \in 1..Len(queue) : queue'[i] = queue[i]
      BY <2>1 DEF Connect, TypeOK
    <3>4. /\ conn'[p] = "open"
          /\ \A q \in Peer \ {p} : conn'[q] = conn[q]
      BY <2>1 DEF Connect, TypeOK
    <3>5. Len(queue) \in Nat
      BY DEF TypeOK
    <3>6. \A i \in 1..Len(queue') : i \in 1..Len(queue) \/ i = Len(queue) + 1
      BY <3>3, <3>5
    <3>7. \A q \in Peer : conn'[q] = "new" => Untouched(q)'
      BY <1>3, <3>4 DEF Arrivals, Untouched
    <3>8. ASSUME NEW i \in 1..Len(queue')
          PROVE  conn'[queue'[i]] # "new" /\ Untouched(queue[i])'
      <4>1. CASE i \in 1..Len(queue)
        BY <4>1, <1>3, <3>2, <3>3, <3>4 DEF Arrivals, Untouched
      <4>2. CASE i = Len(queue) + 1
        BY <4>2, <1>3, <3>1, <3>3, <3>4 DEF Untouched
      <4> QED BY <3>6, <4>1, <4>2
    <3>9. \A i, j \in 1..Len(queue') : queue'[i] = queue'[j] => i = j
      BY <3>2, <3>3, <3>6 DEF Arrivals
    <3> QED BY <3>7, <3>8, <3>9 DEF Arrivals
  <2>2. CASE SendPart(p) \/ SendRest(p) \/ Disconnect(p)
    <3>1. UNCHANGED queue /\ \A q \in Peer : conn'[q] = "new" <=> conn[q] = "new"
      BY <2>2 DEF SendPart, SendRest, Disconnect, TypeOK
    <3>2. \A i \in 1..Len(queue) : queue[i] \in Peer
      BY DEF TypeOK
    <3> QED BY <1>3, <3>1, <3>2 DEF Arrivals, Untouched
  <2> QED BY <1>2, <2>1, <2>2
<1> QED BY <1>1, <1>4, <1>5

\* Leaving the queue, the descriptor, the sockets and the transcripts alone
\* leaves the arrivals alone.
LEMMA ArrivalsUnchanged ==
  ASSUME Arrivals, UNCHANGED <<conn, queue, ctrl_sck, open, written>>
  PROVE  Arrivals'
  BY DEF Arrivals, Untouched

\* A write to an accepted socket, with at most that socket closed after it,
\* does not concern the connections that are still to be accepted.
LEMMA ArrivalsWrite ==
  ASSUME TypeOK, Arrivals, NEW p \in Peer, p = ctrl_sck \/ p \in open,
         UNCHANGED <<conn, queue, ctrl_sck>>, open' \subseteq open,
         \A q \in Peer \ {p} : written'[q] = written[q]
  PROVE  Arrivals'
<1>1. \A q \in Peer : Untouched(q) => Untouched(q)'
  BY DEF Untouched
<1>2. \A i \in 1..Len(queue) : queue[i] \in Peer
  BY DEF TypeOK
<1>3. \A q \in Peer : conn'[q] = "new" => Untouched(q)'
  BY <1>1 DEF Arrivals
<1>4. \A i \in 1..Len(queue) : Untouched(queue[i]) => Untouched(queue[i])'
  BY <1>1, <1>2
<1> QED BY <1>3, <1>4 DEF Arrivals

\* Accept: the head of the queue becomes the owner, or the peer to deny.
LEMMA AcceptSession ==
  ASSUME SessionInv, Accept
  PROVE  OneSession' /\ Arrivals' /\ Stage' /\ Sockets' /\ SetUpDone'
<1> USE DEF SessionInv, peerVars
<1> DEFINE p == Head(queue)
<1>1. /\ Len(queue) \in Nat \ {0} /\ p = queue[1] /\ p \in Peer
      /\ Len(queue') = Len(queue) - 1
      /\ \A i \in 1..Len(queue') : queue'[i] = queue[i + 1]
  BY DEF Accept, TypeOK
<1>2. Untouched(p) /\ conn[p] # "new"
  BY <1>1 DEF Arrivals
<1>3. \A i \in 1..Len(queue') : /\ i + 1 \in 1..Len(queue)
                                /\ queue'[i] # p
  BY <1>1 DEF Arrivals
<1>4. /\ s' = p /\ open' = open \cup {p} /\ pc = "accept"
      /\ UNCHANGED <<state, conn, written>>
      /\ open = {ctrl_sck} \ {NoPeer}
  BY DEF Accept, Sockets
<1>5. Arrivals'
  <2>1. ctrl_sck' \in {ctrl_sck, p}
    BY DEF Accept
  <2>2. \A q \in Peer : conn'[q] = "new" => Untouched(q)'
    BY <1>2, <1>4, <2>1 DEF Arrivals, Untouched
  <2>3. \A i \in 1..Len(queue') : conn'[queue'[i]] # "new" /\ Untouched(queue[i])'
    BY <1>1, <1>3, <1>4, <2>1 DEF Arrivals, Untouched
  <2>4. \A i, j \in 1..Len(queue') : queue'[i] = queue'[j] => i = j
    BY <1>1, <1>3 DEF Arrivals
  <2> QED BY <2>2, <2>3, <2>4 DEF Arrivals
<1>6. CASE ctrl_sck = NoPeer
  <2>1. ctrl_sck' = p /\ pc' = "param_exchange"
    BY <1>6 DEF Accept
  <2>2. written'[p] = <<>> /\ state # "CREATE_STREAMS"
    BY <1>2, <1>4, <1>6, PeerAssumption DEF Untouched, SetUpDone
  <2> QED BY <1>1, <1>4, <1>5, <1>6, <2>1, <2>2, PeerAssumption
          DEF OneSession, OwnerTranscripts, Stage, Sockets, SetUpDone
<1>7. CASE ctrl_sck # NoPeer
  <2>1. UNCHANGED ctrl_sck /\ pc' = "deny" /\ ctrl_sck \in Peer
    BY <1>7 DEF Accept, TypeOK
  <2> QED BY <1>1, <1>2, <1>4, <1>5, <2>1, PeerAssumption
          DEF OneSession, Stage, Sockets, SetUpDone, Untouched
<1> QED BY <1>6, <1>7

\* The steps that neither accept, write nor close.
LEMMA SilentSession ==
  ASSUME SessionInv, Call \/ CallAgain \/ AcceptFails \/ GetParameters \/ Listen \/ OnConnect
  PROVE  OneSession' /\ Arrivals' /\ Stage' /\ Sockets' /\ SetUpDone'
<1> USE DEF SessionInv, peerVars
<1>1. UNCHANGED <<state, ctrl_sck, s, open, queue, conn, written>>
  BY DEF Call, CallAgain, EnterAccept, AcceptFails, GetParameters, Listen, OnConnect
<1>2. Arrivals' /\ OneSession'
  BY <1>1, ArrivalsUnchanged DEF OneSession
<1>3. \/ pc = "idle" /\ pc' = "accept"
      \/ pc = "accept" /\ pc' = "failed"
      \/ pc = "get_parameters" /\ pc' \in {"listen", "crashed", "failed"}
      \/ pc = "listen" /\ pc' \in {"create_streams", "server_error", "crashed"}
      \/ pc = "on_connect" /\ pc' = "idle"
  BY DEF Call, CallAgain, EnterAccept, AcceptFails, GetParameters, Listen, OnConnect
<1>4. ctrl_sck = NoPeer \/ ctrl_sck \in Peer
  BY DEF TypeOK
<1>5. Stage' /\ Sockets' /\ SetUpDone'
  BY <1>1, <1>3, <1>4, PeerAssumption
     DEF Stage, Sockets, SetUpDone, SocketsInUse
<1> QED BY <1>2, <1>5

\* The writes to the owner: each extends the conversation by its next message,
\* or writes nothing and ends the call or the process.
OwnerWrites == SendParamExchange \/ SendCreateStreams \/ SendServerError \/ SendErrno

LEMMA OwnerWriteEffect ==
  ASSUME SessionInv, OwnerWrites
  PROVE  /\ UNCHANGED <<ctrl_sck, s, open, queue, conn>>
         /\ ctrl_sck \in Peer
         /\ \A q \in Peer \ {ctrl_sck} : written'[q] = written[q]
         /\ \/ /\ pc \in {"param_exchange", "create_streams", "server_error",
                          "errno", "errno_again"}
               /\ pc' \in {"failed", "crashed"}
               /\ written'[ctrl_sck] = written[ctrl_sck]
            \/ /\ pc = "param_exchange" /\ pc' = "get_parameters"
               /\ written'[ctrl_sck] = <<"PARAM_EXCHANGE">>
            \/ /\ pc = "create_streams" /\ pc' = "on_connect"
               /\ written'[ctrl_sck] = <<"PARAM_EXCHANGE", "CREATE_STREAMS">>
            \/ /\ pc = "server_error" /\ pc' = "errno"
               /\ written'[ctrl_sck] = <<"PARAM_EXCHANGE", "SERVER_ERROR">>
            \/ /\ pc = "errno" /\ pc' = "errno_again"
               /\ written'[ctrl_sck] = <<"PARAM_EXCHANGE", "SERVER_ERROR", "errno">>
            \/ /\ pc = "errno_again" /\ pc' = "failed"
               /\ written'[ctrl_sck]
                    = <<"PARAM_EXCHANGE", "SERVER_ERROR", "errno", "errno">>
         /\ state' = "CREATE_STREAMS" =>
              (state = "CREATE_STREAMS" \/ pc = "create_streams")
<1> USE DEF SessionInv, peerVars, OwnerWrites
<1> DEFINE Sent(from, msg, next) ==
             /\ pc = from /\ msg \in Messages /\ next \in PcValues
             /\ Nwrite(ctrl_sck, msg, next)
<1>1. /\ UNCHANGED <<ctrl_sck, s, open, queue, conn>>
      /\ ctrl_sck \in Peer
      /\ pc \in {"param_exchange", "create_streams", "server_error", "errno",
                 "errno_again"}
  BY DEF SendParamExchange, SendCreateStreams, SendServerError, SendErrno,
         SocketsInUse
<1>2. \/ Sent("param_exchange", "PARAM_EXCHANGE", "get_parameters")
         /\ state' = "PARAM_EXCHANGE"
      \/ Sent("create_streams", "CREATE_STREAMS", "on_connect")
         /\ state' = "CREATE_STREAMS"
      \/ Sent("server_error", "SERVER_ERROR", "errno")
         /\ state' = "SERVER_ERROR"
      \/ Sent("errno", "errno", "errno_again") /\ UNCHANGED state
      \/ Sent("errno_again", "errno", "failed") /\ UNCHANGED state
  BY DEF SendParamExchange, SendCreateStreams, SendServerError, SendErrno,
         iperf_set_send_state, Messages, PcValues
<1>3. CASE Sent("param_exchange", "PARAM_EXCHANGE", "get_parameters")
           /\ state' = "PARAM_EXCHANGE"
  BY <1>1, <1>3, OwnerWrite DEF Stage
<1>4. CASE Sent("create_streams", "CREATE_STREAMS", "on_connect")
           /\ state' = "CREATE_STREAMS"
  BY <1>1, <1>4, OwnerWrite DEF Stage
<1>5. CASE Sent("server_error", "SERVER_ERROR", "errno")
           /\ state' = "SERVER_ERROR"
  BY <1>1, <1>5, OwnerWrite DEF Stage
<1>6. CASE Sent("errno", "errno", "errno_again") /\ UNCHANGED state
  <2>1. /\ pc = "errno" /\ state' = state
        /\ \A p \in Peer \ {ctrl_sck} : written'[p] = written[p]
        /\ \/ pc' = "errno_again" /\ written'[ctrl_sck] = Append(written[ctrl_sck], "errno")
           \/ pc' \in {"failed", "crashed"} /\ written'[ctrl_sck] = written[ctrl_sck]
    BY <1>1, <1>6, OwnerWrite
  <2> HIDE DEF Sent
  <2> QED BY <1>1, <2>1 DEF Stage
<1>7. CASE Sent("errno_again", "errno", "failed") /\ UNCHANGED state
  <2>1. /\ pc = "errno_again" /\ state' = state
        /\ \A p \in Peer \ {ctrl_sck} : written'[p] = written[p]
        /\ \/ pc' = "failed" /\ written'[ctrl_sck] = Append(written[ctrl_sck], "errno")
           \/ pc' \in {"failed", "crashed"} /\ written'[ctrl_sck] = written[ctrl_sck]
    BY <1>1, <1>7, OwnerWrite
  <2> HIDE DEF Sent
  <2> QED BY SMTT(20), <1>1, <2>1 DEF Stage
<1> QED BY <1>2, <1>3, <1>4, <1>5, <1>6, <1>7

LEMMA OwnerWriteSession ==
  ASSUME SessionInv, OwnerWrites
  PROVE  OneSession' /\ Arrivals' /\ Stage' /\ Sockets' /\ SetUpDone'
<1> USE DEF SessionInv
<1>1. Arrivals'
  BY OwnerWriteEffect, ArrivalsWrite
<1>2. OneSession'
  BY OwnerWriteEffect DEF OneSession, OwnerTranscripts
<1>3. Stage' /\ Sockets'
  BY OwnerWriteEffect, PeerAssumption DEF Stage, Sockets
<1>4. SetUpDone'
  <2>1. state' = "CREATE_STREAMS" => pc' \in {"on_connect", "failed", "crashed"}
    BY OwnerWriteEffect DEF SetUpDone
  <2> QED BY OwnerWriteEffect, <2>1 DEF SetUpDone
<1> QED BY <1>1, <1>2, <1>3, <1>4

\* The denial: one message to a peer that has been sent nothing.
LEMMA DenySession ==
  ASSUME SessionInv, Deny
  PROVE  OneSession' /\ Arrivals' /\ Stage' /\ Sockets' /\ SetUpDone'
<1> USE DEF SessionInv, peerVars
<1>1. /\ pc = "deny" /\ s \in Peer /\ ctrl_sck \in Peer /\ s # ctrl_sck
      /\ written[s] = <<>> /\ open = {ctrl_sck, s}
      /\ written[ctrl_sck] = <<"PARAM_EXCHANGE", "CREATE_STREAMS">>
      /\ UNCHANGED <<state, ctrl_sck, s, queue, conn>>
  BY DEF Deny, SocketsInUse, Sockets, Stage
<1>2. /\ \A q \in Peer \ {s} : written'[q] = written[q]
      /\ \/ pc' = "idle" /\ written'[s] = <<"ACCESS_DENIED">>
         \/ pc' \in {"failed", "crashed"} /\ written'[s] = <<>>
  BY <1>1 DEF Deny, Nwrite, NwriteOK, NwriteFails, TypeOK
<1>3. open' = IF pc' = "idle" THEN {ctrl_sck} ELSE open
  BY <1>1 DEF Deny
<1>4. Arrivals'
  BY <1>1, <1>2, <1>3, ArrivalsWrite
<1>5. OneSession'
  BY <1>1, <1>2 DEF OneSession
<1>6. Stage' /\ Sockets' /\ SetUpDone'
  BY <1>1, <1>2, <1>3, PeerAssumption DEF Stage, Sockets, SetUpDone
<1> QED BY <1>4, <1>5, <1>6

\* The session invariant is inductive.
LEMMA NextSession == SessionInv /\ [Next]_vars => SessionInv'
<1> SUFFICES ASSUME SessionInv, [Next]_vars PROVE SessionInv'
  OBVIOUS
<1>1. CASE PeerStep
  BY <1>1, PeerStepSession
<1>2. CASE Call \/ CallAgain \/ AcceptStep
  <2>1. TypeOK' /\ SocketsInUse'
    BY <1>2, ServerStepType DEF SessionInv
  <2>2. OneSession' /\ Arrivals' /\ Stage' /\ Sockets' /\ SetUpDone'
    BY <1>2, AcceptSession, SilentSession, OwnerWriteSession, DenySession
       DEF AcceptStep, ServerStep, OwnerWrites
  <2> QED BY <2>1, <2>2 DEF SessionInv
<1>3. CASE UNCHANGED vars
  BY <1>3 DEF vars, SessionInv, TypeOK, SocketsInUse, OneSession, Arrivals,
              Untouched, Stage, Sockets, SetUpDone
<1> QED BY <1>1, <1>2, <1>3 DEF Next

LEMMA SessionInvariant == Spec => []SessionInv
<1> QED BY InitSession, NextSession, PTL DEF Spec

\* Only the peer in ctrl_sck ever takes part in the exchange, it receives a
\* prefix of a legal conversation, and anyone else at most one ACCESS_DENIED,
\* however many peers there are and in whatever order they act.
THEOREM OneSessionHolds == Spec => []OneSession
<1>1. SessionInv => OneSession
  BY DEF SessionInv
<1> QED BY <1>1, SessionInvariant, PTL

\* Between calls the server holds the control socket and nothing else.
THEOREM SocketAccountingHolds == Spec => []SocketAccounting
<1>1. SessionInv => SocketAccounting
  BY DEF SessionInv, Sockets, SocketAccounting
<1> QED BY <1>1, SessionInvariant, PTL

\* Once a test is set up, no later client changes its state, control socket,
\* negotiated fields or data listener.
THEOREM OngoingTestSafe == Spec => OngoingTestUndisturbed
<1>1. SessionInv /\ [Next]_vars =>
        [state = "CREATE_STREAMS" =>
           UNCHANGED <<state, test, ctrl_sck, data_listener>>]_vars
  <2> SUFFICES ASSUME SessionInv, Next, state = "CREATE_STREAMS"
               PROVE  UNCHANGED <<state, test, ctrl_sck, data_listener>>
    OBVIOUS
  <2>1. /\ ctrl_sck # NoPeer
        /\ pc \in {"on_connect", "idle", "accept", "deny", "failed", "crashed"}
    BY PeerAssumption DEF SessionInv, SetUpDone
  <2>2. CASE PeerStep
    BY <2>2 DEF PeerStep, Connect, SendPart, SendRest, Disconnect
  <2>3. CASE Call \/ CallAgain \/ AcceptStep
    BY <2>1, <2>3 DEF Call, CallAgain, EnterAccept, AcceptStep, ServerStep, Accept, AcceptFails,
         SendParamExchange, GetParameters, Listen, SendCreateStreams,
         SendServerError, SendErrno, OnConnect, Deny
  <2> QED BY <2>2, <2>3 DEF Next
<1> QED BY <1>1, SessionInvariant, PTL DEF Spec, OngoingTestUndisturbed

-----------------------------------------------------------------------------
(* Refinement of ControlSession.                                              *)

\* What AnswerTo reads off each legal transcript.
LEMMA AnswerCases ==
  /\ AnswerTo(<<>>) = "none"
  /\ AnswerTo(<<"ACCESS_DENIED">>) = "denied"
  /\ AnswerTo(<<"PARAM_EXCHANGE">>) = "offered"
  /\ AnswerTo(<<"PARAM_EXCHANGE", "CREATE_STREAMS">>) = "created"
  /\ AnswerTo(<<"PARAM_EXCHANGE", "SERVER_ERROR">>) = "refused"
  /\ AnswerTo(<<"PARAM_EXCHANGE", "SERVER_ERROR", "errno">>) = "refused"
  /\ AnswerTo(<<"PARAM_EXCHANGE", "SERVER_ERROR", "errno", "errno">>) = "refused"
<1>1. AnswerTo(<<>>) = "none"
  BY DEF AnswerTo
<1>2. AnswerTo(<<"ACCESS_DENIED">>) = "denied"
  BY DEF AnswerTo
<1>3. AnswerTo(<<"PARAM_EXCHANGE">>) = "offered"
  BY DEF AnswerTo
<1>4. AnswerTo(<<"PARAM_EXCHANGE", "CREATE_STREAMS">>) = "created"
  BY DEF AnswerTo
<1>5. AnswerTo(<<"PARAM_EXCHANGE", "SERVER_ERROR">>) = "refused"
  BY DEF AnswerTo
<1>6. AnswerTo(<<"PARAM_EXCHANGE", "SERVER_ERROR", "errno">>) = "refused"
  BY DEF AnswerTo
<1>7. AnswerTo(<<"PARAM_EXCHANGE", "SERVER_ERROR", "errno", "errno">>) = "refused"
  BY DEF AnswerTo
<1> QED BY <1>1, <1>2, <1>3, <1>4, <1>5, <1>6, <1>7

\* Only Accept changes the control socket, from NoPeer to a peer.
LEMMA OwnerSteps ==
  ASSUME SessionInv, Next
  PROVE  \/ UNCHANGED ctrl_sck
         \/ ctrl_sck = NoPeer /\ ctrl_sck' \in Peer /\ UNCHANGED written
<1> USE DEF SessionInv, peerVars
<1>1. CASE PeerStep
  BY <1>1 DEF PeerStep, Connect, SendPart, SendRest, Disconnect
<1>2. CASE Accept
  BY <1>2 DEF Accept, TypeOK
<1>3. CASE Call \/ CallAgain \/ AcceptFails \/ SendParamExchange \/ GetParameters \/ Listen
           \/ SendCreateStreams \/ SendServerError \/ SendErrno \/ OnConnect \/ Deny
  BY <1>3 DEF Call, CallAgain, EnterAccept, AcceptFails, SendParamExchange, GetParameters, Listen,
              SendCreateStreams, SendServerError, SendErrno, OnConnect, Deny
<1> QED BY <1>1, <1>2, <1>3 DEF Next, AcceptStep, ServerStep

\* A step changes the answer to at most one peer: the owner's from nothing to
\* offered and from there to created or refused, and that of the peer in s from
\* nothing to denied, while the owner's is created.
Answered(p, from, to) ==
  /\ p \in Peer /\ AnswerTo(written[p]) = from /\ AnswerTo(written'[p]) = to
  /\ \A q \in Peer \ {p} : written'[q] = written[q]

LEMMA AnswerSteps ==
  ASSUME SessionInv, Next
  PROVE  \/ \A q \in Peer : AnswerTo(written'[q]) = AnswerTo(written[q])
         \/ Answered(ctrl_sck, "none", "offered")
         \/ Answered(ctrl_sck, "offered", "created")
         \/ Answered(ctrl_sck, "offered", "refused")
         \/ /\ Answered(s, "none", "denied") /\ ctrl_sck \in Peer \ {s}
            /\ AnswerTo(written[ctrl_sck]) = "created"
<1> USE DEF SessionInv, peerVars
<1>1. CASE PeerStep
  BY <1>1 DEF PeerStep, Connect, SendPart, SendRest, Disconnect
<1>2. CASE Call \/ CallAgain \/ Accept \/ AcceptFails \/ GetParameters \/ Listen \/ OnConnect
  BY <1>2 DEF Call, CallAgain, EnterAccept, Accept, AcceptFails, GetParameters, Listen, OnConnect
<1>3. CASE OwnerWrites
  <2>1. CASE pc' \in {"failed", "crashed"} /\ written'[ctrl_sck] = written[ctrl_sck]
    BY <1>3, <2>1, OwnerWriteEffect
  <2>2. CASE pc = "param_exchange" /\ written'[ctrl_sck] = <<"PARAM_EXCHANGE">>
    BY <1>3, <2>2, OwnerWriteEffect, AnswerCases DEF Stage, Answered
  <2>3. CASE /\ pc = "create_streams"
             /\ written'[ctrl_sck] = <<"PARAM_EXCHANGE", "CREATE_STREAMS">>
    BY <1>3, <2>3, OwnerWriteEffect, AnswerCases DEF Stage, Answered
  <2>4. CASE /\ pc = "server_error"
             /\ written'[ctrl_sck] = <<"PARAM_EXCHANGE", "SERVER_ERROR">>
    BY <1>3, <2>4, OwnerWriteEffect, AnswerCases DEF Stage, Answered
  <2>5. CASE /\ pc = "errno"
             /\ written'[ctrl_sck] = <<"PARAM_EXCHANGE", "SERVER_ERROR", "errno">>
    BY <1>3, <2>5, OwnerWriteEffect, AnswerCases DEF Stage
  <2>6. CASE /\ pc = "errno_again"
             /\ written'[ctrl_sck]
                  = <<"PARAM_EXCHANGE", "SERVER_ERROR", "errno", "errno">>
    BY <1>3, <2>6, OwnerWriteEffect, AnswerCases DEF Stage
  <2> QED BY <1>3, <2>1, <2>2, <2>3, <2>4, <2>5, <2>6, OwnerWriteEffect
<1>4. CASE Deny
  <2>1. /\ s \in Peer /\ ctrl_sck \in Peer /\ s # ctrl_sck /\ written[s] = <<>>
        /\ written[ctrl_sck] = <<"PARAM_EXCHANGE", "CREATE_STREAMS">>
    BY <1>4 DEF Deny, SocketsInUse, Sockets, Stage
  <2>2. /\ \A q \in Peer \ {s} : written'[q] = written[q]
        /\ written'[s] \in {<<"ACCESS_DENIED">>, written[s]}
    BY <1>4, <2>1 DEF Deny, Nwrite, NwriteOK, NwriteFails, TypeOK
  <2>3. CASE written'[s] = written[s]
    BY <2>2, <2>3
  <2>4. CASE written'[s] = <<"ACCESS_DENIED">>
    BY <2>1, <2>2, <2>4, AnswerCases DEF Answered
  <2> QED BY <2>2, <2>3, <2>4
<1> QED BY <1>1, <1>2, <1>3, <1>4 DEF Next, AcceptStep, ServerStep, OwnerWrites

\* iperf_accept implements ControlSession: one owner, offered and then served
\* or refused; the others denied, and only once the owner's exchange is over.
THEOREM RefinesControlSession == Spec => ImplementsControlSession
<1> DEFINE answer == [p \in Peer |-> AnswerTo(written[p])]
<1>1. Init => Session!Init
  BY AnswerCases DEF Init, Session!Init
<1>2. SessionInv /\ [Next]_vars => [Session!Next]_<<ctrl_sck, answer>>
  <2> SUFFICES ASSUME SessionInv, [Next]_vars
               PROVE  Session!Next \/ UNCHANGED <<ctrl_sck, answer>>
    OBVIOUS
  <2>1. CASE UNCHANGED vars
    BY <2>1 DEF vars
  <2>2. CASE Next /\ ctrl_sck' # ctrl_sck
    <3>1. ctrl_sck = NoPeer /\ ctrl_sck' \in Peer /\ UNCHANGED written
      BY <2>2, OwnerSteps
    <3>2. answer' = answer
      BY <3>1
    <3> QED BY <3>1, <3>2 DEF Session!Next, Session!Claim
  <2>3. CASE Next /\ UNCHANGED ctrl_sck
    <3>1. ASSUME NEW p, NEW from, NEW to, Answered(p, from, to)
          PROVE  Session!Reply(p, from, to) /\ p # NoPeer
      <4>1. answer' = [answer EXCEPT ![p] = to]
        BY <3>1 DEF Answered
      <4> QED BY <2>3, <3>1, <4>1, PeerAssumption DEF Session!Reply, Answered
    <3>2. CASE \A q \in Peer : AnswerTo(written'[q]) = AnswerTo(written[q])
      BY <2>3, <3>2
    <3>3. CASE Answered(ctrl_sck, "none", "offered")
      BY <3>1, <3>3 DEF Session!Next, Session!Offer
    <3>4. CASE Answered(ctrl_sck, "offered", "created")
      BY <3>1, <3>4 DEF Session!Next, Session!Create
    <3>5. CASE Answered(ctrl_sck, "offered", "refused")
      BY <3>1, <3>5 DEF Session!Next, Session!Refuse
    <3>6. CASE /\ Answered(s, "none", "denied") /\ ctrl_sck \in Peer \ {s}
               /\ AnswerTo(written[ctrl_sck]) = "created"
      BY <3>1, <3>6, PeerAssumption DEF Session!Next, Session!Deny, Answered
    <3> QED BY <2>3, <3>2, <3>3, <3>4, <3>5, <3>6, AnswerSteps
  <2> QED BY <2>1, <2>2, <2>3
<1> QED BY <1>1, <1>2, SessionInvariant, PTL
        DEF Spec, ImplementsControlSession, Session!Spec

-----------------------------------------------------------------------------
(* The negotiated test.                                                       *)

\* t is what get_parameters makes of the object m and a descriptor a server
\* starts with.
ReadFrom(t, m) == \E t0 \in ServerTests : t = get_parameters(t0, m)

\* Before the exchange the descriptor is an initial one; from the end of
\* get_parameters on it is what the owner's complete frame makes of that one.
Negotiated ==
  /\ (ctrl_sck = NoPeer /\ pc \in {"idle", "accept"})
       \/ pc \in {"param_exchange", "get_parameters"} => test \in ServerTests
  /\ \A p \in Peer : frame[p] = "full" => params[p] \in Params
  /\ ctrl_sck \in Peer =>
       LET created == \/ pc = "create_streams"
                      \/ written[ctrl_sck] = <<"PARAM_EXCHANGE", "CREATE_STREAMS">>
       IN  /\ pc = "listen" \/ created =>
                /\ frame[ctrl_sck] = "full"
                /\ ReadFrom(test, params[ctrl_sck])
           /\ created => data_listener /\ test.protocol # NULL

\* With the session invariant, Negotiated gives SessionAgreed.
LEMMA NegotiatedAgrees == SessionInv /\ Negotiated => SessionAgreed
<1> SUFFICES ASSUME SessionInv, Negotiated, NEW p \in Peer,
                    Len(written[p]) > 1, written[p][2] = "CREATE_STREAMS"
             PROVE  /\ frame[p] = "full" /\ "tcp" \in DOMAIN params[p]
                    /\ data_listener
                    /\ test.protocol = "tcp"
                    /\ test.reverse = ("reverse" \in DOMAIN params[p])
                    /\ test.sender = test.reverse
                    /\ test.sender_has_retransmits = test.sender
                    /\ "time" \in DOMAIN params[p] => test.duration = params[p]["time"]
  BY DEF SessionAgreed
<1>1. p = ctrl_sck /\ written[p] = <<"PARAM_EXCHANGE", "CREATE_STREAMS">>
  BY DEF SessionInv, OneSession, OwnerTranscripts
<1>2. /\ frame[p] = "full" /\ data_listener /\ test.protocol # NULL
      /\ ReadFrom(test, params[p])
      /\ IsParams(params[p])
  BY <1>1, ParamsAssumption DEF Negotiated
<1>3. PICK t0 \in ServerTests : test = get_parameters(t0, params[p])
  BY <1>2 DEF ReadFrom
<1> QED BY <1>2, <1>3, ParamsTime, ParametersAgree

LEMMA NegotiatedInductive ==
  ASSUME SessionInv, Negotiated, Next
  PROVE  Negotiated'
<1> USE DEF SessionInv, peerVars
<1>1. ctrl_sck = NoPeer \/ ctrl_sck \in Peer
  BY DEF TypeOK
<1>2. CASE PeerStep
  <2>1. UNCHANGED <<pc, test, ctrl_sck, data_listener, written>>
    BY <1>2 DEF PeerStep, Connect, SendPart, SendRest, Disconnect
  <2>2. \A q \in Peer : frame'[q] = "full" => params'[q] \in Params
    BY <1>2 DEF PeerStep, Connect, SendPart, SendRest, Disconnect, TypeOK, Negotiated
  <2>3. \A q \in Peer : frame[q] = "full" => frame'[q] = "full" /\ params'[q] = params[q]
    BY <1>2 DEF PeerStep, Connect, SendPart, SendRest, Disconnect, TypeOK
  <2> QED BY <2>1, <2>2, <2>3 DEF Negotiated
<1>3. CASE Accept
  <2>1. /\ UNCHANGED <<test, data_listener, frame, params, written>>
        /\ \/ ctrl_sck = NoPeer /\ pc' = "param_exchange" /\ written[ctrl_sck'] = <<>>
           \/ UNCHANGED ctrl_sck /\ ctrl_sck \in Peer /\ pc' = "deny"
        /\ pc = "accept"
    <3>1. Head(queue) = queue[1] /\ 1 \in 1..Len(queue)
      BY <1>3 DEF Accept, TypeOK
    <3>2. written[Head(queue)] = <<>>
      BY <3>1 DEF Arrivals, Untouched
    <3> QED BY <1>1, <1>3, <3>2 DEF Accept
  <2> QED BY <2>1, PeerAssumption DEF Negotiated
<1>4. CASE Call \/ CallAgain \/ AcceptFails \/ OnConnect
  BY <1>1, <1>4, PeerAssumption DEF Call, CallAgain, EnterAccept, AcceptFails, OnConnect, Negotiated, SocketsInUse
<1>5. CASE GetParameters
  <2>1. /\ pc = "get_parameters" /\ test \in ServerTests /\ ctrl_sck \in Peer
        /\ written[ctrl_sck] = <<"PARAM_EXCHANGE">>
        /\ UNCHANGED <<ctrl_sck, data_listener, frame, params, written>>
    BY <1>5 DEF GetParameters, Negotiated, SocketsInUse, Stage
  <2>2. \/ /\ pc' \in {"crashed", "listen"} /\ frame[ctrl_sck] = "full"
           /\ ReadFrom(test', params[ctrl_sck])
        \/ pc' = "failed"
    BY <1>5, <2>1 DEF GetParameters, ReadFrom
  <2> QED BY <2>1, <2>2, PeerAssumption DEF Negotiated
<1>6. CASE Listen
  <2>1. /\ pc = "listen" /\ ctrl_sck \in Peer
        /\ written[ctrl_sck] = <<"PARAM_EXCHANGE">>
        /\ UNCHANGED <<ctrl_sck, frame, params, written>>
    BY <1>6 DEF Listen, SocketsInUse, Stage
  <2>2. \/ /\ pc' = "create_streams" /\ test.protocol # NULL
           /\ data_listener' = TRUE /\ UNCHANGED test
        \/ pc' \in {"crashed", "server_error"}
    BY <1>6 DEF Listen
  <2> QED BY <2>1, <2>2, PeerAssumption DEF Negotiated
<1>7. CASE OwnerWrites
  <2>1. UNCHANGED <<test, data_listener, frame, params>>
    BY <1>7 DEF OwnerWrites, SendParamExchange, SendCreateStreams, SendServerError,
                SendErrno
  <2>2. \/ /\ written'[ctrl_sck] = <<"PARAM_EXCHANGE", "CREATE_STREAMS">>
           /\ pc = "create_streams" /\ pc' = "on_connect"
        \/ written'[ctrl_sck] # <<"PARAM_EXCHANGE", "CREATE_STREAMS">>
           /\ (pc' = "get_parameters" => pc = "param_exchange")
           /\ pc' \notin {"idle", "accept", "param_exchange", "listen", "create_streams"}
    BY <1>7, OwnerWriteEffect DEF Stage
  <2> QED BY <1>7, <2>1, <2>2, OwnerWriteEffect, PeerAssumption DEF Negotiated
<1>8. CASE Deny
  <2>1. /\ UNCHANGED <<test, ctrl_sck, data_listener, frame, params>>
        /\ pc = "deny" /\ pc' \in {"idle", "failed", "crashed"}
        /\ ctrl_sck \in Peer
        /\ written[ctrl_sck] = <<"PARAM_EXCHANGE", "CREATE_STREAMS">>
    BY <1>8 DEF Deny, Nwrite, SocketsInUse, Stage
  <2> QED BY <2>1, PeerAssumption DEF Negotiated
<1> QED BY <1>2, <1>3, <1>4, <1>5, <1>6, <1>7, <1>8
        DEF Next, AcceptStep, ServerStep, OwnerWrites

\* A client told to create its streams and the server's descriptor agree about
\* the test, for any set of parameters objects the clients may send.
THEOREM SessionAgreedHolds == Spec => []SessionAgreed
<1>1. Init => Negotiated
  BY PeerAssumption DEF Init, Negotiated
<1>2. SessionInv /\ Negotiated /\ [Next]_vars => Negotiated'
  <2>1. ASSUME SessionInv, Negotiated, UNCHANGED vars
        PROVE  Negotiated'
    BY <2>1 DEF vars, Negotiated
  <2> QED BY <2>1, NegotiatedInductive
<1> QED BY <1>1, <1>2, SessionInvariant, NegotiatedAgrees, PTL DEF Spec

-----------------------------------------------------------------------------
(* iperf_run_server. What is added to the session invariant relates the        *)
(* position of the loop to the position of the accept path. The loop makes one *)
(* call of iperf_accept, and to that call no client is a second one.           *)

\* The positions of the loop from which iperf_accept is still to be called.
Before == {"create_epoll", "server_listen", "create_timerfd", "loop"}

\* Until the call nothing is accepted; in the call nobody is denied, and it
\* returns 0 only with the test set up.
OneCall ==
  /\ lpc \in Before => pc = "idle" /\ ctrl_sck = NoPeer
  /\ lpc = "accept" =>
       /\ pc = "accept" => ctrl_sck = NoPeer
       /\ pc # "deny"
       /\ pc \in {"on_connect", "idle"} => state = "CREATE_STREAMS"
  /\ lpc = "epoll_wait" => pc = "idle" /\ state = "CREATE_STREAMS"

\* Which of the descriptors are there.
Descriptors ==
  /\ lpc = "create_timerfd" => listening
  /\ lpc \in {"loop", "accept", "epoll_wait"} => listening /\ timer
  /\ NoServiceWithoutSetUp

ServerInv == SessionInv /\ Negotiated /\ OneCall /\ Descriptors

\* The initial states of the server satisfy the invariant.
LEMMA ServerInitInv == ServerInit => ServerInv
<1> SUFFICES ASSUME ServerInit PROVE ServerInv
  OBVIOUS
<1>1. SessionInv
  BY InitSession DEF ServerInit
<1>2. Negotiated
  BY PeerAssumption DEF ServerInit, Init, Negotiated
<1>3. OneCall /\ Descriptors
  BY DEF ServerInit, Init, OneCall, Before, Descriptors, NoServiceWithoutSetUp
<1> QED BY <1>1, <1>2, <1>3 DEF ServerInv

\* Every step of the server is a step or a stutter of the accept path.
LEMMA StepOfAccept == ServerNext => [Next]_vars
<1> SUFFICES ASSUME ServerNext PROVE [Next]_vars
  OBVIOUS
<1>1. CASE ServerPeerStep
  BY <1>1 DEF ServerPeerStep, Next, PeerStep
<1>2. CASE SetUp
  BY <1>2 DEF SetUp, CreateEpoll, iperf_server_listen, CreateTimerfd
<1>3. CASE Loop
  BY <1>3 DEF Loop, Next
<1>4. CASE InAccept(AcceptStep)
  BY <1>4 DEF InAccept, Next
<1>5. CASE AcceptReturns \/ EpollWaitFails \/ Signal
  BY <1>5 DEF AcceptReturns, EpollWaitFails, Signal
<1> QED BY <1>1, <1>2, <1>3, <1>4, <1>5 DEF ServerNext

\* The two invariants of the accept path are kept by every step of it.
LEMMA AcceptKept ==
  ASSUME SessionInv, Negotiated, [Next]_vars
  PROVE  SessionInv' /\ Negotiated'
<1>1. CASE Next
  BY <1>1, NextSession, NegotiatedInductive
<1>2. CASE UNCHANGED vars
  <2>1. Negotiated'
    BY <1>2 DEF vars, Negotiated
  <2> QED BY <1>2, <2>1, NextSession
<1> QED BY <1>1, <1>2

\* The steps inside iperf_accept: what they do to the position of the thread.
LEMMA InAcceptKeeps ==
  ASSUME ServerInv, InAccept(AcceptStep)
  PROVE  OneCall' /\ Descriptors'
<1> USE DEF ServerInv
<1>1. /\ lpc = "accept" /\ lpc' = "accept"
      /\ listening' = listening /\ timer' = timer /\ rc' = rc /\ AcceptStep
  BY DEF InAccept, setupVars
<1>2. Descriptors'
  BY <1>1 DEF Descriptors, NoServiceWithoutSetUp
<1>3. CASE Accept
  BY <1>1, <1>2, <1>3 DEF Accept, OneCall, Before
<1>4. CASE AcceptFails
  BY <1>1, <1>2, <1>4 DEF AcceptFails, OneCall, Before
<1>5. CASE SendParamExchange \/ SendServerError \/ SendErrno
  <2>1. pc' \in {"get_parameters", "errno", "errno_again", "failed", "crashed"}
    BY <1>5 DEF SendParamExchange, SendServerError, SendErrno, iperf_set_send_state, Nwrite
  <2> QED BY <1>1, <1>2, <2>1 DEF OneCall, Before
<1>6. CASE SendCreateStreams
  <2>1. pc' \in {"on_connect", "failed", "crashed"} /\ state' = "CREATE_STREAMS"
    BY <1>6 DEF SendCreateStreams, iperf_set_send_state, Nwrite
  <2> QED BY <1>1, <1>2, <2>1 DEF OneCall, Before
<1>7. CASE GetParameters \/ Listen
  <2>1. pc' \in {"listen", "create_streams", "server_error", "failed", "crashed"}
    BY <1>7 DEF GetParameters, Listen
  <2> QED BY <1>1, <1>2, <2>1 DEF OneCall, Before
<1>8. CASE OnConnect
  BY <1>1, <1>2, <1>8 DEF OnConnect, OneCall, Before
<1>9. CASE Deny
  BY <1>1, <1>2, <1>9 DEF Deny, OneCall
<1> QED BY <1>1, <1>2, <1>2, <1>3, <1>4, <1>5, <1>6, <1>7, <1>8, <1>9 DEF AcceptStep, ServerStep

\* The clients change neither position.
LEMMA PeersKeep ==
  ASSUME ServerInv, ServerPeerStep
  PROVE  OneCall' /\ Descriptors'
<1>1. UNCHANGED <<pc, ctrl_sck, open, state, lpc, rc, setupVars>>
  BY DEF ServerPeerStep, Connect, SendPart, SendRest, Disconnect
<1> QED BY <1>1 DEF ServerInv, OneCall, Descriptors, NoServiceWithoutSetUp, setupVars

\* The steps of iperf_run_server itself.
LEMMA LoopKeeps ==
  ASSUME ServerInv, SetUp \/ Loop \/ AcceptReturns \/ EpollWaitFails \/ Signal
  PROVE  OneCall' /\ Descriptors'
<1> USE DEF ServerInv, setupVars, GoTo, Return, OneCall, Before, Descriptors,
            NoServiceWithoutSetUp
<1>1. ctrl_sck = NoPeer => pc \in {"deny", "failed", "crashed"} \/ open = {}
  BY DEF SessionInv, Sockets
<1>2. state = "CREATE_STREAMS" => ctrl_sck # NoPeer
  BY PeerAssumption DEF SessionInv, SetUpDone
<1>3. CASE CreateEpoll
  BY <1>1, <1>3 DEF CreateEpoll, vars
<1>4. CASE iperf_server_listen
  <2>1. \/ listening' /\ lpc' = "create_timerfd"
        \/ lpc' = "returned"
    <3>1. PICK ret \in {0, -1} : /\ listening' = (ret = 0)
                                 /\ IF ret < 0 THEN Return(-2) ELSE GoTo("create_timerfd")
      BY <1>4 DEF iperf_server_listen
    <3>2. CASE ret = 0
      <4>1. listening'
        BY <3>1, <3>2, Zenon
      <4>2. lpc' = "create_timerfd"
        BY <3>1, <3>2
      <4> QED BY <4>1, <4>2
    <3>3. CASE ret = -1
      BY <3>1, <3>3
    <3> QED BY <3>2, <3>3
  <2>2. open = {} /\ pc = "idle" /\ ctrl_sck = NoPeer
    BY <1>1, <1>4 DEF iperf_server_listen
  <2>3. UNCHANGED vars
    BY <1>4 DEF iperf_server_listen
  <2> QED BY <2>1, <2>2, <2>3 DEF vars
<1>5. CASE CreateTimerfd
  <2>1. /\ listening' /\ open = {} /\ pc = "idle" /\ ctrl_sck = NoPeer
        /\ UNCHANGED vars
    BY <1>1, <1>5 DEF CreateTimerfd
  <2>2. \/ timer' /\ lpc' = "loop"
        \/ lpc' = "returned"
    <3>1. PICK ret \in {0, -1} : /\ timer' = (ret = 0)
                                 /\ IF ret < 0 THEN Return(-2) ELSE GoTo("loop")
      BY <1>5 DEF CreateTimerfd
    <3>2. CASE ret = 0
      <4>1. timer'
        BY <3>1, <3>2, Zenon
      <4>2. lpc' = "loop"
        BY <3>1, <3>2
      <4> QED BY <4>1, <4>2
    <3>3. CASE ret = -1
      BY <3>1, <3>3
    <3> QED BY <3>2, <3>3
  <2> QED BY <2>1, <2>2 DEF vars
<1>6. CASE Loop
  BY <1>2, <1>6 DEF Loop, Call, EnterAccept
<1>7. CASE AcceptReturns
  BY <1>7 DEF AcceptReturns, vars
<1>8. CASE EpollWaitFails
  BY <1>8 DEF EpollWaitFails, vars
<1>9. CASE Signal
  BY <1>9 DEF Signal, vars
<1> QED BY <1>3, <1>4, <1>5, <1>6, <1>7, <1>8, <1>9 DEF SetUp

\* The invariant is inductive.
LEMMA ServerNextInv == ServerInv /\ [ServerNext]_serverVars => ServerInv'
<1> SUFFICES ASSUME ServerInv, [ServerNext]_serverVars PROVE ServerInv'
  OBVIOUS
<1>1. CASE ServerNext
  <2>1. SessionInv' /\ Negotiated'
    BY <1>1, StepOfAccept, AcceptKept DEF ServerInv
  <2>2. OneCall' /\ Descriptors'
    BY <1>1, PeersKeep, LoopKeeps, InAcceptKeeps DEF ServerNext
  <2> QED BY <2>1, <2>2 DEF ServerInv
<1>2. CASE UNCHANGED serverVars
  <2>1. SessionInv' /\ Negotiated'
    BY <1>2, AcceptKept DEF ServerInv, serverVars
  <2>2. OneCall' /\ Descriptors'
    BY <1>2 DEF ServerInv, serverVars, vars, setupVars, OneCall, Descriptors,
                NoServiceWithoutSetUp
  <2> QED BY <2>1, <2>2 DEF ServerInv
<1> QED BY <1>1, <1>2

LEMMA ServerInvariance == ServerOnlySpec => []ServerInv
<1> QED BY ServerInitInv, ServerNextInv, PTL DEF ServerOnlySpec

\* However the clients and the system calls behave, the loop of
\* iperf_run_server reaches epoll_wait only with a session complete on both
\* sides, and holds no other client's socket then.
THEOREM WaitsWithSessionHolds == ServerOnlySpec => []WaitsWithSession
<1>1. ServerInv => WaitsWithSession
  <2> SUFFICES ASSUME ServerInv, lpc = "epoll_wait"
               PROVE  /\ state = "CREATE_STREAMS" /\ data_listener
                      /\ open = {ctrl_sck}
                      /\ written[ctrl_sck] = <<"PARAM_EXCHANGE", "CREATE_STREAMS">>
    BY DEF WaitsWithSession
  <2>1. pc = "idle" /\ state = "CREATE_STREAMS"
    BY DEF ServerInv, OneCall
  <2>2. ctrl_sck \in Peer
    BY <2>1 DEF ServerInv, SessionInv, SetUpDone
  <2>3. written[ctrl_sck] = <<"PARAM_EXCHANGE", "CREATE_STREAMS">>
    BY <2>1, <2>2 DEF ServerInv, SessionInv, Stage
  <2>4. open = {ctrl_sck}
    BY <2>1, <2>2, PeerAssumption DEF ServerInv, SessionInv, Sockets
  <2>5. data_listener
    BY <2>2, <2>3 DEF ServerInv, Negotiated
  <2> QED BY <2>1, <2>3, <2>4, <2>5
<1> QED BY <1>1, ServerInvariance, PTL

\* No client is accepted before the listener and the timer are there, and a
\* set-up that fails leaves no socket behind.
THEOREM NoServiceWithoutSetUpHolds == ServerOnlySpec => []NoServiceWithoutSetUp
<1>1. ServerInv => NoServiceWithoutSetUp
  BY DEF ServerInv, Descriptors
<1> QED BY <1>1, ServerInvariance, PTL

=============================================================================
