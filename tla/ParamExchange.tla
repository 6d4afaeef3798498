---------------------------- MODULE ParamExchange ----------------------------
(* The parameter exchange as the two ends see it: send_parameters and         *)
(* JSON_write at the client, JSON_read and get_parameters at the server, over *)
(* a TCP connection that delivers the bytes in pieces and may end anywhere    *)
(* (iperf_api.c:653-868, Nread and Nwrite of net.c).                          *)
(*                                                                            *)
(* A frame is a length word of WordSize bytes and a text of that length. What *)
(* the bytes are does not matter, only how many have been sent and read, and  *)
(* whether the text read is the text sent. The sockets block and every signal *)
(* handler of the program exits, so neither call returns early with EINTR or  *)
(* EAGAIN: Nread falls short only at end of file.                             *)
EXTENDS IperfTest, FiniteSets

CONSTANTS
  WordSize,     \* bytes in the length word
  MaxText,      \* the longest text considered
  DoubleBits,   \* bits in the significand of a double, 53
  ValueBits,    \* bits in a cJSON valueint, an int64_t, beside its sign: 63
  Clients       \* the descriptors and settings a client may have

ASSUME SizesAssumption == WordSize \in Nat \ {0} /\ MaxText \in Nat \ {0}
ASSUME BitsAssumption == /\ DoubleBits \in Nat \ {0} /\ ValueBits \in Nat
                         /\ DoubleBits < ValueBits

\* Settings that get_parameters stores as numbers, and those whose presence
\* alone counts, beside the ones of IperfTest.
NumberKeys == {"server_affinity", "num", "blockcount", "MSS", "parallel", "window",
               "len", "bandwidth", "fqrate", "pacing_timer", "burst", "TOS"}
FlagKeys == {"nodelay", "get_server_output", "udp_counters_64bit"}
SettingKeys == NumberKeys \cup FlagKeys

DefaultSettings ==
  [k \in SettingKeys |->
     CASE k = "server_affinity" -> -1
       [] k = "parallel"        -> 1
       [] k = "len"             -> 131072
       [] k = "pacing_timer"    -> 1000
       [] OTHER                 -> 0]

VARIABLES
  client,     \* [test, settings] of the client
  server,     \* [test, settings] of the server
  wpc,        \* where send_parameters is
  text,       \* length of the text, once it has been printed
  sent,       \* bytes of the frame written to the connection
  closed,     \* the client's end has gone
  rpc,        \* where JSON_read is
  pos,        \* bytes read from the connection
  left,       \* nleft of the Nread in progress
  hsize,      \* the length as the server reads it
  result      \* what JSON_read returned: "none" yet, "NULL" or "object"

writerVars == <<wpc, text, sent>>
readerVars == <<rpc, pos, left, hsize, result, server>>
vars == <<client, closed, writerVars, readerVars>>

-----------------------------------------------------------------------------
\* send_parameters leaves out settings that are zero, except the number of
\* streams, and an affinity of -1.
IsSent(settings, k) ==
  CASE k = "server_affinity" -> settings[k] # -1
    [] k = "parallel"        -> TRUE
    [] OTHER                 -> settings[k] # 0

\* A number travels as a double, printed with enough digits to recover it: an
\* integer of more than DoubleBits bits is rounded to the nearest, ties to even.
ToDouble(n) ==
  LET k    == CHOOSE i \in 0..(ValueBits + 1) :
                /\ n < 2^(DoubleBits + i)
                /\ i = 0 \/ n >= 2^(DoubleBits + i - 1)
      q    == n \div 2^k
      rest == 2 * (n % 2^k)
  IN  2^k * (IF rest > 2^k \/ (rest = 2^k /\ q % 2 = 1) THEN q + 1 ELSE q)

\* What the reader finds in valueint, which saturates.
LLONG_MAX == 2^ValueBits - 1
valueint(n) == IF ToDouble(n) >= LLONG_MAX THEN LLONG_MAX ELSE ToDouble(n)

\* Faulty variant: the direction is not sent.
SendWithoutReverse(c) ==
  [k \in {c.test.protocol} \cup {x \in SettingKeys : IsSent(c.settings, x)} |->
     IF k \in SettingKeys THEN valueint(c.settings[k]) ELSE 1]

send_parameters(c) ==
  LET t == c.test
      testKeys == (IF t.protocol = NULL THEN {} ELSE {t.protocol})
                    \cup (IF t.reverse THEN {"reverse"} ELSE {})
                    \cup (IF t.duration # 0 THEN {"time"} ELSE {})
  IN  [k \in testKeys \cup {x \in SettingKeys : IsSent(c.settings, x)} |->
         CASE k = "time"        -> valueint(t.duration)
           [] k \in SettingKeys -> valueint(c.settings[k])
           [] OTHER             -> 1]

\* Faulty variant: a setting the client did not send is taken to be zero.
StoreAbsentAsZero(settings, m) ==
  [k \in SettingKeys |->
     IF k \notin DOMAIN m THEN 0 ELSE IF k \in FlagKeys THEN 1 ELSE m[k]]

store_settings(settings, m) ==
  [k \in SettingKeys |->
     IF k \notin DOMAIN m THEN settings[k] ELSE IF k \in FlagKeys THEN 1 ELSE m[k]]

\* The values of a setting: an int, or an unsigned integer of 64 bits.
SettingValues == -(2^DoubleBits)..(2^(ValueBits + 1) - 1)

\* A client gets its descriptor from iperf_set_test_role, set_protocol and
\* iperf_set_test_reverse.
ASSUME ClientsAssumption == \A c \in Clients :
  /\ c.test \in Tests /\ c.test.protocol \in Registered
  /\ c.test.sender = ~c.test.reverse /\ c.test.sender_has_retransmits = c.test.sender
  /\ c.test.duration \in SettingValues
  /\ \A k \in SettingKeys : c.settings[k] \in SettingValues

\* The server's iperf_defaults has found the memory to list TCP; what becomes of
\* an exchange if it has not is in IperfAccept.
Init ==
  /\ client \in Clients
  /\ server = [test |-> iperf_set_test_role(iperf_defaults, "s"),
               settings |-> DefaultSettings]
  /\ wpc = "print" /\ text = 0 /\ sent = 0 /\ closed = FALSE
  /\ rpc = "word" /\ pos = 0 /\ left = WordSize /\ hsize = 0 /\ result = "none"

-----------------------------------------------------------------------------
(* The client.                                                               *)

\* cJSON_PrintUnformatted, which returns NULL when it finds no memory.
PrintText ==
  /\ wpc = "print" /\ ~closed
  /\ \/ wpc' = "word" /\ text' \in 1..MaxText
     \/ wpc' = "failed" /\ UNCHANGED text
  /\ UNCHANGED <<client, closed, sent, readerVars>>

WriteWord ==
  /\ wpc = "word" /\ ~closed
  /\ sent' = WordSize
  /\ wpc' = "text"
  /\ UNCHANGED <<client, closed, text, readerVars>>

WriteText ==
  /\ wpc = "text" /\ ~closed
  /\ sent' = WordSize + text
  /\ wpc' = "done"
  /\ UNCHANGED <<client, closed, text, readerVars>>

\* The connection ends at any moment; what was written and not yet read may be
\* lost from some byte on.
Close ==
  /\ ~closed
  /\ closed' = TRUE
  /\ sent' \in pos..sent
  /\ UNCHANGED <<client, wpc, text, readerVars>>

-----------------------------------------------------------------------------
(* The server.                                                               *)

\* Faulty variant: read() is given the whole count instead of what is left.
ReadWholeCount ==
  /\ rpc \in {"word", "text"} /\ left > 0
  /\ \E k \in 1..(IF rpc = "word" THEN WordSize ELSE hsize) :
       /\ pos + k <= sent
       /\ pos' = pos + k /\ left' = left - k
  /\ UNCHANGED <<client, closed, writerVars, rpc, hsize, result, server>>

\* One turn of the loop of Nread: read() returns some of the bytes there are.
ReadSome ==
  /\ rpc \in {"word", "text"} /\ left > 0
  /\ \E k \in 1..left :
       /\ pos + k <= sent
       /\ pos' = pos + k /\ left' = left - k
  /\ UNCHANGED <<client, closed, writerVars, rpc, hsize, result, server>>

\* The loop is over: everything asked for is there, or the connection has
\* ended and nothing is left to read.
NreadOver == left = 0 \/ (closed /\ pos = sent)

ReturnNULL == result' = "NULL" /\ rpc' = "returned"

\* A connection that was reset makes Nread return NET_HARDERROR instead.
ReadFails ==
  /\ rpc \in {"word", "text"} /\ left > 0 /\ closed
  /\ ReturnNULL
  /\ UNCHANGED <<client, closed, writerVars, pos, left, hsize, server>>

\* Any result that is not negative is taken for a length word: one cut short
\* leaves nsize, and so hsize, with what was there before.
TakeWord ==
  /\ rpc = "word" /\ NreadOver
  /\ hsize' \in IF left = 0 THEN {text} ELSE 0..(MaxText + 1)
  /\ rpc' = "calloc"
  /\ UNCHANGED <<client, closed, writerVars, pos, left, result, server>>

Calloc ==
  /\ rpc = "calloc"
  /\ \/ rpc' = "text" /\ left' = hsize /\ UNCHANGED result
     \/ ReturnNULL /\ UNCHANGED left
  /\ UNCHANGED <<client, closed, writerVars, pos, hsize, server>>

\* rc == hsize, and then cJSON_Parse of the buffer, which may accept any text
\* but the empty one.
Parse(complete) ==
  \/ /\ complete /\ hsize > 0
     /\ result' = "object" /\ rpc' = "returned"
     /\ LET m == send_parameters(client)
        IN  server' = [test |-> get_parameters(server.test, m),
                       settings |-> store_settings(server.settings, m)]
  \/ ReturnNULL /\ UNCHANGED server

\* Faulty variants: the length that was read is not compared with the length
\* that was offered; a frame that has come is not taken before the end of file.
TakeTextUnchecked ==
  /\ rpc = "text" /\ NreadOver
  /\ result' = "object" /\ rpc' = "returned"
  /\ UNCHANGED <<client, closed, writerVars, pos, left, hsize, server>>

TakeTextAtEOF ==
  /\ rpc = "text" /\ closed /\ pos = sent
  /\ Parse(left = 0)
  /\ UNCHANGED <<client, closed, writerVars, pos, left, hsize>>

TakeText ==
  /\ rpc = "text" /\ NreadOver
  /\ Parse(left = 0)
  /\ UNCHANGED <<client, closed, writerVars, pos, left, hsize>>

Write == PrintText \/ WriteWord \/ WriteText
Read == ReadSome \/ TakeWord \/ Calloc \/ TakeText

Next == Write \/ Close \/ Read \/ ReadFails

Spec == Init /\ [][Next]_vars

\* JSON_read runs while it has bytes or an end of file to act on. The client's
\* writes are not fair: it may stall, which blocks the reader for good.
FairSpec == Spec /\ WF_vars(Read)

-----------------------------------------------------------------------------
(* Properties.                                                               *)

\* The counters stay within the frame, and Nread within what it was asked for.
TypeOK ==
  /\ wpc \in {"print", "word", "text", "done", "failed"}
  /\ rpc \in {"word", "calloc", "text", "returned"}
  /\ result \in {"none", "NULL", "object"}
  /\ closed \in BOOLEAN
  /\ text \in 0..MaxText /\ hsize \in 0..(MaxText + 1)
  /\ pos \in Nat /\ sent \in Nat /\ left \in Nat
  /\ pos <= sent /\ sent <= WordSize + text

\* JSON_read returns an object only if the client wrote its whole frame and the
\* reader consumed exactly that frame, wherever the bytes were split and
\* wherever the connection ended, an unfinished length word included.
FrameOrNothing ==
  result = "object" => /\ wpc = "done" /\ sent = WordSize + text
                       /\ pos = sent /\ hsize = text

\* A number n arrives as v: unchanged if a double holds it, with an error below
\* the precision of a double up to the largest valueint, and as that beyond.
Arrives(n, v) ==
  CASE n <= 2^DoubleBits -> v = n
    [] n > LLONG_MAX     -> v = LLONG_MAX
    [] OTHER             -> (IF v > n THEN v - n ELSE n - v) * 2^DoubleBits <= n

\* Settings of which a zero is not sent while the default is another number.
ZeroIsDefault == {"len", "pacing_timer"}

\* After an exchange that succeeded, every setting of the server is the
\* client's, 64-bit ones to the precision of a double and flags as 1; a zero that
\* is not sent included, because the server starts from the defaults that the
\* client compares with. The exceptions are the block size, the pacing timer and
\* the duration: a zero of these is the server's default.
SettingsArrive ==
  result = "object" =>
    /\ \A k \in SettingKeys :
         LET n == client.settings[k]
         IN  IF n = 0 /\ k \in ZeroIsDefault
             THEN server.settings[k] = DefaultSettings[k]
             ELSE Arrives(IF n # 0 /\ k \in FlagKeys THEN 1 ELSE n, server.settings[k])
    /\ IF client.test.duration = 0
       THEN server.test.duration = DefaultDuration
       ELSE Arrives(client.test.duration, server.test.duration)

\* The two ends agree on the protocol and the reversal and take opposite roles:
\* exactly one of them sends (iperf.h:100, "client & !reverse or server &
\* reverse"), and that one counts retransmits.
OppositeRoles ==
  result = "object" =>
    /\ server.test.protocol = client.test.protocol
    /\ server.test.reverse = client.test.reverse
    /\ server.test.sender = ~client.test.sender
    /\ \A t \in {client.test, server.test} : t.sender_has_retransmits = t.sender

\* A frame that was written whole, or a connection that ended, always lets
\* JSON_read return; nothing more has to arrive.
ReaderReturns == (wpc = "done" \/ closed) ~> result # "none"

=============================================================================
