------------------------------ MODULE IperfMain ------------------------------
(* main.c: create the descriptor, set the defaults, parse the command line    *)
(* option by option, and run as server or client. Neither the result of       *)
(* iperf_defaults nor that of iperf_parse_arguments is looked at (lines 160   *)
(* and 161). The command line is arbitrary: each turn of the getopt loop      *)
(* takes any option. Options whose case only assigns fields that nothing here *)
(* reads (-p -V -b --cport), and those with no case, are one step.            *)
EXTENDS IperfTest

CONSTANT MaxArgs    \* the longest command line considered

ASSUME MaxArgsAssumption == MaxArgs \in Nat

VARIABLES
  pc,        \* where main is
  test,      \* the descriptor
  mss,       \* test->settings->mss, against MAX_MSS
  format,    \* test->settings->unit_format
  hostname,  \* test->server_hostname is set
  parse_rc,  \* the result of iperf_parse_arguments
  args       \* options taken so far

vars == <<pc, test, mss, format, hostname, parse_rc, args>>

Init ==
  /\ pc = "new_test"
  /\ test = UnsetTest(0, {})
  /\ mss = "unset" /\ format = "default"
  /\ hostname = FALSE
  /\ parse_rc = 0
  /\ args = 0

-----------------------------------------------------------------------------
iperf_new_test ==
  /\ pc = "new_test"
  /\ pc' \in {"defaults", "exit"}
  /\ UNCHANGED <<test, mss, format, hostname, parse_rc, args>>

\* protocol_new may find no memory; main goes on in either case.
Defaults ==
  /\ pc = "defaults"
  /\ test' \in NewTests
  /\ pc' = "parse"
  /\ UNCHANGED <<mss, format, hostname, parse_rc, args>>

\* One turn of the loop takes an option.
NextOption == pc = "parse" /\ args < MaxArgs /\ args' = args + 1

Reject == parse_rc' = -1 /\ pc' = "run"
Accepted == UNCHANGED <<parse_rc, pc>>

\* iperf_set_test_role, and the crash if it meets a NULL protocol.
SetRole(role) ==
  /\ test' = iperf_set_test_role(test, role)
  /\ pc' = IF test'.fault THEN "crashed" ELSE "parse"
  /\ UNCHANGED parse_rc

\* Faulty variants: the second role is taken; -u stores the id it is given.
SetRoleUnchecked(role, other) == SetRole(role)

OptUdpUnchecked ==
  /\ NextOption
  /\ test' = [test EXCEPT !.protocol = "udp"]
  /\ Accepted
  /\ UNCHANGED <<mss, format, hostname>>

\* A role is refused after the other one.
TakeRole(role, other) ==
  IF test.role = other THEN Reject /\ UNCHANGED test ELSE SetRole(role)

OptServer ==
  /\ NextOption
  /\ TakeRole("s", "c")
  /\ UNCHANGED <<mss, format, hostname>>

OptClient ==
  /\ NextOption
  /\ TakeRole("c", "s")
  /\ hostname' = (hostname \/ pc' = "parse")
  /\ UNCHANGED <<mss, format>>

\* UDP is not in the list of protocols, and the refusal is not looked at.
OptUdp ==
  /\ NextOption
  /\ test' = set_protocol(test, "udp")
  /\ Accepted
  /\ UNCHANGED <<mss, format, hostname>>

OptTime ==
  /\ NextOption
  /\ \E d \in {0, 5} : test' = [test EXCEPT !.duration = d]
  /\ Accepted
  /\ UNCHANGED <<mss, format, hostname>>

\* The field is assigned before it is compared with MAX_MSS.
OptMss ==
  /\ NextOption
  /\ mss' \in {"allowed", "too_large"}
  /\ IF mss' = "too_large" THEN Reject ELSE Accepted
  /\ UNCHANGED <<test, format, hostname>>

OptFormat ==
  /\ NextOption
  /\ format' \in {"known", "unknown"}
  /\ IF format' = "unknown" THEN Reject ELSE Accepted
  /\ UNCHANGED <<test, mss, hostname>>

OptOther ==
  /\ NextOption
  /\ Accepted
  /\ UNCHANGED <<test, mss, format, hostname>>

\* The end of the command line: a role must have been given.
EndOfOptions ==
  /\ pc = "parse"
  /\ pc' = "run"
  /\ parse_rc' = IF test.role \in {"c", "s"} THEN 0 ELSE -1
  /\ UNCHANGED <<test, mss, format, hostname, args>>

\* run(): the role alone decides; without one main returns.
Run ==
  /\ pc = "run"
  /\ pc' = CASE test.role = "s" -> "server"
             [] test.role = "c" -> "client"
             [] OTHER           -> "exit"
  /\ UNCHANGED <<test, mss, format, hostname, parse_rc, args>>

Next ==
  \/ iperf_new_test \/ Defaults \/ OptServer \/ OptClient \/ OptUdp \/ OptTime
  \/ OptMss \/ OptFormat \/ OptOther \/ EndOfOptions \/ Run

Spec == Init /\ [][Next]_vars

-----------------------------------------------------------------------------
(* Properties.                                                               *)

\* A process never changes sides: once a role is set no later option sets the
\* other one, whatever else the command line holds (main.c:71-85).
RoleExclusive == [][test.role # "unset" => test'.role = test.role]_vars

\* Whatever the command line, a server starts with one of the descriptors that
\* the accept path is modelled from: not sending, not reversed, no statistics, no
\* protocol until a client's parameters name one. That is all it promises: with a
\* duration that -t may have changed, and with TCP listed or, if iperf_defaults
\* failed, with no protocol that a client could name.
HandsOverServerTest ==
  pc = "server" => [test EXCEPT !.duration = DefaultDuration] \in ServerTests

\* -c runs in client mode (iperf_locale.c:31): no command line makes main crash
\* before run() is reached.
ClientModeStarts == pc # "crashed"

=============================================================================
