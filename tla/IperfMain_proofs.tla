--------------------------- MODULE IperfMain_proofs ---------------------------
(* The safety of main and the option loop, for command lines of any length.    *)
EXTENDS IperfMain, IperfTest_proofs

\* As iperf_set_test_role(_, "s") leaves a descriptor, and as it is before a
\* role is set. No option selects a protocol: -u asks for one not listed.
Fresh(t) ==
  /\ t.sender = FALSE /\ t.reverse = FALSE /\ t.sender_has_retransmits = FALSE
  /\ t.protocol = NULL /\ t.fault = FALSE

\* What the options make of the descriptor, unless the role is the client's.
Inv ==
  /\ test \in Tests
  /\ test.role # "c" => Fresh(test)
  /\ pc = "server" => test.role = "s"
  /\ pc \in {"new_test", "defaults"} => test.role = "unset"

\* A descriptor that has not been touched by a client's role stays so when the
\* server's role is set.
LEMMA ServerRole ==
  ASSUME NEW t \in Tests, Fresh(t), NEW r, r = iperf_set_test_role(t, "s")
  PROVE  /\ r \in Tests /\ r.role = "s" /\ Fresh(r)
         /\ r.duration = t.duration /\ r.protocols = t.protocols
<1> DEFINE u == [t EXCEPT !.role = "s",
                          !.sender = ((IF "s" = "c" THEN TRUE ELSE FALSE) # t.reverse)]
<1>1. r = check_sender_has_retransmits(u)
  BY DEF iperf_set_test_role
<1>2. u \in Tests
  BY DEF Tests, Roles
<1>3. /\ u.role = "s" /\ u.sender = FALSE /\ u.reverse = FALSE /\ u.protocol = NULL
      /\ u.fault = FALSE /\ u.duration = t.duration /\ u.protocols = t.protocols
  BY DEF Fresh, Tests
<1>4. ReadsNull(u) = FALSE
  BY <1>3 DEF ReadsNull
<1> HIDE DEF u
<1>5. /\ r.role = u.role /\ r.sender = u.sender /\ r.reverse = u.reverse
      /\ r.fault = (u.fault \/ ReadsNull(u)) /\ r.protocol = u.protocol
      /\ r.duration = u.duration /\ r.protocols = u.protocols
      /\ r.sender_has_retransmits = (u.sender /\ u.protocol = "tcp")
  BY <1>1, <1>2, CheckEffect
<1>6. r \in Tests
  BY <1>1, <1>2, CheckType
<1> QED BY <1>3, <1>4, <1>5, <1>6 DEF Fresh

LEMMA ClientRole ==
  ASSUME NEW t \in Tests, NEW r, r = iperf_set_test_role(t, "c")
  PROVE  r \in Tests /\ r.role = "c"
<1> DEFINE u == [t EXCEPT !.role = "c",
                          !.sender = ((IF "c" = "c" THEN TRUE ELSE FALSE) # t.reverse)]
<1>1. r = check_sender_has_retransmits(u)
  BY DEF iperf_set_test_role
<1>2. u \in Tests /\ u.role = "c"
  BY DEF Tests, Roles
<1> HIDE DEF u
<1> QED BY <1>1, <1>2, CheckEffect, CheckType

\* The descriptors of iperf_new_test and iperf_defaults.
LEMMA Defaulted ==
  /\ UnsetTest(0, {}) \in Tests /\ Fresh(UnsetTest(0, {}))
  /\ UnsetTest(0, {}).role = "unset"
  /\ \A d \in NewTests : d \in Tests /\ Fresh(d) /\ d.role = "unset"
<1>1. /\ UnsetTest(0, {}) \in Tests /\ Fresh(UnsetTest(0, {}))
      /\ UnsetTest(0, {}).role = "unset"
  BY DEF UnsetTest, Tests, Roles, Registered, NULL, Fresh
<1>2. \A d \in NewTests : d \in Tests /\ Fresh(d) /\ d.role = "unset"
  BY NewTestValue DEF Fresh
<1> QED BY <1>1, <1>2

\* The options that set a role: a role once set stays, and the rest with it.
LEMMA RoleOptions ==
  ASSUME Inv, OptServer \/ OptClient
  PROVE  Inv' /\ (test.role # "unset" => test'.role = test.role)
<1> USE DEF Inv, TakeRole, SetRole, Reject
<1>1. test.role \in {"unset", "c", "s"}
  BY DEF Tests, Roles
<1>2. pc' \in {"parse", "run", "crashed"}
  BY DEF OptServer, OptClient, NextOption
<1>3. CASE UNCHANGED test
  BY <1>2, <1>3
<1>4. CASE test.role # "c" /\ test' = iperf_set_test_role(test, "s")
  BY <1>1, <1>2, <1>4, ServerRole
<1>5. CASE test.role # "s" /\ test' = iperf_set_test_role(test, "c")
  BY <1>1, <1>2, <1>5, ClientRole
<1> QED BY <1>3, <1>4, <1>5 DEF OptServer, OptClient

\* All other steps leave the role as it is.
LEMMA OtherSteps ==
  ASSUME Inv, Next, ~OptServer, ~OptClient
  PROVE  Inv' /\ test'.role = test.role
<1> USE DEF Inv
<1>1. CASE OptUdp
  <2>1. UNCHANGED test
    BY <1>1 DEF OptUdp, set_protocol, Registered, Tests
  <2>2. pc' = "parse"
    BY <1>1 DEF OptUdp, NextOption, Accepted
  <2> QED BY <2>1, <2>2
<1>2. CASE OptTime
  <2>1. PICK d \in {0, 5} : test' = [test EXCEPT !.duration = d]
    BY <1>2 DEF OptTime
  <2>2. test' \in Tests /\ test'.role = test.role /\ (Fresh(test) => Fresh(test'))
    BY <2>1 DEF Tests, Fresh
  <2>3. pc' = "parse"
    BY <1>2 DEF OptTime, NextOption, Accepted
  <2> QED BY <2>2, <2>3
<1>3. CASE Run
  <2>1. UNCHANGED test /\ (pc' = "server" => test.role = "s")
          /\ pc' \in {"server", "client", "exit"}
    BY <1>3 DEF Run
  <2> QED BY <2>1
<1>4. CASE Defaults
  <2>1. test' \in NewTests /\ pc' = "parse" /\ pc = "defaults"
    BY <1>4 DEF Defaults
  <2> QED BY <2>1, Defaulted
<1>5. CASE iperf_new_test
  BY <1>5 DEF iperf_new_test
<1>6. CASE OptMss \/ OptFormat \/ OptOther \/ EndOfOptions
  <2>1. UNCHANGED test
    BY <1>6 DEF OptMss, OptFormat, OptOther, EndOfOptions
  <2>2. pc' \in {"parse", "run"}
    BY <1>6 DEF OptMss, OptFormat, OptOther, EndOfOptions,
                NextOption, Accepted, Reject
  <2> QED BY <2>1, <2>2
<1> QED BY <1>1, <1>2, <1>3, <1>4, <1>5, <1>6 DEF Next

\* The invariant holds in every behaviour.
LEMMA Invariance == Spec => []Inv
<1>1. Init => Inv
  BY Defaulted DEF Init, Inv
<1>2. Inv /\ [Next]_vars => Inv'
  <2>1. ASSUME Inv, UNCHANGED vars PROVE Inv'
    BY <2>1 DEF vars, Inv, Fresh
  <2> QED BY <2>1, RoleOptions, OtherSteps
<1> QED BY <1>1, <1>2, PTL DEF Spec

\* No option, in whatever order, takes a role back that an earlier one has set
\* (main.c:71-85).
THEOREM RoleExclusiveHolds == Spec => RoleExclusive
<1>1. Inv /\ [Next]_vars => [test.role # "unset" => test'.role = test.role]_vars
  BY RoleOptions, OtherSteps
<1> QED BY <1>1, Invariance, PTL DEF Spec, RoleExclusive

\* A server starts with one of the descriptors the accept path is modelled from,
\* but for its duration, whatever the command line was and whether or not it was
\* rejected.
THEOREM HandsOverServerTestHolds == Spec => []HandsOverServerTest
<1>1. Inv => HandsOverServerTest
  <2> SUFFICES ASSUME Inv, pc = "server"
               PROVE  [test EXCEPT !.duration = DefaultDuration] \in ServerTests
    BY DEF HandsOverServerTest
  <2>1. PICK d \in NewTests : d.protocols = test.protocols
    <3>1. iperf_defaults.protocols = Registered
      BY DEF iperf_defaults, UnsetTest
    <3>2. UnsetTest(DefaultDuration, {}).protocols = {}
      BY DEF UnsetTest
    <3>3. test.protocols = {} \/ test.protocols = Registered
      BY DEF Inv, Tests, Registered
    <3> QED BY <3>1, <3>2, <3>3 DEF NewTests
  <2> DEFINE given == [test EXCEPT !.duration = DefaultDuration]
             promised == iperf_set_test_role(d, "s")
  <2>2. /\ given \in Tests /\ given.role = "s" /\ Fresh(given)
        /\ given.duration = DefaultDuration /\ given.protocols = d.protocols
    BY <2>1 DEF Inv, Tests, Fresh, DefaultDuration
  <2>3. /\ promised \in Tests /\ promised.role = "s" /\ Fresh(promised)
        /\ promised.duration = DefaultDuration /\ promised.protocols = d.protocols
    BY NewTestValue, Defaulted, ServerRole
  <2> HIDE DEF given, promised
  <2>4. given = promised
    BY <2>2, <2>3 DEF Tests, Fresh
  <2> QED BY <2>4 DEF given, promised, ServerTests
<1> QED BY <1>1, Invariance, PTL

=============================================================================
