--------------------------- MODULE IperfTest_proofs ---------------------------
(* Lemmas about the operators of IperfTest: each maps descriptors to           *)
(* descriptors, and what the fields say afterwards.                            *)
EXTENDS IperfTest, TLAPS

\* check_sender_has_retransmits keeps a descriptor a descriptor.
LEMMA CheckType ==
  ASSUME NEW t \in Tests
  PROVE  check_sender_has_retransmits(t) \in Tests
  BY DEF check_sender_has_retransmits, Tests, SendsOverTcp, ReadsNull, Roles,
         Registered, NULL

\* iperf_set_test_role, for either role, gives a descriptor with that role.
LEMMA RoleType ==
  ASSUME NEW t \in Tests, NEW role \in {"c", "s"}
  PROVE  iperf_set_test_role(t, role) \in Tests
<1> DEFINE u == [t EXCEPT !.role = role,
                          !.sender = ((IF role = "c" THEN TRUE ELSE FALSE) # t.reverse)]
<1>1. u \in Tests
  BY DEF Tests, Roles, Registered, NULL
<1>2. check_sender_has_retransmits(u) \in Tests
  BY <1>1, CheckType
<1>3. iperf_set_test_role(t, role) = check_sender_has_retransmits(u)
  BY DEF iperf_set_test_role
<1> QED BY <1>2, <1>3

\* iperf_set_test_reverse gives a descriptor.
LEMMA ReverseType ==
  ASSUME NEW t \in Tests, NEW reverse \in BOOLEAN
  PROVE  iperf_set_test_reverse(t, reverse) \in Tests
<1> DEFINE u == [t EXCEPT !.reverse = reverse, !.sender = (@ # reverse)]
<1>1. u \in Tests
  BY DEF Tests, Roles, Registered, NULL
<1>2. check_sender_has_retransmits(u) \in Tests
  BY <1>1, CheckType
<1> QED BY <1>2 DEF iperf_set_test_reverse

\* set_protocol gives a descriptor, whatever id it is asked for.
LEMMA ProtocolType ==
  ASSUME NEW t \in Tests, NEW id
  PROVE  set_protocol(t, id) \in Tests
<1>1. CASE id \in t.protocols
  <2> DEFINE u == [t EXCEPT !.protocol = id]
  <2>1. u \in Tests
    BY <1>1 DEF Tests, Roles, Registered, NULL
  <2>2. check_sender_has_retransmits(u) \in Tests
    BY <2>1, CheckType
  <2> QED BY <1>1, <2>2 DEF set_protocol
<1>2. CASE id \notin t.protocols
  BY <1>2 DEF set_protocol
<1> QED BY <1>1, <1>2

\* All get_parameters needs of an object, whatever else it has: a time that is a
\* number.
TimeIsInt(m) == "time" \in DOMAIN m => m["time"] \in Int

LEMMA ParamsTime ==
  ASSUME NEW m, IsParams(m)
  PROVE  TimeIsInt(m)
  BY DEF IsParams, TimeIsInt

\* The descriptor that get_parameters leaves is a descriptor.
LEMMA ParametersType ==
  ASSUME NEW t \in Tests, NEW m, TimeIsInt(m)
  PROVE  get_parameters(t, m) \in Tests
<1> DEFINE t1 == IF "tcp" \in DOMAIN m THEN set_protocol(t, "tcp") ELSE t
           t2 == IF "udp" \in DOMAIN m THEN set_protocol(t1, "udp") ELSE t1
           t3 == IF "time" \in DOMAIN m THEN [t2 EXCEPT !.duration = m["time"]] ELSE t2
           t4 == IF "reverse" \in DOMAIN m THEN iperf_set_test_reverse(t3, TRUE) ELSE t3
<1>1. t1 \in Tests
  BY ProtocolType
<1> HIDE DEF t1
<1>2. t2 \in Tests
  BY <1>1, ProtocolType
<1> HIDE DEF t2
<1>3. t3 \in Tests
  BY <1>2 DEF TimeIsInt, Tests
<1> HIDE DEF t3
<1>4. t4 \in Tests
  BY <1>3, ReverseType
<1> HIDE DEF t4
<1>5. [t4 EXCEPT !.sender_has_retransmits = @ \/ SendsOverTcp(t4),
                 !.fault = @ \/ CopiesNull(m) \/ ReadsNull(t4)] \in Tests
  BY <1>4 DEF Tests, SendsOverTcp, ReadsNull, CopiesNull
<1> QED BY <1>5 DEF get_parameters, t1, t2, t3, t4

-----------------------------------------------------------------------------
\* check_sender_has_retransmits sets the statistics flag and leaves the rest.
LEMMA CheckEffect ==
  ASSUME NEW t \in Tests, NEW u, u = check_sender_has_retransmits(t)
  PROVE  /\ u.role = t.role /\ u.sender = t.sender /\ u.reverse = t.reverse
         /\ u.fault = (t.fault \/ ReadsNull(t))
         /\ u.protocol = t.protocol /\ u.duration = t.duration
         /\ u.protocols = t.protocols
         /\ u.sender_has_retransmits = (t.sender /\ t.protocol = "tcp")
  BY DEF check_sender_has_retransmits, SendsOverTcp, ReadsNull, Tests

\* The descriptors main starts from.
LEMMA NewTestValue ==
  ASSUME NEW d \in NewTests
  PROVE  /\ d \in Tests /\ d.role = "unset" /\ d.sender = FALSE /\ d.reverse = FALSE
         /\ d.sender_has_retransmits = FALSE /\ d.protocol = NULL /\ d.fault = FALSE
         /\ d.duration = DefaultDuration /\ d.protocols \in {{}, Registered}
         /\ d = iperf_defaults => d.protocols = Registered
<1>1. ASSUME NEW listed \in SUBSET Registered
      PROVE  UnsetTest(DefaultDuration, listed) \in Tests
  <2>1. NULL \in Registered \cup {NULL} /\ "unset" \in Roles /\ DefaultDuration \in Int
    BY DEF Roles, DefaultDuration
  <2> QED BY <2>1 DEF UnsetTest, Tests
<1>2. ASSUME NEW listed
      PROVE  LET t == UnsetTest(DefaultDuration, listed)
             IN  /\ t.role = "unset" /\ t.sender = FALSE /\ t.reverse = FALSE
                 /\ t.sender_has_retransmits = FALSE /\ t.protocol = NULL
                 /\ t.fault = FALSE
                 /\ t.duration = DefaultDuration /\ t.protocols = listed
  BY DEF UnsetTest
<1>3. {} \in SUBSET Registered /\ Registered \in SUBSET Registered
  OBVIOUS
<1>4. PICK listed \in {{}, Registered} : d = UnsetTest(DefaultDuration, listed)
  BY DEF NewTests, iperf_defaults
<1>5. iperf_defaults.protocols = Registered
  BY <1>2 DEF iperf_defaults
<1> QED BY <1>1, <1>2, <1>3, <1>4, <1>5

\* A descriptor a server starts with sends nothing and has no protocol.
LEMMA ServerTestValue ==
  ASSUME NEW t0 \in ServerTests
  PROVE  /\ t0 \in Tests
         /\ t0.sender = FALSE /\ t0.reverse = FALSE
         /\ t0.protocol = NULL /\ t0.sender_has_retransmits = FALSE
         /\ t0.duration = DefaultDuration
         /\ t0 = iperf_set_test_role(iperf_defaults, "s") => t0.protocols = Registered
<1>1. ASSUME NEW d \in NewTests, t0 = iperf_set_test_role(d, "s")
      PROVE  /\ t0 \in Tests
             /\ t0.sender = FALSE /\ t0.reverse = FALSE
             /\ t0.protocol = NULL /\ t0.sender_has_retransmits = FALSE
             /\ t0.duration = DefaultDuration /\ t0.protocols = d.protocols
  <2>1. t0 \in Tests
    BY <1>1, NewTestValue, RoleType
  <2> DEFINE u == [d EXCEPT !.role = "s",
                     !.sender = ((IF "s" = "c" THEN TRUE ELSE FALSE) # d.reverse)]
  <2>2. t0 = check_sender_has_retransmits(u)
    BY <1>1 DEF iperf_set_test_role
  <2>3. u \in Tests
    BY NewTestValue DEF Tests, Roles
  <2>4. /\ u.sender = FALSE /\ u.reverse = FALSE /\ u.protocol = NULL
        /\ u.duration = DefaultDuration /\ u.protocols = d.protocols
    BY NewTestValue DEF Tests
  <2> HIDE DEF u
  <2> QED BY <2>1, <2>2, <2>3, <2>4, CheckEffect
<1>2. PICK d \in NewTests : t0 = iperf_set_test_role(d, "s")
  BY DEF ServerTests
<1>3. t0 = iperf_set_test_role(iperf_defaults, "s") => t0.protocols = Registered
  <2>1. iperf_defaults \in NewTests
    BY DEF NewTests
  <2>2. iperf_defaults.protocols = Registered
    BY <2>1, NewTestValue
  <2> QED BY <1>1, <2>1, <2>2
<1> QED BY <1>1, <1>2, <1>3

\* What a server's descriptor says after it has read the object m: the protocol
\* is TCP exactly if m names it and it is listed; direction and duration are
\* those of m, or what they were.
LEMMA ParametersEffect ==
  ASSUME NEW t0 \in ServerTests, NEW m, TimeIsInt(m),
         NEW t, t = get_parameters(t0, m)
  PROVE  /\ t.protocol = IF "tcp" \in DOMAIN m /\ "tcp" \in t0.protocols
                         THEN "tcp" ELSE NULL
         /\ t.reverse = ("reverse" \in DOMAIN m)
         /\ t.sender = t.reverse
         /\ t.sender_has_retransmits = (t.sender /\ t.protocol = "tcp")
         /\ t.duration = IF "time" \in DOMAIN m THEN m["time"] ELSE DefaultDuration
<1> DEFINE t1 == IF "tcp" \in DOMAIN m THEN set_protocol(t0, "tcp") ELSE t0
           t2 == IF "udp" \in DOMAIN m THEN set_protocol(t1, "udp") ELSE t1
           t3 == IF "time" \in DOMAIN m THEN [t2 EXCEPT !.duration = m["time"]] ELSE t2
           t4 == IF "reverse" \in DOMAIN m THEN iperf_set_test_reverse(t3, TRUE) ELSE t3
<1>1. /\ t1 \in Tests
      /\ t1.sender = FALSE /\ t1.reverse = FALSE /\ t1.sender_has_retransmits = FALSE
      /\ t1.protocol = IF "tcp" \in DOMAIN m /\ "tcp" \in t0.protocols
                       THEN "tcp" ELSE NULL
      /\ t1.duration = DefaultDuration
  <2>1. CASE "tcp" \in DOMAIN m /\ "tcp" \in t0.protocols
    <3> DEFINE u == [t0 EXCEPT !.protocol = "tcp"]
    <3>1. /\ u \in Tests /\ u.sender = FALSE /\ u.reverse = FALSE
          /\ u.protocol = "tcp" /\ u.duration = DefaultDuration
      BY ServerTestValue DEF Tests, Registered
    <3>2. t1 = check_sender_has_retransmits(u)
      BY <2>1 DEF set_protocol, Registered
    <3> QED BY <2>1, <3>1, <3>2, CheckEffect, CheckType
  <2>2. CASE ~("tcp" \in DOMAIN m /\ "tcp" \in t0.protocols)
    <3>1. t1 = t0
      BY <2>2 DEF set_protocol
    <3> QED BY <2>2, <3>1, ServerTestValue
  <2> QED BY <2>1, <2>2
<1> HIDE DEF t1
<1>2. t2 = t1
  BY <1>1 DEF set_protocol, Registered, Tests
<1>3. /\ t3 \in Tests
      /\ t3.sender = FALSE /\ t3.reverse = FALSE /\ t3.sender_has_retransmits = FALSE
      /\ t3.protocol = t1.protocol
      /\ t3.duration = IF "time" \in DOMAIN m THEN m["time"] ELSE DefaultDuration
  BY <1>1, <1>2 DEF TimeIsInt, Tests
<1> HIDE DEF t2, t3
<1>4. /\ t4 \in Tests
      /\ t4.reverse = ("reverse" \in DOMAIN m) /\ t4.sender = t4.reverse
      /\ t4.sender_has_retransmits = (t4.sender /\ t4.protocol = "tcp")
      /\ t4.protocol = t1.protocol /\ t4.duration = t3.duration
  <2>1. CASE "reverse" \in DOMAIN m
    <3> DEFINE u == [t3 EXCEPT !.reverse = TRUE, !.sender = (@ # TRUE)]
    <3>1. /\ u \in Tests /\ u.sender = TRUE /\ u.reverse = TRUE
          /\ u.protocol = t3.protocol /\ u.duration = t3.duration
      BY <1>3 DEF Tests
    <3>2. t4 = check_sender_has_retransmits(u)
      BY <2>1 DEF iperf_set_test_reverse
    <3> HIDE DEF u, t4
    <3>3. /\ t4 \in Tests /\ t4.sender = TRUE /\ t4.reverse = TRUE
          /\ t4.protocol = t3.protocol /\ t4.duration = t3.duration
          /\ t4.sender_has_retransmits = (t4.sender /\ t4.protocol = "tcp")
      BY <3>1, <3>2, CheckEffect, CheckType
    <3> QED BY <1>3, <2>1, <3>3
  <2>2. CASE "reverse" \notin DOMAIN m
    <3>1. t4 = t3
      BY <2>2
    <3> HIDE DEF t4
    <3>2. t4.sender = FALSE /\ t4.reverse = FALSE /\ t4.sender_has_retransmits = FALSE
      BY <1>3, <3>1
    <3>3. ("reverse" \in DOMAIN m) = FALSE
      BY <2>2
    <3>4. t4.sender_has_retransmits = (t4.sender /\ t4.protocol = "tcp")
      BY <3>2
    <3>5. t4 \in Tests /\ t4.protocol = t1.protocol /\ t4.duration = t3.duration
      BY <1>3, <3>1
    <3>6. t4.reverse = ("reverse" \in DOMAIN m) /\ t4.sender = t4.reverse
      BY <3>2, <3>3
    <3> QED BY <3>4, <3>5, <3>6
  <2> QED BY <2>1, <2>2
<1> HIDE DEF t4
<1>5. t = [t4 EXCEPT !.sender_has_retransmits = @ \/ SendsOverTcp(t4),
                     !.fault = @ \/ CopiesNull(m) \/ ReadsNull(t4)]
  BY DEF get_parameters, t1, t2, t3, t4
<1>6. /\ t.protocol = t4.protocol /\ t.reverse = t4.reverse /\ t.sender = t4.sender
      /\ t.duration = t4.duration
      /\ t.sender_has_retransmits = (t4.sender_has_retransmits \/ SendsOverTcp(t4))
  BY <1>4, <1>5 DEF Tests
<1> QED BY <1>1, <1>3, <1>4, <1>6 DEF SendsOverTcp, Tests

\* So a descriptor with a protocol agrees with m in everything.
LEMMA ParametersAgree ==
  ASSUME NEW t0 \in ServerTests, NEW m, TimeIsInt(m),
         NEW t, t = get_parameters(t0, m), t.protocol # NULL
  PROVE  /\ "tcp" \in DOMAIN m /\ t.protocol = "tcp"
         /\ t.reverse = ("reverse" \in DOMAIN m)
         /\ t.sender = t.reverse
         /\ t.sender_has_retransmits = t.sender
         /\ "time" \in DOMAIN m => t.duration = m["time"]
<1>1. /\ t.protocol = IF "tcp" \in DOMAIN m /\ "tcp" \in t0.protocols
                      THEN "tcp" ELSE NULL
      /\ t.reverse = ("reverse" \in DOMAIN m) /\ t.sender = t.reverse
      /\ t.sender_has_retransmits = (t.sender /\ t.protocol = "tcp")
      /\ "time" \in DOMAIN m => t.duration = m["time"]
  BY ParametersEffect
<1>2. "tcp" \in DOMAIN m /\ t.protocol = "tcp"
  BY <1>1
<1>3. t.sender_has_retransmits = t.sender
  <2>1. CASE "reverse" \in DOMAIN m
    <3>1. t.sender = TRUE
      BY <1>1, <2>1
    <3> QED BY <1>1, <1>2, <3>1
  <2>2. CASE "reverse" \notin DOMAIN m
    <3> ("reverse" \in DOMAIN m) = FALSE
      BY <2>2
    <3>1. t.sender = FALSE
      BY <1>1
    <3>2. (t.sender /\ t.protocol = "tcp") = FALSE
      BY <3>1
    <3>3. t.sender_has_retransmits = FALSE
      BY <1>1, <3>2
    <3> QED BY <3>1, <3>3
  <2> QED BY <2>1, <2>2
<1> QED BY <1>1, <1>2, <1>3

=============================================================================
