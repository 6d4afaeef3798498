------------------------------ MODULE IperfTest ------------------------------
(* The test descriptor, struct iperf_test (include/iperf.h:97-179), and the   *)
(* functions of iperf_api.c that keep its direction and protocol fields       *)
(* consistent. A descriptor is a record, and a C function that updates *test  *)
(* is an operator from records to records. A NULL `protocol` is a real state  *)
(* of the program (iperf_defaults never selects one), so the functions that   *)
(* dereference it may fault: `fault` is then set, and whoever runs the        *)
(* function has crashed.                                                      *)
EXTENDS Integers

NULL == "NULL"

Roles == {"unset", "c", "s"}

\* The protocols iperf_defaults registers: TCP alone, because UDP's part is
\* compiled out.
Registered == {"tcp"}

ProtocolIds == {"tcp", "udp"}

\* The keys of the parameters object that this module gives a meaning to; "title"
\* stands for the three that hold a string (title, congestion, congestion_used).
ParamKeys == {"tcp", "udp", "reverse", "time", "title"}

\* A parsed parameters object: a partial function from keys to integers, where
\* a flag such as "tcp" is present or absent whatever its value, and a "title"
\* of 0 is one that is no string.
IsParams(m) == DOMAIN m \subseteq ParamKeys /\ \A k \in DOMAIN m : m[k] \in Int

Tests == [role : Roles, sender : BOOLEAN, reverse : BOOLEAN,
          sender_has_retransmits : BOOLEAN, protocols : SUBSET Registered,
          protocol : Registered \cup {NULL}, duration : Int, fault : BOOLEAN]

DefaultDuration == 10

\* A descriptor nothing has been selected in: iperf_new_test leaves one zeroed by
\* calloc, iperf_defaults the default duration and the list of protocols. When
\* protocol_new finds no memory the list stays empty, and main goes on all the
\* same.
UnsetTest(duration, listed) ==
  [role |-> "unset", sender |-> FALSE, reverse |-> FALSE,
   sender_has_retransmits |-> FALSE, protocols |-> listed, protocol |-> NULL,
   duration |-> duration, fault |-> FALSE]

iperf_defaults == UnsetTest(DefaultDuration, Registered)
NewTests == {iperf_defaults, UnsetTest(DefaultDuration, {})}

\* The expression ipt->sender && ipt->protocol->id == Ptcp, and when
\* evaluating it reads through a NULL protocol.
SendsOverTcp(t) == t.sender /\ t.protocol = "tcp"
ReadsNull(t) == t.sender /\ t.protocol = NULL

\* Faulty variants: a reversal that forgets the direction of the data, and a
\* protocol that is selected without looking it up.
ReverseFlagOnly(t, reverse) == [t EXCEPT !.reverse = reverse]
SelectUnchecked(t, id) == [t EXCEPT !.protocol = id]

check_sender_has_retransmits(t) ==
  [t EXCEPT !.sender_has_retransmits = SendsOverTcp(t),
            !.fault = @ \/ ReadsNull(t)]

iperf_set_test_role(t, role) ==
  LET sender == CASE role = "c" -> TRUE
                  [] role = "s" -> FALSE
                  [] OTHER      -> t.sender
  IN  check_sender_has_retransmits(
        [t EXCEPT !.role = role, !.sender = (sender # t.reverse)])

iperf_set_test_reverse(t, reverse) ==
  check_sender_has_retransmits(
    [t EXCEPT !.reverse = reverse, !.sender = (@ # reverse)])

\* The descriptors with which main runs a server that was given -s alone.
ServerTests == {iperf_set_test_role(d, "s") : d \in NewTests}

\* An id that no listed protocol has is refused (-1) and changes nothing.
set_protocol(t, id) ==
  IF id \in t.protocols
  THEN check_sender_has_retransmits([t EXCEPT !.protocol = id])
  ELSE t

\* strdup(j_p->valuestring), which is NULL when the item is no string.
CopiesNull(m) == "title" \in DOMAIN m /\ m["title"] = 0

\* After a fault nothing runs, so the rest of a faulty record has no meaning.
\* The part of get_parameters after JSON_read returned the object m.
get_parameters(t, m) ==
  LET Has(k) == k \in DOMAIN m
      t1 == IF Has("tcp") THEN set_protocol(t, "tcp") ELSE t
      t2 == IF Has("udp") THEN set_protocol(t1, "udp") ELSE t1
      t3 == IF Has("time") THEN [t2 EXCEPT !.duration = m["time"]] ELSE t2
      t4 == IF Has("reverse") THEN iperf_set_test_reverse(t3, TRUE) ELSE t3
  IN  [t4 EXCEPT !.sender_has_retransmits = @ \/ SendsOverTcp(t4),
                 !.fault = @ \/ CopiesNull(m) \/ ReadsNull(t4)]

=============================================================================
