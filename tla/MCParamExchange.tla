--------------------------- MODULE MCParamExchange ---------------------------
(* ParamExchange for TLC: a client with TCP selected, in both directions, with *)
(* default settings and with each setting at zero and small; those the         *)
(* descriptor holds in 64 bits also at the ends of what a double and a         *)
(* valueint hold.                                                              *)
EXTENDS ParamExchange

MCClients ==
  LET tcp == iperf_set_test_role(set_protocol(iperf_defaults, "tcp"), "c")
      tests == {tcp, iperf_set_test_reverse(tcp, TRUE)}
      durations == {-3, 0, 3, 10}
      wide == {"num", "blockcount", "bandwidth", "fqrate"}
      wideValues == UNION {2^DoubleBits - 1 .. 2^DoubleBits + 3,
                           2^(ValueBits - 1) + 1 .. 2^(ValueBits - 1) + 6,
                           LLONG_MAX - 2 .. LLONG_MAX + 2, {2^(ValueBits + 1) - 1}}
  IN  {[test |-> [t EXCEPT !.duration = d], settings |-> DefaultSettings] :
         t \in tests, d \in durations}
        \cup
      {[test |-> tcp, settings |-> [DefaultSettings EXCEPT ![k] = v]] :
         k \in NumberKeys, v \in {0, 2}}
        \cup
      {[test |-> tcp, settings |-> [DefaultSettings EXCEPT ![k] = v]] :
         k \in wide, v \in wideValues}
        \cup
      {[test |-> tcp, settings |-> [DefaultSettings EXCEPT ![k] = 1]] : k \in FlagKeys}

=============================================================================
