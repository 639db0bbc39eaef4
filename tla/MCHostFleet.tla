---------------------------- MODULE MCHostFleet ----------------------------
(* Model values for HostFleet: a scenario fixes the options of both hosts   *)
(* and the machine's interfaces.                                            *)
EXTENDS HostFleet

Libera(tcpPort, discoveryPort, discovery, min, max) ==
  [tcpPort |-> tcpPort, discoveryPort |-> discoveryPort, discovery |-> discovery,
   minPointRate |-> min, maxPointRate |-> max]

EtherDream(addresses, mode, interface, base, manage) ==
  [addresses |-> addresses, mode |-> mode, interface |-> interface, base |-> base,
   manage |-> manage, discovery |-> "off"]

Lan(name, addr, size, default) ==
  [name |-> name, addr |-> addr, size |-> size,
   bcast |-> (addr \div size) * size + size - 1, loopback |-> FALSE, default |-> default]
Lo == [name |-> 9, addr |-> 2^4 + 1, size |-> 4, bcast |-> 0, loopback |-> TRUE, default |-> FALSE]

Auto == EtherDream(<<>>, "", 0, Absent, "")

OnePort == Libera(3, Absent, FALSE, 5, 3)    \* and the rates the wrong way round

Scenarios ==
  { <<Libera(Absent, Absent, TRUE, Absent, Absent), EtherDream(<<>>, "loopback", 0, Absent, "on"), <<Lo>> >>,
    <<Libera(0, 1, FALSE, 0, 0), Auto, <<Lo, Lan(1, 9, 8, TRUE)>> >>,
    <<Libera(2, Absent, FALSE, 0, Malformed), EtherDream(<<>>, "auto", 2, Absent, "on"),
      <<Lan(1, 1, 8, TRUE), Lan(2, 9, 2, FALSE)>> >>,
    <<OnePort, Auto, <<Lan(1, 1, 8, FALSE), Lan(2, 9, 4, TRUE)>> >>,
    <<OnePort, EtherDream(<<>>, "auto", 0, 4, "on"), <<Lan(1, 9, 4, TRUE)>> >>,
    <<Libera(0, 1, FALSE, 0, 0), EtherDream(<<>>, "explicit", 0, Absent, "on"), <<Lo>> >>,
    <<Libera(Malformed, 0, TRUE, 1, 1), [EtherDream(<<9, 9>>, "auto", 0, Absent, "on") EXCEPT !.discovery = ""],
      <<Lan(1, 9, 8, TRUE)>> >>,
    <<OnePort, EtherDream(<<9, Malformed>>, "explicit", 0, Absent, "on"), <<Lan(1, 9, 8, TRUE)>> >>,
    <<OnePort, EtherDream(<<>>, "auto", 0, Malformed, "on"), <<Lan(1, 9, 8, TRUE)>> >>,
    <<OnePort, EtherDream(<<>>, "auto", 0, Absent, "off"), <<Lan(1, 9, 8, TRUE)>> >>,
    <<OnePort, Auto, <<Lo>> >>,
    <<OnePort, Auto, <<Lan(1, 15, 1, TRUE)>> >> }

MCLbConfigs == {s[1] : s \in Scenarios}
MCEdConfigs == {s[2] : s \in Scenarios}
MCInterfaceLists == {s[3] : s \in Scenarios}

MCInit == Init /\ \E s \in Scenarios :
                    lbConfig = s[1] /\ edConfig = MakeDeviceOptions(s[2]) /\ interfaces = s[3]
MCSpec == MCInit /\ [][Next]_vars /\ Fairness
=============================================================================
