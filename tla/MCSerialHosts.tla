---------------------------- MODULE MCSerialHosts ----------------------------
(* Three rates and an adapter at any or none of them; every command, with   *)
(* flags given, missing, doubled up and in the wrong place.                 *)
EXTENDS SerialHosts

MCDashed == {"--", "--port", "--mock", "--ecu", "--screen", "--clear", "--json"}

MCCommandLines == {
    <<>>, <<"--mock", "probe">>, <<"flash">>, <<"--", "ports">>,
    <<"probe", "--mock">>, <<"probe", "--port">>, <<"bench", "--port", "tty">>,
    <<"screens">>, <<"screens", "--ecu", "abs">>,
    <<"read", "--ecu", "abs", "--mock">>, <<"read", "--ecu", "abs", "--screen", "main", "--port", "tty">>,
    <<"scan">>, <<"scan", "--port", "tty">>,
    <<"dtc", "--ecu", "abs", "--mock">>, <<"dtc", "--clear", "--ecu", "abs", "--port", "tty">>,
    <<"dtc", "--ecu", "abs", "--port", "tty", "--clear", "now">>,
    <<"checkup", "--port", "tty", "--json", "out">>, <<"checkup", "--mock">>}

MCFaultServices == {"13", "19"}

MCRequests == {
    [service |-> "22", first |-> 3, count |-> 24, named |-> FALSE],
    [service |-> "21", first |-> 9, count |-> 1, named |-> FALSE],
    [service |-> "2E", first |-> 3, count |-> 1, named |-> TRUE]}
=============================================================================
