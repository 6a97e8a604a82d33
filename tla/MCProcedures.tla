---------------------------- MODULE MCProcedures ----------------------------
(* ECUs whose fault request reads two meanings of one byte, with and without  *)
(* a step between records; six modules on two buses; every plugin, and two    *)
(* that misbehave.                                                            *)
EXTENDS Procedures

Field(name, first) == [name |-> name, first |-> first]
TwoKinds == [read |-> "ReadDTC", size |-> 2, stride |-> 2, more |-> TRUE,
             fields |-> {Field("Type Of Fault", 3), Field("Standard Fault", 4), Field("Specific Fault", 4)}]
MCEcus == {TwoKinds, [TwoKinds EXCEPT !.more = FALSE], [TwoKinds EXCEPT !.stride = 0], [TwoKinds EXCEPT !.read = "none"]}

Entry(a, p, codes, ids) == [address |-> a, protocol |-> p, projects |-> codes, autoidents |-> ids]
Ident(d, sup, soft, v) == [diag |-> d, supplier |-> sup, soft |-> soft, version |-> v]
MCCatalogue == [
  uch |-> Entry(38, "CAN", {<<"x","7">>}, <<Ident(22, <<"?","2","1">>, <<"s">>, <<"5">>)>>),
  uchNew |-> Entry(38, "CAN", {<<"x","7","P">>}, <<Ident(22, <<"?","2","1">>, <<"s">>, <<"9">>), Ident(23, <<"N">>, <<"s">>, <<"1">>)>>),
  abs |-> Entry(1, "KWP2000", {<<"x","7">>}, <<Ident(1, <<"3","7">>, <<"t">>, <<"2">>)>>),
  old |-> Entry(2, "ISO8", {<<"x","8">>}, <<Ident(9, <<"9">>, <<"t">>, <<"2">>)>>),
  gone |-> Entry(77, "CAN", {<<"x","7">>}, <<>>),
  eps |-> Entry(4, "CAN", {<<"x","7","P">>}, <<Ident(NoVersion, <<"E","P","S">>, <<"t">>, <<"2">>), Ident(3, <<"E","P">>, <<"t">>, <<"2">>)>>)]
MCIdentities == [a \in {38, 1, 2, 77, 4} |->
   CASE a = 38 -> Ident(22, <<"pad","2","1">>, <<"s","q">>, <<"5">>)
     [] a = 1 -> Ident(1, <<"3","7","pad">>, <<"t">>, <<"3">>)
     [] OTHER -> Ident(3, <<"E","P","S">>, <<"t","pad">>, <<"2">>)]
MCCanMapped == {38, 4}
MCProjects == {<<>>, <<"x","7">>}

MCRogues == [spins |-> Read("x") \o Log, writes |-> Read("x") \o Write("y")]
MCPlugins == DOMAIN Scripts \cup DOMAIN MCRogues
=============================================================================
