-------------------------- MODULE MCInfrastructure --------------------------
(* Two projects that reserve one number of two protocols, and two tools, the *)
(* versions of one of which sort the other way round as text, with two       *)
(* artifacts of one id, one of them empty.                                    *)
EXTENDS Infrastructure, TLC

MCEndpoints == [protocol : {"tcp", "udp"}, number : {1}]

\* Both projects ask for tcp 1 with a derived id, one of them for udp 1 as well,
\* whose derived id is the same; the other passes an id of the first.
MCBindings ==
    LET binding(project, id, protocol) ==
            [project |-> project, id |-> id, port |-> [protocol |-> protocol, number |-> 1]]
    IN {binding("a", None, "tcp"), binding("a", None, "udp"),
        binding("b", None, "tcp"), binding("b", <<"a", 1>>, "tcp")}

\* node 20.11.0, 22.1.0 and pnpm 9.15.0, 10.0.0.
MCVersions == (1 :> <<1, 2>>) @@ (2 :> <<2, 1>>)

MCArtifacts == {
    [id |-> <<1, 1>>, sum |-> "s1"],
    [id |-> <<1, 1>>, sum |-> "empty"]}
=============================================================================
