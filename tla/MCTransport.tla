---------------------------- MODULE MCTransport ----------------------------
(***************************************************************************)
(* The blocks of an MSB, of a product and of a command, for a proxy and for *)
(* the helper, with small sizes.                                            *)
(***************************************************************************)
EXTENDS Transport

CONSTANTS a, b      \* the peers

Tr(dir, q, n) == [dir |-> dir, peer |-> q, sz |-> n, counted |-> TRUE]
Plain(dir, q, n) == [dir |-> dir, peer |-> q, sz |-> n, counted |-> FALSE]

MCPeer == {a, b}

(* P1: the command, then MSB; peer a is the helper, b the other proxy. *)
Proxy == <<<<Plain("send", a, 2)>>, <<Tr("receive", a, 3)>>,
           <<Tr("send", b, 2), Tr("receive", b, 2)>>, <<Tr("send", a, 3)>>,
           <<Tr("receive", a, 1)>>>>

(* The helper: the command, MSB, then triples and acknowledgements. *)
Helper == <<<<Plain("receive", a, 2)>>, <<Tr("send", a, 3), Tr("send", b, 3)>>,
            <<Tr("receive", a, 2), Tr("receive", b, 2)>>, <<Tr("send", b, 1)>>,
            <<Tr("receive", a, 1)>>>>

MCScripts == {Proxy, Helper}
=============================================================================
