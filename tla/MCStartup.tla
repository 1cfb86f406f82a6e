----------------------------- MODULE MCStartup ------------------------------
(* Command lines, disks and networks for Startup.  Sources on the disk go    *)
(* with --relay-only, so that the addresses are explored with one plan only. *)
EXTENDS Startup

File(n)   == [kind |-> "file", size |-> n, ver |-> 0]
Of(k)     == [kind |-> k, size |-> 0, ver |-> 0]

A   == <<"a">>
AX  == <<"a", "x">>
AY  == <<"a", "y">>
AZ  == <<"a", "z">>
AZX == <<"a", "z", "x">>
B   == <<"b">>
BX  == <<"b", "x">>
BDev == <<"b", "y">>

\* Links, devices, an empty and a nested directory; a file of 2^32 chunks, two of which
\* overflow total_bytes, and a socket.
Tree1 == A :> Of("dir") @@ AX :> File(3) @@ AY :> Of("link") @@ AZ :> Of("dir")
           @@ AZX :> File(4) @@ B :> Of("dir") @@ BX :> File(1) @@ BDev :> Of("dev")
Tree2 == A :> File(15) @@ B :> Of("dir") @@ BX :> File(15) @@ BDev :> Of("special")
MCTrees == {Tree1, Tree2}

MCNameOrder == <<"a", "b", "x", "y", "z">>

Plainly == [run |-> "send", sources |-> <<>>, lines |-> <<>>, output |-> FALSE, links |-> FALSE,
            devices |-> FALSE, ask |-> FALSE, parallel |-> 0, relay |-> TRUE, upnp |-> FALSE,
            predict |-> FALSE]
OfSources(s) == [Plainly EXCEPT !.sources = s]
Line(p, h)   == [path |-> p, hash |-> h]

MCCommands ==
    {OfSources(s) : s \in {<<>>, <<A>>, <<B>>, <<AX, BX>>, <<AY>>, <<AY, BDev>>, <<Stdin, A>>,
                           <<<<"a", "..">>>>, <<A, BX>>}}
    \cup {[OfSources(<<A, B>>) EXCEPT !.links = TRUE, !.devices = TRUE, !.parallel = 3],
          [OfSources(<<AX>>) EXCEPT !.lines = <<Line(B, TRUE), Line(<<>>, FALSE), Line(BDev, FALSE)>>],
          [OfSources(<<AZ>>) EXCEPT !.ask = TRUE],
          [OfSources(<<Stdin>>) EXCEPT !.relay = FALSE],
          [OfSources(<<Stdin>>) EXCEPT !.output = TRUE, !.relay = FALSE, !.upnp = TRUE],
          [OfSources(<<Stdin>>) EXCEPT !.output = TRUE, !.relay = FALSE, !.upnp = TRUE, !.predict = TRUE],
          [Plainly EXCEPT !.run = "test-udp"]}

V4(ip) == [ip |-> ip, v6 |-> FALSE]
V6(ip) == [ip |-> ip, v6 |-> TRUE]
At(ip, port) == [ip |-> ip, port |-> port]

\* Two public servers share an address; the third one's IPv6 address comes first.
MCLookup == [s \in {"s1", "s2"} |-> <<V4("p")>>] @@ "s3" :> <<V6("q"), V4("r")>>
              @@ "own" :> <<V4("o")>> @@ "mine" :> <<V6("q")>>
MCPublicStun == <<"s1", "s2", "s3">>
MCLocal == At("host", 4)
MCRouters == {At("wan", 4), At("wan", 6)}

\* A cone, a NAT with a port per server, one with two public addresses, and none.
MCNats == {[s \in DOMAIN MCLookup |-> At("wan", 4)],
           [s \in DOMAIN MCLookup |-> At("wan", IF s = "s1" THEN 5 ELSE IF s = "s2" THEN 6 ELSE 4)],
           [s \in DOMAIN MCLookup |-> At(IF s = "s1" THEN "wan" ELSE "wan2", 5)],
           [s \in DOMAIN MCLookup |-> MCLocal]}
=============================================================================
