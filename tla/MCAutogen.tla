----------------------------- MODULE MCAutogen ------------------------------
(***************************************************************************)
(* Networks of no, one and two devices, with and without each property.    *)
(***************************************************************************)
EXTENDS Autogen

V(name) == [name |-> name, len |-> 1]

Dev(dns0, dns1, domain, hostname, addr, cidr) ==
  [dns0 |-> dns0, dns1 |-> dns1, domain |-> domain, hostname |-> hostname,
   addr |-> addr, cidr |-> cidr]

Cidr(chars, slash) == [ip |-> V("ip"), chars |-> chars, slash |-> slash]

Full   == Dev(V("n0"), V("n1"), V("d"), V("h"), V("a"), Cidr(9, TRUE))
Legacy == Dev(V("n2"), NoInfo, NoInfo, V("g"), V("b"), Cidr(9, FALSE))
Bare   == Dev(NoInfo, NoInfo, NoInfo, NoInfo, V("c"), NoInfo)
Second == Dev(NoInfo, V("n3"), V("e"), NoInfo, NoInfo, Cidr(6, TRUE))

MCNetworks == {<<>>, <<Bare>>, <<Legacy>>, <<Full, Bare>>, <<Second, Legacy>>}
=============================================================================
