------------------------ MODULE MCGatoCentralManager ------------------------
(* A heart rate and a battery service, advertised with UUIDs of all three  *)
(* lengths by two devices, one of which the application knows by an        *)
(* address of the other type.                                              *)
EXTENDS GatoCentralManager

HeartRate == UUID16(24, 13)
Battery == UUID16(24, 15)
Custom == [i \in 1..16 |-> 16 + i]

List(type, uuids) == [type |-> type, uuids |-> uuids, bytes |-> <<>>]
Other(type, bytes) == [type |-> type, uuids |-> <<>>, bytes |-> bytes]

MCAddress == {[bd |-> "a", type |-> 0], [bd |-> "b", type |-> 1]}
MCAppAddress == {[bd |-> "b", type |-> 0]}

\* Well-formed; padded with zeros; cut off in the middle of a name; with lists
\* that are not a multiple of their UUIDs' size, the last of which is completed
\* to a heart rate service by what follows; and empty.
MCAdvertisement ==
    {[fields |-> <<List(3, <<HeartRate, Battery>>), Other(9, <<72, 82>>)>>, tail |-> <<>>],
     [fields |-> <<Other(8, <<72>>), Other(1, <<6>>), List(6, <<Custom>>)>>, tail |-> <<0, 9, 9>>],
     [fields |-> <<List(5, <<Battery>>), Other(9, <<66>>)>>, tail |-> <<5, 9, 66>>],
     [fields |-> <<[type |-> 2, uuids |-> <<Battery>>, bytes |-> <<1>>], Other(2, <<13>>)>>,
      tail |-> <<>>],
     [fields |-> <<>>, tail |-> <<>>]}

MCBeyond == {[i \in 1..15 |-> 0], [i \in 1..15 |-> 24]}

MCFilters == {{}, {HeartRate}, {Custom, Battery}}

\* The battery service may also be found by discovering the services.
MCDiscoverable == {Battery}
=============================================================================
