--------------------------- MODULE MCControlPlane ---------------------------
(* TLC instance of ControlPlane.  The requests are for one subscriber, so that  *)
(* they meet in its bucket and at its quota; the cards hold every combination  *)
(* of endpoints.                                                               *)
EXTENDS ControlPlane

CONSTANT a

MCOwner == [r \in Callers |-> a]

MCCardPolicy ==
    [requireHttps |-> FALSE, requireSameOrigin |-> TRUE, allowlist |-> TRUE,
     verifySignature |-> TRUE, challengeDomain |-> FALSE]
MCEndpointPolicy ==
    [requireHttps |-> TRUE, blocked |-> {"loopback", "private"}, allowHosts |-> {}]

MCUrls == {NoUrl, Url(TRUE, TRUE, "public"), Url(TRUE, FALSE, "public"),
           Url(FALSE, TRUE, "public"), Url(TRUE, TRUE, "private")}

MCInterfaces == {<<>>} \cup {<<[url |-> u, jsonrpc |-> j]>> : u \in MCUrls, j \in BOOLEAN}

MCCards ==
    [reachable : {TRUE}, listed : BOOLEAN, ownsDomain : {FALSE},
     signatures : {{"forged"}, {"forged", "valid"}}, roles : SUBSET {"subscriber", "publisher"},
     modes : {{}, {"webhook"}}, receiveUrl : MCUrls, interfaces : MCInterfaces, url : MCUrls]

level == <<"data", "level">>
MCTopic == [selectorTypes |-> {"field_filter"}, filterableFields |-> {level},
            deliveryModes |-> Modes]
MCMaxSelector == [keywords |-> 1, fields |-> 1, valuesPerField |-> 1]

MCRequested ==
    {NoSelector, FieldFilter(<<>>), KeywordSearch({"x"}, "all", NoFields),
     KeywordSearch({"x", "y"}, "any", NoFields)} \cup
    {FieldFilter(<<[path |-> p, values |-> v]>>) :
        p \in {level, <<"type">>}, v \in {{Number(1)}, {Number(1), Number(2)}}}
=============================================================================
