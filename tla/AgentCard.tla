----------------------------- MODULE AgentCard -----------------------------
(***************************************************************************)
(* Where deliveries go: the subscriber's AgentCard as agentcard.py reads    *)
(* it, its trust policy, and the endpoint publisher.subscribe takes from it *)
(* after the SSRF policy of runtime/ssrf.py had its say.                    *)
(*                                                                         *)
(* A URL is what the two policies tell apart: whether it is https, whether  *)
(* it shares the card's origin, and the kind of host it names.              *)
(***************************************************************************)
EXTENDS Integers, Sequences

CONSTANTS
    CardPolicy,     \* CardTrustPolicy
    EndpointPolicy  \* SSRFPolicy

Modes == {"webhook", "a2a-message"}

Hosts == {"loopback", "private", "public", "none"}
Url(https, sameOrigin, host) ==
    [https |-> https, sameOrigin |-> sameOrigin, host |-> host]
Urls == [https : BOOLEAN, sameOrigin : BOOLEAN, host : Hosts]
NoUrl == Url(FALSE, FALSE, "none")

Refused == [refused |-> TRUE]

-----------------------------------------------------------------------------
(* parse_subscriber_card *)

\* An interface without protocolBinding is JSON-RPC; a card without a JSON-RPC
\* interface falls back to its top-level url.
A2AEndpointOf(card) ==
    LET fits == {i \in DOMAIN card.interfaces :
                    card.interfaces[i].url # NoUrl /\ card.interfaces[i].jsonrpc}
    IN  IF fits = {} THEN card.url
        ELSE card.interfaces[CHOOSE i \in fits : \A j \in fits : i <= j].url

\* _check_endpoint_trust, which lets an endpoint pass that is not declared.
Trusted(url) ==
    \/ url = NoUrl
    \/ /\ CardPolicy.requireHttps => url.https
       /\ CardPolicy.requireSameOrigin => url.sameOrigin

\* An empty acceptedDeliveryModes means both modes.
AcceptedModes(card) == IF card.modes = {} THEN Modes ELSE card.modes

\* Ed25519CardSignatureVerifier: one good signature is enough, incomplete and
\* forged ones are passed over, and a card without any is refused.
SignatureVerified(card) == "valid" \in card.signatures

\* The checks of the card as a whole, each of them optional.
Vouched(card) ==
    /\ CardPolicy.allowlist => card.listed
    /\ CardPolicy.verifySignature => SignatureVerified(card)
    /\ CardPolicy.challengeDomain => card.ownsDomain

\* _find_subscriber_extension, which passes over entries for another role.
DeclaresSubscriber(card) == "subscriber" \in card.roles

\* Mutant: only the receive URL is compared with the policy.
ParseReceiveOnly(card) ==
    /\ Vouched(card)
    /\ DeclaresSubscriber(card)
    /\ Trusted(card.receiveUrl)

\* Both endpoints must be trusted, whichever will be used.
ParseSubscriberCard(card) ==
    /\ Vouched(card)
    /\ DeclaresSubscriber(card)
    /\ Trusted(card.receiveUrl)
    /\ Trusted(A2AEndpointOf(card))

-----------------------------------------------------------------------------
(* publisher.subscribe *)

\* check_endpoint; host "none" stands for a URL without host or with a scheme
\* other than http and https.
CheckEndpoint(url) ==
    /\ url.host # "none"
    /\ EndpointPolicy.requireHttps => url.https
    /\ url.host \in EndpointPolicy.allowHosts \/ url.host \notin EndpointPolicy.blocked

\* _resolve_card (AgentCardResolver fetches the card), _check_delivery_mode and
\* _resolve_delivery_target
ResolveDelivery(mode, card) ==
    LET url == IF mode = "webhook" THEN card.receiveUrl ELSE A2AEndpointOf(card)
    IN  IF /\ card.reachable
           /\ ParseSubscriberCard(card)
           /\ mode \in AcceptedModes(card)
           /\ url # NoUrl
           /\ CheckEndpoint(url)
        THEN url
        ELSE Refused
=============================================================================
