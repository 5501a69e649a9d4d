---------------------------- MODULE TrustedProxy ----------------------------
(***************************************************************************)
(* Who a request is from: src/src/security/trusted-proxy.ts, and the two   *)
(* that ask it, getClientIP of src/src/gateway/gateway.ts and getClientId  *)
(* of src/src/load-balancer/http-load-balancer.ts.  Rate limits, sticky    *)
(* sessions and the forwarded address all hang on the answer.              *)
(***************************************************************************)
EXTENDS AddressMatch, FiniteSets

CONSTANTS
    TrustConfigs,  \* the configurations that are considered
    KnownRanges,   \* the ranges of the one predefined network, "known"
    Peers,         \* the addresses that connect
    ChainEntries,  \* what a forwarded chain is made of: addresses or other text
    SingleEntries, \* what the headers with one address hold, or NoAddress
    ChainBound     \* bound on the length of a chain that comes in

(* maxDepth: maxForwardedDepth, or 0 if it is not set.                     *)
TrustConfig ==
    [enabled : BOOLEAN, trustAll : BOOLEAN,
     trustedIPs : SUBSET [network : Peers \cup ChainEntries, prefix : Nat \cup {-1}],
     networks : SUBSET {"known", "other"}, maxDepth : Nat,
     trustCloudflare : BOOLEAN, trustXRealIP : BOOLEAN]

ASSUME TrustAssumption ==
    /\ TrustConfigs # {} /\ TrustConfigs \subseteq TrustConfig
    /\ ChainBound \in Nat /\ NoAddress \notin Peers
    /\ \A a \in Peers \cup ChainEntries : IsAddress(a)
    /\ \A c \in KnownRanges : IsAddress(c.network) /\ c.prefix \in Nat \cup {-1}

VARIABLES
    validator, \* the configuration of the TrustedProxyValidator
    peer,      \* the address the socket reports, NoAddress without a server
    forwarded, \* the headers of the request
    client     \* who it was taken to be from

trustVars == <<validator, peer, forwarded, client>>

(* header: X-Forwarded-For is there; chain: its entries, blanks left out. *)
Chains == UNION {[1..n -> ChainEntries] : n \in 0..ChainBound}
Headers(h, c, cf, real, cl) ==
    [header |-> h, chain |-> c, cfConnectingIP |-> cf, xRealIP |-> real,
     xClientIP |-> cl]
NoHeaders == Headers(FALSE, <<>>, NoAddress, NoAddress, NoAddress)

-----------------------------------------------------------------------------
(* buildTrustedCIDRs: a network that is not known is left out.             *)
TrustedCIDRs(c) ==
    c.trustedIPs \cup (IF "known" \in c.networks THEN KnownRanges ELSE {})

InTrustedCIDR(c, a) == \E cidr \in TrustedCIDRs(c) : IsIPInCIDR(a, cidr)

(* Of the direct peer; trustAll is tested before the format.               *)
ValidateProxy(c, a) ==
    /\ c.enabled
    /\ \/ c.trustAll
       \/ IsValidIP(a) /\ InTrustedCIDR(c, a)

(* Of an entry of the chain.                                               *)
IsInTrustedNetwork(c, a) ==
    IsValidIP(a) /\ (c.trustAll \/ InTrustedCIDR(c, a))

ValidateForwardedChain(c, hops) ==
    /\ hops # <<>>
    /\ c.maxDepth # 0 => Len(hops) <= c.maxDepth
    /\ \A i \in DOMAIN hops : IsValidIP(hops[i])

(* Mutant: the walk goes from left to right.                               *)
WalkChainFromLeft(c, hops) ==
    LET outside == {i \in DOMAIN hops : ~IsInTrustedNetwork(c, hops[i])}
    IN  IF outside = {} THEN hops[1]
        ELSE hops[CHOOSE i \in outside : \A j \in outside : i <= j]

(* From right to left past the trusted proxies; the leftmost if all are.   *)
WalkChain(c, hops) ==
    LET outside == {i \in DOMAIN hops : ~IsInTrustedNetwork(c, hops[i])}
    IN  IF outside = {} THEN hops[1]
        ELSE hops[CHOOSE i \in outside : \A j \in outside : j <= i]

ExtractClientIP(c, remote, h) ==
    CASE ~ValidateProxy(c, remote) -> remote
      [] ValidateProxy(c, remote) /\ h.header ->
             IF ValidateForwardedChain(c, h.chain) THEN WalkChain(c, h.chain) ELSE remote
      [] OTHER ->
             IF c.trustCloudflare /\ IsValidIP(h.cfConnectingIP) THEN h.cfConnectingIP
             ELSE IF c.trustXRealIP /\ IsValidIP(h.xRealIP) THEN h.xRealIP
             ELSE IF c.trustXRealIP /\ IsValidIP(h.xClientIP) THEN h.xClientIP
             ELSE remote

(* getClientIP, with a validator only if the configuration enables one.    *)
GetClientIP(c, remote, h) ==
    IF c.enabled THEN ExtractClientIP(c, remote, h) ELSE remote

(* The user agent, when the load balancer has no address to go by.         *)
UserAgent == NotAnIP("user agent")

(* getClientId: the gateway's answer, and headers only without it.         *)
FirstGiven(h) == IF h.xRealIP # NoAddress THEN h.xRealIP
                 ELSE IF h.cfConnectingIP # NoAddress THEN h.cfConnectingIP
                 ELSE h.xClientIP

GetClientId(c, clientIP, h) ==
    LET extracted == IF c.enabled THEN ExtractClientIP(c, NoAddress, h) ELSE NoAddress
        last      == IF h.chain = <<>> THEN NoAddress ELSE h.chain[Len(h.chain)]
    IN  CASE clientIP # NoAddress -> clientIP
          [] clientIP = NoAddress /\ extracted # NoAddress -> extracted
          [] OTHER -> IF IsValidIP(last) THEN last
                      ELSE IF IsValidIP(FirstGiven(h)) THEN FirstGiven(h)
                      ELSE UserAgent

-----------------------------------------------------------------------------
TrustInit ==
    /\ validator = CHOOSE c \in TrustConfigs : TRUE
    /\ peer = NoAddress /\ forwarded = NoHeaders /\ client = NoAddress

NoRequest == peer = NoAddress /\ forwarded = NoHeaders

(* The constructor.                                                        *)
ConfigureTrust(c) ==
    /\ NoRequest
    /\ validator' = c /\ client' = NoAddress
    /\ UNCHANGED <<peer, forwarded>>

(* A request, from the socket or without one.                              *)
RequestFrom(p, h) ==
    /\ NoRequest
    /\ peer' = p /\ forwarded' = h
    /\ client' = GetClientId(validator, GetClientIP(validator, p, h), h)
    /\ UNCHANGED validator

(* It is over; nothing of it is kept.                                      *)
RequestOver ==
    /\ ~NoRequest
    /\ peer' = NoAddress /\ forwarded' = NoHeaders /\ client' = NoAddress
    /\ UNCHANGED validator

TrustNext ==
    \/ \E c \in TrustConfigs : ConfigureTrust(c)
    \/ \E p \in Peers \cup {NoAddress}, hops \in Chains :
          RequestFrom(p, Headers(TRUE, hops, NoAddress, NoAddress, NoAddress))
    \/ \E p \in Peers \cup {NoAddress}, cf, real, cl \in SingleEntries :
          RequestFrom(p, Headers(FALSE, <<>>, cf, real, cl))
    \/ RequestOver

TrustSpec == TrustInit /\ [][TrustNext]_trustVars

-----------------------------------------------------------------------------
(* The types of the variables.                                             *)
TrustTypeOK ==
    /\ validator \in TrustConfigs
    /\ peer \in Peers \cup {NoAddress}
    /\ client \in Peers \cup ChainEntries \cup SingleEntries \cup {NoAddress, UserAgent}

(* An address is trusted if a network of the list covers it.               *)
Trusts(a) == \E c \in TrustedCIDRs(validator) : Covers(c, a)

(* The client's address cannot be talked into being another: a peer that   *)
(* no configured network covers is itself the client, whatever it sends;   *)
(* behind a trusted peer the answer is no address that a trusted proxy put *)
(* right of an untrusted one, and entries that the client puts in front of *)
(* the chain change it only into the peer, when the chain is too long.     *)
ClientAddress ==
    LET c == validator IN
    ~c.trustAll /\ peer # NoAddress /\ (\A n \in TrustedCIDRs(c) : ~Reserved(n)) =>
       /\ ~(c.enabled /\ Trusts(peer)) => client = peer
       /\ client = peer \/ IsValidIP(client)
       /\ client # peer /\ forwarded.header =>
             LET hops == forwarded.chain IN
             \E i \in DOMAIN hops :
                /\ client = hops[i]
                /\ \A j \in (i + 1)..Len(hops) : Trusts(hops[j])
                /\ Trusts(client) => i = 1
                /\ ~Trusts(client) =>
                      \A e \in ChainEntries :
                         ExtractClientIP(c, peer,
                             [forwarded EXCEPT !.chain = <<e>> \o hops])
                             \in {client, peer}

=============================================================================
