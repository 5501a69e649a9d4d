-------------------------- MODULE GatewayLifecycle --------------------------
(***************************************************************************)
(* A gateway is constructed, listens and is closed: the constructor,       *)
(* listen and close of src/src/gateway/gateway.ts, with the certificates   *)
(* of src/src/security/tls-manager.ts, the checks of src/src/security/     *)
(* config.ts and the redirect server of src/src/security/http-redirect.ts. *)
(*                                                                         *)
(* Without TLS listen runs to its end at once.  With TLS it gives way      *)
(* twice, after each reading of the certificates, and whatever else the    *)
(* program calls may come in between; so may a change of the files.        *)
(***************************************************************************)
EXTENDS Integers, FiniteSets

CONSTANTS
    ServerConfigs, \* the configurations that are considered
    ListenBound,   \* bound: the calls of listen
    Ports,         \* the ports that are listened on
    RequestHosts,  \* the Host of a request to the redirect server
    NoServer       \* null

(* A host by its domain and whether it names a subdomain; an allowed host  *)
(* may be a wildcard, for both.                                            *)
Host      == [domain : {"ours", "theirs"}, sub : BOOLEAN]
AllowHost == [host : Host, wild : BOOLEAN]

Given == {"none", "buffer", "file"}
TlsConfig ==
    [enabled : BOOLEAN, cert : Given, key : Given, ca : Given,
     minVersion : {"none", "TLSv1.2", "TLSv1.3", "other"}, emptyCiphers : BOOLEAN,
     requestCert : BOOLEAN, redirectHTTP : BOOLEAN, redirectPort : Nat]

(* The rest of the security configuration, after the merge with defaults.  *)
ServerConfig ==
    [process : {"single", "master", "worker"}, tls : TlsConfig,
     entropyBits : Nat, ttl : Int, maxBodySize : Int, maxHeaderSize : Int,
     trustAll : BOOLEAN, wildcardCredentials : BOOLEAN, redisMissing : BOOLEAN,
     hostname : Host \cup {NoServer}, allowHosts : SUBSET AllowHost]

ListenCalls == 1..ListenBound
Parts       == {"cert", "key", "ca"}

(* A server: call is the listen it is from, leads the port that a redirect *)
(* server sends to.                                                        *)
Servers == [kind : {"main", "redirect"}, call : ListenCalls, port : Nat,
            tls : SUBSET Parts, leads : Nat]

ASSUME LifecycleAssumption ==
    /\ ListenBound \in Nat /\ Ports \subseteq Nat \ {0}
    /\ ServerConfigs \subseteq ServerConfig
    /\ NoServer \notin Servers \cup ServerConfigs

VARIABLES
    serverConfig, \* the configuration, once the constructor has accepted it
    tlsOptions,   \* the parts that the TLS manager has loaded, or NoServer
    listens,      \* the calls of listen
    server,       \* this.server
    redirector,   \* this.httpRedirectManager: its server
    managed,      \* there is an HTTPRedirectManager
    sockets,      \* the servers that are listening
    taken,        \* ports that another process listens on
    unreadable,   \* the certificate files that cannot be read
    redirected,   \* the host and port of the last redirect, or NoServer
    careless      \* history: listen or close was called during a listen, or
                  \* listen while a server was running

lifecycleVars == <<serverConfig, tlsOptions, listens, server, redirector, managed,
                   sockets, taken, unreadable, redirected, careless>>

Main(c, port, tls) ==
    [kind |-> "main", call |-> c, port |-> port, tls |-> tls, leads |-> 0]
Redirect(c, port, leads) ==
    [kind |-> "redirect", call |-> c, port |-> port, tls |-> {}, leads |-> leads]

ListenCall == [phase : {"unused", "loading", "validating", "resolved", "rejected",
                        "master"}, port : Ports \cup {0}]
UnusedCall == [phase |-> "unused", port |-> 0]
UnderWay   == {c \in ListenCalls : listens[c].phase \in {"loading", "validating"}}

LifecycleInit ==
    /\ serverConfig = NoServer
    /\ tlsOptions = NoServer
    /\ listens = [c \in ListenCalls |-> UnusedCall]
    /\ server = NoServer /\ redirector = NoServer /\ managed = FALSE
    /\ sockets = {} /\ taken = {} /\ unreadable = {}
    /\ redirected = NoServer /\ careless = FALSE

-----------------------------------------------------------------------------
(* validateSecurityConfig.                                                 *)
SecurityErrors(o) ==
    {e \in {"cert", "redirect", "entropy", "ttl", "body", "header", "trustAll",
            "wildcard", "redis"} :
        \/ e = "cert" /\ o.tls.enabled /\ "none" \in {o.tls.cert, o.tls.key}
        \/ e = "redirect" /\ o.tls.enabled /\ o.tls.redirectHTTP /\ o.tls.redirectPort = 0
        \/ e = "entropy" /\ o.entropyBits < 128
        \/ e = "ttl" /\ o.ttl <= 0
        \/ e = "body" /\ o.maxBodySize <= 0
        \/ e = "header" /\ o.maxHeaderSize <= 0
        \/ e = "trustAll" /\ o.trustAll
        \/ e = "wildcard" /\ o.wildcardCredentials
        \/ e = "redis" /\ o.redisMissing}

(* validateConfig of the TLS manager.                                      *)
TlsErrors(t) ==
    {e \in {"cert", "key", "version", "ciphers", "redirectPort", "ca"} :
        \/ e = "cert" /\ t.cert = "none"
        \/ e = "key" /\ t.key = "none"
        \/ e = "version" /\ t.minVersion = "other"
        \/ e = "ciphers" /\ t.emptyCiphers
        \/ e = "redirectPort" /\ t.redirectHTTP /\ t.redirectPort \notin 1..65535
        \/ e = "ca" /\ t.requestCert /\ t.ca = "none"}

BuildServer(o) ==
    /\ serverConfig = NoServer
    /\ SecurityErrors(o) = {}
    /\ o.tls.enabled => TlsErrors(o.tls) = {}
    /\ serverConfig' = o
    /\ UNCHANGED <<tlsOptions, listens, server, redirector, managed, sockets,
                   taken, unreadable, redirected, careless>>

-----------------------------------------------------------------------------
(* The certificates.  A file that cannot be read throws, and leaves what   *)
(* was loaded before.                                                      *)
PartsGiven(t) == {p \in Parts : t[p] # "none"}
Loads(t) == \A p \in PartsGiven(t) : t[p] = "file" => p \notin unreadable

Tls == serverConfig.tls

SetListen(c, phase) == listens' = [listens EXCEPT ![c].phase = phase]

(* Mutant: the redirect server is started before the server it leads to.   *)
ServeRedirectFirst(c, port, loaded) ==
    LET main  == Main(c, port, loaded)
        other == Redirect(c, Tls.redirectPort, port)
        wants == Tls.enabled /\ Tls.redirectHTTP
        free(p) == p \notin taken /\ ~\E s \in sockets : s.port = p
    IN  /\ managed' = (managed \/ wants)
        /\ redirector' = IF wants /\ free(other.port) THEN other ELSE redirector
        /\ server' = IF free(port) THEN main ELSE server
        /\ sockets' = sockets \cup (IF wants /\ free(other.port) THEN {other} ELSE {})
                              \cup (IF free(port) THEN {main} ELSE {})
        /\ listens' = [listens EXCEPT ![c] =
               [phase |-> IF free(port) THEN "resolved" ELSE "rejected", port |-> port]]

(* Bun.serve throws for a port in use; workers share that of the gateway.  *)
(* The redirect server comes second: if its port is in use listen rejects  *)
(* with the gateway's server running.                                      *)
Serve(c, port, loaded) ==
    LET main   == Main(c, port, loaded)
        other  == Redirect(c, Tls.redirectPort, port)
        served == \/ serverConfig.process = "worker"
                  \/ port \notin taken /\ ~\E s \in sockets : s.port = port
        wants  == served /\ Tls.enabled /\ Tls.redirectHTTP
        starts == wants /\ other.port \notin {port} \cup taken
                        /\ ~\E s \in sockets : s.port = other.port
    IN  /\ server' = IF served THEN main ELSE server
        /\ managed' = (managed \/ wants)
        /\ redirector' = IF wants THEN (IF starts THEN other ELSE NoServer)
                         ELSE redirector
        /\ sockets' = sockets \cup (IF served THEN {main} ELSE {})
                              \cup (IF starts THEN {other} ELSE {})
        /\ listens' = [listens EXCEPT ![c] =
               [phase |-> IF served /\ (wants => starts) THEN "resolved" ELSE "rejected",
                port |-> port]]

(* listen, up to where it gives way: the cluster's master never returns,   *)
(* with TLS the certificates are read, without it all is done.             *)
Listen(c, port) ==
    /\ serverConfig # NoServer
    /\ listens[c].phase = "unused" /\ \A b \in 1..(c - 1) : listens[b].phase # "unused"
    /\ careless' = (careless \/ server # NoServer \/ UnderWay # {})
    /\ UNCHANGED <<serverConfig, taken, unreadable, redirected>>
    /\ \/ /\ serverConfig.process = "master"
          /\ SetListen(c, "master")
          /\ UNCHANGED <<tlsOptions, server, redirector, managed, sockets>>
       \/ /\ serverConfig.process # "master" /\ Tls.enabled
          /\ listens' = [listens EXCEPT ![c] =
                 [phase |-> IF Loads(Tls) THEN "loading" ELSE "rejected", port |-> port]]
          /\ tlsOptions' = IF Loads(Tls) THEN PartsGiven(Tls) ELSE tlsOptions
          /\ UNCHANGED <<server, redirector, managed, sockets>>
       \/ /\ serverConfig.process # "master" /\ ~Tls.enabled
          /\ Serve(c, port, {})
          /\ UNCHANGED tlsOptions

(* validateCertificates, which reads them again.                           *)
ValidateCertificates(c) ==
    /\ listens[c].phase = "loading"
    /\ tlsOptions' = IF Loads(Tls) THEN PartsGiven(Tls) ELSE tlsOptions
    /\ SetListen(c, IF Loads(Tls) /\ {"cert", "key"} \subseteq tlsOptions'
                    THEN "validating" ELSE "rejected")
    /\ UNCHANGED <<serverConfig, server, redirector, managed, sockets, taken,
                   unreadable, redirected, careless>>

ServeTls(c) ==
    /\ listens[c].phase = "validating"
    /\ Serve(c, listens[c].port, tlsOptions)
    /\ UNCHANGED <<serverConfig, tlsOptions, taken, unreadable, redirected, careless>>

(* Mutant: the redirect server is left running.                            *)
StoppedMainOnly == {server} \ {NoServer}

(* The servers close knows of; the redirect server through the manager.    *)
StoppedByClose ==
    IF managed THEN {server, redirector} \ {NoServer} ELSE {server} \ {NoServer}

(* In the master close leaves all to the cluster manager.                  *)
Close ==
    /\ serverConfig # NoServer
    /\ careless' = (careless \/ UnderWay # {})
    /\ UNCHANGED <<serverConfig, tlsOptions, listens, taken, unreadable, redirected>>
    /\ IF serverConfig.process = "master"
       THEN UNCHANGED <<server, redirector, managed, sockets>>
       ELSE /\ sockets' = sockets \ StoppedByClose
            /\ server' = NoServer /\ redirector' = NoServer /\ managed' = FALSE

-----------------------------------------------------------------------------
(* matchesAllowedHost.                                                     *)
MatchesAllowedHost(h, allowed) ==
    IF allowed.wild THEN h.domain = allowed.host.domain ELSE h = allowed.host

(* What the redirect server goes by: the hostname only without a list      *)
(* (an empty list, which refuses every host, is left out).                 *)
RedirectHostname == IF serverConfig.allowHosts # {} THEN NoServer
                    ELSE serverConfig.hostname
Redirects(h) ==
    IF RedirectHostname # NoServer THEN h = RedirectHostname
    ELSE \E a \in serverConfig.allowHosts : MatchesAllowedHost(h, a)

(* A request to it: 301 to the HTTPS port, or 400.                         *)
RedirectRequest(s, h) ==
    /\ s \in sockets /\ s.kind = "redirect"
    /\ redirected' = IF Redirects(h) THEN [host |-> h, port |-> s.leads] ELSE NoServer
    /\ UNCHANGED <<serverConfig, tlsOptions, listens, server, redirector, managed,
                   sockets, taken, unreadable, careless>>

(* Other processes take and leave ports, files come and go.                *)
PortChanges(p) ==
    /\ ~\E s \in sockets : s.port = p
    /\ taken' = IF p \in taken THEN taken \ {p} ELSE taken \cup {p}
    /\ UNCHANGED <<serverConfig, tlsOptions, listens, server, redirector, managed,
                   sockets, unreadable, redirected, careless>>
FileChanges(p) ==
    /\ unreadable' = IF p \in unreadable THEN unreadable \ {p} ELSE unreadable \cup {p}
    /\ UNCHANGED <<serverConfig, tlsOptions, listens, server, redirector, managed,
                   sockets, taken, redirected, careless>>

LifecycleNext ==
    \/ \E o \in ServerConfigs : BuildServer(o)
    \/ \E c \in ListenCalls, p \in Ports : Listen(c, p)
    \/ \E c \in ListenCalls : ValidateCertificates(c)
    \/ \E c \in ListenCalls : ServeTls(c)
    \/ Close
    \/ \E s \in sockets, h \in RequestHosts : RedirectRequest(s, h)
    \/ \E p \in Ports : PortChanges(p)
    \/ \E p \in Parts : FileChanges(p)

LifecycleSpec == LifecycleInit /\ [][LifecycleNext]_lifecycleVars

-----------------------------------------------------------------------------
(* The types of the variables.                                             *)
LifecycleTypeOK ==
    /\ serverConfig \in ServerConfigs \cup {NoServer}
    /\ tlsOptions = NoServer \/ tlsOptions \subseteq Parts
    /\ listens \in [ListenCalls -> ListenCall]
    /\ sockets \subseteq Servers /\ {server, redirector} \subseteq Servers \cup {NoServer}
    /\ managed \in BOOLEAN /\ careless \in BOOLEAN

(* close leaves nothing of the gateway listening, also after a listen that *)
(* rejected because only its redirect port was in use.  listen must not be *)
(* called over a running server, nor anything during a listen: the server  *)
(* that was overwritten, or that opens after the close, stays (careless).  *)
CloseStopsAll ==
    [][Close /\ serverConfig.process # "master" /\ ~careless' => sockets' = {}]_lifecycleVars

(* With TLS the gateway never answers in plain text, whatever happens to   *)
(* the files between the two readings: its server has a certificate and a  *)
(* key, and the authority it was to check clients with.  The redirect      *)
(* server sends only to a host it was told of, and only to the port of a   *)
(* server that is listening.                                               *)
TlsOrNothing ==
    /\ \A s \in sockets : s.kind = "main" /\ Tls.enabled =>
          /\ {"cert", "key"} \subseteq s.tls
          /\ Tls.requestCert => "ca" \in s.tls
    /\ ~careless => \A s \in sockets : s.kind = "redirect" =>
          \E m \in sockets : m.kind = "main" /\ m.port = s.leads /\ m.tls # {}
    /\ redirected # NoServer =>
          \/ redirected.host = serverConfig.hostname
          \/ \E a \in serverConfig.allowHosts :
                MatchesAllowedHost(redirected.host, a)

=============================================================================
