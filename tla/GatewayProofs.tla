---------------------------- MODULE GatewayProofs ----------------------------
(***************************************************************************)
(* What GatewayLifecycle promises of the sockets of a gateway, for any     *)
(* configurations, any ports and any number of calls of listen; and that   *)
(* side by side the parts of Gateway keep all that they promise alone.     *)
(***************************************************************************)
EXTENDS Gateway, JwtKeyRotationProofs, RequestPipelineProofs, ClientProofs,
        TLAPS

USE LifecycleAssumption

(* Nothing happens before the constructor has accepted a configuration,    *)
(* and it accepts none that the TLS manager finds fault with.              *)
BuiltFirst ==
    /\ serverConfig = NoServer =>
          sockets = {} /\ redirected = NoServer /\ UnderWay = {}
    /\ serverConfig # NoServer /\ Tls.enabled => TlsErrors(Tls) = {}

(* A listen under way has loaded all that the configuration gives.         *)
Loaded ==
    \A c \in UnderWay :
        listens[c].port \in Ports /\ Tls.enabled /\ tlsOptions = PartsGiven(Tls)

(* Without careless calls there is one listen under way at most, with no   *)
(* server yet, and every server is one that close knows of.                *)
Known ==
    ~careless =>
        /\ \A c, d \in UnderWay : c = d
        /\ UnderWay # {} => server = NoServer
        /\ server = NoServer => sockets = {}
        /\ \A s \in sockets : s = server \/ (managed /\ s = redirector)

(* The three parts of TlsOrNothing.                                        *)
Certified ==
    \A s \in sockets : s.kind = "main" /\ Tls.enabled =>
        /\ {"cert", "key"} \subseteq s.tls
        /\ Tls.requestCert => "ca" \in s.tls
Led ==
    ~careless => \A s \in sockets : s.kind = "redirect" =>
        \E m \in sockets : m.kind = "main" /\ m.port = s.leads /\ m.tls # {}
HostsTold ==
    redirected # NoServer =>
        \/ redirected.host = serverConfig.hostname
        \/ \E a \in serverConfig.allowHosts : MatchesAllowedHost(redirected.host, a)

LifecycleInv == /\ LifecycleTypeOK /\ BuiltFirst /\ Loaded /\ Known
                /\ Certified /\ Led /\ HostsTold

-----------------------------------------------------------------------------
(* The faults of a TLS configuration that matter to the server.            *)
LEMMA TlsFaults ==
    ASSUME NEW t
    PROVE  /\ t.cert = "none" => "cert" \in TlsErrors(t)
           /\ t.key = "none" => "key" \in TlsErrors(t)
           /\ t.requestCert /\ t.ca = "none" => "ca" \in TlsErrors(t)
<1>1. ASSUME t.cert = "none" PROVE "cert" \in TlsErrors(t)
  BY <1>1, SMT DEF TlsErrors
<1>2. ASSUME t.key = "none" PROVE "key" \in TlsErrors(t)
  BY <1>2, SMT DEF TlsErrors
<1>3. ASSUME t.requestCert, t.ca = "none" PROVE "ca" \in TlsErrors(t)
  BY <1>3, SMT DEF TlsErrors
<1> QED
  BY <1>1, <1>2, <1>3

(* What an accepted one gives.                                             *)
LEMMA AcceptedTls ==
    ASSUME NEW t, TlsErrors(t) = {}
    PROVE  {"cert", "key"} \subseteq PartsGiven(t) /\ (t.requestCert => "ca" \in PartsGiven(t))
<1>1. t.cert # "none" /\ t.key # "none" /\ (t.requestCert => t.ca # "none")
  BY TlsFaults
<1> QED
  BY <1>1 DEF PartsGiven, Parts

LEMMA ServeTypes ==
    ASSUME LifecycleTypeOK, serverConfig # NoServer,
           NEW c \in ListenCalls, NEW port \in Ports, NEW loaded \in SUBSET Parts,
           Serve(c, port, loaded)
    PROVE  /\ listens' \in [ListenCalls -> ListenCall] /\ managed' \in BOOLEAN
           /\ sockets' \subseteq Servers
           /\ {server', redirector'} \subseteq Servers \cup {NoServer}
<1>1. Tls.redirectPort \in Nat
  BY DEF Tls, LifecycleTypeOK, ServerConfig, TlsConfig
<1>2. Main(c, port, loaded) \in Servers /\ Redirect(c, Tls.redirectPort, port) \in Servers
  BY <1>1 DEF Main, Redirect, Servers
<1>3. [phase |-> "resolved", port |-> port] \in ListenCall
      /\ [phase |-> "rejected", port |-> port] \in ListenCall
  BY DEF ListenCall
<1> QED
  BY <1>2, <1>3 DEF Serve, LifecycleTypeOK

LEMMA LifecycleTypeStep ==
    LifecycleTypeOK /\ BuiltFirst /\ Loaded /\ [LifecycleNext]_lifecycleVars => LifecycleTypeOK'
<1> SUFFICES ASSUME LifecycleTypeOK, BuiltFirst, Loaded, [LifecycleNext]_lifecycleVars
             PROVE  LifecycleTypeOK'
  OBVIOUS
<1>1. ASSUME NEW o \in ServerConfigs, BuildServer(o) PROVE LifecycleTypeOK'
  BY <1>1 DEF BuildServer, LifecycleTypeOK
<1>2. ASSUME NEW c \in ListenCalls, NEW p \in Ports, Listen(c, p) PROVE LifecycleTypeOK'
  <2>1. CASE serverConfig.process # "master" /\ ~Tls.enabled /\ Serve(c, p, {})
             /\ UNCHANGED tlsOptions
    BY <1>2, <2>1, ServeTypes DEF Listen, LifecycleTypeOK
  <2>2. CASE ~(serverConfig.process # "master" /\ ~Tls.enabled /\ Serve(c, p, {})
               /\ UNCHANGED tlsOptions)
    BY <1>2, <2>2 DEF Listen, LifecycleTypeOK, SetListen, ListenCall, PartsGiven
  <2> QED
    BY <2>1, <2>2
<1>3. ASSUME NEW c \in ListenCalls, ValidateCertificates(c) PROVE LifecycleTypeOK'
  BY <1>3 DEF ValidateCertificates, LifecycleTypeOK, SetListen, ListenCall, PartsGiven
<1>4. ASSUME NEW c \in ListenCalls, ServeTls(c) PROVE LifecycleTypeOK'
  <2>1. c \in UnderWay /\ serverConfig # NoServer /\ listens[c].port \in Ports
    BY <1>4 DEF ServeTls, UnderWay, BuiltFirst, Loaded
  <2>2. tlsOptions \in SUBSET Parts
    BY <2>1 DEF Loaded, PartsGiven
  <2> QED
    BY <1>4, <2>1, <2>2, ServeTypes DEF ServeTls, LifecycleTypeOK
<1>5. CASE Close
  BY <1>5 DEF Close, LifecycleTypeOK
<1>6. ASSUME NEW s \in sockets, NEW h \in RequestHosts, RedirectRequest(s, h)
      PROVE  LifecycleTypeOK'
  BY <1>6 DEF RedirectRequest, LifecycleTypeOK
<1>7. ASSUME NEW p \in Ports, PortChanges(p) PROVE LifecycleTypeOK'
  BY <1>7 DEF PortChanges, LifecycleTypeOK
<1>8. ASSUME NEW p \in Parts, FileChanges(p) PROVE LifecycleTypeOK'
  BY <1>8 DEF FileChanges, LifecycleTypeOK
<1>9. CASE UNCHANGED lifecycleVars
  BY <1>9 DEF lifecycleVars, LifecycleTypeOK
<1> QED
  BY <1>1, <1>2, <1>3, <1>4, <1>5, <1>6, <1>7, <1>8, <1>9 DEF LifecycleNext

-----------------------------------------------------------------------------
(* What Serve may come to: the port is in use; the gateway's server runs;  *)
(* and the redirect server with it.                                        *)
LEMMA ServeOutcomes ==
    ASSUME NEW c \in ListenCalls, NEW port, NEW loaded, LifecycleTypeOK,
           Serve(c, port, loaded)
    PROVE  /\ UnderWay' = UnderWay \ {c}
           /\ \A d \in UnderWay' : listens'[d] = listens[d]
           /\ \/ UNCHANGED <<server, redirector, managed, sockets>>
              \/ /\ server' = Main(c, port, loaded)
                 /\ sockets' = sockets \cup {server'}
              \/ /\ server' = Main(c, port, loaded) /\ managed' /\ Tls.enabled
                 /\ redirector' = Redirect(c, Tls.redirectPort, port)
                 /\ sockets' = sockets \cup {server', redirector'}
<1>1. /\ \E ph \in {"resolved", "rejected"} :
            listens' = [listens EXCEPT ![c] = [phase |-> ph, port |-> port]]
      /\ listens \in [ListenCalls -> ListenCall]
  BY DEF Serve, LifecycleTypeOK
<1>2. /\ UnderWay' = UnderWay \ {c}
      /\ \A d \in UnderWay' : listens'[d] = listens[d]
  BY <1>1 DEF UnderWay
<1>3. \/ UNCHANGED <<server, redirector, managed, sockets>>
      \/ /\ server' = Main(c, port, loaded)
         /\ sockets' = sockets \cup {server'}
      \/ /\ server' = Main(c, port, loaded) /\ managed' /\ Tls.enabled
         /\ redirector' = Redirect(c, Tls.redirectPort, port)
         /\ sockets' = sockets \cup {server', redirector'}
  <2> DEFINE main   == Main(c, port, loaded)
             other  == Redirect(c, Tls.redirectPort, port)
             served == \/ serverConfig.process = "worker"
                       \/ port \notin taken /\ ~\E s \in sockets : s.port = port
             wants  == served /\ Tls.enabled /\ Tls.redirectHTTP
             starts == wants /\ other.port \notin {port} \cup taken
                             /\ ~\E s \in sockets : s.port = other.port
  <2>1. /\ server' = IF served THEN main ELSE server
        /\ managed' = (managed \/ wants)
        /\ redirector' = IF wants THEN (IF starts THEN other ELSE NoServer)
                         ELSE redirector
        /\ sockets' = sockets \cup (IF served THEN {main} ELSE {})
                              \cup (IF starts THEN {other} ELSE {})
    BY DEF Serve
  <2>2. managed \in BOOLEAN /\ (starts => wants /\ served /\ Tls.enabled) /\ (wants => served)
    BY DEF LifecycleTypeOK
  <2> HIDE DEF main, other, served, wants, starts
  <2>3. CASE starts
    BY <2>1, <2>2, <2>3 DEF main, other
  <2>4. CASE ~starts /\ served
    BY <2>1, <2>2, <2>4 DEF main
  <2>5. CASE ~served
    BY <2>1, <2>2, <2>5
  <2> QED
    BY <2>3, <2>4, <2>5
<1> QED
  BY <1>2, <1>3

(* The invariant holds of the servers that Serve adds to none, and, as far *)
(* as it speaks of careless programs, of those it adds to any.             *)
LEMMA ServeStep ==
    ASSUME NEW c \in ListenCalls, NEW port \in Ports, NEW loaded \in SUBSET Parts,
           LifecycleInv, serverConfig # NoServer, UNCHANGED serverConfig,
           Tls.enabled => loaded = PartsGiven(Tls),
           ~careless' => ~careless /\ server = NoServer /\ UnderWay \subseteq {c},
           Serve(c, port, loaded)
    PROVE  Known' /\ Certified' /\ Led'
<1> DEFINE main == Main(c, port, loaded)
           other == Redirect(c, Tls.redirectPort, port)
<1> USE DEF LifecycleInv
<1>0. /\ main.kind = "main" /\ main.tls = loaded /\ main.port = port
      /\ other.kind = "redirect" /\ other.leads = port
  BY DEF Main, Redirect
<1>1. main \in Servers
  BY DEF Main, Servers
<1>2. Tls' = Tls
  BY DEF Tls
<1>3. Tls.enabled => {"cert", "key"} \subseteq loaded
                     /\ (Tls.requestCert => "ca" \in loaded)
  BY AcceptedTls DEF BuiltFirst
<1>4. /\ UnderWay' = UnderWay \ {c}
      /\ \/ UNCHANGED <<server, redirector, managed, sockets>>
         \/ server' = main /\ sockets' = sockets \cup {main}
         \/ /\ server' = main /\ managed' /\ Tls.enabled
            /\ redirector' = other /\ sockets' = sockets \cup {main, other}
  BY ServeOutcomes
<1>5. Certified'
  <2>1. sockets' \subseteq sockets \cup {main, other}
    BY <1>4
  <2> QED
    BY <1>0, <1>2, <1>3, <2>1 DEF Certified
<1>6. CASE careless'
  BY <1>5, <1>6 DEF Known, Led
<1>7. CASE ~careless'
  <2>1. ~careless /\ server = NoServer /\ sockets = {} /\ UnderWay' = {}
    BY <1>4, <1>7 DEF Known
  <2>2. Known'
    <3>1. main # NoServer
      BY <1>1
    <3>2. server' = NoServer => sockets' = {}
      BY <1>4, <2>1, <3>1
    <3>3. \A s \in sockets' : s = server' \/ (managed' /\ s = redirector')
      BY <1>4, <2>1
    <3> QED
      BY <2>1, <3>2, <3>3 DEF Known
  <2>3. Led'
    BY <1>0, <1>3, <1>4, <2>1 DEF Led
  <2> QED
    BY <1>5, <2>2, <2>3
<1> QED
  BY <1>6, <1>7

(* The rest of the invariant, whose parts Serve does not disturb.          *)
LEMMA LifecycleStep ==
    LifecycleInv /\ [LifecycleNext]_lifecycleVars => LifecycleInv'
<1> SUFFICES ASSUME LifecycleInv, [LifecycleNext]_lifecycleVars PROVE LifecycleInv'
  OBVIOUS
<1> USE DEF LifecycleInv
<1>0. LifecycleTypeOK'
  BY LifecycleTypeStep
<1>1. ASSUME NEW o \in ServerConfigs, BuildServer(o) PROVE LifecycleInv'
  <2>1. /\ sockets' = {} /\ redirected' = NoServer /\ UnderWay' = {}
        /\ serverConfig' = o /\ serverConfig' # NoServer
    BY <1>1 DEF BuildServer, BuiltFirst, UnderWay
  <2>2. BuiltFirst'
    BY <1>1, <2>1 DEF BuildServer, BuiltFirst, Tls
  <2> QED
    BY <1>0, <2>1, <2>2 DEF Loaded, Known, Certified, Led, HostsTold
<1>2. ASSUME NEW c \in ListenCalls, NEW p \in Ports, Listen(c, p) PROVE LifecycleInv'
  <2>1. /\ UNCHANGED <<serverConfig, redirected>> /\ serverConfig # NoServer
        /\ Tls' = Tls /\ c \notin UnderWay
        /\ ~careless' => ~careless /\ server = NoServer /\ UnderWay = {}
    BY <1>2 DEF Listen, Tls, UnderWay, LifecycleTypeOK
  <2>2. BuiltFirst' /\ HostsTold'
    BY <2>1 DEF BuiltFirst, HostsTold
  <2>3. CASE serverConfig.process = "master" /\ SetListen(c, "master")
             /\ UNCHANGED <<tlsOptions, server, redirector, managed, sockets>>
    <3>1. UnderWay' = UnderWay /\ \A d \in UnderWay' : listens'[d] = listens[d]
      BY <2>1, <2>3 DEF SetListen, UnderWay, LifecycleTypeOK
    <3> QED
      BY <1>0, <2>1, <2>2, <2>3, <3>1 DEF Loaded, Known, Certified, Led, PartsGiven
  <2>4. CASE /\ Tls.enabled
             /\ listens' = [listens EXCEPT ![c] =
                    [phase |-> IF Loads(Tls) THEN "loading" ELSE "rejected", port |-> p]]
             /\ tlsOptions' = IF Loads(Tls) THEN PartsGiven(Tls) ELSE tlsOptions
             /\ UNCHANGED <<server, redirector, managed, sockets>>
    <3>1. /\ UnderWay' \subseteq UnderWay \cup {c}
          /\ \A d \in UnderWay' \ {c} : listens'[d] = listens[d]
          /\ c \in UnderWay' => Loads(Tls) /\ listens'[c].port = p
      BY <2>4 DEF UnderWay, LifecycleTypeOK
    <3>2. Loaded'
      BY <2>1, <2>4, <3>1 DEF Loaded, PartsGiven
    <3> QED
      BY <1>0, <2>1, <2>2, <2>4, <3>1, <3>2 DEF Known, Certified, Led
  <2>5. CASE ~Tls.enabled /\ Serve(c, p, {}) /\ UNCHANGED tlsOptions
    <3>1. UnderWay' = UnderWay \ {c} /\ \A d \in UnderWay' : listens'[d] = listens[d]
      BY <2>5, ServeOutcomes
    <3>2. Loaded'
      BY <2>1, <2>5, <3>1 DEF Loaded, PartsGiven
    <3>3. Known' /\ Certified' /\ Led'
      BY <2>1, <2>5, ServeStep
    <3> QED
      BY <1>0, <2>2, <3>2, <3>3
  <2> QED
    BY <1>2, <2>3, <2>4, <2>5 DEF Listen
<1>3. ASSUME NEW c \in ListenCalls, ValidateCertificates(c) PROVE LifecycleInv'
  <2>1. /\ UNCHANGED <<serverConfig, server, redirector, managed, sockets, redirected,
                       careless>>
        /\ Tls' = Tls /\ c \in UnderWay
        /\ tlsOptions' = IF Loads(Tls) THEN PartsGiven(Tls) ELSE tlsOptions
    BY <1>3 DEF ValidateCertificates, Tls, UnderWay
  <2>2. /\ UnderWay' \subseteq UnderWay
        /\ \A d \in UnderWay' : listens'[d].port = listens[d].port
    BY <1>3 DEF ValidateCertificates, SetListen, UnderWay, LifecycleTypeOK
  <2>3. Loaded'
    BY <2>1, <2>2 DEF Loaded, PartsGiven
  <2> QED
    BY <1>0, <2>1, <2>2, <2>3 DEF BuiltFirst, Known, Certified, Led, HostsTold
<1>4. ASSUME NEW c \in ListenCalls, ServeTls(c) PROVE LifecycleInv'
  <2>1. /\ UNCHANGED <<serverConfig, tlsOptions, redirected, careless>>
        /\ Tls' = Tls /\ c \in UnderWay /\ Serve(c, listens[c].port, tlsOptions)
    BY <1>4 DEF ServeTls, Tls, UnderWay
  <2>2. /\ listens[c].port \in Ports /\ Tls.enabled /\ serverConfig # NoServer
        /\ tlsOptions = PartsGiven(Tls) /\ tlsOptions \in SUBSET Parts
    BY <2>1 DEF Loaded, PartsGiven, BuiltFirst
  <2>3. ~careless' => ~careless /\ server = NoServer /\ UnderWay \subseteq {c}
    BY <2>1 DEF Known
  <2>4. Known' /\ Certified' /\ Led'
    BY <2>1, <2>2, <2>3, ServeStep
  <2>5. UnderWay' = UnderWay \ {c} /\ \A d \in UnderWay' : listens'[d] = listens[d]
    BY <2>1, ServeOutcomes
  <2> QED
    BY <1>0, <2>1, <2>2, <2>4, <2>5 DEF BuiltFirst, Loaded, HostsTold, PartsGiven
<1>5. CASE Close
  <2>1. /\ UNCHANGED <<serverConfig, tlsOptions, listens, redirected>>
        /\ Tls' = Tls /\ serverConfig # NoServer
        /\ UnderWay' = UnderWay
        /\ ~careless' => ~careless /\ UnderWay = {}
    BY <1>5 DEF Close, Tls, UnderWay, LifecycleTypeOK
  <2>2. BuiltFirst' /\ Loaded' /\ HostsTold'
    BY <2>1 DEF BuiltFirst, Loaded, HostsTold, PartsGiven
  <2>3. CASE UNCHANGED <<server, redirector, managed, sockets>>
    BY <1>0, <2>1, <2>2, <2>3 DEF Known, Certified, Led
  <2>4. CASE sockets' = sockets \ StoppedByClose /\ server' = NoServer
    <3>1. ~careless' => sockets' = {}
      BY <2>1, <2>4 DEF StoppedByClose, Known, LifecycleTypeOK
    <3> QED
      BY <1>0, <2>1, <2>2, <2>4, <3>1 DEF Known, Certified, Led
  <2> QED
    BY <1>5, <2>3, <2>4 DEF Close
<1>6. ASSUME NEW s \in sockets, NEW h \in RequestHosts, RedirectRequest(s, h)
      PROVE  LifecycleInv'
  <2>1. /\ UNCHANGED <<serverConfig, tlsOptions, listens, server, redirector, managed,
                       sockets, careless>>
        /\ Tls' = Tls /\ UnderWay' = UnderWay /\ serverConfig # NoServer
    BY <1>6 DEF RedirectRequest, Tls, UnderWay, BuiltFirst
  <2>2. HostsTold'
    BY <1>6, <2>1 DEF RedirectRequest, HostsTold, Redirects, RedirectHostname
  <2> QED
    BY <1>0, <2>1, <2>2 DEF BuiltFirst, Loaded, Known, Certified, Led, PartsGiven
<1>7. CASE UNCHANGED <<serverConfig, tlsOptions, listens, server, redirector, managed,
                       sockets, redirected, careless>>
  <2>1. Tls' = Tls /\ UnderWay' = UnderWay
    BY <1>7 DEF Tls, UnderWay
  <2> QED
    BY <1>0, <1>7, <2>1 DEF BuiltFirst, Loaded, Known, Certified, Led, HostsTold,
       PartsGiven
<1> QED
  BY <1>1, <1>2, <1>3, <1>4, <1>5, <1>6, <1>7
     DEF LifecycleNext, PortChanges, FileChanges, lifecycleVars

LEMMA LifecycleInvariant == LifecycleSpec => []LifecycleInv
<1>1. LifecycleInit => LifecycleInv
  <2> SUFFICES ASSUME LifecycleInit PROVE LifecycleInv
    OBVIOUS
  <2>1. LifecycleTypeOK /\ UnderWay = {}
    BY DEF LifecycleInit, LifecycleTypeOK, UnderWay, UnusedCall, ListenCall
  <2> QED
    BY <2>1 DEF LifecycleInit, LifecycleInv, BuiltFirst, Loaded, Known, Certified,
       Led, HostsTold
<1> QED
  BY <1>1, LifecycleStep, PTL DEF LifecycleSpec

-----------------------------------------------------------------------------
(* The types of the variables of a gateway's life.                         *)
THEOREM LifecycleTypes == LifecycleSpec => []LifecycleTypeOK
BY LifecycleInvariant, PTL DEF LifecycleInv

(* With TLS nothing is ever served in plain text, and the redirect server  *)
(* leads only to a server that listens and to hosts it was told of.        *)
THEOREM TlsOrNothingHolds == LifecycleSpec => []TlsOrNothing
<1>1. LifecycleInv => TlsOrNothing
  BY DEF LifecycleInv, Certified, Led, HostsTold, TlsOrNothing
<1> QED
  BY <1>1, LifecycleInvariant, PTL

(* close stops every server of a program that calls listen and close one   *)
(* after the other, whichever listen has failed halfway before.            *)
THEOREM CloseStopsAllHolds == LifecycleSpec => CloseStopsAll
<1> DEFINE Stops == Close /\ serverConfig.process # "master" /\ ~careless' => sockets' = {}
<1>1. LifecycleInv => Stops
  <2> SUFFICES ASSUME LifecycleInv, Close, serverConfig.process # "master", ~careless'
               PROVE  sockets' = {}
    OBVIOUS
  <2> QED
    BY DEF LifecycleInv, Close, StoppedByClose, Known, LifecycleTypeOK
<1>2. LifecycleInv /\ [LifecycleNext]_lifecycleVars => [Stops]_lifecycleVars
  BY <1>1
<1> QED
  BY <1>2, LifecycleInvariant, PTL DEF LifecycleSpec, CloseStopsAll

-----------------------------------------------------------------------------
(* A step of the gateway is a step of one part, and leaves the variables   *)
(* of every other part alone.                                              *)
LEMMA StepOfPart ==
  [GatewayNext]_gatewayVars => /\ [KeysNext]_keysVars /\ [SessionsNext]_sessVars
                               /\ [PipelineNext]_pipelineVars /\ [TrustNext]_trustVars
                               /\ [LifecycleNext]_lifecycleVars
BY DEF GatewayNext, KeysMove, SessionsMove, RequestsMove, AddressesMove, LifecycleMove,
       gatewayVars

(* So each part behaves in the gateway as it does alone.                   *)
LEMMA PartsAlone ==
    GatewaySpec => /\ KeysSpec /\ SessionsSpec /\ PipelineSpec
                   /\ TrustSpec /\ LifecycleSpec
<1>1. GatewayInit => /\ KeysInit /\ SessionsInit /\ PipelineInit
                     /\ TrustInit /\ LifecycleInit
  BY DEF GatewayInit
<1> QED
  BY <1>1, StepOfPart, PTL
     DEF GatewaySpec, KeysSpec, SessionsSpec, PipelineSpec, TrustSpec, LifecycleSpec

(* The types of all five parts, whichever of them move.                    *)
THEOREM GatewayTypes == GatewaySpec => []TypeOK
BY PartsAlone, KeysTypes, SessionsTypes, PipelineTypes, TrustTypes,
   LifecycleTypes, PTL DEF TypeOK

=============================================================================
