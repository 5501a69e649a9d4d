----------------------- MODULE RequestPipelineProofs -----------------------
(***************************************************************************)
(* The chain of stages lets nothing through unchecked, and its answers are *)
(* sound, for every set of configurations, requests and headers.           *)
(***************************************************************************)
EXTENDS RequestPipeline, WellFoundedInduction, TLAPS

Methods == {"GET", "POST", "OPTIONS"}
Stages  == GlobalStages \cup RouteStages \cup {"size", "errors", "cors", "handler", "default"}

(* The place of each stage in the order of registration.                   *)
Rank(s) == IF s = "rateLimit" THEN 1
           ELSE IF s = "size" THEN 2
           ELSE IF s = "validation" THEN 3
           ELSE IF s = "headers" THEN 4
           ELSE IF s = "auth" THEN 5
           ELSE IF s = "bodyParser" THEN 6
           ELSE IF s = "errors" THEN 7
           ELSE IF s = "cors" THEN 8
           ELSE IF s = "routeAuth" THEN 9
           ELSE IF s = "routeRateLimit" THEN 10
           ELSE IF s = "middleware" THEN 11
           ELSE 12

(* The sequence c holds exactly the stages of S, in this order.            *)
Built(c, S) ==
    /\ c \in Seq(S)
    /\ \A s \in S : \E i \in 1..Len(c) : c[i] = s
    /\ \A i, j \in 1..Len(c) : i < j => Rank(c[i]) < Rank(c[j])

-----------------------------------------------------------------------------
LEMMA BuiltConcat ==
  ASSUME NEW c, NEW S, NEW d, NEW T, Built(c, S), Built(d, T),
         \A s \in S, t \in T : Rank(s) < Rank(t)
  PROVE  Built(c \o d, S \cup T)
<1> DEFINE e == c \o d
<1>1. /\ c \in Seq(S) /\ d \in Seq(T) /\ Len(c) \in Nat /\ Len(d) \in Nat
      /\ \A i \in 1..Len(c) : c[i] \in S
      /\ \A i \in 1..Len(d) : d[i] \in T
  BY DEF Built
<1>2. /\ e \in Seq(S \cup T) /\ Len(e) = Len(c) + Len(d)
      /\ \A i \in 1..Len(e) : e[i] = IF i <= Len(c) THEN c[i] ELSE d[i - Len(c)]
  <2>1. c \in Seq(S \cup T) /\ d \in Seq(S \cup T)
    BY <1>1
  <2> QED BY <1>1, <2>1
<1> HIDE DEF e
<1>3. ASSUME NEW s \in S \cup T PROVE \E i \in 1..Len(e) : e[i] = s
  <2>1. CASE s \in S
    <3>1. PICK i \in 1..Len(c) : c[i] = s
      BY <2>1 DEF Built
    <3> QED BY <1>1, <1>2, <3>1
  <2>2. CASE s \in T
    <3>1. PICK i \in 1..Len(d) : d[i] = s
      BY <2>2 DEF Built
    <3>2. /\ i + Len(c) \in 1..Len(e) /\ ~(i + Len(c) <= Len(c))
          /\ (i + Len(c)) - Len(c) = i
      BY <1>1, <1>2
    <3>3. e[i + Len(c)] = d[(i + Len(c)) - Len(c)]
      BY <1>2, <3>2
    <3> QED BY <3>1, <3>2, <3>3
  <2> QED BY <2>1, <2>2
<1>4. ASSUME NEW i \in 1..Len(e), NEW j \in 1..Len(e), i < j
      PROVE  Rank(e[i]) < Rank(e[j])
  <2>1. CASE j <= Len(c)
    <3>1. i \in 1..Len(c) /\ j \in 1..Len(c) /\ e[i] = c[i] /\ e[j] = c[j]
      BY <1>1, <1>2, <1>4, <2>1
    <3> QED BY <1>4, <3>1 DEF Built
  <2>2. CASE i > Len(c)
    <3>1. /\ i - Len(c) \in 1..Len(d) /\ j - Len(c) \in 1..Len(d)
          /\ e[i] = d[i - Len(c)] /\ e[j] = d[j - Len(c)] /\ i - Len(c) < j - Len(c)
      BY <1>1, <1>2, <1>4, <2>2
    <3> QED BY <3>1 DEF Built
  <2>3. CASE i <= Len(c) /\ j > Len(c)
    <3>1. e[i] \in S /\ e[j] \in T
      BY <1>1, <1>2, <2>3
    <3> QED BY <3>1
  <2> QED BY <1>1, <2>1, <2>2, <2>3
<1> QED BY <1>2, <1>3, <1>4 DEF Built, e

LEMMA BuiltRegistered ==
  ASSUME NEW on, NEW s
  PROVE  Built(Registered(on, s), {s} \cap on)
<1>1. CASE s \in on
  <2>1. Registered(on, s) = <<s>> /\ {s} \cap on = {s}
    BY <1>1 DEF Registered
  <2>2. Built(<<s>>, {s})
    BY DEF Built
  <2> QED BY <2>1, <2>2
<1>2. CASE s \notin on
  <2>1. Registered(on, s) = <<>> /\ {s} \cap on = {}
    BY <1>2 DEF Registered
  <2>2. Built(<<>>, {})
    BY DEF Built
  <2> QED BY <2>1, <2>2
<1> QED BY <1>1, <1>2

LEMMA BuiltNext ==
  ASSUME NEW on, NEW c, NEW S, NEW T, NEW s, Built(c, S \cap on),
         T = S \cup {s}, \A t \in S : Rank(t) < Rank(s)
  PROVE  Built(c \o Registered(on, s), T \cap on)
<1>1. Built(c \o Registered(on, s), (S \cap on) \cup ({s} \cap on))
  BY BuiltConcat, BuiltRegistered
<1>2. (S \cap on) \cup ({s} \cap on) = T \cap on
  OBVIOUS
<1> QED BY <1>1, <1>2
(* The two parts of a chain.                                               *)
LEMMA GlobalBuilt ==
  ASSUME NEW o \in GatewayConfig
  PROVE  Built(GlobalChain(o), GlobalOn(o))
<1> DEFINE on == GlobalOn(o)
<1>1. on \subseteq {"rateLimit", "size", "validation", "headers", "auth",
                    "bodyParser", "errors"}
  BY DEF GlobalOn, GatewayConfig, GlobalStages
<1>2. GlobalChain(o) = Registered(on, "rateLimit") \o Registered(on, "size")
          \o Registered(on, "validation") \o Registered(on, "headers")
          \o Registered(on, "auth") \o Registered(on, "bodyParser")
          \o Registered(on, "errors")
  BY DEF GlobalChain
<1> HIDE DEF on
<1> DEFINE c1 == Registered(on, "rateLimit")
           c2 == c1 \o Registered(on, "size")
           c3 == c2 \o Registered(on, "validation")
           c4 == c3 \o Registered(on, "headers")
           c5 == c4 \o Registered(on, "auth")
           c6 == c5 \o Registered(on, "bodyParser")
           c7 == c6 \o Registered(on, "errors")
<1>3. GlobalChain(o) = c7
  BY <1>2
<1>a1. Built(c1, {"rateLimit"} \cap on)
  BY BuiltRegistered
<1> HIDE DEF c1
<1>a2. Built(c2, {"rateLimit", "size"} \cap on)
  <2>1. \A t \in {"rateLimit"} : Rank(t) < Rank("size")
    BY DEF Rank
  <2>2. {"rateLimit", "size"} = {"rateLimit"} \cup {"size"}
    OBVIOUS
  <2> QED BY <1>a1, <2>1, <2>2, BuiltNext
<1> HIDE DEF c2
<1>a3. Built(c3, {"rateLimit", "size", "validation"} \cap on)
  <2>1. \A t \in {"rateLimit", "size"} : Rank(t) < Rank("validation")
    BY DEF Rank
  <2>2. {"rateLimit", "size", "validation"} = {"rateLimit", "size"} \cup {"validation"}
    OBVIOUS
  <2> QED BY <1>a2, <2>1, <2>2, BuiltNext
<1> HIDE DEF c3
<1>a4. Built(c4, {"rateLimit", "size", "validation", "headers"} \cap on)
  <2>1. \A t \in {"rateLimit", "size", "validation"} : Rank(t) < Rank("headers")
    BY DEF Rank
  <2>2. {"rateLimit", "size", "validation", "headers"} = {"rateLimit", "size", "validation"} \cup {"headers"}
    OBVIOUS
  <2> QED BY <1>a3, <2>1, <2>2, BuiltNext
<1> HIDE DEF c4
<1>a5. Built(c5, {"rateLimit", "size", "validation", "headers", "auth"} \cap on)
  <2>1. \A t \in {"rateLimit", "size", "validation", "headers"} : Rank(t) < Rank("auth")
    BY DEF Rank
  <2>2. {"rateLimit", "size", "validation", "headers", "auth"} = {"rateLimit", "size", "validation", "headers"} \cup {"auth"}
    OBVIOUS
  <2> QED BY <1>a4, <2>1, <2>2, BuiltNext
<1> HIDE DEF c5
<1>a6. Built(c6, {"rateLimit", "size", "validation", "headers", "auth", "bodyParser"} \cap on)
  <2>1. \A t \in {"rateLimit", "size", "validation", "headers", "auth"} : Rank(t) < Rank("bodyParser")
    BY DEF Rank
  <2>2. {"rateLimit", "size", "validation", "headers", "auth", "bodyParser"} = {"rateLimit", "size", "validation", "headers", "auth"} \cup {"bodyParser"}
    OBVIOUS
  <2> QED BY <1>a5, <2>1, <2>2, BuiltNext
<1> HIDE DEF c6
<1>a7. Built(c7, {"rateLimit", "size", "validation", "headers", "auth", "bodyParser", "errors"} \cap on)
  <2>1. \A t \in {"rateLimit", "size", "validation", "headers", "auth", "bodyParser"} : Rank(t) < Rank("errors")
    BY DEF Rank
  <2>2. {"rateLimit", "size", "validation", "headers", "auth", "bodyParser", "errors"} = {"rateLimit", "size", "validation", "headers", "auth", "bodyParser"} \cup {"errors"}
    OBVIOUS
  <2> QED BY <1>a6, <2>1, <2>2, BuiltNext
<1> HIDE DEF c7
<1>4. {"rateLimit", "size", "validation", "headers", "auth", "bodyParser", "errors"} \cap on = on
  BY <1>1
<1> QED BY <1>3, <1>4, <1>a7 DEF on

LEMMA RouteBuilt ==
  ASSUME NEW o \in GatewayConfig, NEW r \in RouteConfig
  PROVE  Built(RouteChain(o, r), RouteOn(o, r))
<1> DEFINE on == RouteOn(o, r)
<1>1. on \subseteq {"cors", "routeAuth", "routeRateLimit", "middleware", "handler"}
  BY DEF RouteOn, RouteConfig, RouteStages
<1> DEFINE c1 == Registered(on, "cors")
           c2 == c1 \o Registered(on, "routeAuth")
           c3 == c2 \o Registered(on, "routeRateLimit")
           c4 == c3 \o Registered(on, "middleware")
           c5 == c4 \o Registered(on, "handler")
<1>3. RouteChain(o, r) = c5
  BY DEF RouteChain
<1> HIDE DEF on
<1>a1. Built(c1, {"cors"} \cap on)
  BY BuiltRegistered
<1> HIDE DEF c1
<1>a2. Built(c2, {"cors", "routeAuth"} \cap on)
  <2>1. \A t \in {"cors"} : Rank(t) < Rank("routeAuth")
    BY DEF Rank
  <2>2. {"cors", "routeAuth"} = {"cors"} \cup {"routeAuth"}
    OBVIOUS
  <2> QED BY <1>a1, <2>1, <2>2, BuiltNext
<1> HIDE DEF c2
<1>a3. Built(c3, {"cors", "routeAuth", "routeRateLimit"} \cap on)
  <2>1. \A t \in {"cors", "routeAuth"} : Rank(t) < Rank("routeRateLimit")
    BY DEF Rank
  <2>2. {"cors", "routeAuth", "routeRateLimit"} = {"cors", "routeAuth"} \cup {"routeRateLimit"}
    OBVIOUS
  <2> QED BY <1>a2, <2>1, <2>2, BuiltNext
<1> HIDE DEF c3
<1>a4. Built(c4, {"cors", "routeAuth", "routeRateLimit", "middleware"} \cap on)
  <2>1. \A t \in {"cors", "routeAuth", "routeRateLimit"} : Rank(t) < Rank("middleware")
    BY DEF Rank
  <2>2. {"cors", "routeAuth", "routeRateLimit", "middleware"} = {"cors", "routeAuth", "routeRateLimit"} \cup {"middleware"}
    OBVIOUS
  <2> QED BY <1>a3, <2>1, <2>2, BuiltNext
<1> HIDE DEF c4
<1>a5. Built(c5, {"cors", "routeAuth", "routeRateLimit", "middleware", "handler"} \cap on)
  <2>1. \A t \in {"cors", "routeAuth", "routeRateLimit", "middleware"} : Rank(t) < Rank("handler")
    BY DEF Rank
  <2>2. {"cors", "routeAuth", "routeRateLimit", "middleware", "handler"} = {"cors", "routeAuth", "routeRateLimit", "middleware"} \cup {"handler"}
    OBVIOUS
  <2> QED BY <1>a4, <2>1, <2>2, BuiltNext
<1> HIDE DEF c5
<1>4. {"cors", "routeAuth", "routeRateLimit", "middleware", "handler"} \cap on = on
  BY <1>1
<1> QED BY <1>3, <1>4, <1>a5 DEF on

(* What is built for a request: a route's stages or the default route.     *)
ChainBuilt(c, o, r) ==
    \/ Built(c, GlobalOn(o) \cup RouteOn(o, r))
    \/ Built(c, GlobalOn(o) \cup {"default"})

LEMMA WholeBuilt ==
  ASSUME NEW o \in GatewayConfig, NEW r \in RouteConfig, NEW b \in BOOLEAN
  PROVE  ChainBuilt(GlobalChain(o) \o (IF b THEN RouteChain(o, r) ELSE <<"default">>), o, r)
<1>1. \A s \in GlobalOn(o) : Rank(s) <= 7
  BY DEF GlobalOn, GatewayConfig, GlobalStages, Rank
<1>2. \A s \in RouteOn(o, r) \cup {"default"} : Rank(s) > 7
  BY DEF RouteOn, RouteConfig, RouteStages, Rank
<1>3. \A s : Rank(s) \in Nat
  BY DEF Rank
<1>4. Built(<<"default">>, {"default"})
  BY DEF Built
<1>5. \A s \in GlobalOn(o), t \in RouteOn(o, r) \cup {"default"} : Rank(s) < Rank(t)
  BY <1>1, <1>2, <1>3
<1>6. Built(GlobalChain(o) \o RouteChain(o, r), GlobalOn(o) \cup RouteOn(o, r))
  BY <1>5, GlobalBuilt, RouteBuilt, BuiltConcat
<1>7. Built(GlobalChain(o) \o <<"default">>, GlobalOn(o) \cup {"default"})
  BY <1>4, <1>5, GlobalBuilt, BuiltConcat
<1> QED BY <1>6, <1>7 DEF ChainBuilt

-----------------------------------------------------------------------------
(* The inductive invariant.  First the types, to their last part.          *)
Requests ==
    [method : Methods, exceeded : RequestSizes \cup {Unseen},
     input : RequestInputs \cup {Unseen}, credentials : Credentials \cup {Unseen},
     headers : ClientHeaders \cup {Unseen}, excused : SUBSET Stages]

Typed ==
    /\ gatewayConfig \in GatewayConfigs \cup {Nothing}
    /\ routeConfig \in RouteConfigs \cup {Nothing}
    /\ fate \in {"idle", "inward", "serve", "after", "catch", "outward",
                 "answered", "rejected"}
    /\ request \in Requests
    /\ response \in Answers \cup {Nothing} /\ failure \in Failures \cup {Nothing}
    /\ reached \in BOOLEAN /\ told \in BOOLEAN
    /\ fate # "idle" => gatewayConfig # Nothing /\ routeConfig # Nothing

(* Before the first request there is nothing to say.                       *)
Untouched ==
    fate = "idle" => /\ passed = {} /\ reached = FALSE /\ upstream = Nothing
                     /\ response = Nothing /\ failure = Nothing

(* The request is at a stage of a chain that was built as it should be;    *)
(* the stages before it have let it through, and on the way in no others.  *)
Going == fate \in {"inward", "serve", "after", "catch"}
Behind == {chain[i] : i \in 1..(position - 1)}

Placed ==
    fate # "idle" =>
        /\ ChainBuilt(chain, gatewayConfig, routeConfig)
        /\ position \in 1..Len(chain)
        /\ passed \subseteq {chain[i] : i \in 1..Len(chain)}
        /\ Behind \subseteq passed
        /\ Going => passed \subseteq Behind
        /\ fate \in {"serve", "after", "catch"} => Stage = "handler"

(* What a stage that has let the request through knows of it.              *)
Examined ==
    /\ "size" \in passed =>
          /\ request.exceeded # Unseen
          /\ SizeErrors(request.method, request.exceeded) = {}
    /\ "validation" \in passed =>
          /\ request.input # Unseen
          /\ request.input.layers <= DecodeBudget
          /\ request.input.faults = {}
    /\ "auth" \in passed => Checked("auth", gatewayConfig.auth)
    /\ "routeAuth" \in passed => Checked("routeAuth", routeConfig.auth)

(* Code of the route comes after every stage that is configured before it. *)
Guarded ==
    /\ reached =>
          /\ "size" \in passed
          /\ {"rateLimit", "validation", "auth"} \cap gatewayConfig.stages \subseteq passed
          /\ {"routeAuth", "routeRateLimit"} \cap routeConfig.stages \subseteq passed
    /\ upstream # Nothing =>
          /\ routeConfig # Nothing /\ request.headers # Unseen
          /\ upstream = Forwarded(request.headers[1], request.headers[2],
                                  routeConfig.headers)

(* What is known of the answer and of the failure at each step.            *)
HeadersDue == "headers" \in passed /\ "headers" \notin Behind

Answering ==
    /\ fate \in {"inward", "serve"} => response = Nothing /\ failure = Nothing
    /\ fate = "after" => response # Nothing /\ failure = Nothing /\ response.headed = FALSE
    /\ fate = "catch" => response = Nothing /\ failure # Nothing /\ failure # Unanswerable
    /\ fate = "outward" =>
          /\ response # Nothing => (response.headed = TRUE <=> HeadersDue)
          /\ response = Nothing =>
                /\ failure # Nothing
                /\ Repaired => "errors" \in Behind
                /\ failure = Unanswerable => "errors" \notin Behind
          /\ failure # Nothing /\ response # Nothing =>
                Repaired /\ (response.status >= 400 \/ response.status = failure.given)
          /\ failure # Nothing /\ Stage = "handler" => (Hooked("onError") => told)
    /\ fate = "answered" => response # Nothing
    /\ response # Nothing /\ response.text = "own" => gatewayConfig.used = "development"

PipelineInv ==
    Typed /\ Untouched /\ Placed /\ Examined /\ Guarded /\ Answering /\ AnswersSound

-----------------------------------------------------------------------------
(* What the order of the chain says of a request that is on its way.       *)
LEMMA ChainFacts ==
  ASSUME Typed, Placed, fate # "idle"
  PROVE  /\ chain \in Seq(Stages) /\ Len(chain) \in Nat
         /\ position \in 1..Len(chain) /\ Stage \in Stages
         /\ \A i, j \in 1..Len(chain) : i < j => Rank(chain[i]) < Rank(chain[j])
         /\ \A i, j \in 1..Len(chain) : Rank(chain[i]) < Rank(chain[j]) => i < j
         /\ Stage \notin {"handler", "default"} => position + 1 <= Len(chain)
         /\ \A s \in gatewayConfig.stages \cup {"size"} :
                \E i \in 1..Len(chain) : chain[i] = s
         /\ Stage \in {"middleware", "handler"} =>
                \A s \in routeConfig.stages : \E i \in 1..Len(chain) : chain[i] = s
<1>1. PICK S : /\ Built(chain, S)
               /\ \/ S = GlobalOn(gatewayConfig) \cup RouteOn(gatewayConfig, routeConfig)
                  \/ S = GlobalOn(gatewayConfig) \cup {"default"}
  BY DEF Placed, ChainBuilt
<1>2. gatewayConfig \in GatewayConfig /\ routeConfig \in RouteConfig
  BY PipelineAssumption DEF Typed
<1>3. /\ S \subseteq Stages
      /\ gatewayConfig.stages \cup {"size"} \subseteq S
      /\ S \cap {"middleware", "handler"} # {} => routeConfig.stages \subseteq S
      /\ S \cap {"handler", "default"} # {}
  BY <1>1, <1>2 DEF GlobalOn, RouteOn, GatewayConfig, RouteConfig, GlobalStages, RouteStages, Stages
<1>4. chain \in Seq(S) /\ Len(chain) \in Nat /\ \A i \in 1..Len(chain) : chain[i] \in S
  BY <1>1 DEF Built
<1>5. chain \in Seq(Stages)
  BY <1>3, <1>4
<1>6. position \in 1..Len(chain) /\ Stage \in S
  BY <1>4 DEF Placed, Stage
<1>7. \A s \in S : \E i \in 1..Len(chain) : chain[i] = s
  BY <1>1 DEF Built
<1>8. \A i, j \in 1..Len(chain) : i < j => Rank(chain[i]) < Rank(chain[j])
  BY <1>1 DEF Built
<1>9. ASSUME NEW i \in 1..Len(chain), NEW j \in 1..Len(chain),
             Rank(chain[i]) < Rank(chain[j])
      PROVE  i < j
  <2>1. \A s : Rank(s) \in Nat
    BY DEF Rank
  <2>2. CASE j < i
    BY <1>8, <1>9, <2>1, <2>2
  <2>3. CASE i = j
    BY <1>9, <2>1, <2>3
  <2> QED BY <1>4, <2>2, <2>3
<1>10. ASSUME Stage \notin {"handler", "default"} PROVE position + 1 <= Len(chain)
  <2>1. PICK k \in 1..Len(chain) : chain[k] \in {"handler", "default"}
    BY <1>3, <1>7
  <2>2. Rank(Stage) < Rank(chain[k])
    BY <1>3, <1>6, <1>10, <2>1 DEF Rank, Stages, GlobalStages, RouteStages
  <2>3. position < k
    BY <1>6, <1>9, <2>2 DEF Stage
  <2> QED BY <1>4, <1>6, <2>3
<1> QED BY <1>3, <1>4, <1>5, <1>6, <1>7, <1>8, <1>9, <1>10

(* The stages that come before code of the route have been passed by then. *)
LEMMA BeforeRoute ==
  ASSUME Typed, Placed, fate = "inward", Stage \in {"middleware", "handler"}
  PROVE  /\ "size" \in passed
         /\ {"rateLimit", "validation", "auth"} \cap gatewayConfig.stages \subseteq passed
         /\ {"routeAuth", "routeRateLimit"} \cap routeConfig.stages \subseteq passed
<1> DEFINE Early == {"size", "rateLimit", "validation", "auth", "routeAuth", "routeRateLimit"}
<1>1. ASSUME NEW s \in Early, NEW k \in 1..Len(chain), chain[k] = s
      PROVE  s \in passed
  <2>1. Rank(chain[k]) < Rank(Stage)
    BY <1>1 DEF Rank
  <2>2. k < position /\ position \in 1..Len(chain) /\ Len(chain) \in Nat
    BY <2>1, ChainFacts DEF Stage
  <2>3. k \in 1..(position - 1)
    BY <2>2
  <2> QED BY <1>1, <2>3 DEF Placed, Behind
<1>2. \A s \in gatewayConfig.stages \cup {"size"} : \E i \in 1..Len(chain) : chain[i] = s
  BY ChainFacts
<1>3. \A s \in routeConfig.stages : \E i \in 1..Len(chain) : chain[i] = s
  BY ChainFacts
<1> QED BY <1>1, <1>2, <1>3

-----------------------------------------------------------------------------
(* The three ways in which a request moves along its chain.                *)
Onward ==
    /\ fate = "inward" /\ fate' = "inward" /\ Stage \notin {"handler", "default"}
    /\ position' = position + 1 /\ passed' = passed \cup {Stage}
    /\ UNCHANGED <<gatewayConfig, routeConfig, chain>>

Stays ==
    /\ fate # "idle" /\ fate' \notin {"idle", "inward"}
    /\ fate' \in {"serve", "after", "catch"} => Going /\ Stage = "handler"
    /\ UNCHANGED <<gatewayConfig, routeConfig, chain, position, passed>>

Returns ==
    /\ fate = "outward" /\ fate' = "outward"
    /\ Awaiting # {} /\ position' = Nearest
    /\ UNCHANGED <<gatewayConfig, routeConfig, chain, passed>>

LEMMA Moves ==
  ASSUME Typed, Placed, PipelineStep
  PROVE  Onward \/ Stays \/ Returns
<1> USE DEF At, LetThrough, AnswerHere, FailHere, Excuse, configVars, Proceed, Throw,
            Onward, Stays, Returns, Going
<1>1. CASE LimitRate
  BY <1>1 DEF LimitRate
<1>2. CASE CheckSize
  BY <1>2 DEF CheckSize
<1>3. CASE ValidateInput
  BY <1>3 DEF ValidateInput
<1>4. CASE Authenticate
  BY <1>4 DEF Authenticate
<1>5. CASE Await \/ ParseBody \/ ApplyCors
  BY <1>5 DEF Await, ParseBody, ApplyCors
<1>6. CASE RunMiddleware
  BY <1>6 DEF RunMiddleware
<1>7. CASE DefaultRoute
  BY <1>7 DEF DefaultRoute
<1>8. CASE HandlerStep
  <2> HIDE DEF Onward, Stays, Returns, Going
  <2> DEFINE Moved == /\ fate \in {"inward", "serve", "after", "catch"}
                      /\ fate = "inward" => Stage = "handler"
                      /\ fate' \in {"serve", "after", "catch", "outward"}
                      /\ UNCHANGED <<gatewayConfig, routeConfig, chain, position, passed>>
  <2>1. BeforeRequest => Moved
    BY DEF BeforeRequest
  <2>2. CallHandler => Moved
    BY DEF CallHandler
  <2>3. NotImplemented => Moved
    BY DEF NotImplemented
  <2>4. NoTarget => Moved
    BY DEF NoTarget
  <2>5. NotProxied => Moved
    BY DEF NotProxied
  <2>6. Proxy => Moved
    BY DEF Proxy
  <2>7. AfterResponse => Moved
    BY DEF AfterResponse
  <2>8. OnErrorHook => Moved
    BY DEF OnErrorHook
  <2>9. Moved
    BY <1>8, <2>1, <2>2, <2>3, <2>4, <2>5, <2>6, <2>7, <2>8 DEF HandlerStep
  <2> QED
    BY <2>9 DEF Stays, Going, Placed
<1>9. CASE ApplyHeaders \/ HandleFailure
  BY <1>9 DEF ApplyHeaders, HandleFailure
<1>10. CASE FetchSettles
  BY <1>10 DEF FetchSettles, Settled, Answered, Rejected
<1> QED BY <1>1, <1>2, <1>3, <1>4, <1>5, <1>6, <1>7, <1>8, <1>9, <1>10 DEF PipelineStep

(* The nearest stage that awaits is one of them, and none is nearer.       *)
LEMMA NearestIs ==
  ASSUME Typed, Placed, fate # "idle", Awaiting # {}
  PROVE  Nearest \in Awaiting /\ \A j \in Awaiting : j <= Nearest
<1>1. position \in Nat /\ Awaiting \subseteq 1..(position - 1)
  BY ChainFacts DEF Awaiting
<1> DEFINE T == {position - i : i \in Awaiting}
<1>2. T \subseteq Nat /\ T # {}
  <2>1. \A i \in 1..(position - 1) : position - i \in Nat
    BY <1>1
  <2> QED BY <1>1, <2>1
<1>3. PICK t \in T : \A u \in T : <<u, t>> \notin OpToRel(<, Nat)
  BY <1>2, NatLessThanWellFounded, WFMin
<1>4. ASSUME NEW u \in T PROVE t <= u
  <2>1. u \in Nat /\ t \in Nat
    BY <1>2
  <2>2. u < t => <<u, t>> \in OpToRel(<, Nat)
    BY <2>1 DEF OpToRel
  <2>3. ~(u < t)
    BY <1>3, <2>2, Zenon
  <2> QED BY <2>1, <2>3
<1>5. PICK i \in Awaiting : t = position - i
  OBVIOUS
<1>6. ASSUME NEW j \in Awaiting PROVE j <= i
  <2>1. position - i <= position - j
    BY <1>4, <1>5
  <2> QED BY <1>1, <1>5, <2>1
<1> QED BY <1>6 DEF Nearest

LEMMA PlacedStep ==
  ASSUME Typed, Placed, PipelineStep
  PROVE  Placed'
<1>1. fate # "idle" /\ Len(chain) \in Nat /\ position \in 1..Len(chain)
  BY Moves, ChainFacts DEF Onward, Stays, Returns
<1>2. CASE Onward
  <2>1. position' \in 1..Len(chain) /\ Stage = chain[position]
    BY <1>1, <1>2, ChainFacts DEF Onward, Stage
  <2>2. Behind' = Behind \cup {Stage}
    BY <1>1, <1>2, <2>1 DEF Onward, Behind
  <2> QED BY <1>1, <1>2, <2>1, <2>2 DEF Onward, Placed, Going, ChainBuilt
<1>3. CASE Stays
  <2>1. Behind' = Behind /\ Stage' = Stage
    BY <1>3 DEF Stays, Behind, Stage
  <2> QED BY <1>1, <1>3, <2>1 DEF Stays, Placed, Going, ChainBuilt
<1>4. CASE Returns
  <2>1. Nearest \in 1..(position - 1)
    BY <1>1, <1>4, NearestIs DEF Returns, Awaiting
  <2>2. position' \in 1..Len(chain) /\ position' < position
    BY <1>1, <1>4, <2>1 DEF Returns
  <2>3. Behind' \subseteq Behind
    BY <1>1, <1>4, <2>2 DEF Returns, Behind
  <2> QED BY <1>1, <1>4, <2>2, <2>3 DEF Returns, Placed, Going, ChainBuilt
<1> QED BY <1>2, <1>3, <1>4, Moves

-----------------------------------------------------------------------------
(* The statuses that are read from tables are those of errors.             *)
LEMMA FirstIs ==
  ASSUME NEW S \in SUBSET Nat, S # {}
  PROVE  First(S) \in S
<1>1. PICK m \in S : \A k \in S : <<k, m>> \notin OpToRel(<, Nat)
  BY NatLessThanWellFounded, WFMin
<1>2. ASSUME NEW k \in S PROVE m <= k
  <2>1. k \in Nat /\ m \in Nat
    OBVIOUS
  <2>2. k < m => <<k, m>> \in OpToRel(<, Nat)
    BY <2>1 DEF OpToRel
  <2>3. ~(k < m)
    BY <1>1, <2>2, Zenon
  <2> QED BY <2>1, <2>3
<1> QED BY <1>2 DEF First

LEMMA SizeStatusIs ==
  ASSUME NEW S \in SUBSET (DOMAIN SizeOrder), S # {}
  PROVE  SizeStatus[SizeOrder[First(S)]] \in 400..599
<1>1. DOMAIN SizeOrder = 1..6
  BY DEF SizeOrder
<1>2. First(S) \in 1..6
  <2>1. S \in SUBSET Nat
    BY <1>1
  <2> QED BY <1>1, <2>1, FirstIs
<1>3. \A i \in 1..6 : SizeOrder[i] \in {"url", "headerCount", "headerSize", "query",
                                       "length", "body"}
  BY DEF SizeOrder
<1> QED BY <1>2, <1>3 DEF SizeStatus

LEMMA StatusCodeIs ==
  ASSUME NEW e \in Failures
  PROVE  IF e.given = 0 THEN GetStatusCode(e) \in 400..599
                        ELSE GetStatusCode(e) = e.given
<1> DEFINE hits == {i \in DOMAIN StatusPatterns : StatusPatterns[i][2] \in e[StatusPatterns[i][1]]}
<1>1. GetStatusCode(e) = IF e.given # 0 THEN e.given
                         ELSE IF hits = {} THEN 500 ELSE StatusPatterns[First(hits)][3]
  BY DEF GetStatusCode
<1>2. DOMAIN StatusPatterns = 1..12
  BY DEF StatusPatterns
<1>3. ASSUME NEW i \in 1..12 PROVE StatusPatterns[i][3] \in 400..599
  <2>1. /\ StatusPatterns[1][3] = 400 /\ StatusPatterns[2][3] = 401
        /\ StatusPatterns[3][3] = 403 /\ StatusPatterns[4][3] = 404
        /\ StatusPatterns[5][3] = 504 /\ StatusPatterns[6][3] = 413
        /\ StatusPatterns[7][3] = 404 /\ StatusPatterns[8][3] = 401
        /\ StatusPatterns[9][3] = 403 /\ StatusPatterns[10][3] = 400
        /\ StatusPatterns[11][3] = 504 /\ StatusPatterns[12][3] = 413
    BY DEF StatusPatterns
  <2> QED BY <2>1
<1>4. CASE hits # {}
  <2>1. hits \subseteq 1..12
    BY <1>2
  <2> HIDE DEF hits
  <2>2. hits \in SUBSET Nat
    BY <2>1
  <2>3. First(hits) \in 1..12
    BY <1>4, <2>1, <2>2, FirstIs
  <2> QED BY <1>1, <1>3, <1>4, <2>3
<1>5. CASE hits = {}
  BY <1>1, <1>5
<1> QED BY <1>4, <1>5

(* The answer of the error-handling middleware to a failure: the status    *)
(* that the error says, or that of an error.                               *)
LEMMA ErrorAnswerIs ==
  ASSUME NEW e \in Failures, NEW b \in BOOLEAN
  PROVE  /\ \/ ErrorAnswer(e, b).status \in 400..599
            \/ ErrorAnswer(e, b).status = e.given
         /\ ErrorAnswer(e, b).text = IF b THEN "general" ELSE "own"
BY StatusCodeIs DEF ErrorAnswer

(* Who is let through by the authentication is entitled to it.             *)
LEMMA NextEntitled ==
  ASSUME NEW o \in AuthOptions, NEW c \in Credentials, AuthVerdict(o, c) = "next"
  PROVE  Entitled(o, c)
<1>1. /\ o.optional \in BOOLEAN
      /\ c.apiKey \in {"none", "wrong", "right", "throws"}
      /\ c.token \in {"none", "wrong", "right"}
  BY DEF AuthOptions, Credentials
<1> QED BY <1>1 DEF AuthVerdict, Entitled

-----------------------------------------------------------------------------
(* The types, step by step.  A part of a request is seen once.             *)
LEMMA LookIs ==
  ASSUME request \in Requests, NEW q,
         NEW part \in {"exceeded", "input", "credentials", "headers"},
         NEW values, q \in Look(part, values),
         \/ part = "exceeded" /\ values = RequestSizes
         \/ part = "input" /\ values = RequestInputs
         \/ part = "credentials" /\ values = Credentials
         \/ part = "headers" /\ values = ClientHeaders
  PROVE  /\ q \in Requests /\ q[part] \in values /\ q[part] # Unseen
         /\ request[part] # Unseen => q[part] = request[part]
         /\ q = [request EXCEPT ![part] = q[part]]
<1>1. PICK v : q = [request EXCEPT ![part] = v]
               /\ v \in (IF request[part] = Unseen THEN values ELSE {request[part]})
  BY DEF Look
<1>2. request[part] = Unseen \/ request[part] \in values
  BY DEF Requests
<1>3. v \in values /\ v # Unseen /\ q[part] = v
  <2>1. v \in values /\ v # Unseen
    BY <1>1, <1>2, NothingAssumption
  <2> QED BY <1>1, <2>1 DEF Requests
<1>4. q \in Requests
  BY <1>1, <1>3 DEF Requests
<1> QED BY <1>1, <1>2, <1>3, <1>4

(* The errors that are thrown are made of the words that are told apart,   *)
(* and none is the middleware's own.                                       *)
LEMMA KnownFailures ==
  /\ Unanswerable \in Failures
  /\ \A e \in HookFailures \cup UpstreamFailures \cup Thrown({}, {"not found"})
             \cup Thrown({}, {"invalid"}) \cup Thrown({}, {}) \cup {Failure(0, {}, {})} :
        e \in Failures /\ e # Unanswerable
<1>1. /\ {"rangeerror"} \in SUBSET ErrorWords /\ {"validation"} \in SUBSET ErrorWords
      /\ {"not found"} \in SUBSET ErrorWords /\ {"invalid"} \in SUBSET ErrorWords
      /\ {"timeout"} \in SUBSET ErrorWords /\ {"econnrefused"} \in SUBSET ErrorWords
      /\ {"circuit breaker"} \in SUBSET ErrorWords /\ {} \in SUBSET ErrorWords
  BY DEF ErrorWords
<1>2. \A given \in GivenStatuses \cup {0}, name, message \in SUBSET ErrorWords :
         /\ Failure(given, name, message) \in Failures
         /\ Failure(given, name, message).name = name
  BY DEF Failure, Failures
<1>3. \A e \in HookFailures \cup UpstreamFailures \cup Thrown({}, {"not found"})
              \cup Thrown({}, {"invalid"}) \cup Thrown({}, {}) \cup {Failure(0, {}, {})} :
         e \in Failures /\ e.name \in {{}, {"validation"}, {"timeout"}}
  <2>1. ASSUME NEW name \in SUBSET ErrorWords, NEW message \in SUBSET ErrorWords,
               NEW e \in Thrown(name, message)
        PROVE  e \in Failures /\ e.name = name
    <3>1. PICK given \in GivenStatuses : e = Failure(given, name, message)
      BY DEF Thrown
    <3> QED BY <1>2, <3>1
  <2>2. /\ Failure(0, {}, {}) \in Failures /\ Failure(0, {}, {}).name = {}
        /\ \A e \in UpstreamFailures : e \in Failures /\ e.name \in {{}, {"timeout"}}
    <3>1. \A name, message \in SUBSET ErrorWords :
             Failure(0, name, message) \in Failures /\ Failure(0, name, message).name = name
      BY <1>2
    <3>2. ASSUME NEW e \in UpstreamFailures PROVE e \in Failures /\ e.name \in {{}, {"timeout"}}
      <4>1. \/ e = Failure(0, {}, {"circuit breaker"})
            \/ e = Failure(0, {}, {"econnrefused"})
            \/ e = Failure(0, {"timeout"}, {})
        BY DEF UpstreamFailures
      <4>2. CASE e = Failure(0, {}, {"circuit breaker"})
        BY <1>1, <3>1, <4>2
      <4>3. CASE e = Failure(0, {}, {"econnrefused"})
        BY <1>1, <3>1, <4>3
      <4>4. CASE e = Failure(0, {"timeout"}, {})
        BY <1>1, <3>1, <4>4
      <4> QED BY <4>1, <4>2, <4>3, <4>4
    <3> QED BY <1>1, <3>1, <3>2
  <2>3. \A e \in HookFailures : e \in Failures /\ e.name = {"validation"}
    BY <1>1, <2>1 DEF HookFailures
  <2>4. \A e \in Thrown({}, {"not found"}) \cup Thrown({}, {"invalid"}) \cup Thrown({}, {}) :
           e \in Failures /\ e.name = {}
    BY <1>1, <2>1
  <2> QED BY <2>2, <2>3, <2>4, Zenon
<1>4. Unanswerable \in Failures /\ Unanswerable.name = {"rangeerror"}
  BY <1>1, <1>2 DEF Unanswerable
<1>5. {"rangeerror"} \notin {{}, {"validation"}, {"timeout"}}
  OBVIOUS
<1> QED BY <1>3, <1>4, <1>5

LEMMA TypedStep ==
  ASSUME Typed, Placed, Answering, PipelineStep
  PROVE  Typed'
<1> USE DEF At, LetThrough, AnswerHere, FailHere, configVars, answerVars, Proceed, Throw
<1> DEFINE Replies == Answers \cup {Nothing}
           Errors  == Failures \cup {Nothing}
           Rest    == /\ fate' \in {"inward", "serve", "after", "catch", "outward",
                                   "answered", "rejected"}
                      /\ request' \in Requests
                      /\ response' \in Replies /\ failure' \in Errors
                      /\ reached' \in BOOLEAN /\ told' \in BOOLEAN
<1>a. /\ request \in Requests /\ response \in Replies /\ failure \in Errors
      /\ reached \in BOOLEAN /\ told \in BOOLEAN
  BY DEF Typed
<1>b. /\ \A st \in Statuses, t \in {"general", "route", "own"} : Answer(st, t) \in Replies
      /\ \A st \in 200..599, t \in {"general", "route", "own"} : Answer(st, t) \in Replies
  BY DEF Answer, Answers, Statuses
<1>d. \A e \in HookFailures \cup UpstreamFailures \cup Thrown({}, {"not found"})
             \cup Thrown({}, {"invalid"}) \cup Thrown({}, {}) \cup {Failure(0, {}, {})}
             \cup {Unanswerable} : e \in Errors
  BY KnownFailures
<1>e. fate # "idle" /\ fate' # "idle" /\ UNCHANGED <<gatewayConfig, routeConfig>>
  BY Moves DEF Onward, Stays, Returns
<1>f. Nothing \in Replies
  OBVIOUS
<1>g. ASSUME response # Nothing PROVE [response EXCEPT !.headed = TRUE] \in Replies
  <2>1. \A a \in Answers : [a EXCEPT !.headed = TRUE] \in Answers
    BY DEF Answers
  <2> QED BY <1>a, <1>g, <2>1
<1>h. [request EXCEPT !.excused = @ \cup {Stage}] \in Requests
  BY <1>e, ChainFacts DEF Typed, Requests
<1>z. SUFFICES Rest
  BY <1>e DEF Typed
<1> HIDE DEF Replies, Errors
<1>1. CASE LimitRate
  <2>1. request' \in Requests
    BY <1>1, <1>a, <1>h DEF LimitRate, Excuse
  <2> QED BY <1>1, <1>a, <1>b, <2>1 DEF LimitRate, Excuse
<1>2. CASE CheckSize
  <2>1. request' \in Requests
    BY <1>2, <1>a, LookIs DEF CheckSize
  <2>2. \A S \in SUBSET (DOMAIN SizeOrder) :
           S # {} => Answer(SizeStatus[SizeOrder[First(S)]], "general") \in Replies
    BY <1>b, SizeStatusIs
  <2>3. SizeErrors(request.method, request'.exceeded) \in SUBSET (DOMAIN SizeOrder)
    BY DEF SizeErrors
  <2> QED BY <1>2, <1>a, <2>1, <2>2, <2>3 DEF CheckSize
<1>3. CASE ValidateInput
  <2>1. request' \in Requests
    BY <1>3, <1>a, LookIs DEF ValidateInput
  <2> QED BY <1>3, <1>a, <1>b, <2>1 DEF ValidateInput
<1>4. CASE Authenticate
  <2>1. request' \in Requests
    <3>1. request' \in Look("credentials", Credentials) \/ Excuse
      BY <1>4 DEF Authenticate
    <3> QED BY <1>a, <1>h, <3>1, LookIs DEF Excuse
  <2>2. \/ /\ fate' = "inward" /\ UNCHANGED <<response, failure, reached, told>>
        \/ /\ fate' = "outward" /\ UNCHANGED <<failure, reached, told>>
           /\ response' = Answer(401, "general")
        \/ /\ fate' = "outward" /\ UNCHANGED <<response, reached, told>>
           /\ failure' \in Errors
    BY <1>4, <1>d, ZenonT(60) DEF Authenticate, Excuse
  <2> QED BY <1>a, <1>b, <2>1, <2>2
<1>5. CASE Await \/ ParseBody \/ ApplyCors
  BY <1>5, <1>a, <1>b DEF Await, ParseBody, ApplyCors
<1>6. CASE RunMiddleware
  <2>1. \/ /\ fate' = "inward" /\ UNCHANGED <<response, failure>>
        \/ /\ fate' = "outward" /\ UNCHANGED failure /\ response' = Answer(200, "route")
        \/ /\ fate' = "outward" /\ UNCHANGED response /\ failure' \in Errors
    BY <1>6, <1>d, ZenonT(60) DEF RunMiddleware
  <2>2. reached' = TRUE /\ UNCHANGED <<request, told>>
    BY <1>6 DEF RunMiddleware
  <2> QED BY <1>a, <1>b, <2>1, <2>2
<1>7. CASE DefaultRoute
  BY <1>7, <1>a, <1>b DEF DefaultRoute
<1>8. CASE HandlerStep
  <2>1. CASE Proxy
    <3>1. request' \in Requests
      BY <2>1, <1>a, LookIs DEF Proxy
    <3>2. \/ /\ fate' = "after" /\ UNCHANGED failure
             /\ response' = Answer(200, "route") \/ response' = Answer(502, "general")
          \/ /\ fate' = "catch" /\ UNCHANGED response /\ failure' \in Errors
      BY <2>1, <1>d, ZenonT(60) DEF Proxy
    <3>3. UNCHANGED <<reached, told>>
      BY <2>1 DEF Proxy
    <3> QED BY <1>a, <1>b, <3>1, <3>2, <3>3
  <2>2. CASE OnErrorHook
    <3>1. told' \in BOOLEAN
      BY <2>2 DEF OnErrorHook, Told, Hooked
    <3> QED BY <2>2, <1>a, <1>d, <3>1 DEF OnErrorHook
  <2>3. CASE BeforeRequest
    BY <2>3, <1>a, <1>d DEF BeforeRequest
  <2>4. CASE CallHandler
    <3>1. \/ fate' = "after" /\ UNCHANGED failure /\ response' = Answer(200, "route")
          \/ fate' = "catch" /\ UNCHANGED response /\ failure' \in Errors
      BY <2>4, <1>d, ZenonT(60) DEF CallHandler
    <3>2. UNCHANGED <<request, reached, told>>
      BY <2>4 DEF CallHandler
    <3> QED BY <1>a, <1>b, <3>1, <3>2
  <2>5. CASE NotImplemented \/ NoTarget \/ NotProxied
    <3>1. \/ fate' = "after" /\ UNCHANGED failure /\ response' = Answer(501, "general")
          \/ fate' = "catch" /\ UNCHANGED response /\ failure' \in Errors
      BY <2>5, <1>d, ZenonT(60) DEF NotImplemented, NoTarget, NotProxied
    <3>2. UNCHANGED <<request, reached, told>>
      BY <2>5 DEF NotImplemented, NoTarget, NotProxied
    <3> QED BY <1>a, <1>b, <3>1, <3>2
  <2>6. CASE AfterResponse
    BY <2>6, <1>a, <1>d, <1>f DEF AfterResponse
  <2> QED BY <1>8, <2>1, <2>2, <2>3, <2>4, <2>5, <2>6 DEF HandlerStep
<1>9. CASE ApplyHeaders
  BY <1>9, <1>a, <1>f, <1>g DEF ApplyHeaders
<1>10. CASE HandleFailure
  <2>1. CASE failure = Nothing
    BY <1>10, <1>a, <2>1 DEF HandleFailure, Answering
  <2>2. CASE failure # Nothing
    <3>1. failure \in Failures
      BY <2>2 DEF Typed
    <3>2. \A b \in BOOLEAN : LET a == ErrorAnswer(failure, b)
                            IN  a.status \in Statuses => Answer(a.status, a.text) \in Replies
      BY <1>b, <3>1, ErrorAnswerIs
    <3>3. (gatewayConfig.used = "production") \in BOOLEAN
      OBVIOUS
    <3>4. response' \in Replies /\ failure' \in Errors
      BY <1>10, <1>a, <1>d, <3>2, <3>3 DEF HandleFailure
    <3> QED BY <1>10, <1>a, <3>4 DEF HandleFailure
  <2> QED BY <2>1, <2>2
<1>11. CASE FetchSettles
  <2>1. ASSUME NEW s \in Settled
        PROVE  s.fate \in {"answered", "rejected"} /\ s.response \in Replies
    <3>1. 500 \in 200..599 /\ HandlerStatuses \subseteq Statuses
      BY PipelineAssumption
    <3> QED BY <1>a, <1>b, <1>f, <3>1 DEF Settled, Answered, Rejected
  <2> QED BY <1>11, <1>a, <2>1 DEF FetchSettles
<1> HIDE DEF Rest
<1> QED BY <1>1, <1>2, <1>3, <1>4, <1>5, <1>6, <1>7, <1>8, <1>9, <1>10, <1>11
        DEF PipelineStep

-----------------------------------------------------------------------------
(* What is known of a request stays known, and it stays the same request.  *)
LEMMA StaysKnown ==
  ASSUME Typed, Placed, PipelineStep
  PROVE  /\ request'.method = request.method
         /\ request.excused \subseteq request'.excused
         /\ request.exceeded # Unseen => request'.exceeded = request.exceeded
         /\ request.input # Unseen => request'.input = request.input
         /\ request.credentials # Unseen => request'.credentials = request.credentials
         /\ request.headers # Unseen => request'.headers = request.headers
<1>1. \/ UNCHANGED request
      \/ request' \in Look("exceeded", RequestSizes)
      \/ request' \in Look("input", RequestInputs)
      \/ request' \in Look("credentials", Credentials)
      \/ request' \in Look("headers", ClientHeaders)
      \/ request' = [request EXCEPT !.excused = @ \cup {Stage}]
  BY DEF PipelineStep, LimitRate, CheckSize, ValidateInput, Authenticate, Await, ParseBody,
         ApplyCors, RunMiddleware, DefaultRoute, HandlerStep, ApplyHeaders, HandleFailure,
         FetchSettles, BeforeRequest, CallHandler, NotImplemented, NoTarget, NotProxied, Proxy,
         AfterResponse, OnErrorHook, Excuse
<1>2. request \in Requests
  BY DEF Typed
<1>3. CASE request' = [request EXCEPT !.excused = @ \cup {Stage}]
  BY <1>2, <1>3 DEF Requests
<1>4. CASE request' \in Look("exceeded", RequestSizes)
  BY <1>2, <1>4, LookIs DEF Requests
<1>5. CASE request' \in Look("input", RequestInputs)
  BY <1>2, <1>5, LookIs DEF Requests
<1>6. CASE request' \in Look("credentials", Credentials)
  BY <1>2, <1>6, LookIs DEF Requests
<1>7. CASE request' \in Look("headers", ClientHeaders)
  BY <1>2, <1>7, LookIs DEF Requests
<1> QED BY <1>1, <1>3, <1>4, <1>5, <1>6, <1>7

(* What the stage that lets a request through has made sure of.            *)
LEMMA LetThroughKnows ==
  ASSUME Typed, Placed, PipelineStep, Onward
  PROVE  /\ Stage = "size" =>
               /\ request'.exceeded # Unseen
               /\ SizeErrors(request'.method, request'.exceeded) = {}
         /\ Stage = "validation" =>
               /\ request'.input # Unseen
               /\ request'.input.layers <= DecodeBudget
               /\ request'.input.faults = {}
         /\ Stage = "auth" => Checked("auth", gatewayConfig.auth)'
         /\ Stage = "routeAuth" => Checked("routeAuth", routeConfig.auth)'
<1>1. request \in Requests /\ fate' = "inward" /\ UNCHANGED <<gatewayConfig, routeConfig>>
  BY DEF Typed, Onward
<1>2. ASSUME Stage = "size"
      PROVE  /\ request'.exceeded # Unseen
             /\ SizeErrors(request'.method, request'.exceeded) = {}
  <2>1. CheckSize
    BY <1>2, ZenonT(60) DEF PipelineStep, LimitRate, ValidateInput, Authenticate, Await,
       ParseBody, ApplyCors, RunMiddleware, DefaultRoute, HandlerStep, ApplyHeaders,
       HandleFailure, FetchSettles, BeforeRequest, CallHandler, NotImplemented, NoTarget,
       NotProxied, Proxy, AfterResponse, OnErrorHook, At, Onward
  <2>2. request'.exceeded # Unseen
    BY <1>1, <2>1, LookIs DEF CheckSize
  <2>3. SizeErrors(request.method, request'.exceeded) = {}
    BY <1>1, <2>1 DEF CheckSize, AnswerHere
  <2> QED BY <2>2, <2>3, StaysKnown
<1>3. ASSUME Stage = "validation"
      PROVE  /\ request'.input # Unseen /\ request'.input.layers <= DecodeBudget
             /\ request'.input.faults = {}
  <2>1. ValidateInput
    BY <1>3, ZenonT(60) DEF PipelineStep, LimitRate, CheckSize, Authenticate, Await,
       ParseBody, ApplyCors, RunMiddleware, DefaultRoute, HandlerStep, ApplyHeaders,
       HandleFailure, FetchSettles, BeforeRequest, CallHandler, NotImplemented, NoTarget,
       NotProxied, Proxy, AfterResponse, OnErrorHook, At, Onward
  <2>2. request'.input # Unseen
    BY <1>1, <2>1, LookIs DEF ValidateInput
  <2>3. InputVerdict(request'.input) = "valid"
    BY <1>1, <2>1 DEF ValidateInput, AnswerHere
  <2> QED BY <2>2, <2>3 DEF InputVerdict, Decodes
<1>4. ASSUME NEW o \in AuthOptions, Authenticate,
             o = IF Stage = "auth" THEN gatewayConfig.auth ELSE routeConfig.auth
      PROVE  \/ Stage \in request'.excused
             \/ request'.credentials # Unseen /\ Entitled(o, request'.credentials)
  <2>1. CASE Excuse
    <3>1. request' = [request EXCEPT !.excused = @ \cup {Stage}]
      BY <2>1 DEF Excuse
    <3> QED BY <1>1, <3>1 DEF Requests
  <2>2. CASE ~Excuse
    <3>1. /\ request' \in Look("credentials", Credentials)
          /\ AuthVerdict(o, request'.credentials) = "next"
      BY <1>1, <1>4, <2>2 DEF Authenticate, AnswerHere, FailHere
    <3>2. request'.credentials \in Credentials /\ request'.credentials # Unseen
      BY <1>1, <3>1, LookIs
    <3> QED BY <3>1, <3>2, NextEntitled
  <2> QED BY <2>1, <2>2
<1>5. ASSUME Stage \in {"auth", "routeAuth"} PROVE Authenticate
  BY <1>5, ZenonT(60) DEF PipelineStep, LimitRate, CheckSize, ValidateInput, Await,
     ParseBody, ApplyCors, RunMiddleware, DefaultRoute, HandlerStep, ApplyHeaders,
     HandleFailure, FetchSettles, BeforeRequest, CallHandler, NotImplemented, NoTarget,
     NotProxied, Proxy, AfterResponse, OnErrorHook, At, Onward
<1>6. gatewayConfig.auth \in AuthOptions /\ routeConfig.auth \in AuthOptions
  BY PipelineAssumption DEF Typed, Onward, GatewayConfig, RouteConfig
<1>7. Stage = "auth" => Checked("auth", gatewayConfig.auth)'
  BY <1>1, <1>4, <1>5, <1>6 DEF Checked
<1>8. Stage = "routeAuth" => Checked("routeAuth", routeConfig.auth)'
  BY <1>1, <1>4, <1>5, <1>6 DEF Checked
<1> QED BY <1>2, <1>3, <1>7, <1>8

LEMMA ExaminedStep ==
  ASSUME Typed, Placed, Examined, PipelineStep
  PROVE  Examined'
<1>1. /\ Onward /\ passed' = passed \cup {Stage}
      \/ passed' = passed
  BY Moves DEF Onward, Stays, Returns
<1>2. UNCHANGED <<gatewayConfig, routeConfig>>
  BY Moves DEF Onward, Stays, Returns
<1>3. "size" \in passed' =>
          /\ request'.exceeded # Unseen
          /\ SizeErrors(request'.method, request'.exceeded) = {}
  BY <1>1, StaysKnown, LetThroughKnows DEF Examined
<1>4. "validation" \in passed' =>
          /\ request'.input # Unseen
          /\ request'.input.layers <= DecodeBudget
          /\ request'.input.faults = {}
  BY <1>1, StaysKnown, LetThroughKnows DEF Examined
<1>5. ASSUME Checked("auth", gatewayConfig.auth) PROVE Checked("auth", gatewayConfig.auth)'
  BY <1>2, <1>5, StaysKnown DEF Checked
<1>6. ASSUME Checked("routeAuth", routeConfig.auth)
      PROVE  Checked("routeAuth", routeConfig.auth)'
  BY <1>2, <1>6, StaysKnown DEF Checked
<1>7. "auth" \in passed' => Checked("auth", gatewayConfig.auth)'
  BY <1>1, <1>5, LetThroughKnows DEF Examined
<1>8. "routeAuth" \in passed' => Checked("routeAuth", routeConfig.auth)'
  BY <1>1, <1>6, LetThroughKnows DEF Examined
<1> QED BY <1>3, <1>4, <1>7, <1>8 DEF Examined

LEMMA GuardedStep ==
  ASSUME Typed, Placed, Guarded, PipelineStep
  PROVE  Guarded'
<1>1. passed \subseteq passed' /\ UNCHANGED <<gatewayConfig, routeConfig>>
  BY Moves DEF Onward, Stays, Returns
<1>2. UNCHANGED reached \/ BeforeRequest \/ RunMiddleware
  BY ZenonT(60) DEF PipelineStep, LimitRate, CheckSize, ValidateInput, Authenticate, Await,
     ParseBody, ApplyCors, DefaultRoute, HandlerStep, ApplyHeaders, HandleFailure,
     FetchSettles, CallHandler, NotImplemented, NoTarget, NotProxied, Proxy, AfterResponse,
     OnErrorHook, Excuse, LetThrough
<1>3. UNCHANGED upstream \/ Proxy
  BY ZenonT(60) DEF PipelineStep, LimitRate, CheckSize, ValidateInput, Authenticate, Await,
     ParseBody, ApplyCors, DefaultRoute, HandlerStep, ApplyHeaders, HandleFailure,
     FetchSettles, CallHandler, NotImplemented, NoTarget, NotProxied, BeforeRequest, AfterResponse,
     OnErrorHook, Excuse, LetThrough, AnswerHere, FailHere, RunMiddleware
<1>4. ASSUME reached'
      PROVE  /\ "size" \in passed'
             /\ {"rateLimit", "validation", "auth"} \cap gatewayConfig'.stages \subseteq passed'
             /\ {"routeAuth", "routeRateLimit"} \cap routeConfig'.stages \subseteq passed'
  <2>1. CASE BeforeRequest \/ RunMiddleware
    <3>1. fate = "inward" /\ Stage \in {"middleware", "handler"}
      BY <2>1 DEF BeforeRequest, RunMiddleware, At
    <3> QED BY <1>1, <3>1, BeforeRoute
  <2>2. CASE UNCHANGED reached
    BY <1>1, <1>4, <2>2 DEF Guarded
  <2> QED BY <1>2, <2>1, <2>2
<1>5. ASSUME upstream' # Nothing
      PROVE  /\ routeConfig' # Nothing /\ request'.headers # Unseen
             /\ upstream' = Forwarded(request'.headers[1], request'.headers[2],
                                      routeConfig'.headers)
  <2>1. CASE Proxy
    <3>1. fate # "idle" /\ request' \in Look("headers", ClientHeaders)
          /\ upstream' = Forwarded(request'.headers[1], request'.headers[2],
                                   routeConfig.headers)
      BY <2>1 DEF Proxy
    <3>2. request'.headers # Unseen
      BY <3>1, LookIs DEF Typed
    <3> QED BY <1>1, <3>1, <3>2 DEF Typed
  <2>2. CASE UNCHANGED upstream
    BY <1>1, <1>5, <2>2, StaysKnown DEF Guarded
  <2> QED BY <1>3, <2>1, <2>2
<1> QED BY <1>4, <1>5 DEF Guarded

-----------------------------------------------------------------------------
(* The way back: the headers are set by the stage that sets them, and by   *)
(* nothing that comes after it in the chain.                               *)
LEMMA WayBack ==
  ASSUME Typed, Placed, fate = "outward", Awaiting # {}
  PROVE  LET Before == {chain[i] : i \in 1..(Nearest - 1)} IN
         /\ chain[Nearest] = "headers" => "headers" \in passed /\ "headers" \notin Before
         /\ chain[Nearest] = "headers" /\ "errors" \in Behind => "errors" \in Before
         /\ chain[Nearest] = "errors" =>
               /\ "headers" \in passed => "headers" \in Before /\ "headers" \in Behind
               /\ "errors" \in passed /\ gatewayConfig.used # "none"
               /\ "errors" \in Behind /\ "errors" \notin Before
         /\ Before \subseteq Behind
         /\ chain[Nearest] \in {"headers", "errors"}
<1> DEFINE n == Nearest
           Before == {chain[i] : i \in 1..(n - 1)}
<1>1. /\ n \in 1..(position - 1) /\ n \in 1..Len(chain)
      /\ position \in 1..Len(chain) /\ Len(chain) \in Nat
      /\ chain[n] \in {"headers", "errors"}
      /\ \A j \in Awaiting : j <= n
  <2>1. /\ n \in Awaiting /\ position \in 1..Len(chain) /\ Len(chain) \in Nat
        /\ \A j \in Awaiting : j <= n
    BY NearestIs, ChainFacts
  <2>2. n \in 1..(position - 1) /\ chain[n] \in {"headers", "errors"}
    BY <2>1 DEF Awaiting
  <2> QED BY <2>1, <2>2
<1>2. /\ \A i, j \in 1..Len(chain) : i < j => Rank(chain[i]) < Rank(chain[j])
      /\ \A i, j \in 1..Len(chain) : Rank(chain[i]) < Rank(chain[j]) => i < j
      /\ \A s : Rank(s) \in Nat
  BY ChainFacts DEF Rank
<1> HIDE DEF n
<1>3. chain[n] \in Behind /\ Behind \subseteq passed /\ Before \subseteq Behind
  BY <1>1 DEF Behind, Placed
<1>4. chain[n] \notin Before
  <2>1. ASSUME NEW i \in 1..(n - 1), chain[i] = chain[n] PROVE FALSE
    <3>1. i \in 1..Len(chain) /\ i < n
      BY <1>1
    <3>2. Rank(chain[i]) < Rank(chain[n])
      BY <1>1, <1>2, <3>1
    <3> QED BY <1>2, <2>1, <3>2
  <2> QED BY <2>1
<1>5. ASSUME chain[n] = "headers", "errors" \in Behind PROVE "errors" \in Before
  <2>1. PICK k \in 1..(position - 1) : chain[k] = "errors"
    BY <1>5 DEF Behind
  <2>2. k <= n /\ k # n
    BY <1>1, <1>5, <2>1 DEF Awaiting
  <2>3. k \in 1..(n - 1)
    BY <1>1, <2>2
  <2> QED BY <2>1, <2>3
<1>6. ASSUME chain[n] = "errors", "headers" \in passed PROVE "headers" \in Before
  <2>1. PICK k \in 1..Len(chain) : chain[k] = "headers"
    BY <1>6 DEF Placed
  <2>2. Rank(chain[k]) < Rank(chain[n])
    BY <1>6, <2>1 DEF Rank
  <2>3. k < n
    BY <1>1, <1>2, <2>2
  <2>4. k \in 1..(n - 1)
    BY <1>1, <2>3
  <2> QED BY <2>1, <2>4
<1>7. ASSUME chain[n] = "errors" PROVE gatewayConfig.used # "none"
  <2>1. gatewayConfig \in GatewayConfig /\ routeConfig \in RouteConfig
    BY PipelineAssumption DEF Typed
  <2>2. "errors" \in GlobalOn(gatewayConfig) \cup RouteOn(gatewayConfig, routeConfig)
                        \cup {"default"}
    BY <1>1, <1>7 DEF Placed, ChainBuilt, Built
  <2> QED BY <2>1, <2>2 DEF GlobalOn, RouteOn, GatewayConfig, RouteConfig, GlobalStages,
             RouteStages
<1> QED BY <1>1, <1>3, <1>4, <1>5, <1>6, <1>7 DEF n

LEMMA AnswerIs ==
  /\ \A st, t : Answer(st, t).headed = FALSE
  /\ \A st, t : Answer(st, t).status = st
  /\ \A st, t : Answer(st, t).text = t
  /\ \A st \in Statuses, t \in {"general", "route", "own"} : Answer(st, t) # Nothing
<1>1. \A st \in Statuses, t \in {"general", "route", "own"} : Answer(st, t) \in Answers
  BY DEF Answer, Answers
<1>2. \A st \in Statuses, t \in {"general", "route", "own"} : Answer(st, t) # Nothing
  BY <1>1, NothingAssumption
<1>3. \A st, t : Answer(st, t).headed = FALSE
  BY DEF Answer
<1>4. \A st, t : Answer(st, t).status = st /\ Answer(st, t).text = t
  BY DEF Answer
<1> QED BY <1>2, <1>3, <1>4

LEMMA AnsweringStep ==
  ASSUME Typed, Placed, Answering, PipelineStep, Typed', Placed'
  PROVE  Answering'
<1> DEFINE Own == response' # Nothing /\ response'.text = "own" =>
                      gatewayConfig.used = "development"
<1>a. UNCHANGED gatewayConfig /\ UNCHANGED routeConfig /\ UNCHANGED chain
  BY Moves DEF Onward, Stays, Returns
<1>b. /\ \A st, t : Answer(st, t).headed = FALSE
      /\ \A st, t : Answer(st, t).status = st
      /\ \A st, t : Answer(st, t).text = t
      /\ \A st \in Statuses, t \in {"general", "route", "own"} : Answer(st, t) # Nothing
  BY AnswerIs
<1> DEFINE Sound == response' # Nothing /\ response'.headed = FALSE /\ Own
<1>c. ASSUME NEW st \in Statuses, NEW t, t \in {"general", "route"},
             response' = Answer(st, t)
      PROVE  Sound
  <2>1. t \in {"general", "route", "own"}
    BY <1>c
  <2>2. Answer(st, t) # Nothing
    BY <2>1, <1>b
  <2>3. Answer(st, t).headed = FALSE /\ Answer(st, t).text = t
    BY <1>b
  <2> QED BY <1>c, <2>2, <2>3
<1>h. /\ response' = Answer(200, "route") => Sound
      /\ \A st \in HandlerStatuses : response' = Answer(st, "route") => Sound
      /\ response' = Answer(500, "general") => Sound
      /\ response' = Answer(501, "general") => Sound
      /\ response' = Answer(502, "general") => Sound
  <2>1. /\ 200 \in Statuses /\ 500 \in Statuses /\ 501 \in Statuses
        /\ 502 \in Statuses /\ HandlerStatuses \subseteq Statuses
    BY PipelineAssumption DEF Statuses
  <2> HIDE DEF Sound
  <2> QED BY <1>c, <2>1
<1>d. Going => ~HeadersDue
  BY DEF Placed, HeadersDue, Going
(* What a step may do to a request that is not yet on its way back.        *)
<1>1. ASSUME fate' = "inward", fate = "inward", UNCHANGED <<response, failure>>
      PROVE  Answering'
  BY <1>1, <1>a DEF Answering
<1>2. ASSUME Going, fate' = "outward", UNCHANGED <<failure, position, passed>>,
             failure = Nothing, response' # Nothing, response'.headed = FALSE, Own
      PROVE  Answering'
  <2>1. HeadersDue' = HeadersDue
    BY <1>2, <1>a DEF HeadersDue, Behind
  <2> QED BY <1>2, <1>a, <1>d, <2>1 DEF Answering
<1>3. ASSUME Going, fate' = "outward", UNCHANGED <<position, passed>>,
             response' = Nothing, failure' # Nothing, failure' # Unanswerable,
             Stage = "handler" => (Hooked("onError") => told')
      PROVE  Answering'
  <2>1. Behind' = Behind /\ Stage' = Stage /\ Hooked("onError")' = Hooked("onError")
    BY <1>3, <1>a DEF Behind, Stage, Hooked
  <2>2. Repaired' => "errors" \in Behind'
    BY <1>3, <1>a, <2>1 DEF Repaired, Placed, Going
  <2> QED BY <1>3, <2>1, <2>2 DEF Answering
<1>4. ASSUME fate' = "serve", UNCHANGED <<response, failure>>, fate = "inward"
      PROVE  Answering'
  BY <1>4 DEF Answering
<1>5. ASSUME fate' = "after", UNCHANGED failure, failure = Nothing,
             response' # Nothing, response'.headed = FALSE, Own
      PROVE  Answering'
  BY <1>5, <1>a DEF Answering
<1>6. ASSUME fate' = "catch", response' = Nothing, failure' # Nothing,
             failure' # Unanswerable
      PROVE  Answering'
  BY <1>6, <1>a DEF Answering
<1>g. \A e \in HookFailures \cup UpstreamFailures \cup Thrown({}, {"not found"})
             \cup Thrown({}, {"invalid"}) \cup Thrown({}, {}) \cup {Failure(0, {}, {})} :
          e # Nothing /\ e # Unanswerable
  BY KnownFailures, NothingAssumption
<1>7. CASE At({"rateLimit", "routeRateLimit", "size", "validation", "auth", "routeAuth",
               "headers", "errors", "bodyParser", "cors", "middleware", "default"})
  <2>0. /\ fate = "inward" /\ Going /\ Stage # "handler"
        /\ response = Nothing /\ failure = Nothing
    BY <1>7 DEF At, Going, Answering
  <2>1. \/ fate' = "inward" /\ UNCHANGED <<response, failure>>
        \/ \E st \in 200..599, t \in {"general", "route"} : AnswerHere(st, t)
        \/ \E e \in Failures \ {Unanswerable} : FailHere(e)
    <3>1. CASE CheckSize
      <4>1. SizeErrors(request.method, request'.exceeded) \in SUBSET (DOMAIN SizeOrder)
        BY DEF SizeErrors
      <4>2. \A S \in SUBSET (DOMAIN SizeOrder) :
               S # {} => SizeStatus[SizeOrder[First(S)]] \in 200..599
        BY SizeStatusIs
      <4> QED BY <3>1, <4>1, <4>2 DEF CheckSize, LetThrough, answerVars
    <3>2. CASE LimitRate \/ ValidateInput \/ Await \/ ParseBody \/ ApplyCors \/ DefaultRoute
      <4>1. 400 \in 200..599 /\ 429 \in 200..599 /\ 204 \in 200..599 /\ 404 \in 200..599
        OBVIOUS
      <4> QED BY <3>2, <4>1, ZenonT(60) DEF LimitRate, ValidateInput, Await, ParseBody, ApplyCors,
                 DefaultRoute, Excuse, LetThrough, answerVars
    <3>3. CASE Authenticate
      <4>1. 401 \in 200..599
        OBVIOUS
      <4> QED BY <3>3, <4>1, KnownFailures, ZenonT(60) DEF Authenticate, Excuse, LetThrough,
                 answerVars
    <3>4. CASE RunMiddleware
      <4>1. 200 \in 200..599
        OBVIOUS
      <4> QED BY <3>4, <4>1, KnownFailures, ZenonT(60) DEF RunMiddleware, answerVars
    <3> QED BY <2>0, <1>7, <3>1, <3>2, <3>3, <3>4 DEF PipelineStep, HandlerStep, At,
               BeforeRequest, CallHandler, NotImplemented, NoTarget, NotProxied, Proxy, AfterResponse,
               OnErrorHook, ApplyHeaders, HandleFailure, FetchSettles
  <2>2. ASSUME NEW st \in 200..599, NEW t \in {"general", "route"}, AnswerHere(st, t)
        PROVE  Answering'
    <3>1. /\ fate' = "outward" /\ response' = Answer(st, t)
          /\ UNCHANGED <<failure, position, passed>>
      BY <2>2 DEF AnswerHere
    <3>2. response' # Nothing /\ response'.headed = FALSE /\ response'.text # "own"
      <4>1. st \in Statuses
        BY DEF Statuses
      <4> QED BY <3>1, <4>1, <1>b
    <3> QED BY <2>0, <3>1, <3>2, <1>2
  <2>3. ASSUME NEW e \in Failures \ {Unanswerable}, FailHere(e) PROVE Answering'
    <3>1. /\ fate' = "outward" /\ failure' = e
          /\ UNCHANGED <<response, position, passed>>
      BY <2>3 DEF FailHere
    <3> QED BY <2>0, <2>3, <3>1, <1>3, NothingAssumption
  <2> QED BY <2>0, <2>1, <2>2, <2>3, <1>1
<1>8. CASE HandlerStep
  <2>0. Placed /\ Answering /\ Going
    BY <1>8 DEF HandlerStep, BeforeRequest, CallHandler, NotImplemented, NoTarget, NotProxied, Proxy,
                AfterResponse, OnErrorHook, At, Going
  <2>1. CASE BeforeRequest
    BY <2>1, <1>4, <1>6, <1>g DEF BeforeRequest, At, Proceed, Throw, Answering
  <2>2. CASE CallHandler
    <3>1. failure = Nothing /\ response = Nothing
      BY <2>2 DEF CallHandler, Answering
    <3>2. \/ fate' = "after" /\ UNCHANGED failure /\ response' = Answer(200, "route")
          \/ /\ fate' = "catch" /\ UNCHANGED response
             /\ failure' \in Thrown({}, {"not found"})
      BY <2>2, ZenonT(60) DEF CallHandler, Proceed, Throw
    <3>3. CASE fate' = "after"
      BY <3>1, <3>2, <3>3, <1>5, <1>h, ZenonT(60)
    <3>4. CASE fate' = "catch"
      <4>1. response' = Nothing /\ failure' \in Thrown({}, {"not found"})
        BY <3>1, <3>2, <3>4
      <4> QED BY <3>4, <4>1, <1>6, <1>g
    <3> QED BY <3>2, <3>3, <3>4
  <2>3. CASE NotImplemented
    <3>1. /\ failure = Nothing /\ fate' = "after" /\ UNCHANGED failure
          /\ response' = Answer(501, "general")
      BY <2>3 DEF NotImplemented, Proceed, Answering
    <3> QED BY <3>1, <1>5, <1>h, ZenonT(60)
  <2>4. CASE NoTarget \/ NotProxied
    <3>1. response = Nothing /\ fate' = "catch" /\ UNCHANGED response
      BY <2>4 DEF NoTarget, NotProxied, Throw, Answering
    <3>2. failure' \in Thrown({}, {"invalid"}) \cup {Failure(0, {}, {})}
      BY <2>4, ZenonT(60) DEF NoTarget, NotProxied, Throw
    <3> QED BY <3>1, <3>2, <1>6, <1>g
  <2>5. CASE Proxy
    <3>1. failure = Nothing /\ response = Nothing
      BY <2>5 DEF Proxy, Answering
    <3>2. \/ /\ fate' = "after" /\ UNCHANGED failure
             /\ response' = Answer(200, "route") \/ response' = Answer(502, "general")
          \/ /\ fate' = "catch" /\ UNCHANGED response
             /\ failure' \in UpstreamFailures
      BY <2>5, ZenonT(60) DEF Proxy, Proceed, Throw
    <3>3. CASE fate' = "after"
      BY <3>1, <3>2, <3>3, <1>5, <1>h, ZenonT(60)
    <3>4. CASE fate' = "catch"
      <4>1. response' = Nothing /\ failure' \in UpstreamFailures
        BY <3>1, <3>2, <3>4
      <4> QED BY <3>4, <4>1, <1>6, <1>g
    <3> QED BY <3>2, <3>3, <3>4
  <2>6. CASE AfterResponse
    <3>1. /\ fate = "after" /\ failure = Nothing /\ response # Nothing /\ response.headed = FALSE
          /\ response.text = "own" => gatewayConfig.used = "development"
      BY <2>6 DEF AfterResponse, Answering
    <3>2. \/ fate' = "outward" /\ UNCHANGED <<failure, position, passed, response>>
          \/ fate' = "catch" /\ failure' \in HookFailures /\ response' = Nothing
      BY <2>6 DEF AfterResponse, Proceed
    <3> QED BY <2>0, <3>1, <3>2, <1>2, <1>6, <1>g
  <2>7. CASE OnErrorHook
    <3>1. /\ fate' = "outward" /\ UNCHANGED <<position, passed, response>>
          /\ failure' = failure \/ failure' \in HookFailures
          /\ Hooked("onError") => told'
          /\ response = Nothing /\ failure # Nothing /\ failure # Unanswerable
      BY <2>7 DEF OnErrorHook, Told, Answering
    <3> QED BY <2>0, <3>1, <1>3, <1>g
  <2> QED BY <1>8, <2>1, <2>2, <2>3, <2>4, <2>5, <2>6, <2>7 DEF HandlerStep
<1>9. CASE ApplyHeaders
  <2>1. /\ fate = "outward" /\ fate' = "outward" /\ Awaiting # {} /\ chain[Nearest] = "headers"
        /\ position' = Nearest /\ UNCHANGED <<failure, told, passed>>
        /\ response' = IF response = Nothing THEN Nothing
                       ELSE [response EXCEPT !.headed = TRUE]
    BY <1>9 DEF ApplyHeaders
  <2>2. Stage' = "headers" /\ Repaired' = Repaired
    BY <1>a, <2>1 DEF Stage, Repaired
  <2>3. HeadersDue'
    BY <1>a, <2>1, WayBack DEF HeadersDue, Behind
  <2>4. "errors" \in Behind <=> "errors" \in Behind'
    BY <1>a, <2>1, WayBack DEF Behind
  <2>5. CASE response = Nothing
    BY <2>1, <2>2, <2>4, <2>5, <1>a DEF Answering
  <2>6. CASE response # Nothing
    <3>1. /\ response'.headed = TRUE /\ response'.status = response.status
          /\ response'.text = response.text /\ response' # Nothing
      <4>1. response \in Answers
        BY <2>6 DEF Typed
      <4>2. response' = [response EXCEPT !.headed = TRUE] /\ response' \in Answers
        <5>1. [response EXCEPT !.headed = TRUE] \in Answers
          BY <4>1 DEF Answers
        <5> QED BY <2>1, <2>6, <5>1
      <4>3. response' # Nothing
        BY <4>2, NothingAssumption
      <4> HIDE DEF Own
      <4> QED BY <4>1, <4>2, <4>3 DEF Answers
    <3> QED BY <2>1, <2>2, <2>3, <2>6, <3>1, <1>a DEF Answering
  <2> QED BY <2>5, <2>6
<1>10. CASE HandleFailure
  <2> DEFINE a == ErrorAnswer(failure, gatewayConfig.used = "production")
             Done == response # Nothing \/ gatewayConfig.used = "passing"
  <2>1. /\ fate = "outward" /\ fate' = "outward" /\ Awaiting # {} /\ chain[Nearest] = "errors"
        /\ position' = Nearest /\ UNCHANGED <<told, passed>>
        /\ Done => UNCHANGED <<response, failure>>
        /\ ~Done => \/ /\ a.status \in Statuses
                       /\ response' = Answer(a.status, a.text) /\ UNCHANGED failure
                    \/ failure' = Unanswerable /\ UNCHANGED response
    BY <1>10 DEF HandleFailure
  <2>2. Stage' = "errors" /\ (failure' = failure => Repaired' = Repaired)
    BY <1>a, <2>1 DEF Stage, Repaired
  <2>3. /\ ~HeadersDue /\ ~HeadersDue'
        /\ "errors" \in Behind /\ "errors" \notin Behind'
    BY <1>a, <2>1, WayBack DEF HeadersDue, Behind
  <2> HIDE DEF a
  <2>4. CASE response # Nothing
    BY <2>1, <2>2, <2>3, <2>4, <1>a DEF Answering
  <2>5. CASE response = Nothing /\ gatewayConfig.used = "passing"
    <3>1. ~Repaired
      BY <2>5 DEF Repaired
    <3> QED BY <2>1, <2>2, <2>3, <2>5, <3>1, <1>a DEF Answering
  <2>6. CASE ~Done /\ failure' = Unanswerable /\ UNCHANGED response
    <3>1. ~Repaired'
      BY <2>6 DEF Repaired
    <3>2. failure' # Nothing
      BY <2>6, KnownFailures, NothingAssumption
    <3> QED BY <2>1, <2>2, <2>3, <2>6, <3>1, <3>2, <1>a DEF Answering
  <2>7. CASE /\ ~Done /\ UNCHANGED failure
             /\ a.status \in Statuses /\ response' = Answer(a.status, a.text)
    <3>1. failure \in Failures /\ failure # Unanswerable
      BY <2>1, <2>3, <2>7 DEF Answering, Typed
    <3>2. /\ a.status >= 400 \/ a.status = failure.given
          /\ a.text \in {"general", "own"}
          /\ a.text = "own" => gatewayConfig.used # "production"
      <4>1. ASSUME NEW b \in BOOLEAN
            PROVE  /\ ErrorAnswer(failure, b).status >= 400
                      \/ ErrorAnswer(failure, b).status = failure.given
                   /\ ErrorAnswer(failure, b).text = IF b THEN "general" ELSE "own"
        <5>1. /\ \/ ErrorAnswer(failure, b).status \in 400..599
                 \/ ErrorAnswer(failure, b).status = failure.given
              /\ ErrorAnswer(failure, b).text = IF b THEN "general" ELSE "own"
          BY <3>1, ErrorAnswerIs
        <5>2. \A n \in 400..599 : n >= 400
          OBVIOUS
        <5> QED BY <5>1, <5>2
      <4>2. PICK b \in BOOLEAN : b = (gatewayConfig.used = "production")
        OBVIOUS
      <4>3. a = ErrorAnswer(failure, b)
        BY <4>2, ZenonT(60) DEF a
      <4>4. b <=> gatewayConfig.used = "production"
        BY <4>2
      <4> QED BY <4>1, <4>3, <4>4
    <3>3. gatewayConfig.used \in {"none", "passing", "production", "development"}
      BY <2>1, PipelineAssumption DEF Typed, GatewayConfig
    <3>4. Repaired /\ (a.text = "own" => gatewayConfig.used = "development")
      BY <2>1, <2>7, <3>1, <3>2, <3>3, WayBack DEF Repaired
    <3>5. /\ response' # Nothing /\ response'.headed = FALSE
          /\ response'.status = a.status /\ response'.text = a.text
      <4>1. Answer(a.status, a.text) # Nothing
        BY <2>7, <3>2, <1>b
      <4> QED BY <2>7, <4>1, <1>b
    <3>6. response'.status >= 400 \/ response'.status = failure'.given
      BY <2>7, <3>2, <3>5
    <3> QED BY <2>1, <2>2, <2>3, <2>7, <3>4, <3>5, <3>6, <1>a DEF Answering
  <2> QED BY <2>1, <2>4, <2>5, <2>6, <2>7
<1>11. CASE FetchSettles
  <2>1. \/ fate' = "answered" /\ response' = response /\ response # Nothing
        \/ fate' = "rejected" /\ response' = Nothing
        \/ fate' = "answered" /\ \E st \in HandlerStatuses : response' = Answer(st, "route")
        \/ fate' = "answered" /\ response' = Answer(500, "general")
    BY <1>11 DEF FetchSettles, Settled, Answered, Rejected
  <2>2. fate' \in {"answered", "rejected"} /\ (fate' = "answered" => response' # Nothing)
    BY <2>1, <1>h
  <2>3. Own
    BY <2>1, <1>h DEF Answering
  <2> QED BY <2>2, <2>3, <1>a DEF Answering
<1> QED BY <1>7, <1>8, <1>9, <1>10, <1>11 DEF PipelineStep, LimitRate, CheckSize,
           ValidateInput, Authenticate, Await, ParseBody, ApplyCors, RunMiddleware,
           DefaultRoute, At

-----------------------------------------------------------------------------
(* fetch passes on what has come back, or answers for the failure.         *)
LEMMA SoundStep ==
  ASSUME Typed, Placed, Answering, AnswersSound, PipelineStep, Answering'
  PROVE  AnswersSound'
<1>0. UNCHANGED gatewayConfig /\ UNCHANGED routeConfig /\ UNCHANGED chain
  BY Moves DEF Onward, Stays, Returns
<1>1. CASE ~FetchSettles
  <2>1. fate' \notin {"answered", "rejected"}
    BY <1>1, ZenonT(60) DEF PipelineStep, LimitRate, CheckSize, ValidateInput, Authenticate, Await,
       ParseBody, ApplyCors, RunMiddleware, DefaultRoute, HandlerStep, ApplyHeaders,
       HandleFailure, BeforeRequest, CallHandler, NotImplemented, NoTarget, NotProxied, Proxy,
       AfterResponse, OnErrorHook, Excuse, LetThrough, AnswerHere, FailHere, Proceed, Throw
  <2> QED BY <2>1 DEF AnswersSound, Answering
<1>2. CASE FetchSettles
  <2>1. /\ fate = "outward" /\ Awaiting = {} /\ UNCHANGED <<position, failure, passed>>
        /\ \/ fate' = "answered" /\ response' = response /\ response # Nothing
           \/ /\ fate' = "rejected" /\ response = Nothing
              /\ gatewayConfig.errorHandler = "throws"
           \/ /\ fate' = "answered" /\ response = Nothing
              /\ gatewayConfig.errorHandler = "answers"
              /\ \E st \in HandlerStatuses : response' = Answer(st, "route")
           \/ fate' = "answered" /\ response = Nothing /\ response' = Answer(500, "general")
    BY <1>2 DEF FetchSettles, Settled, Answered, Rejected
  <2>2. "headers" \notin Behind /\ "errors" \notin Behind
    BY <2>1 DEF Awaiting, Behind
  <2>3. Repaired' = Repaired
    BY <1>0, <2>1 DEF Repaired
  <2>4. CASE response # Nothing
    <3>1. fate' = "answered" /\ response' = response
      BY <2>1, <2>4
    <3>2. /\ response.headed = TRUE <=> "headers" \in passed
          /\ failure # Nothing =>
                Repaired /\ (response.status >= 400 \/ response.status = failure.given)
          /\ response.text = "own" => gatewayConfig.used = "development"
      BY <2>1, <2>2, <2>4 DEF Answering, HeadersDue
    <3>3. response.headed \in BOOLEAN
      BY <2>4 DEF Typed, Answers
    <3> QED BY <1>0, <2>1, <2>3, <3>1, <3>2, <3>3 DEF AnswersSound, Asked
  <2>5. CASE response = Nothing /\ fate' = "answered"
    <3>1. failure # Nothing /\ ~Repaired
      BY <2>1, <2>2, <2>5 DEF Answering
    <3>2. /\ response'.headed = FALSE /\ response'.text # "own"
          /\ response'.status = 500 \/ gatewayConfig.errorHandler = "answers"
      BY <2>1, <2>5 DEF Answer
    <3> QED BY <1>0, <2>1, <2>3, <2>5, <3>1, <3>2 DEF AnswersSound, Asked
  <2>6. CASE response = Nothing /\ fate' = "rejected"
    BY <1>0, <2>1, <2>6 DEF AnswersSound
  <2> QED BY <2>1, <2>4, <2>5, <2>6
<1> QED BY <1>1, <1>2

LEMMA PipelineInvInit == PipelineInit => PipelineInv
<1> SUFFICES ASSUME PipelineInit PROVE PipelineInv
  OBVIOUS
<1>1. FreshRequest("GET") \in Requests
  BY DEF FreshRequest, Requests, Methods
<1> QED BY <1>1 DEF PipelineInit, PipelineInv, Typed, Untouched, Placed, Examined, Guarded,
           Answering, AnswersSound

LEMMA PipelineInvNext == PipelineInv /\ [PipelineNext]_pipelineVars => PipelineInv'
<1> SUFFICES ASSUME PipelineInv, [PipelineNext]_pipelineVars PROVE PipelineInv'
  OBVIOUS
<1>0. Typed /\ Untouched /\ Placed /\ Examined /\ Guarded /\ Answering /\ AnswersSound
  BY DEF PipelineInv
<1>1. ASSUME NEW o \in GatewayConfigs, BuildGateway(o) PROVE PipelineInv'
  <2>1. fate = "idle" /\ fate' = "idle" /\ gatewayConfig' = o
        /\ UNCHANGED <<routeConfig, passed, reached, upstream, response, failure, request, told>>
    BY <1>0, <1>1 DEF BuildGateway, Typed, answerVars
  <2>2. Typed' /\ Untouched' /\ Placed'
    BY <1>0, <2>1 DEF Typed, Untouched, Placed
  <2> QED BY <1>0, <2>1, <2>2 DEF PipelineInv, Untouched, Examined, Guarded, Answering,
             AnswersSound
<1>2. ASSUME NEW r \in RouteConfigs, AddRoute(r) PROVE PipelineInv'
  <2>1. fate = "idle" /\ fate' = "idle" /\ routeConfig' = r
        /\ UNCHANGED <<gatewayConfig, passed, reached, upstream, response, failure, request, told>>
    BY <1>0, <1>2 DEF AddRoute, Typed, answerVars
  <2>2. Typed' /\ Untouched' /\ Placed'
    BY <1>0, <2>1 DEF Typed, Untouched, Placed
  <2> QED BY <1>0, <2>1, <2>2 DEF PipelineInv, Untouched, Examined, Guarded, Answering,
             AnswersSound
<1>3. ASSUME NEW m \in {"GET", "POST", "OPTIONS"}, NEW matches \in BOOLEAN, Receive(m, matches)
      PROVE  PipelineInv'
  <2>1. /\ fate' = "inward" /\ position' = 1 /\ UNCHANGED <<gatewayConfig, routeConfig>>
        /\ gatewayConfig # Nothing /\ routeConfig # Nothing /\ request' = FreshRequest(m)
        /\ failure' = Nothing /\ response' = Nothing /\ told' = FALSE
        /\ passed' = {} /\ reached' = FALSE /\ upstream' = Nothing
    BY <1>3 DEF Receive, configVars
  <2>2. request' \in Requests
    BY <2>1 DEF FreshRequest, Requests, Methods
  <2>3. Typed' /\ Untouched'
    BY <1>0, <2>1, <2>2 DEF Typed, Untouched
  <2>4. ChainBuilt(chain', gatewayConfig, routeConfig)
    <3> DEFINE b == matches /\ m \in RouteMethods(routeConfig)
    <3>1. gatewayConfig \in GatewayConfig /\ routeConfig \in RouteConfig
      BY <1>0, <2>1, PipelineAssumption DEF Typed
    <3>2. chain' = GlobalChain(gatewayConfig) \o
                   (IF b THEN RouteChain(gatewayConfig, routeConfig) ELSE <<"default">>)
      BY <1>3 DEF Receive
    <3>3. b \in BOOLEAN
      OBVIOUS
    <3> HIDE DEF b
    <3> QED BY <3>1, <3>2, <3>3, WholeBuilt
  <2>5. 1 \in 1..Len(chain')
    <3>1. PICK S : Built(chain', S) /\ "size" \in S
      BY <2>4 DEF ChainBuilt, GlobalOn
    <3>2. PICK i \in 1..Len(chain') : chain'[i] = "size"
      BY <3>1 DEF Built
    <3>3. Len(chain') \in Nat
      BY <3>1 DEF Built
    <3> QED BY <3>2, <3>3
  <2>6. Behind' = {}
    <3>1. 1..(position' - 1) = {}
      BY <2>1
    <3> QED BY <3>1 DEF Behind
  <2>7. Placed'
    BY <2>1, <2>4, <2>5, <2>6 DEF Placed
  <2> QED BY <2>1, <2>3, <2>7 DEF PipelineInv, Examined, Guarded, Answering, AnswersSound
<1>4. CASE PipelineStep
  <2>1. Typed' /\ Placed' /\ Examined' /\ Guarded'
    BY <1>0, <1>4, TypedStep, PlacedStep, ExaminedStep, GuardedStep
  <2>2. Answering'
    BY <1>0, <1>4, <2>1, AnsweringStep
  <2>3. AnswersSound'
    BY <1>0, <1>4, <2>2, SoundStep
  <2>4. Untouched'
    BY <1>0, <1>4, Moves DEF Onward, Stays, Returns, Untouched
  <2> QED BY <2>1, <2>2, <2>3, <2>4 DEF PipelineInv
<1>5. CASE UNCHANGED pipelineVars
  BY <1>0, <1>5 DEF PipelineInv, pipelineVars, configVars, answerVars, Typed, Untouched, Placed,
     ChainBuilt, Behind, Going, Stage, Examined, Checked, Guarded, Answering, HeadersDue,
     Hooked, Repaired, Asked, AnswersSound
<1> QED BY <1>1, <1>2, <1>3, <1>4, <1>5 DEF PipelineNext

(* The inductive invariant holds at every step of every request.           *)
THEOREM PipelineInvariant == PipelineSpec => []PipelineInv
<1>1. PipelineInit => PipelineInv
  BY PipelineInvInit
<1>2. PipelineInv /\ [PipelineNext]_pipelineVars => PipelineInv'
  BY PipelineInvNext
<1> QED BY <1>1, <1>2, PTL DEF PipelineSpec

(* A gateway, its route, a request and its answer are always what they are *)
(* meant to be: the request at a stage of its chain, an answer on its way  *)
(* back an answer or a failure, an answered request with its answer.       *)
THEOREM PipelineTypes == PipelineSpec => []PipelineTypeOK
<1>1. PipelineInv => PipelineTypeOK
  BY DEF PipelineInv, Typed, Placed, Answering, PipelineTypeOK
<1> QED BY <1>1, PipelineInvariant, PTL

(* Code of a route sees no request that a configured check has not passed, *)
(* and nothing of a client's address, host, credentials or hop-by-hop      *)
(* headers goes upstream: whatever the configurations of the gateway and   *)
(* its route, the limits and inputs that requests may break, and the       *)
(* headers that clients send and name.                                     *)
THEOREM NothingUncheckedHolds == PipelineSpec => []NothingUnchecked
<1>1. ASSUME PipelineInv PROVE NothingUnchecked
  <2>1. Typed /\ Untouched /\ Examined /\ Guarded
    BY <1>1 DEF PipelineInv
  <2>2. ASSUME reached
        PROVE  /\ SizeErrors(request.method, request.exceeded) = {}
               /\ "validation" \in gatewayConfig.stages =>
                     /\ request.input.layers <= DecodeBudget
                     /\ request.input.faults = {}
               /\ "auth" \in gatewayConfig.stages => Checked("auth", gatewayConfig.auth)
               /\ "routeAuth" \in routeConfig.stages =>
                     Checked("routeAuth", routeConfig.auth)
               /\ {"rateLimit"} \cap gatewayConfig.stages \subseteq passed
               /\ {"routeRateLimit"} \cap routeConfig.stages \subseteq passed
    BY <2>1, <2>2 DEF Examined, Guarded
  <2>3. ASSUME upstream # Nothing
        PROVE  /\ \A h \in HeaderNames \ Plain : upstream[h] # "client"
               /\ \A h \in Derived : upstream[h] \in {"gateway", "route"}
               /\ \A h \in request.headers[2] : upstream[h] # "client"
    <3>1. upstream = Forwarded(request.headers[1], request.headers[2], routeConfig.headers)
          /\ request.headers \in ClientHeaders
      BY <2>1, <2>3 DEF Guarded, Typed, Requests
    <3>2. request.headers[2] \subseteq HeaderNames
      BY <3>1, PipelineAssumption
    <3>3. \A h \in HeaderNames \ Plain : h \in HopByHop \cup Stripped \cup Derived
      BY DEF HeaderNames
    <3>4. Derived \subseteq HeaderNames
      BY DEF HeaderNames
    <3> QED BY <3>1, <3>2, <3>3, <3>4 DEF Forwarded
  <2> QED BY <2>2, <2>3 DEF NothingUnchecked
<1> QED BY <1>1, PipelineInvariant, PTL

(* fetch rejects only if the program's errorHandler throws; a failure      *)
(* reaches the client as an error, unless the program's errorHandler       *)
(* answers otherwise or the program's own error says another status, and   *)
(* only in development in its own words; the onError hook hears of every   *)
(* failure of the final handler; and an answer carries the security        *)
(* headers exactly if it has come back past them, that of a failure if the *)
(* error-handling middleware could make it: whatever statuses errors say   *)
(* and errorHandlers answer with.                                          *)
THEOREM AnswersSoundHolds == PipelineSpec => []AnswersSound
<1>1. PipelineInv => AnswersSound
  BY DEF PipelineInv
<1> QED BY <1>1, PipelineInvariant, PTL

=============================================================================
