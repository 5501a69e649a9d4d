------------------------------- MODULE Gateway -------------------------------
(***************************************************************************)
(* The parts of a gateway process that share no state, side by side: key   *)
(* rotation, sessions, the request pipeline, client addresses and the      *)
(* gateway's own start and stop.  Any of them may move at any time.        *)
(***************************************************************************)
EXTENDS JwtKeyRotation, SessionManager, RequestPipeline, TrustedProxy,
        GatewayLifecycle

gatewayVars == <<keysVars, sessVars, pipelineVars, trustVars, lifecycleVars>>

GatewayInit ==
    KeysInit /\ SessionsInit /\ PipelineInit /\ TrustInit /\ LifecycleInit

(* A step of one part leaves the variables of the others alone.            *)
KeysMove      == /\ KeysNext
                 /\ UNCHANGED <<sessVars, pipelineVars, trustVars, lifecycleVars>>
SessionsMove  == /\ SessionsNext
                 /\ UNCHANGED <<keysVars, pipelineVars, trustVars, lifecycleVars>>
RequestsMove  == /\ PipelineNext
                 /\ UNCHANGED <<keysVars, sessVars, trustVars, lifecycleVars>>
AddressesMove == /\ TrustNext
                 /\ UNCHANGED <<keysVars, sessVars, pipelineVars, lifecycleVars>>
LifecycleMove == /\ LifecycleNext
                 /\ UNCHANGED <<keysVars, sessVars, pipelineVars, trustVars>>

GatewayNext == \/ KeysMove \/ SessionsMove \/ RequestsMove \/ AddressesMove
               \/ LifecycleMove

(* Fairness as in PipelineSpec.                                            *)
GatewaySpec ==
    /\ GatewayInit
    /\ [][GatewayNext]_gatewayVars
    /\ WF_pipelineVars(PipelineStep)

(* The type invariants of the five parts.                                  *)
TypeOK ==
    /\ KeysTypeOK /\ SessionsTypeOK /\ PipelineTypeOK /\ TrustTypeOK
    /\ LifecycleTypeOK

=============================================================================
