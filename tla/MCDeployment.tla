---------------------------- MODULE MCDeployment ----------------------------
(* The full script with one asset and one pool, as helpers/config/full.ts  *)
(* has it, and with the optional parts of the steps.                       *)
EXTENDS DeploymentProperties, DeploySteps, TLC

MCAssets == <<"USDC">>
MCAssetItems == {"USDC"}
MCEmergencyAdmins == <<"emergency">>
=============================================================================
