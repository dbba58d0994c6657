---------------------------- MODULE MCDeployment ----------------------------
EXTENDS DeploymentProperties, TLC

(* The second commit adds two migrations, the third takes one of them back. *)
Migrations == (0 :> 0) @@ (1 :> 2) @@ (2 :> 1) @@ (3 :> 2) @@ (4 :> 3)
=============================================================================
