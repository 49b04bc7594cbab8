--------------------------- MODULE MCDesktopClient ----------------------------
(* The parts of the desktop client that keep state: the runtime controller, its *)
(* routing safety gate, the secure storage, the profile store and the guard of  *)
(* the single instance.  A behaviour is that of one of them, while the others   *)
(* keep their initial states.                                                   *)
EXTENDS RuntimeController, RoutingSafety, SecretStore, StateStores, InstanceGuard, TLC

VARIABLE part

rest == <<vars, safetyVars, secretVars, storeVars, guardVars>>

\* The launches are alike.
LaunchSymmetry == Permutations(Launches)

MCInit ==
    /\ RuntimeInit /\ SafetyInit /\ SecretInit /\ StoresInit /\ GuardInit
    /\ part \in {"runtime", "safety", "secrets", "stores", "guard"}

MCNext ==
    /\ \/ part = "runtime" /\ RuntimeNext
          /\ UNCHANGED <<safetyVars, secretVars, storeVars, guardVars>>
       \/ part = "safety" /\ SafetyNext
          /\ UNCHANGED <<vars, secretVars, storeVars, guardVars>>
       \/ part = "secrets" /\ SecretNext
          /\ UNCHANGED <<vars, safetyVars, storeVars, guardVars>>
       \/ part = "stores" /\ StoresNext
          /\ UNCHANGED <<vars, safetyVars, secretVars, guardVars>>
       \/ part = "guard" /\ GuardNext
          /\ UNCHANGED <<vars, safetyVars, secretVars, storeVars>>
    /\ UNCHANGED part

MCSpec == MCInit /\ [][MCNext]_<<rest, part>>
===============================================================================
