---------------------------- MODULE CreateOnceKey ----------------------------
(***************************************************************************)
(* What the coordination Secret of a managed MCPGCluster promises about    *)
(* the state key in it: "create-once (never overwritten once present - a   *)
(* rotation would orphan sealed state)".  A key is minted where there is   *)
(* none and destroyed only while the cluster that owns it is being         *)
(* deleted; in between every reader finds the same key.                    *)
(***************************************************************************)
EXTENDS Naturals

VARIABLES
    key,    \* the key in the Secret, 0 when there is none
    dying   \* the cluster that owns it is being deleted

keyVars == <<key, dying>>

KeyInit == key = 0 /\ dying = FALSE

\* A key that nobody has used before.
Mint == key = 0 /\ key' \in Nat \ {0}

Destroy == dying /\ key' = 0

\* The owner may be deleted and created again around a key that stays.
KeyNext ==
    \/ dying' \in BOOLEAN /\ (UNCHANGED key \/ Mint)
    \/ dying' = dying /\ Destroy

KeySpec == KeyInit /\ [][KeyNext]_keyVars
=============================================================================
