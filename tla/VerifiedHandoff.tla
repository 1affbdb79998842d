--------------------------- MODULE VerifiedHandoff ---------------------------
(***************************************************************************)
(* What the plugin controllers promise between them: "pulls, verifies,     *)
(* materialises".  Only trusted bytes are stored and nothing stored is     *)
(* lost; what is offered to a gateway was stored before; a gateway mounts  *)
(* one offer as a whole, the one it took last, or nothing.                 *)
(***************************************************************************)
CONSTANT Trusted    \* what passes every trust gate

VARIABLES
    stored,     \* verified bytes, kept for good
    offered,    \* what the gateway is to mount
    taken,      \* the offer the gateway is working on
    mounted     \* what it has mounted

handVars == <<stored, offered, taken, mounted>>

HandInit == stored = {} /\ offered = {} /\ taken = {} /\ mounted = {}

Store ==
    /\ \E s \in Trusted : stored' = stored \cup {s}
    /\ UNCHANGED <<offered, taken, mounted>>

\* An offer may be withdrawn, and replaced as a whole.
Offer ==
    /\ offered' \subseteq stored
    /\ UNCHANGED <<stored, taken, mounted>>

Take ==
    /\ taken' = offered
    /\ UNCHANGED <<stored, offered, mounted>>

\* The gateway starts over, or is rendered without plugins.
Drop ==
    /\ taken' = {}
    /\ UNCHANGED <<stored, offered, mounted>>

Mount ==
    /\ mounted' = taken
    /\ taken' = {}
    /\ UNCHANGED <<stored, offered>>

HandNext == Store \/ Offer \/ Take \/ Drop \/ Mount

HandSpec == HandInit /\ [][HandNext]_handVars
=============================================================================
