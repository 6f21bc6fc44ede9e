------------------------------ MODULE MCBtsNm ------------------------------
(* The BTS in front of a BSC that sends anything, for TLC: bounds. *)
EXTENDS BtsNm, FiniteSets

CONSTANT MaxChanged

Changed(o) ==
    \/ opstate[o] # InitialState("DISABLED")[o]
    \/ admin_state[o] # InitialState("LOCKED")[o]

\* States in which more than MaxChanged objects have left their first states are
\* checked but not continued from.
FewChanged == Cardinality({o \in Objects : Changed(o)}) <= MaxChanged

\* Nor are those with a state that only a byte without a name gives an object, which
\* an unknown state asked for and a write beyond the arrays both do.
AllNamed ==
    /\ \A o \in Objects : Changed(o) =>
          /\ opstate[o] \in {"ENABLED", InitialState("DISABLED")[o]}
          /\ admin_state[o] \in {"UNLOCKED", InitialState("LOCKED")[o]}
    /\ sw_site_manager # "OTHER" /\ sw_bts # "OTHER"
=============================================================================
