----------------------------- MODULE MCAbisLink -----------------------------
(* The receive path with few messages and short attribute lists, for TLC. *)
EXTENDS AbisLink

Attribute(k, n) == [atribute |-> k, value |-> n]

Bound == Attribute("NM_ATT_INTERF_BOUND", 0)
Crit == Attribute("NM_ATT_CONN_FAIL_CRIT", 2)
Cgi == Attribute("NM_ATT_SOFTBTS_CGI", 0)

\* Attributes of each way to be walked over; one that is not known.
MCLists == {<<Bound, Crit, Cgi>>, <<Bound, Attribute("unknown", 0)>>}

EveryMessage == {REQUEST, SET_ATTR, SW_ACT_REQ_ACK, RSL_CONNECT}
=============================================================================
