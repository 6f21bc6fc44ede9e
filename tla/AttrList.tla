------------------------------ MODULE AttrList ------------------------------
(***************************************************************************)
(* The walk of bts_get_attr (src/src/bts_nm.c) over the attributes of a    *)
(* SET BTS ATTRIBUTES message.  Their values are skipped; what counts is   *)
(* how far each of them moves the walk.  The length left is kept in 8      *)
(* bits, and the walk ends when it is exactly zero.                        *)
(***************************************************************************)
EXTENDS Integers, SequencesExt

CONSTANTS
    Lists,      \* the attribute lists that are received
    MaxRounds   \* of a walk: longer than any list

\* sizeof the structure of each attribute of fixed size.
FixedSize ==
    [NM_ATT_INTERF_BOUND |-> 7, NM_ATT_INTAVE_PARAM |-> 2, NM_ATT_T200 |-> 8,
     NM_ATT_MAX_TA |-> 2, NM_ATT_CCCH_L_T |-> 2, NM_ATT_CCCH_L_I_P |-> 2,
     NM_ATT_RACH_B_THRESH |-> 2, NM_ATT_LDAVG_SLOTS |-> 3, NM_ATT_BTS_AIR_TIMER |-> 2,
     NM_ATT_NY1 |-> 2, NM_ATT_BCCH_ARFCN |-> 3, NM_ATT_BSIC |-> 2, NM_ATT_START_TIME |-> 3,
     NM_ATT_SOFTBTS_CGI |-> 10]

\* Attributes that carry the size of their value.
Tlv == {"NM_ATT_CONN_FAIL_CRIT", "NM_ATT_OVERL_PERIOD"}

Known == (DOMAIN FixedSize) \cup Tlv

Size8(n) == n % 256

SizeOf(a) ==
    IF a.atribute \in Tlv THEN 3 + a.value
    ELSE IF a.atribute \in Known THEN FixedSize[a.atribute] ELSE 1

SizeOfList(l) == FoldLeft(LAMBDA n, a : n + SizeOf(a), 0, l)

\* An attribute is its identifier and, of a TLV, the size of its value.  A list fits
\* into a message, whose length has 8 bits and counts five more bytes.
ASSUME ListsAssumption ==
    \A l \in Lists :
        /\ \A i \in 1 .. Len(l) : l[i].value \in Nat
        /\ SizeOfList(l) < 251
        /\ Len(l) < MaxRounds

\* A list the walk knows its way through: of known attributes, the cell's identity,
\* which does not lead to a next one, only at the end.
WellFormed(l) ==
    \A i \in 1 .. Len(l) :
        /\ l[i].atribute \in Known
        /\ l[i].atribute = "NM_ATT_SOFTBTS_CGI" => i = Len(l)

VARIABLES
    list,       \* the list being walked
    patr,       \* the attribute walked to
    length,     \* the length left
    atribute    \* the attribute's identifier, as last loaded

walk == <<list, patr, length, atribute>>
-----------------------------------------------------------------------------
\* The identifier at a place: behind the list lies what earlier messages left.
At(l, p) == IF p <= Len(l) THEN l[p].atribute ELSE "unknown"

WalkInit == list = <<>> /\ patr = 1 /\ length = 0 /\ atribute = "unknown"

WalkBegins(l) ==
    /\ list' = l
    /\ patr' = 1
    /\ length' = Size8(SizeOfList(l))
    /\ atribute' = At(l, 1)

\* The variables are locals of the call.
WalkEnds == list' = <<>> /\ patr' = 1 /\ length' = 0 /\ atribute' = "unknown"

\* A variant: the size of a TLV leaves out its head.
WalkWithoutHead ==
    /\ length # 0 /\ patr <= MaxRounds
    /\ atribute \in Known
    /\ LET size == IF atribute \in Tlv THEN list[patr].value ELSE FixedSize[atribute] IN
       length' = Size8(length - size)
    /\ patr' = patr + 1
    /\ atribute' = IF atribute = "NM_ATT_SOFTBTS_CGI" THEN atribute ELSE At(list, patr + 1)
    /\ list' = list

\* One round.  The cell's identity does not load the next identifier: it is walked
\* over again, ten bytes at a time, until the length is zero by chance.  An unknown
\* identifier changes nothing: the loop goes on for ever.
WalkRound ==
    /\ length # 0 /\ patr <= MaxRounds
    /\ atribute \in Known
    /\ LET size == IF atribute \in Tlv THEN 3 + list[patr].value ELSE FixedSize[atribute] IN
       length' = Size8(length - size)
    /\ patr' = patr + 1
    /\ atribute' = IF atribute = "NM_ATT_SOFTBTS_CGI" THEN atribute ELSE At(list, patr + 1)
    /\ list' = list
=============================================================================
