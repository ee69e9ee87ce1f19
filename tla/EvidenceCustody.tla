-------------------------- MODULE EvidenceCustody --------------------------
(***************************************************************************)
(* What the evidence store promises, without requests, retries, scanners   *)
(* or storage: evidence is taken into custody with a content, gets at most *)
(* one verdict, is never preserved unless its content is harmless, and     *)
(* leaves custody only after the access was noted.                         *)
(***************************************************************************)
CONSTANTS
    Items,      \* pieces of evidence
    Contents,   \* what an item may hold
    Harmless,   \* the contents a scanner finds nothing in
    Accesses,   \* identities of accesses
    Nothing

VARIABLES
    holds,    \* the content an item was declared with
    verdict,  \* "PENDING_UPLOAD", "PRESERVED" or "QUARANTINED"
    noted,    \* accesses in the audit log, with their item
    served    \* accesses granted, with their item

custodyVars == <<holds, verdict, noted, served>>

CustodyInit ==
    /\ holds = [i \in Items |-> Nothing]
    /\ verdict = [i \in Items |-> Nothing]
    /\ noted = {}
    /\ served = {}

TakeIn(i, c) ==
    /\ holds[i] = Nothing
    /\ holds' = [holds EXCEPT ![i] = c]
    /\ verdict' = [verdict EXCEPT ![i] = "PENDING_UPLOAD"]
    /\ UNCHANGED <<noted, served>>

Judge(i, v) ==
    /\ verdict[i] = "PENDING_UPLOAD"
    /\ v = "PRESERVED" => holds[i] \in Harmless
    /\ verdict' = [verdict EXCEPT ![i] = v]
    /\ UNCHANGED <<holds, noted, served>>

Note(i, a) ==
    /\ verdict[i] = "PRESERVED"
    /\ noted' = noted \cup {<<i, a>>}
    /\ UNCHANGED <<holds, verdict, served>>

Serve(i, a) ==
    /\ <<i, a>> \in noted
    /\ served' = served \cup {<<i, a>>}
    /\ UNCHANGED <<holds, verdict, noted>>

CustodyNext ==
    \E i \in Items :
       \/ \E c \in Contents : TakeIn(i, c)
       \/ \E v \in {"PRESERVED", "QUARANTINED"} : Judge(i, v)
       \/ \E a \in Accesses : Note(i, a) \/ Serve(i, a)

CustodySpec == CustodyInit /\ [][CustodyNext]_custodyVars
=============================================================================
