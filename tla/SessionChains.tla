--------------------------- MODULE SessionChains ---------------------------
(***************************************************************************)
(* What the session code promises, without requests, locks or rows: a      *)
(* login opens a chain of refresh tokens. A chain has at most one live     *)
(* token. Refreshing replaces it by one that was never used before; a      *)
(* chain that was closed stays closed; what closes chains closes those of  *)
(* one user only.                                                          *)
(***************************************************************************)
EXTENDS Integers

CONSTANTS
    Users,
    TokenIds  \* a chain is named by the token its login issued

VARIABLES
    ends,     \* the live tokens of each chain
    holder,   \* the user of each token that was ever issued
    used      \* tokens that were ever issued

vars == <<ends, holder, used>>

Init ==
    /\ ends = [c \in TokenIds |-> {}]
    /\ holder \in [TokenIds -> Users]
    /\ used = {}

Open(c) ==
    /\ c \notin used
    /\ ends' = [ends EXCEPT ![c] = {c}]
    /\ used' = used \cup {c}

Rotate(c, t) ==
    /\ t \notin used
    /\ \E old \in used :
          /\ ends[c] = {old}
          /\ holder'[t] = holder[old]
    /\ ends' = [ends EXCEPT ![c] = {t}]
    /\ used' = used \cup {t}

\* Any of one user's chains, and no other's.
Close(u) ==
    /\ \E C \in SUBSET {c \in used : holder[c] = u} :
          ends' = [c \in TokenIds |-> IF c \in C THEN {} ELSE ends[c]]
    /\ UNCHANGED used

\* The holder of a token is settled when it is issued.
Next ==
    /\ \/ \E c \in TokenIds : Open(c)
       \/ \E c, t \in TokenIds : Rotate(c, t)
       \/ \E u \in Users : Close(u)
    /\ holder' \in [TokenIds -> Users]
    /\ \A t \in used : holder'[t] = holder[t]

Spec == Init /\ [][Next]_vars

=============================================================================
