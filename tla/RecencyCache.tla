---------------------------- MODULE RecencyCache ----------------------------
(***************************************************************************)
(* What a least-recently-used cache promises, without a list: a bounded    *)
(* partial function and a strict order of last use on its domain.  The     *)
(* entry that leaves is the one every other entry was used after.          *)
(***************************************************************************)
EXTENDS Integers, FiniteSets

CONSTANTS Keys, Values, Bound, None

VARIABLES content,  \* partial function Keys -> Values
          older,    \* <<j, k>> : j was last used before k
          answer    \* what the last call returned

vars == <<content, older, answer>>

Used(k, domain, order) ==
  {p \in order : p[1] # k /\ p[2] # k} \cup {<<j, k>> : j \in domain \ {k}}

Drop(k, order) == {p \in order : p[1] # k /\ p[2] # k}

Without(f, k) == [x \in DOMAIN f \ {k} |-> f[x]]

Store(f, k, v) == [x \in DOMAIN f \cup {k} |-> IF x = k THEN v ELSE f[x]]

Init == content = [k \in {} |-> k] /\ older = {} /\ answer = None

Add(k, v) ==
  LET full == Store(content, k, v)
      order == Used(k, DOMAIN full, older)
  IN  /\ answer' = None
      /\ \/ /\ Cardinality(DOMAIN full) <= Bound
            /\ content' = full
            /\ older' = order
         \/ /\ Cardinality(DOMAIN full) > Bound
            /\ \E victim \in DOMAIN full :
                 /\ \A j \in DOMAIN full \ {victim} : <<victim, j>> \in order
                 /\ content' = Without(full, victim)
                 /\ older' = Drop(victim, order)

Get(k) ==
  /\ UNCHANGED content
  /\ answer' = IF k \in DOMAIN content THEN content[k] ELSE None
  /\ older' = IF k \in DOMAIN content THEN Used(k, DOMAIN content, older) ELSE older

\* A look does not count as a use.
Peek(k) ==
  /\ UNCHANGED <<content, older>>
  /\ answer' = (k \in DOMAIN content)

Remove(k) ==
  /\ answer' = (k \in DOMAIN content)
  /\ content' = Without(content, k)
  /\ older' = Drop(k, older)

Clear == content' = [k \in {} |-> k] /\ older' = {} /\ answer' = None

Next ==
  \/ \E k \in Keys, v \in Values : Add(k, v)
  \/ \E k \in Keys : Get(k) \/ Peek(k) \/ Remove(k)
  \/ Clear

Spec == Init /\ [][Next]_vars
=============================================================================
