------------------------------ MODULE DnsNames ------------------------------
(***************************************************************************)
(* Names.  A name is the sequence of its labels and the root is <<>>, so   *)
(* that the final dot is never a question.  A name as it was typed holds   *)
(* labels in any case.                                                     *)
(***************************************************************************)
EXTENDS Naturals, Sequences, SequencesExt

CONSTANT Lower    \* the lower-case form of every well-formed label

ASSUME LowerAssumption ==
    /\ DOMAIN Lower \subseteq STRING
    /\ \A l \in DOMAIN Lower : Lower[l] \in DOMAIN Lower /\ Lower[Lower[l]] = Lower[l]

DnsName == Seq(STRING)

\* One spelling of a name.
normalise_name(typed) ==
    [i \in DOMAIN typed |-> IF typed[i] \in DOMAIN Lower THEN Lower[typed[i]] ELSE typed[i]]

WellFormed(typed) == \A i \in DOMAIN typed : typed[i] \in DOMAIN Lower

\* A label, written in lower case, that none of the names has in any spelling.
FreshFor(label, names) ==
    /\ label \in DOMAIN Lower /\ Lower[label] = label
    /\ \A n \in names : \A i \in DOMAIN n : normalise_name(n)[i] # label

\* The names a name lies strictly below.
Parents(name) == {SubSeq(name, i, Len(name)) : i \in 2..Len(name)}
=============================================================================
