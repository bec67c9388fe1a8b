-------------------------- MODULE NameConstraints --------------------------
(***************************************************************************)
(* The name constraints of src/src/trust.rs (check_name_constraints) over  *)
(* a path, from its anchor to its leaf.                                    *)
(*                                                                         *)
(* A name is its type and a sequence of labels, from the general to the    *)
(* particular: the RDNs of a directory name, the labels of a host from the *)
(* right, the bits of an address.  A mailbox is a host and a user.  A base *)
(* is a name as well; it says whether it begins with a period.  Letter     *)
(* case and string encodings are folded.                                   *)
(***************************************************************************)
EXTENDS Integers, Sequences, SequencesExt

NameOf(type, labels) == [type |-> type, labels |-> labels, user |-> "", dot |-> FALSE]
Mailbox(user, labels) == [NameOf("email", labels) EXCEPT !.user = user]
WithDot(base) == [base EXCEPT !.dot = TRUE]

\* host_within: a host is itself; a base with a period is the hosts below it.
HostWithin(host, base) ==
  IF base.dot THEN IsStrictPrefix(base.labels, host) ELSE host = base.labels

\* within_subtree, for names of one type.
Within(name, base) ==
  CASE name.type \in {"dn", "ip"} -> IsPrefix(base.labels, name.labels)
    [] name.type = "dns"   -> IsPrefix(base.labels, name.labels)
    [] name.type = "uri"   -> HostWithin(name.labels, base)
    [] name.type = "email" ->
         IF base.user # "" THEN name.user = base.user /\ name.labels = base.labels
         ELSE HostWithin(name.labels, base)

OfType(bases, name) == {b \in bases : b.type = name.type}

\* name_excluded, name_permitted: only bases of the name's type constrain it.
Excluded(name, nc) == \E b \in OfType(nc.excluded, name) : Within(name, b)
Permitted(name, nc) ==
  OfType(nc.permitted, name) = {} \/ \E b \in OfType(nc.permitted, name) : Within(name, b)

\* check_name_constraints: what lies below a CA keeps to its constraints, but for
\* self-issued certificates that are not the last one.
NamesAreInside(path) ==
  \A i \in 2..Len(path), j \in 1..Len(path) :
    (j < i /\ ~(i # Len(path) /\ path[i].selfIssued)) =>
      \A name \in path[i].names :
        ~Excluded(name, path[j].constraints) /\ Permitted(name, path[j].constraints)
=============================================================================
