------------------------------- MODULE Policy -------------------------------
(***************************************************************************)
(* The checks on a whole path: finalize of src/src/trust.rs, and           *)
(* process_policies of src/src/policy.rs one certificate at a time.        *)
(*                                                                         *)
(* A path is a sequence of certificates from the anchor to the leaf.  The  *)
(* tree is the set of its nodes, and a node the sequence of the policies   *)
(* from the root to it: its depth is its length, its policy the last one,  *)
(* its parent the node without that.  The nodes that are dead are left     *)
(* out.  What a node of the deepest level expects depends on its policy    *)
(* alone.                                                                  *)
(*                                                                         *)
(* A definition right before another of the same parameters is the other  *)
(* with a likely mistake in it, used by no specification.                  *)
(***************************************************************************)
EXTENDS Integers, Sequences, FiniteSets, FiniteSetsExt, NameConstraints

CONSTANTS
  Policies,  \* policy identifiers
  AnyPolicy, \* anyPolicy
  Absent,    \* the limit of a certificate that states none
  Inputs     \* the paths and what is required of them: a policy, or AnyPolicy

ASSUME PolicyAssumption == AnyPolicy \notin Policies /\ Absent \in Nat
ASSUME InputsAssumption ==
  \A input \in Inputs :
    /\ input.path \in Seq(Range(input.path)) /\ input.path # << >>
    /\ input.required \in Policies \cup {AnyPolicy}
    /\ \A cert \in Range(input.path) :
         /\ cert.policies \subseteq Policies \cup {AnyPolicy}
         /\ \A m \in cert.maps : {m[1], m[2]} \subseteq Policies \cup {AnyPolicy}
         /\ {cert.requireExplicit, cert.inhibitMapping, cert.inhibitAny} \subseteq Nat
         /\ cert.selfIssued \in BOOLEAN /\ cert.asserts \in BOOLEAN

VARIABLES
  path,      \* the path: [anchor, ..., leaf]
  required,  \* the policy required of it, or AnyPolicy
  pc,        \* the step that is next
  depth,     \* of the certificate at work; the anchor has none
  tree,      \* the valid policy tree
  expected,  \* the expected policies of the deepest nodes
  explicit, mapping, inhibit,  \* explicit_policy, policy_mapping, inhibit_anypolicy
  verdict    \* "none", "accepted", "rejected"

vars == <<path, required, pc, depth, tree, expected, explicit, mapping, inhibit, verdict>>
state == <<tree, expected, explicit, mapping, inhibit>>

Size == Len(path) - 1
Cert(i) == path[i + 1]
IsLast == depth = Size

AtDepth(t, d) == {node \in t : Len(node) = d}
IsAny(node) == node = << >> \/ Last(node) = AnyPolicy

-----------------------------------------------------------------------------
(* Operations on the tree.                                                 *)

\* prune: what is left of the levels above d is what leads to a node of level d.
Prune(t, d) ==
  {node \in t : Len(node) >= d \/ \E deep \in AtDepth(t, d) : IsPrefix(node, deep)}

\* The policies a node of the level above d expects.
Expects(node) == IF node = << >> THEN {AnyPolicy} ELSE expected[Last(node)]

\* update_tree, (d)(1): a policy that the certificate asserts goes below the nodes
\* that expect it, and if there are none below the one that expects anything.  The
\* mistake is to put it below both.
BelowBoth(p, parents) ==
  {Append(node, p) : node \in {x \in parents : p \in Expects(x) \/ AnyPolicy \in Expects(x)}}
Below(p, parents) ==
  LET matched == {node \in parents : p \in Expects(node)}
  IN  {Append(node, p) : node \in IF matched # {} THEN matched
                                  ELSE {x \in parents : AnyPolicy \in Expects(x)}}

\* (d)(2): anyPolicy goes below every node, as whatever the node expects.
BelowAll(parents) ==
  UNION {{Append(node, p) : p \in Expects(node)} : node \in parents}

\* When anyPolicy counts; a key rollover is exempt from the limit.
AnyCounts(cert, last) == inhibit > 0 \/ (~last /\ cert.selfIssued)

Grown(cert) ==
  LET parents == AtDepth(tree, depth - 1)
      below   == UNION {Below(p, parents) : p \in cert.policies \ {AnyPolicy}}
      all     == IF AnyPolicy \in cert.policies /\ AnyCounts(cert, IsLast)
                 THEN BelowAll(parents) ELSE {}
  IN  Prune(tree \cup below \cup all, depth)

\* apply_mappings, where mapping is allowed: a policy with no node of its own gets
\* one beside the node of anyPolicy.
Mapped(cert) == {m[1] : m \in cert.maps}
Targets(cert, p) == {m[2] : m \in {x \in cert.maps : x[1] = p}}
Extended(cert) ==
  LET here == AtDepth(tree, depth)
  IN  tree \cup {Append(Front(node), p) :
                   node \in {x \in here : Last(x) = AnyPolicy},
                   p \in {q \in Mapped(cert) : \A x \in here : Last(x) # q}}

\* Where it is inhibited: the policy goes.
Deleted(cert) ==
  Prune({node \in tree : Len(node) = depth => Last(node) \notin Mapped(cert)}, depth)

\* intersect_initial: the nodes below anyPolicy that are not the required policy go,
\* with what is below them.  The mistake is to look at the last policy.
RightBelowAny(node) ==
  {i \in DOMAIN node : node[i] # AnyPolicy /\ (i = 1 \/ node[i - 1] = AnyPolicy)}
IntersectedAtLeaf ==
  IF required = AnyPolicy \/ \E node \in AtDepth(tree, Size) : IsAny(node) THEN tree
  ELSE Prune({node \in tree : Len(node) = Size => Last(node) = required}, Size)
Intersected ==
  IF required = AnyPolicy \/ \E node \in AtDepth(tree, Size) : IsAny(node) THEN tree
  ELSE Prune({node \in tree : \A i \in RightBelowAny(node) : node[i] = required}, Size)

-----------------------------------------------------------------------------
(* The machine.                                                            *)

Less(n) == IF n > 0 THEN n - 1 ELSE 0
Least(m, n) == IF m < n THEN m ELSE n

Finish(v) == pc' = "done" /\ verdict' = v

\* finalize: names first.  A path of the anchor alone has no policies to process.
CheckNames ==
  /\ pc = "names"
  /\ IF ~NamesAreInside(path) THEN Finish("rejected")
     ELSE IF Size = 0 THEN Finish("accepted")
     ELSE pc' = "tree" /\ verdict' = verdict
  /\ UNCHANGED <<path, required, depth, state>>

\* (d), (e) and (f) for the certificate at depth.
Grow ==
  /\ pc = "tree"
  /\ tree' = IF Cert(depth).asserts THEN Grown(Cert(depth)) ELSE {}
  /\ expected' = [p \in Policies \cup {AnyPolicy} |-> {p}]
  /\ IF explicit = 0 /\ tree' = {} THEN Finish("rejected")
     ELSE pc' = (IF IsLast THEN "wrap" ELSE "mappings") /\ verdict' = verdict
  /\ UNCHANGED <<path, required, depth, explicit, mapping, inhibit>>

\* (a) and (b): the policy mappings.
MapPolicies ==
  /\ pc = "mappings"
  /\ LET cert == Cert(depth)
     IN  IF \E m \in cert.maps : AnyPolicy \in {m[1], m[2]}
         THEN Finish("rejected") /\ UNCHANGED <<tree, expected>>
         ELSE /\ pc' = "limits" /\ verdict' = verdict
              /\ IF mapping > 0
                 THEN /\ tree' = Extended(cert)
                      /\ expected' = [p \in DOMAIN expected |->
                           IF p \in Mapped(cert) THEN Targets(cert, p) ELSE expected[p]]
                 ELSE tree' = Deleted(cert) /\ expected' = expected
  /\ UNCHANGED <<path, required, depth, explicit, mapping, inhibit>>

\* (h), (i) and (j): the counters, and on to the next certificate.
Limit ==
  /\ pc = "limits"
  /\ LET cert == Cert(depth)
         Counted(n) == IF cert.selfIssued THEN n ELSE Less(n)
     IN  /\ explicit' = Least(Counted(explicit), cert.requireExplicit)
         /\ mapping' = Least(Counted(mapping), cert.inhibitMapping)
         /\ inhibit' = Least(Counted(inhibit), cert.inhibitAny)
  /\ depth' = depth + 1 /\ pc' = "tree"
  /\ UNCHANGED <<path, required, tree, expected, verdict>>

\* The wrap-up and the criterion of success.
WrapUp ==
  /\ pc = "wrap"
  /\ explicit' = IF Cert(Size).requireExplicit = 0 THEN 0 ELSE Less(explicit)
  /\ tree' = Intersected
  /\ Finish(IF explicit' > 0 \/ tree' # {} THEN "accepted" ELSE "rejected")
  /\ UNCHANGED <<path, required, depth, expected, mapping, inhibit>>

Init ==
  /\ \E input \in Inputs : path = input.path /\ required = input.required
  /\ pc = "names" /\ depth = 1 /\ verdict = "none"
  /\ tree = {<< >>} /\ expected = [p \in Policies \cup {AnyPolicy} |-> {p}]
  /\ explicit = (IF required = AnyPolicy THEN Len(path) ELSE 0)
  /\ mapping = Len(path) /\ inhibit = Len(path)

Next == CheckNames \/ Grow \/ MapPolicies \/ Limit \/ WrapUp

Spec == Init /\ [][Next]_vars
-----------------------------------------------------------------------------
(* What the verdict should be, without a tree and without counters.        *)

\* The names that a CA leaves open, and the names that all CAs above i do.
Universe == UNION {path[i].names : i \in 1..Len(path)}
Subtree(base) == {name \in Universe : name.type = base.type /\ Within(name, base)}
Open(nc) ==
  ({name \in Universe : \A b \in nc.permitted : b.type # name.type}
     \cup UNION {Subtree(b) : b \in nc.permitted})
  \ UNION {Subtree(b) : b \in nc.excluded}
NamesAreOpen ==
  LET open[i \in 1..Len(path)] ==
        IF i = 1 THEN Universe ELSE open[i - 1] \cap Open(path[i - 1].constraints)
  IN  \A i \in 2..Len(path) :
        i = Len(path) \/ ~path[i].selfIssued => path[i].names \subseteq open[i]

\* A limit set by a certificate above i is used up: as many certificates that are
\* not self-issued lie between.
UsedUp(i, Allowance(_)) ==
  \E j \in 1..(i - 1) :
    Allowance(Cert(j)) <= Cardinality({k \in (j + 1)..(i - 1) : ~Cert(k).selfIssued})
AnyAllowed(i) ==
  /\ AnyPolicy \in Cert(i).policies
  /\ ~UsedUp(i, LAMBDA c : c.inhibitAny) \/ (i # Size /\ Cert(i).selfIssued)
MappingAllowed(i) == ~UsedUp(i, LAMBDA c : c.inhibitMapping)

\* A policy is due at the end.
PolicyIsDue ==
  \/ required # AnyPolicy \/ Cert(Size).requireExplicit = 0
  \/ \E j \in 1..(Size - 1) : Cert(j).requireExplicit
       <= 1 + Cardinality({k \in (j + 1)..(Size - 1) : ~Cert(k).selfIssued})

\* The policies that p is in the eyes of the next certificate, if it is any.
Renamed(i, p) ==
  IF p \notin Mapped(Cert(i)) THEN {p}
  ELSE IF MappingAllowed(i) THEN Targets(Cert(i), p) ELSE {}

\* The policies as a graph: for each certificate, the policies of the anchor's
\* domain that each policy it vouches for stands for, and whether it vouches for
\* everything.
Graph ==
  LET level[i \in 0..Size] ==
        IF i = 0 THEN [stands |-> [p \in Policies |-> {}], all |-> TRUE]
        ELSE
          LET above  == level[i - 1]
              all    == above.all /\ AnyAllowed(i)
              from(p) == UNION {above.stands[q] :
                                  q \in {x \in Policies : i > 1 /\ p \in Renamed(i - 1, x)}}
              own(p) == IF p \in Cert(i).policies
                        THEN IF from(p) = {} /\ above.all THEN {p} ELSE from(p)
                        ELSE IF AnyAllowed(i) THEN from(p) ELSE {}
              beside(p) == p \in Mapped(Cert(i)) /\ i # Size /\ MappingAllowed(i) /\ all
          IN  IF Cert(i).asserts
              THEN [stands |-> [p \in Policies |->
                                  IF own(p) = {} /\ beside(p) THEN {p} ELSE own(p)],
                    all |-> all]
              ELSE [stands |-> [p \in Policies |-> {}], all |-> FALSE]
  IN  level[Size]

PolicyRemains ==
  Graph.all \/ \E p \in Policies :
    Graph.stands[p] # {} /\ (required = AnyPolicy \/ required \in Graph.stands[p])

MapsAnyPolicy ==
  \E i \in 1..(Size - 1) : \E m \in Cert(i).maps : AnyPolicy \in {m[1], m[2]}

\* A chain of policies for which every certificate of the path vouches: by naming
\* it, by naming anyPolicy, or by mapping the one before to it.
Vouches(i, p) ==
  /\ Cert(i).asserts
  /\ IF p = AnyPolicy THEN AnyAllowed(i) ELSE p \in Cert(i).policies \/ AnyAllowed(i)
Follows(i, p, q) == p = AnyPolicy \/ q \in Renamed(i, p)
Vouched(chain) ==
  /\ \A i \in 1..Size : Vouches(i, chain[i])
  /\ \A i \in 1..(Size - 1) : Follows(i, chain[i], chain[i + 1])

-----------------------------------------------------------------------------
(* Properties.                                                             *)

\* The verdict on a path: names are inside what every CA above leaves open, and
\* where a policy is due, one remains (trust.rs:415-439, policy.rs:39-116).  The
\* tree and the counters agree with the graph.
VerdictIsRight ==
  pc = "done" =>
    (verdict = "accepted" <=>
       /\ NamesAreOpen
       /\ Size > 0 => ~MapsAnyPolicy /\ (PolicyIsDue => PolicyRemains))

\* A path that is accepted for a required policy has a chain of policies that every
\* certificate vouches for, and that begins with the required one where it leaves
\* anyPolicy (trust.rs:203-216).
RequiredPolicyIsVouchedFor ==
  verdict = "accepted" /\ required # AnyPolicy /\ Size > 0 =>
    \E chain \in [1..Size -> Policies \cup {AnyPolicy}] :
      /\ Vouched(chain)
      /\ \A i \in 1..Size : chain[i] # AnyPolicy /\ (\A k \in 1..(i - 1) : chain[k] = AnyPolicy)
                            => chain[i] = required

=============================================================================
