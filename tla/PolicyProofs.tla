---------------------------- MODULE PolicyProofs ----------------------------
(***************************************************************************)
(* Proofs about Policy, whatever the path: a path that is accepted for a   *)
(* required policy has a chain of policies that every certificate of it    *)
(* vouches for; and a path is accepted exactly when the names, the limits  *)
(* and the graph of its policies say so.                                   *)
(*                                                                         *)
(* The second part takes the graph apart into levels, one a certificate,   *)
(* and shows that the tree has of each level what the path can still use.  *)
(***************************************************************************)
EXTENDS Policy, Basics, FiniteSetTheorems, TLAPS

PolicyIds == Policies \cup {AnyPolicy}

\* What is known of a path and of what is required of it.
CertIsWell(cert) ==
  /\ cert.policies \subseteq PolicyIds
  /\ \A m \in cert.maps : m[1] \in PolicyIds /\ m[2] \in PolicyIds
  /\ cert.requireExplicit \in Nat /\ cert.inhibitMapping \in Nat /\ cert.inhibitAny \in Nat
PathIsWell ==
  /\ path \in Seq(Range(path)) /\ Len(path) >= 1 /\ required \in PolicyIds
  /\ \A i \in 1..Size : CertIsWell(Cert(i))

\* A node of the tree is a chain of policies that the certificates so far vouch for,
\* and below anything but anyPolicy there is no anyPolicy.
IsVouched(node) ==
  /\ node \in Seq(PolicyIds) /\ Len(node) <= Size
  /\ \A i \in 1..Len(node) : Vouches(i, node[i])
  /\ \A i \in 1..(Len(node) - 1) : Follows(i, node[i], node[i + 1])
  /\ \A i \in 1..Len(node) : node[i] = AnyPolicy => \A k \in 1..i : node[k] = AnyPolicy

\* The certificates between two others that are not self-issued.
Between(j, d) == {k \in (j + 1)..(d - 1) : ~Cert(k).selfIssued}

\* While a counter is not used up, neither is any limit set above d.
InhibitIsKept(d) ==
  inhibit \in Nat /\ (inhibit > 0 => \A j \in 1..(d - 1) :
                        inhibit + Cardinality(Between(j, d)) <= Cert(j).inhibitAny)
MappingIsKept(d) ==
  mapping \in Nat /\ (mapping > 0 => \A j \in 1..(d - 1) :
                        mapping + Cardinality(Between(j, d)) <= Cert(j).inhibitMapping)

AnyIsNotMapped(d) ==
  \A i \in 1..d : \A m \in Cert(i).maps : m[1] # AnyPolicy /\ m[2] # AnyPolicy

\* What a node of level d expects of the next certificate follows from its policy.
ExpectsWhatFollows(d) ==
  \A node \in AtDepth(tree, d) : node # << >> =>
    \A q \in expected[Last(node)] :
      q \in PolicyIds /\ Follows(d, Last(node), q) /\ (q = AnyPolicy => Last(node) = AnyPolicy)

ExpectsItself == expected = [p \in PolicyIds |-> {p}]

AtWork ==
  /\ depth \in Nat /\ depth >= 1
  /\ IF pc = "names" THEN depth = 1 ELSE depth <= Size
  /\ verdict = "none"
  /\ InhibitIsKept(depth) /\ MappingIsKept(depth) /\ AnyIsNotMapped(depth - 1)
  /\ \A node \in tree : IsVouched(node) /\ Len(node) <= depth
  /\ pc \in {"names", "tree"} =>
       (\A node \in tree : Len(node) <= depth - 1) /\ ExpectsWhatFollows(depth - 1)
  /\ pc = "mappings" => ExpectsItself /\ depth # Size
  /\ pc = "limits" => ExpectsWhatFollows(depth) /\ AnyIsNotMapped(depth) /\ depth # Size
  /\ pc = "wrap" => depth = Size

IInv ==
  /\ PathIsWell
  /\ pc \in {"names", "tree", "mappings", "limits", "wrap", "done"}
  /\ required # AnyPolicy => explicit = 0
  /\ pc # "done" => AtWork
  /\ RequiredPolicyIsVouchedFor

-----------------------------------------------------------------------------
(* Nodes.                                                                  *)

LEMMA SizeIsNat ==
  ASSUME PathIsWell
  PROVE  Size \in Nat /\ Len(path) \in Nat /\ Len(path) = Size + 1
  BY DEF PathIsWell, Size

\* A chain that grows by a policy that the next certificate vouches for.
LEMMA ChainGrows ==
  ASSUME PathIsWell, NEW node, NEW p \in PolicyIds, NEW d \in Nat, d >= 1, d <= Size,
         IsVouched(node), Len(node) = d - 1, Vouches(d, p),
         d > 1 => Follows(d - 1, Last(node), p) /\ (p = AnyPolicy => Last(node) = AnyPolicy)
  PROVE  IsVouched(Append(node, p)) /\ Len(Append(node, p)) = d
<1>0. Size \in Nat
  BY SizeIsNat
<1>1. node \in Seq(PolicyIds)
  BY DEF IsVouched
<1>2. PICK f : f = Append(node, p)
  OBVIOUS
<1>3. /\ f \in Seq(PolicyIds) /\ Len(f) = d /\ f[d] = p /\ \A k \in 1..(d - 1) : f[k] = node[k]
  BY <1>1, <1>2
<1>4. \A i \in 1..d : Vouches(i, f[i])
  <2> SUFFICES ASSUME NEW i \in 1..d PROVE Vouches(i, f[i])
    OBVIOUS
  <2>1. i = d \/ i \in 1..(d - 1)
    OBVIOUS
  <2>2. CASE i = d
    BY <1>3, <2>2
  <2>3. CASE i \in 1..(d - 1)
    <3>1. Vouches(i, node[i]) /\ f[i] = node[i]
      BY <1>3, <2>3 DEF IsVouched
    <3>2. QED
      BY <3>1
  <2>4. QED
    BY <2>1, <2>2, <2>3
<1>5. \A i \in 1..(d - 1) : Follows(i, f[i], f[i + 1])
  <2> SUFFICES ASSUME NEW i \in 1..(d - 1) PROVE Follows(i, f[i], f[i + 1])
    OBVIOUS
  <2>1. CASE i = d - 1
    <3>1. d > 1 /\ f[i] = node[i] /\ f[i + 1] = p /\ Last(node) = node[i]
      BY <1>3, <2>1 DEF Last
    <3>2. QED
      BY <2>1, <3>1
  <2>2. CASE i < d - 1
    <3>1. f[i] = node[i] /\ f[i + 1] = node[i + 1] /\ i \in 1..(Len(node) - 1)
      BY <1>3, <2>2
    <3>2. QED
      BY <3>1 DEF IsVouched
  <2>3. QED
    BY <2>1, <2>2
<1>6. \A i \in 1..d : f[i] = AnyPolicy => \A k \in 1..i : f[k] = AnyPolicy
  <2> SUFFICES ASSUME NEW i \in 1..d, f[i] = AnyPolicy, NEW k \in 1..i PROVE f[k] = AnyPolicy
    OBVIOUS
  <2>1. CASE i < d
    <3>1. node[i] = AnyPolicy /\ f[k] = node[k] /\ i \in 1..Len(node)
      BY <1>3, <2>1
    <3>2. QED
      BY <3>1 DEF IsVouched
  <2>2. CASE i = d /\ k = d
    BY <2>2
  <2>3. CASE i = d /\ k < d
    <3>1. d > 1 /\ p = AnyPolicy /\ Last(node) = node[d - 1] /\ d - 1 \in 1..Len(node)
      BY <1>3, <2>3 DEF Last
    <3>2. node[d - 1] = AnyPolicy /\ k \in 1..(d - 1) /\ f[k] = node[k]
      BY <1>3, <2>3, <3>1
    <3>3. QED
      BY <3>1, <3>2 DEF IsVouched
  <2>4. QED
    BY <2>1, <2>2, <2>3
<1>7. IsVouched(f)
  BY <1>0, <1>3, <1>4, <1>5, <1>6 DEF IsVouched
<1>8. QED
  BY <1>2, <1>3, <1>7

\* A chain without its last policy.
LEMMA ChainFront ==
  ASSUME PathIsWell, NEW node, IsVouched(node), Len(node) >= 1
  PROVE  IsVouched(Front(node)) /\ Len(Front(node)) = Len(node) - 1
<1>0. Size \in Nat /\ node \in Seq(PolicyIds) /\ Len(node) \in Nat
  BY SizeIsNat DEF IsVouched
<1>1. PICK f : f = Front(node)
  OBVIOUS
<1>2. /\ f \in Seq(PolicyIds) /\ Len(f) = Len(node) - 1
      /\ \A k \in 1..(Len(node) - 1) : f[k] = node[k]
  <2>1. f = SubSeq(node, 1, Len(node) - 1)
    BY <1>1 DEF Front
  <2>2. Len(node) - 1 \in Nat /\ 1..(Len(node) - 1) \subseteq 1..Len(node)
    BY <1>0
  <2>3. Len(f) = Len(node) - 1 /\ \A k \in 1..(Len(node) - 1) : f[k] = node[k]
    <3>1. PICK n \in Nat : n = Len(node) - 1
      BY <2>2
    <3>2. f = SubSeq(node, 1, n) /\ n <= Len(node)
      BY <1>0, <2>1, <3>1
    <3>3. Len(f) = n
      BY <1>0, <3>1, <3>2
    <3>4. \A k \in 1..n : f[k] = node[k]
      BY <1>0, <3>1, <3>2
    <3>5. QED
      BY <3>1, <3>3, <3>4
  <2>4. f \in Seq(PolicyIds)
    BY <1>0, <2>1, <2>2
  <2>5. QED
    BY <2>3, <2>4
<1>3. \A i \in 1..Len(f) : Vouches(i, f[i])
  BY <1>0, <1>2 DEF IsVouched
<1>4. \A i \in 1..(Len(f) - 1) : Follows(i, f[i], f[i + 1])
  <2> SUFFICES ASSUME NEW i \in 1..(Len(f) - 1) PROVE Follows(i, f[i], f[i + 1])
    OBVIOUS
  <2>1. f[i] = node[i] /\ f[i + 1] = node[i + 1] /\ i \in 1..(Len(node) - 1)
    BY <1>0, <1>2
  <2>2. QED
    BY <2>1 DEF IsVouched
<1>5. \A i \in 1..Len(f) : f[i] = AnyPolicy => \A k \in 1..i : f[k] = AnyPolicy
  BY <1>0, <1>2 DEF IsVouched
<1>6. IsVouched(f)
  BY <1>0, <1>2, <1>3, <1>4, <1>5 DEF IsVouched
<1>7. QED
  BY <1>1, <1>2, <1>6

-----------------------------------------------------------------------------
(* The counters.                                                           *)

LEMMA BetweenIsFinite ==
  ASSUME NEW j \in Nat, NEW d \in Nat
  PROVE  IsFiniteSet(Between(j, d)) /\ Cardinality(Between(j, d)) \in Nat
<1>1. IsFiniteSet((j + 1)..(d - 1))
  BY FS_Interval
<1>2. Between(j, d) \subseteq (j + 1)..(d - 1)
  BY DEF Between
<1>3. IsFiniteSet(Between(j, d))
  BY <1>1, <1>2, FS_Subset
<1>4. QED
  BY <1>3, FS_CardinalityType

\* One certificate more lies between, unless it is self-issued.
LEMMA OneMoreBetween ==
  ASSUME NEW j \in Nat, NEW d \in Nat, j < d
  PROVE  Cardinality(Between(j, d + 1))
           <= Cardinality(Between(j, d)) + (IF Cert(d).selfIssued THEN 0 ELSE 1)
<1>1. IsFiniteSet(Between(j, d)) /\ Cardinality(Between(j, d)) \in Nat
  BY BetweenIsFinite
<1>2. CASE Cert(d).selfIssued
  <2>1. Between(j, d + 1) = Between(j, d)
    BY <1>2 DEF Between
  <2>2. QED
    BY <1>1, <1>2, <2>1
<1>3. CASE ~Cert(d).selfIssued
  <2>1. Between(j, d + 1) = Between(j, d) \cup {d}
    BY <1>3 DEF Between
  <2>2. QED
    BY <1>1, <1>3, <2>1, FS_AddElement, SMTT(30)
<1>4. QED
  BY <1>2, <1>3

LEMMA NothingBetween ==
  ASSUME NEW d \in Nat
  PROVE  Cardinality(Between(d, d + 1)) = 0
<1>1. Between(d, d + 1) = {}
  BY DEF Between
<1>2. QED
  BY <1>1, FS_EmptySet

\* A counter that is counted down and limited is kept.
LEMMA CounterIsKept ==
  ASSUME NEW d \in Nat, d >= 1, NEW n \in Nat, NEW m \in Nat, NEW A,
         \A j \in 1..d : A[j] \in Nat,
         n > 0 => \A j \in 1..(d - 1) : n + Cardinality(Between(j, d)) <= A[j],
         m = Least(IF Cert(d).selfIssued THEN n ELSE Less(n), A[d]), m > 0,
         NEW j \in 1..d
  PROVE  m + Cardinality(Between(j, d + 1)) <= A[j]
<1>1. A[d] \in Nat /\ m <= A[d]
  BY DEF Least, Less
<1>2. CASE j = d
  BY <1>1, <1>2, NothingBetween
<1>3. CASE j < d
  <2>1. /\ Cardinality(Between(j, d)) \in Nat /\ Cardinality(Between(j, d + 1)) \in Nat
        /\ Cardinality(Between(j, d + 1))
             <= Cardinality(Between(j, d)) + (IF Cert(d).selfIssued THEN 0 ELSE 1)
    <3>1. j \in Nat /\ d \in Nat /\ d + 1 \in Nat /\ j < d
      BY <1>3
    <3>2. Cardinality(Between(j, d)) \in Nat
      BY <3>1, BetweenIsFinite
    <3>3. Cardinality(Between(j, d + 1)) \in Nat
      BY <3>1, BetweenIsFinite
    <3>4. QED
      BY <3>1, <3>2, <3>3, OneMoreBetween
  <2>2. n > 0 /\ m <= n /\ (~Cert(d).selfIssued => m <= n - 1)
    BY <1>1 DEF Least, Less
  <2>3. n + Cardinality(Between(j, d)) <= A[j] /\ A[j] \in Nat
    BY <1>3, <2>2
  <2>4. QED
    BY <2>1, <2>2, <2>3
<1>4. QED
  BY <1>2, <1>3

\* While the counters last, anyPolicy counts and policies may be mapped.
LEMMA AnyIsAllowed ==
  ASSUME PathIsWell, NEW d \in Nat, d >= 1, d <= Size, InhibitIsKept(d),
         AnyPolicy \in Cert(d).policies, inhibit > 0 \/ (d # Size /\ Cert(d).selfIssued)
  PROVE  AnyAllowed(d)
<1>1. ASSUME inhibit > 0, NEW j \in 1..(d - 1)
      PROVE  ~(Cert(j).inhibitAny <= Cardinality({k \in (j + 1)..(d - 1) : ~Cert(k).selfIssued}))
  <2>1. inhibit \in Nat /\ inhibit + Cardinality(Between(j, d)) <= Cert(j).inhibitAny
    BY <1>1 DEF InhibitIsKept
  <2>2. Cardinality(Between(j, d)) \in Nat /\ Cert(j).inhibitAny \in Nat
    <3>1. j \in Nat /\ j \in 1..Size
      BY SizeIsNat
    <3>2. Cardinality(Between(j, d)) \in Nat
      BY <3>1, BetweenIsFinite
    <3>3. CertIsWell(Cert(j))
      BY <3>1 DEF PathIsWell
    <3>4. QED
      BY <3>2, <3>3 DEF CertIsWell
  <2>3. Between(j, d) = {k \in (j + 1)..(d - 1) : ~Cert(k).selfIssued}
    BY DEF Between
  <2>4. QED
    BY <1>1, <2>1, <2>2, <2>3
<1>2. QED
  BY <1>1 DEF AnyAllowed, UsedUp

LEMMA MappingIsAllowed ==
  ASSUME PathIsWell, NEW d \in Nat, d >= 1, d <= Size, MappingIsKept(d), mapping > 0
  PROVE  MappingAllowed(d)
<1>1. ASSUME NEW j \in 1..(d - 1)
      PROVE  ~(Cert(j).inhibitMapping <= Cardinality({k \in (j + 1)..(d - 1) : ~Cert(k).selfIssued}))
  <2>1. mapping \in Nat /\ mapping + Cardinality(Between(j, d)) <= Cert(j).inhibitMapping
    BY DEF MappingIsKept
  <2>2. Cardinality(Between(j, d)) \in Nat /\ Cert(j).inhibitMapping \in Nat
    <3>1. j \in Nat /\ j \in 1..Size
      BY SizeIsNat
    <3>2. Cardinality(Between(j, d)) \in Nat
      BY <3>1, BetweenIsFinite
    <3>3. CertIsWell(Cert(j))
      BY <3>1 DEF PathIsWell
    <3>4. QED
      BY <3>2, <3>3 DEF CertIsWell
  <2>3. Between(j, d) = {k \in (j + 1)..(d - 1) : ~Cert(k).selfIssued}
    BY DEF Between
  <2>4. QED
    BY <2>1, <2>2, <2>3
<1>2. QED
  BY <1>1 DEF MappingAllowed, UsedUp
-----------------------------------------------------------------------------
(* The invariant.                                                          *)

LEMMA InputsAreWell ==
  ASSUME NEW input \in Inputs, path = input.path, required = input.required
  PROVE  PathIsWell
<1>1. path \in Seq(Range(path)) /\ path # << >> /\ required \in PolicyIds
  BY InputsAssumption DEF PolicyIds
<1>2. Len(path) \in Nat /\ Len(path) >= 1
  BY <1>1
<1>3. \A cert \in Range(path) : CertIsWell(cert)
  BY InputsAssumption DEF CertIsWell, PolicyIds
<1>4. ASSUME NEW i \in 1..Size PROVE Cert(i) \in Range(path)
  BY <1>1, <1>2 DEF Cert, Size
<1>5. QED
  BY <1>1, <1>2, <1>3, <1>4 DEF PathIsWell

LEMMA Initially == Init => IInv
<1> SUFFICES ASSUME Init PROVE IInv
  OBVIOUS
<1>1. PathIsWell
  BY InputsAreWell DEF Init
<1>2. Size \in Nat /\ Len(path) \in Nat
  BY <1>1, SizeIsNat
<1>3. IsVouched(<< >>) /\ Len(<< >>) = 0
  BY <1>2 DEF IsVouched
<1>4. InhibitIsKept(1) /\ MappingIsKept(1) /\ AnyIsNotMapped(0)
  BY <1>2 DEF Init, InhibitIsKept, MappingIsKept, AnyIsNotMapped
<1>5. ExpectsWhatFollows(0)
  BY DEF Init, ExpectsWhatFollows, AtDepth
<1>6. AtWork
  BY <1>3, <1>4, <1>5 DEF Init, AtWork
<1>7. RequiredPolicyIsVouchedFor
  BY DEF Init, RequiredPolicyIsVouchedFor
<1>8. QED
  BY <1>1, <1>6, <1>7 DEF Init, IInv

\* What is said of the path stays, as the path does.
LEMMA PathStays ==
  ASSUME path' = path, required' = required, PathIsWell
  PROVE  /\ PathIsWell' /\ Size' = Size /\ \A i : Cert(i)' = Cert(i)
         /\ \A d : AnyIsNotMapped(d)' <=> AnyIsNotMapped(d)
  BY DEF PathIsWell, Size, Cert, AnyIsNotMapped

LEMMA VouchedStays ==
  ASSUME path' = path, NEW node
  PROVE  IsVouched(node)' <=> IsVouched(node)
  BY DEF IsVouched, Vouches, Follows, AnyAllowed, Renamed, MappingAllowed, UsedUp, Cert, Size,
         Mapped, Targets

LEMMA FollowsStays ==
  ASSUME path' = path, NEW d, NEW p, NEW q
  PROVE  Follows(d, p, q)' <=> Follows(d, p, q)
  BY DEF Follows, Renamed, MappingAllowed, UsedUp, Cert, Mapped, Targets

LEMMA VouchesStays ==
  ASSUME path' = path, NEW d, NEW p
  PROVE  Vouches(d, p)' <=> Vouches(d, p)
  BY DEF Vouches, AnyAllowed, UsedUp, Cert, Size

LEMMA StaysAtDepth ==
  ASSUME path' = path, tree' = tree, expected' = expected, depth' = depth, NEW d
  PROVE  /\ d = depth - 1 => (ExpectsWhatFollows(d)' <=> ExpectsWhatFollows(depth - 1)')
         /\ d = depth => (ExpectsWhatFollows(d)' <=> ExpectsWhatFollows(depth)')
  BY ZenonT(40) DEF ExpectsWhatFollows, AtDepth, Follows, Renamed, MappingAllowed, UsedUp, Cert, Mapped, Targets

LEMMA ChainStays ==
  ASSUME path' = path, PathIsWell, required' = required, NEW chain
  PROVE  Vouched(chain)' <=> Vouched(chain)
<1>1. Size' = Size
  BY PathStays
<1>2. \A i, p : Vouches(i, p)' <=> Vouches(i, p)
  BY VouchesStays
<1>3. \A i, p, q : Follows(i, p, q)' <=> Follows(i, p, q)
  BY FollowsStays
<1>4. QED
  BY <1>1, <1>2, <1>3 DEF Vouched

LEMMA CountersStay ==
  ASSUME path' = path, inhibit' = inhibit, mapping' = mapping, NEW d
  PROVE  /\ InhibitIsKept(d) => InhibitIsKept(d)'
         /\ MappingIsKept(d) => MappingIsKept(d)'
  BY DEF InhibitIsKept, MappingIsKept, Between, Cert

\* Nothing is accepted by this step.
LEMMA NotAccepted ==
  ASSUME verdict' \in {"none", "rejected"}
  PROVE  RequiredPolicyIsVouchedFor'
  BY DEF RequiredPolicyIsVouchedFor

LEMMA NamesKeep == IInv /\ CheckNames => IInv'
<1> SUFFICES ASSUME IInv, CheckNames PROVE IInv'
  OBVIOUS
<1>1. /\ pc = "names" /\ path' = path /\ required' = required /\ depth' = depth /\ tree' = tree
      /\ expected' = expected /\ explicit' = explicit /\ mapping' = mapping /\ inhibit' = inhibit
  BY DEF CheckNames, state
<1>2. PathIsWell' /\ Size' = Size /\ Size \in Nat
  BY <1>1, PathStays, SizeIsNat DEF IInv
<1>3. AtWork
  BY <1>1 DEF IInv
<1>4. CASE pc' = "done"
  <2>1. verdict' = "rejected" \/ Size = 0
    BY <1>4 DEF CheckNames, Finish
  <2>2. RequiredPolicyIsVouchedFor'
    BY <1>2, <2>1 DEF RequiredPolicyIsVouchedFor
  <2>3. QED
    BY <1>1, <1>2, <1>4, <2>2 DEF IInv
<1>5. CASE pc' = "tree"
  <2>1. verdict' = "none" /\ Size # 0
    BY <1>3, <1>5 DEF CheckNames, Finish, AtWork
  <2>2. \A node : IsVouched(node)' <=> IsVouched(node)
    BY <1>1, VouchedStays
  <2>3. ExpectsWhatFollows(depth - 1)'
    BY <1>1, <1>3 DEF AtWork, ExpectsWhatFollows, AtDepth
  <2>4. InhibitIsKept(depth)' /\ MappingIsKept(depth)'
    <3>1. PICK d : d = depth
      OBVIOUS
    <3>2. InhibitIsKept(d)' /\ MappingIsKept(d)'
      BY <1>1, <1>3, <3>1, CountersStay DEF AtWork
    <3>3. QED
      BY <1>1, <3>1, <3>2 DEF InhibitIsKept, MappingIsKept, Between
  <2>5. AnyIsNotMapped(depth - 1)'
    BY <1>1, <1>3 DEF AtWork, AnyIsNotMapped
  <2>6. AtWork'
    BY <1>1, <1>2, <1>3, <1>5, <2>1, <2>2, <2>3, <2>4, <2>5 DEF AtWork
  <2>7. QED
    BY <1>1, <1>2, <1>5, <2>1, <2>6, NotAccepted DEF IInv
<1>6. QED
  BY <1>4, <1>5 DEF CheckNames, Finish

\* A policy that a node expects, or any where it expects any, can go below it.
LEMMA NodeGrows ==
  ASSUME IInv, pc = "tree", NEW node \in AtDepth(tree, depth - 1), NEW p \in PolicyIds,
         Vouches(depth, p), p \in Expects(node) \/ (AnyPolicy \in Expects(node) /\ p # AnyPolicy)
  PROVE  IsVouched(Append(node, p)) /\ Len(Append(node, p)) = depth
<1>1. /\ PathIsWell /\ depth \in Nat /\ depth >= 1 /\ depth <= Size
      /\ IsVouched(node) /\ Len(node) = depth - 1 /\ ExpectsWhatFollows(depth - 1)
  BY DEF IInv, AtWork, AtDepth
<1>2. ASSUME depth > 1
      PROVE  Follows(depth - 1, Last(node), p) /\ (p = AnyPolicy => Last(node) = AnyPolicy)
  <2>1. node # << >>
    BY <1>1, <1>2 DEF IsVouched
  <2>2. Expects(node) = expected[Last(node)]
    BY <2>1 DEF Expects
  <2>3. CASE p \in Expects(node)
    BY <1>1, <2>1, <2>2, <2>3 DEF ExpectsWhatFollows
  <2>4. CASE AnyPolicy \in Expects(node) /\ p # AnyPolicy
    <3>1. Last(node) = AnyPolicy
      BY <1>1, <2>1, <2>2, <2>4 DEF ExpectsWhatFollows
    <3>2. QED
      BY <2>4, <3>1 DEF Follows
  <2>5. QED
    BY <2>3, <2>4
<1>3. QED
  BY <1>1, <1>2, ChainGrows

\* What a node expects is a policy.
LEMMA ExpectsPolicies ==
  ASSUME IInv, pc = "tree", NEW node \in AtDepth(tree, depth - 1)
  PROVE  Expects(node) \subseteq PolicyIds
  BY DEF IInv, AtWork, ExpectsWhatFollows, Expects, PolicyIds

LEMMA GrownIsVouched ==
  ASSUME IInv, pc = "tree", Cert(depth).asserts, NEW node \in Grown(Cert(depth))
  PROVE  IsVouched(node) /\ Len(node) <= depth
<1>1. /\ PathIsWell /\ depth \in Nat /\ depth >= 1 /\ depth <= Size /\ InhibitIsKept(depth)
      /\ \A x \in tree : IsVouched(x) /\ Len(x) <= depth
  BY DEF IInv, AtWork
<1>2. CertIsWell(Cert(depth))
  BY <1>1, SizeIsNat DEF PathIsWell
<1> DEFINE parents == AtDepth(tree, depth - 1)
<1>3. \/ node \in tree
      \/ \E p \in Cert(depth).policies \ {AnyPolicy} : node \in Below(p, parents)
      \/ /\ AnyPolicy \in Cert(depth).policies /\ AnyCounts(Cert(depth), IsLast)
         /\ node \in BelowAll(parents)
  BY DEF Grown, Prune
<1>4. CASE node \in tree
  BY <1>1, <1>4
<1>5. CASE \E p \in Cert(depth).policies \ {AnyPolicy} : node \in Below(p, parents)
  <2>1. PICK p \in Cert(depth).policies \ {AnyPolicy} : node \in Below(p, parents)
    BY <1>5
  <2>2. PICK x \in parents : node = Append(x, p) /\ (p \in Expects(x) \/ AnyPolicy \in Expects(x))
    BY <2>1 DEF Below
  <2>3. Vouches(depth, p) /\ p \in PolicyIds
    BY <1>2, <2>1 DEF Vouches, CertIsWell
  <2>4. IsVouched(node) /\ Len(node) = depth
    BY <2>1, <2>2, <2>3, NodeGrows
  <2>5. QED
    BY <1>1, <2>4
<1>6. CASE /\ AnyPolicy \in Cert(depth).policies /\ AnyCounts(Cert(depth), IsLast)
           /\ node \in BelowAll(parents)
  <2>1. AnyAllowed(depth)
    BY <1>1, <1>6, AnyIsAllowed DEF AnyCounts, IsLast
  <2>2. PICK x \in parents : \E p \in Expects(x) : node = Append(x, p)
    BY <1>6 DEF BelowAll
  <2>3. PICK p \in Expects(x) : node = Append(x, p)
    BY <2>2
  <2>4. p \in PolicyIds
    BY ExpectsPolicies
  <2>5. Vouches(depth, p)
    BY <2>1 DEF Vouches
  <2>6. IsVouched(node) /\ Len(node) = depth
    BY <2>3, <2>4, <2>5, NodeGrows
  <2>7. QED
    BY <1>1, <2>6
<1>7. QED
  BY <1>3, <1>4, <1>5, <1>6

\* The parts of AtWork that a step which leaves the counters alone keeps.
LEMMA AtWorkStays ==
  ASSUME PathIsWell, AtWork, path' = path, required' = required, depth' = depth,
         inhibit' = inhibit, mapping' = mapping
  PROVE  /\ PathIsWell' /\ Size' = Size /\ depth' \in Nat /\ depth' >= 1
         /\ InhibitIsKept(depth)' /\ MappingIsKept(depth)' /\ AnyIsNotMapped(depth - 1)'
         /\ AnyIsNotMapped(depth)' <=> AnyIsNotMapped(depth)
<1>1. PathIsWell' /\ Size' = Size
  BY PathStays
<1>2. PICK d : d = depth
  OBVIOUS
<1>3. InhibitIsKept(d)' /\ MappingIsKept(d)'
  BY <1>2, CountersStay DEF AtWork
<1>4. InhibitIsKept(depth)' /\ MappingIsKept(depth)'
  BY <1>2, <1>3 DEF InhibitIsKept, MappingIsKept, Between
<1>5. AnyIsNotMapped(depth - 1)' /\ (AnyIsNotMapped(depth)' <=> AnyIsNotMapped(depth))
  BY DEF AtWork, AnyIsNotMapped, Cert
<1>6. QED
  BY <1>1, <1>4, <1>5 DEF AtWork

LEMMA GrowKeeps == IInv /\ Grow => IInv'
<1> SUFFICES ASSUME IInv, Grow PROVE IInv'
  OBVIOUS
<1>1. /\ pc = "tree" /\ path' = path /\ required' = required /\ depth' = depth
      /\ explicit' = explicit /\ mapping' = mapping /\ inhibit' = inhibit
      /\ tree' = (IF Cert(depth).asserts THEN Grown(Cert(depth)) ELSE {})
      /\ expected' = [p \in Policies \cup {AnyPolicy} |-> {p}]
  BY DEF Grow
<1>2. AtWork /\ PathIsWell
  BY <1>1 DEF IInv
<1>3. /\ PathIsWell' /\ Size' = Size /\ depth' \in Nat /\ depth' >= 1
      /\ InhibitIsKept(depth)' /\ MappingIsKept(depth)' /\ AnyIsNotMapped(depth - 1)'
  BY <1>1, <1>2, AtWorkStays
<1>4. CASE pc' = "done" /\ verdict' = "rejected"
  BY <1>1, <1>3, <1>4, NotAccepted DEF IInv
<1>5. CASE pc' = (IF IsLast THEN "wrap" ELSE "mappings") /\ verdict' = verdict
  <2>1. \A node \in tree' : IsVouched(node)' /\ Len(node) <= depth
    BY <1>1, GrownIsVouched, VouchedStays
  <2>2. ExpectsItself'
    BY <1>1 DEF ExpectsItself, PolicyIds
  <2>3. verdict' = "none" /\ depth <= Size
    BY <1>1, <1>2, <1>5 DEF AtWork
  <2>4. AtWork'
    BY <1>1, <1>3, <1>5, <2>1, <2>2, <2>3 DEF AtWork, IsLast
  <2>5. QED
    BY <1>1, <1>3, <1>5, <2>3, <2>4, NotAccepted DEF IInv
<1>6. QED
  BY <1>4, <1>5 DEF Grow, Finish

\* A policy that is mapped goes beside anyPolicy.
LEMMA BesideIsVouched ==
  ASSUME PathIsWell, NEW d \in Nat, d >= 1, d <= Size, NEW node, IsVouched(node),
         Len(node) = d, Last(node) = AnyPolicy, NEW p \in PolicyIds, p # AnyPolicy
  PROVE  IsVouched(Append(Front(node), p)) /\ Len(Append(Front(node), p)) = d
<1>1. PICK f : f = Front(node)
  OBVIOUS
<1>2. IsVouched(f) /\ Len(f) = d - 1
  BY <1>1, ChainFront
<1>3. node[d] = AnyPolicy /\ d \in 1..Len(node)
  BY DEF Last
<1>4. Vouches(d, AnyPolicy)
  BY <1>3 DEF IsVouched
<1>5. Vouches(d, p)
  BY <1>4 DEF Vouches
<1>6. ASSUME d > 1 PROVE Last(f) = AnyPolicy
  <2>1. node[d - 1] = AnyPolicy
    BY <1>3, <1>6 DEF IsVouched
  <2>2. f = SubSeq(node, 1, d - 1) /\ node \in Seq(PolicyIds)
    BY <1>1 DEF Front, IsVouched
  <2>3. f[d - 1] = node[d - 1]
    BY <1>6, <2>2
  <2>4. QED
    BY <1>2, <2>1, <2>3 DEF Last
<1>7. d > 1 => Follows(d - 1, Last(f), p)
  BY <1>6 DEF Follows
<1>8. IsVouched(Append(f, p)) /\ Len(Append(f, p)) = d
  BY <1>2, <1>5, <1>7, ChainGrows
<1>9. QED
  BY <1>1, <1>8

\* The last policy of a node.
LEMMA LastIsPolicy ==
  ASSUME NEW node, IsVouched(node), Len(node) >= 1
  PROVE  Last(node) \in PolicyIds
  BY DEF IsVouched, Last

LEMMA MapKeeps == IInv /\ MapPolicies => IInv'
<1> SUFFICES ASSUME IInv, MapPolicies PROVE IInv'
  OBVIOUS
<1>1. /\ pc = "mappings" /\ path' = path /\ required' = required /\ depth' = depth
      /\ explicit' = explicit /\ mapping' = mapping /\ inhibit' = inhibit
  BY DEF MapPolicies
<1>2. /\ AtWork /\ PathIsWell /\ depth # Size /\ ExpectsItself /\ depth \in Nat /\ depth >= 1
      /\ depth <= Size /\ MappingIsKept(depth)
      /\ \A node \in tree : IsVouched(node) /\ Len(node) <= depth
  BY <1>1 DEF IInv, AtWork
<1>3. /\ PathIsWell' /\ Size' = Size /\ depth' \in Nat /\ depth' >= 1
      /\ InhibitIsKept(depth)' /\ MappingIsKept(depth)' /\ AnyIsNotMapped(depth - 1)'
      /\ AnyIsNotMapped(depth)' <=> AnyIsNotMapped(depth)
  BY <1>1, <1>2, AtWorkStays
<1>4. CASE \E m \in Cert(depth).maps : AnyPolicy \in {m[1], m[2]}
  <2>1. pc' = "done" /\ verdict' = "rejected"
    BY <1>4 DEF MapPolicies, Finish
  <2>2. QED
    BY <1>1, <1>3, <2>1, NotAccepted DEF IInv
<1>5. CASE ~\E m \in Cert(depth).maps : AnyPolicy \in {m[1], m[2]}
  <2>1. /\ pc' = "limits" /\ verdict' = verdict
        /\ IF mapping > 0
           THEN /\ tree' = Extended(Cert(depth))
                /\ expected' = [p \in DOMAIN expected |->
                      IF p \in Mapped(Cert(depth)) THEN Targets(Cert(depth), p) ELSE expected[p]]
           ELSE tree' = Deleted(Cert(depth)) /\ expected' = expected
    BY <1>5 DEF MapPolicies
  <2>2. AnyIsNotMapped(depth)
    BY <1>2, <1>5 DEF AtWork, AnyIsNotMapped
  <2>3. CertIsWell(Cert(depth))
    BY <1>2, SizeIsNat DEF PathIsWell
  <2>4. AnyPolicy \notin Mapped(Cert(depth)) /\ Mapped(Cert(depth)) \subseteq PolicyIds
    BY <1>5, <2>3 DEF Mapped, CertIsWell
  <2>5. \A node \in tree' : IsVouched(node) /\ Len(node) <= depth
    <3>1. CASE mapping > 0
      <4> SUFFICES ASSUME NEW node \in Extended(Cert(depth))
                   PROVE  IsVouched(node) /\ Len(node) <= depth
        BY <2>1, <3>1
      <4>1. CASE node \in tree
        BY <1>2, <4>1
      <4>2. CASE node \notin tree
        <5>1. PICK x \in AtDepth(tree, depth) : Last(x) = AnyPolicy
                /\ \E p \in Mapped(Cert(depth)) : node = Append(Front(x), p)
          BY <4>2 DEF Extended
        <5>2. PICK p \in Mapped(Cert(depth)) : node = Append(Front(x), p)
          BY <5>1
        <5>3. p \in PolicyIds /\ p # AnyPolicy
          BY <2>4
        <5>4. IsVouched(x) /\ Len(x) = depth
          BY <1>2 DEF AtDepth
        <5>5. QED
          BY <1>2, <5>1, <5>2, <5>3, <5>4, BesideIsVouched
      <4>3. QED
        BY <4>1, <4>2
    <3>2. CASE ~(mapping > 0)
      BY <1>2, <2>1, <3>2 DEF Deleted, Prune
    <3>3. QED
      BY <3>1, <3>2
  <2>6. ASSUME NEW node \in AtDepth(tree', depth), node # << >>, NEW q \in expected'[Last(node)]
        PROVE  q \in PolicyIds /\ Follows(depth, Last(node), q)
                 /\ (q = AnyPolicy => Last(node) = AnyPolicy)
    <3>1. IsVouched(node) /\ Len(node) = depth
      BY <2>5 DEF AtDepth
    <3>2. PICK p \in PolicyIds : p = Last(node)
      BY <1>2, <3>1, LastIsPolicy
    <3>3. expected[p] = {p}
      BY <1>2 DEF ExpectsItself
    <3>4. CASE p \notin Mapped(Cert(depth))
      <4>1. expected'[p] = {p}
        <5>1. DOMAIN expected = PolicyIds
          BY <1>2 DEF ExpectsItself
        <5>2. QED
          BY <2>1, <3>3, <3>4, <5>1
      <4>2. q = p
        BY <2>6, <3>2, <4>1
      <4>3. QED
        BY <3>2, <3>4, <4>2 DEF Follows, Renamed
    <3>5. CASE p \in Mapped(Cert(depth)) /\ mapping > 0
      <4>1. expected'[p] = Targets(Cert(depth), p)
        <5>1. DOMAIN expected = PolicyIds
          BY <1>2 DEF ExpectsItself
        <5>2. QED
          BY <2>1, <3>5, <5>1
      <4>2. q \in Targets(Cert(depth), p)
        BY <2>6, <3>2, <4>1
      <4>3. MappingAllowed(depth)
        BY <1>2, <3>5, MappingIsAllowed
      <4>4. Follows(depth, p, q)
        BY <3>5, <4>2, <4>3 DEF Follows, Renamed
      <4>5. q \in PolicyIds /\ q # AnyPolicy
        BY <1>5, <2>3, <4>2 DEF Targets, CertIsWell
      <4>6. QED
        BY <3>2, <4>4, <4>5
    <3>6. CASE p \in Mapped(Cert(depth)) /\ ~(mapping > 0)
      <4>1. node \in Deleted(Cert(depth))
        BY <2>1, <3>6 DEF AtDepth
      <4>2. Last(node) \notin Mapped(Cert(depth))
        BY <3>1, <4>1 DEF Deleted, Prune
      <4>3. QED
        BY <3>2, <3>6, <4>2
    <3>7. QED
      BY <3>4, <3>5, <3>6
  <2>7. ExpectsWhatFollows(depth)'
    <3>1. \A p, q : Follows(depth, p, q)' <=> Follows(depth, p, q)
      <4>1. PICK d : d = depth
        OBVIOUS
      <4>2. \A p, q : Follows(d, p, q)' <=> Follows(d, p, q)
        BY <1>1, FollowsStays
      <4>3. \A p, q : Follows(depth, p, q)' <=> Follows(d, p, q)'
        BY <1>1, <4>1 DEF Follows, Renamed, MappingAllowed, UsedUp, Cert, Mapped, Targets
      <4>4. QED
        BY <4>1, <4>2, <4>3
    <3>2. AtDepth(tree, depth)' = AtDepth(tree', depth)
      BY <1>1 DEF AtDepth
    <3>3. QED
      BY <2>6, <3>1, <3>2 DEF ExpectsWhatFollows
  <2>8. \A node \in tree' : IsVouched(node)' /\ Len(node) <= depth
    BY <1>1, <2>5, VouchedStays
  <2>9. AtWork'
    BY <1>1, <1>2, <1>3, <2>1, <2>2, <2>7, <2>8 DEF AtWork
  <2>10. verdict' = "none"
    BY <1>2, <2>1 DEF AtWork
  <2>11. QED
    BY <1>1, <1>3, <2>1, <2>9, <2>10, NotAccepted DEF IInv
<1>6. QED
  BY <1>4, <1>5

LEMMA LimitKeeps == IInv /\ Limit => IInv'
<1> SUFFICES ASSUME IInv, Limit PROVE IInv'
  OBVIOUS
<1> DEFINE Counted(n) == IF Cert(depth).selfIssued THEN n ELSE Less(n)
<1>1. /\ pc = "limits" /\ pc' = "tree" /\ path' = path /\ required' = required
      /\ depth' = depth + 1 /\ tree' = tree /\ expected' = expected /\ verdict' = verdict
      /\ explicit' = Least(Counted(explicit), Cert(depth).requireExplicit)
      /\ mapping' = Least(Counted(mapping), Cert(depth).inhibitMapping)
      /\ inhibit' = Least(Counted(inhibit), Cert(depth).inhibitAny)
  BY DEF Limit
<1>2. /\ AtWork /\ PathIsWell /\ depth # Size /\ depth \in Nat /\ depth >= 1 /\ depth <= Size
      /\ InhibitIsKept(depth) /\ MappingIsKept(depth) /\ ExpectsWhatFollows(depth)
      /\ AnyIsNotMapped(depth) /\ verdict = "none"
      /\ \A node \in tree : IsVouched(node) /\ Len(node) <= depth
  BY <1>1 DEF IInv, AtWork
<1>3. PathIsWell' /\ Size' = Size /\ Size \in Nat /\ \A i : Cert(i)' = Cert(i)
  BY <1>1, <1>2, PathStays, SizeIsNat
<1>4. \A j \in 1..depth : CertIsWell(Cert(j))
  BY <1>2, <1>3 DEF PathIsWell
<1>5. PICK d \in Nat : d = depth
  BY <1>2
<1>6. InhibitIsKept(d + 1)'
  <2> DEFINE A == [j \in 1..d |-> Cert(j).inhibitAny]
  <2>1. \A j \in 1..d : A[j] \in Nat /\ A[j] = Cert(j).inhibitAny
    BY <1>4, <1>5 DEF CertIsWell
  <2>2. inhibit \in Nat /\ inhibit' \in Nat
    BY <1>1, <1>2, <1>4, <1>5 DEF InhibitIsKept, Least, Less, CertIsWell
  <2>3. inhibit > 0 => \A j \in 1..(d - 1) : inhibit + Cardinality(Between(j, d)) <= A[j]
    BY <1>2, <1>5, <2>1 DEF InhibitIsKept
  <2>4. inhibit' = Least(IF Cert(d).selfIssued THEN inhibit ELSE Less(inhibit), A[d])
    BY <1>1, <1>2, <1>5, <2>1
  <2>5. PICK m \in Nat : m = inhibit'
    BY <2>2
  <2> HIDE DEF A
  <2>6. ASSUME m > 0, NEW j \in 1..d PROVE m + Cardinality(Between(j, d + 1)) <= A[j]
    BY <1>2, <1>5, <2>1, <2>2, <2>3, <2>4, <2>5, <2>6, CounterIsKept
  <2>7. \A j : Between(j, d + 1)' = Between(j, d + 1)
    BY <1>3 DEF Between
  <2>8. QED
    BY <1>3, <2>1, <2>2, <2>5, <2>6, <2>7 DEF InhibitIsKept
<1>7. MappingIsKept(d + 1)'
  <2> DEFINE A == [j \in 1..d |-> Cert(j).inhibitMapping]
  <2>1. \A j \in 1..d : A[j] \in Nat /\ A[j] = Cert(j).inhibitMapping
    BY <1>4, <1>5 DEF CertIsWell
  <2>2. mapping \in Nat /\ mapping' \in Nat
    BY <1>1, <1>2, <1>4, <1>5 DEF MappingIsKept, Least, Less, CertIsWell
  <2>3. mapping > 0 => \A j \in 1..(d - 1) : mapping + Cardinality(Between(j, d)) <= A[j]
    BY <1>2, <1>5, <2>1 DEF MappingIsKept
  <2>4. mapping' = Least(IF Cert(d).selfIssued THEN mapping ELSE Less(mapping), A[d])
    BY <1>1, <1>2, <1>5, <2>1
  <2>5. PICK m \in Nat : m = mapping'
    BY <2>2
  <2> HIDE DEF A
  <2>6. ASSUME m > 0, NEW j \in 1..d PROVE m + Cardinality(Between(j, d + 1)) <= A[j]
    BY <1>2, <1>5, <2>1, <2>2, <2>3, <2>4, <2>5, <2>6, CounterIsKept
  <2>7. \A j : Between(j, d + 1)' = Between(j, d + 1)
    BY <1>3 DEF Between
  <2>8. QED
    BY <1>3, <2>1, <2>2, <2>5, <2>6, <2>7 DEF MappingIsKept
<1>8. depth' \in Nat /\ depth' >= 1 /\ depth' <= Size /\ depth' - 1 = depth /\ depth' = d + 1
  BY <1>1, <1>2, <1>3, <1>5
<1>9. InhibitIsKept(depth)' /\ MappingIsKept(depth)'
  BY <1>6, <1>7, <1>8 DEF InhibitIsKept, MappingIsKept, Between
<1>10. AnyIsNotMapped(depth - 1)'
  BY <1>2, <1>3, <1>8 DEF AnyIsNotMapped
<1>11. ExpectsWhatFollows(depth - 1)'
  <2>1. \A p, q : Follows(d, p, q)' <=> Follows(d, p, q)
    BY <1>1, FollowsStays
  <2>2. \A p, q : Follows(depth - 1, p, q)' <=> Follows(d, p, q)'
    BY <1>1, <1>5, <1>8 DEF Follows, Renamed, MappingAllowed, UsedUp, Cert, Mapped, Targets
  <2>3. AtDepth(tree, depth - 1)' = AtDepth(tree, depth)
    BY <1>1, <1>8 DEF AtDepth
  <2>4. QED
    BY <1>1, <1>2, <1>5, <2>1, <2>2, <2>3 DEF ExpectsWhatFollows
<1>12. \A node \in tree' : IsVouched(node)' /\ Len(node) <= depth
  BY <1>1, <1>2, VouchedStays
<1>13. AtWork'
  <2>1. \A node \in tree' : Len(node) <= depth' /\ Len(node) <= depth' - 1
    BY <1>2, <1>8, <1>12 DEF IsVouched
  <2>2. QED
    BY <1>1, <1>2, <1>3, <1>8, <1>9, <1>10, <1>11, <1>12, <2>1 DEF AtWork
<1>14. required # AnyPolicy => explicit' = 0
  <2>1. ASSUME required # AnyPolicy PROVE explicit' = 0
    <3>1. explicit = 0 /\ Cert(depth).requireExplicit \in Nat
      BY <1>2, <1>4, <2>1 DEF IInv, CertIsWell
    <3>2. QED
      BY <1>1, <3>1 DEF Least, Less
  <2>2. QED
    BY <2>1
<1>15. QED
  BY <1>1, <1>2, <1>3, <1>13, <1>14, NotAccepted DEF IInv

\* A node at the end of the path, in which the required policy is the first, if any.
LEMMA EndsInChain ==
  ASSUME PathIsWell, NEW node, IsVouched(node), Len(node) = Size, Size >= 1,
         \/ Last(node) = AnyPolicy
         \/ \A i \in RightBelowAny(node) : node[i] = required
  PROVE  \E chain \in [1..Size -> Policies \cup {AnyPolicy}] :
           /\ Vouched(chain)
           /\ \A i \in 1..Size :
                chain[i] # AnyPolicy /\ (\A k \in 1..(i - 1) : chain[k] = AnyPolicy)
                  => chain[i] = required
<1>1. node \in Seq(PolicyIds) /\ Size \in Nat /\ DOMAIN node = 1..Size
  BY SizeIsNat DEF IsVouched
<1>2. node \in [1..Size -> Policies \cup {AnyPolicy}]
  BY <1>1 DEF PolicyIds
<1>3. Vouched(node)
  BY DEF Vouched, IsVouched
<1>4. ASSUME NEW i \in 1..Size, node[i] # AnyPolicy, \A k \in 1..(i - 1) : node[k] = AnyPolicy
      PROVE  node[i] = required
  <2>1. CASE Last(node) = AnyPolicy
    <3>1. node[Size] = AnyPolicy /\ Size \in 1..Len(node)
      BY <1>1, <2>1 DEF Last
    <3>2. node[i] = AnyPolicy
      BY <1>1, <3>1 DEF IsVouched
    <3>3. QED
      BY <1>4, <3>2
  <2>2. CASE \A k \in RightBelowAny(node) : node[k] = required
    <3>1. i = 1 \/ node[i - 1] = AnyPolicy
      BY <1>1, <1>4
    <3>2. i \in RightBelowAny(node)
      BY <1>1, <1>4, <3>1 DEF RightBelowAny
    <3>3. QED
      BY <2>2, <3>2
  <2>3. QED
    BY <2>1, <2>2
<1>5. QED
  BY <1>2, <1>3, <1>4

\* A pruned tree that is left has a node at the end.
LEMMA PrunedReachesEnd ==
  ASSUME NEW t, NEW d \in Nat, \A node \in t : Len(node) \in Nat /\ Len(node) <= d,
         Prune(t, d) # {}
  PROVE  \E node \in t : Len(node) = d
  BY DEF Prune, AtDepth

LEMMA WrapUpKeeps == IInv /\ WrapUp => IInv'
<1> SUFFICES ASSUME IInv, WrapUp PROVE IInv'
  OBVIOUS
<1>1. /\ pc = "wrap" /\ path' = path /\ required' = required /\ pc' = "done"
      /\ tree' = Intersected
      /\ explicit' = (IF Cert(Size).requireExplicit = 0 THEN 0 ELSE Less(explicit))
      /\ verdict' = (IF explicit' > 0 \/ tree' # {} THEN "accepted" ELSE "rejected")
  BY DEF WrapUp, Finish
<1>2. /\ PathIsWell /\ Size \in Nat /\ Size >= 1
      /\ \A node \in tree : IsVouched(node) /\ Len(node) <= Size
  BY <1>1, SizeIsNat DEF IInv, AtWork
<1>3. PathIsWell' /\ Size' = Size
  BY <1>1, <1>2, PathStays
<1>4. required # AnyPolicy => explicit' = 0
  BY <1>1 DEF IInv, Less
<1>5. ASSUME verdict' = "accepted", required # AnyPolicy
      PROVE  \E node \in tree : /\ Len(node) = Size
               /\ \/ Last(node) = AnyPolicy
                  \/ \A i \in RightBelowAny(node) : node[i] = required
  <2>1. Intersected # {}
    BY <1>1, <1>4, <1>5
  <2>2. CASE \E node \in AtDepth(tree, Size) : IsAny(node)
    <3>1. PICK node \in tree : Len(node) = Size /\ IsAny(node)
      BY <2>2 DEF AtDepth
    <3>2. node # << >>
      BY <1>2, <3>1
    <3>3. QED
      BY <3>1, <3>2 DEF IsAny
  <2>3. CASE ~\E node \in AtDepth(tree, Size) : IsAny(node)
    <3>1. PICK t : t = {node \in tree : \A i \in RightBelowAny(node) : node[i] = required}
      OBVIOUS
    <3>2. Prune(t, Size) # {}
      BY <1>5, <2>1, <2>3, <3>1 DEF Intersected
    <3>3. \A node \in t : Len(node) \in Nat /\ Len(node) <= Size
      BY <1>2, <3>1 DEF IsVouched
    <3>4. \E node \in t : Len(node) = Size
      BY <1>2, <3>2, <3>3, PrunedReachesEnd
    <3>5. QED
      BY <3>1, <3>4
  <2>4. QED
    BY <2>2, <2>3
<1>6. RequiredPolicyIsVouchedFor'
  <2> SUFFICES ASSUME verdict' = "accepted", required # AnyPolicy
               PROVE  (\E chain \in [1..Size -> Policies \cup {AnyPolicy}] :
           /\ Vouched(chain)
           /\ \A i \in 1..Size :
                chain[i] # AnyPolicy /\ (\A k \in 1..(i - 1) : chain[k] = AnyPolicy)
                  => chain[i] = required)'
    BY <1>1 DEF RequiredPolicyIsVouchedFor
  <2>1. PICK node \in tree : /\ Len(node) = Size
               /\ \/ Last(node) = AnyPolicy
                  \/ \A i \in RightBelowAny(node) : node[i] = required
    BY <1>5
  <2>2. PICK chain \in [1..Size -> Policies \cup {AnyPolicy}] :
           /\ Vouched(chain)
           /\ \A i \in 1..Size :
                chain[i] # AnyPolicy /\ (\A k \in 1..(i - 1) : chain[k] = AnyPolicy)
                  => chain[i] = required
    BY <1>2, <2>1, EndsInChain
  <2>3. Vouched(chain)'
    BY <1>1, <1>2, <2>2, ChainStays
  <2>4. QED
    BY <1>1, <1>3, <2>2, <2>3
<1>7. QED
  BY <1>1, <1>3, <1>4, <1>6 DEF IInv

\* The invariant holds at first and is kept by every step of finalize and
\* process_policies (trust.rs:415-439, policy.rs:39-128).
THEOREM Inductive == Spec => []IInv
<1>1. IInv /\ [Next]_vars => IInv'
  <2> SUFFICES ASSUME IInv, [Next]_vars PROVE IInv'
    OBVIOUS
  <2>1. CASE UNCHANGED vars
    <3>1. /\ path' = path /\ required' = required /\ pc' = pc /\ depth' = depth /\ tree' = tree
          /\ expected' = expected /\ explicit' = explicit /\ mapping' = mapping
          /\ inhibit' = inhibit /\ verdict' = verdict
      BY <2>1 DEF vars
    <3>2. PathIsWell' /\ Size' = Size /\ \A d : AnyIsNotMapped(d)' <=> AnyIsNotMapped(d)
      BY <3>1, PathStays DEF IInv
    <3>3. RequiredPolicyIsVouchedFor'
      <4>1. \A chain : Vouched(chain)' <=> Vouched(chain)
        BY <3>1, ChainStays DEF IInv
      <4>2. QED
        BY <3>1, <3>2, <4>1 DEF IInv, RequiredPolicyIsVouchedFor
    <3>4. ASSUME pc # "done" PROVE AtWork'
      <4>1. AtWork /\ PathIsWell
        BY <3>4 DEF IInv
      <4>2. /\ InhibitIsKept(depth)' /\ MappingIsKept(depth)' /\ AnyIsNotMapped(depth - 1)'
            /\ AnyIsNotMapped(depth)' <=> AnyIsNotMapped(depth)
        BY <3>1, <4>1, AtWorkStays
      <4>3. \A node : IsVouched(node)' <=> IsVouched(node)
        BY <3>1, VouchedStays
      <4>4. \A d, p, q : Follows(d, p, q)' <=> Follows(d, p, q)
        BY <3>1, FollowsStays
      <4>5. ExpectsWhatFollows(depth - 1) => ExpectsWhatFollows(depth - 1)'
        <5>1. PICK d : d = depth - 1
          OBVIOUS
        <5>2. ExpectsWhatFollows(d) => ExpectsWhatFollows(d)'
          BY <3>1, <4>4 DEF ExpectsWhatFollows, AtDepth
        <5>3. ExpectsWhatFollows(d)' <=> ExpectsWhatFollows(depth - 1)'
          BY <3>1, <5>1, StaysAtDepth
        <5>4. QED
          BY <5>1, <5>2, <5>3
      <4>6. ExpectsWhatFollows(depth) => ExpectsWhatFollows(depth)'
        <5>1. PICK d : d = depth
          OBVIOUS
        <5>2. ExpectsWhatFollows(d) => ExpectsWhatFollows(d)'
          BY <3>1, <4>4 DEF ExpectsWhatFollows, AtDepth
        <5>3. ExpectsWhatFollows(d)' <=> ExpectsWhatFollows(depth)'
          BY <3>1, <5>1, StaysAtDepth
        <5>4. QED
          BY <5>1, <5>2, <5>3
      <4>7. ExpectsItself' <=> ExpectsItself
        BY <3>1 DEF ExpectsItself
      <4>8. QED
        BY <3>1, <3>2, <4>1, <4>2, <4>3, <4>5, <4>6, <4>7 DEF AtWork
    <3>5. QED
      BY <3>1, <3>2, <3>3, <3>4 DEF IInv
  <2>2. QED
    BY <2>1, NamesKeep, GrowKeeps, MapKeeps, LimitKeeps, WrapUpKeeps DEF Next
<1>2. QED
  BY Initially, <1>1, PTL DEF Spec

-----------------------------------------------------------------------------
\* Whatever the path: if it is accepted for a required policy, every certificate of it
\* vouches for a chain of policies that begins with that one (trust.rs:203-216).
THEOREM AcceptedForAReason == Spec => []RequiredPolicyIsVouchedFor
<1>1. IInv => RequiredPolicyIsVouchedFor
  BY DEF IInv
<1>2. QED
  BY Inductive, <1>1, PTL

-----------------------------------------------------------------------------
(* The graph of the policies, level by level.                              *)

\* The policies of the anchor's domain that each policy stands for, and whether a
\* certificate vouches for everything: Graph says this of the last certificate.
NoStands == [p \in Policies |-> {}]
From(i, above, p) ==
  UNION {above.stands[q] : q \in {x \in Policies : i > 1 /\ p \in Renamed(i - 1, x)}}
Own(i, above, p) ==
  IF p \in Cert(i).policies
  THEN IF From(i, above, p) = {} /\ above.all THEN {p} ELSE From(i, above, p)
  ELSE IF AnyAllowed(i) THEN From(i, above, p) ELSE {}
Beside(i, all, p) == p \in Mapped(Cert(i)) /\ i # Size /\ MappingAllowed(i) /\ all
LevelStep(i, above) ==
  IF Cert(i).asserts
  THEN [stands |-> [p \in Policies |->
                      IF Own(i, above, p) = {} /\ Beside(i, above.all /\ AnyAllowed(i), p)
                      THEN {p} ELSE Own(i, above, p)],
        all |-> above.all /\ AnyAllowed(i)]
  ELSE [stands |-> NoStands, all |-> FALSE]
Root == [stands |-> NoStands, all |-> TRUE]
LevelAt(i, g) == IF i = 0 THEN Root ELSE LevelStep(i, g[i - 1])
Levels == CHOOSE level : level = [i \in 0..Size |-> LevelAt(i, level)]

\* Graph is the last of the levels.
LEMMA GraphIs == Graph = Levels[Size]
BY DEF Graph, Levels, LevelAt, Root, LevelStep, NoStands, From, Own, Beside

\* What a level is.
LevelSet == [stands : [Policies -> SUBSET Policies], all : BOOLEAN]

\* A level over a level is one.
LEMMA LevelIs ==
  ASSUME NEW i, NEW above \in LevelSet
  PROVE  LevelStep(i, above) \in LevelSet
<1>1. ASSUME NEW p \in Policies PROVE From(i, above, p) \subseteq Policies
  BY DEF LevelSet, From
<1>2. ASSUME NEW p \in Policies PROVE Own(i, above, p) \subseteq Policies
  BY <1>1 DEF Own
<1>3. (above.all /\ AnyAllowed(i)) \in BOOLEAN
  OBVIOUS
<1>4. NoStands \in [Policies -> SUBSET Policies]
  BY DEF NoStands
<1>. DEFINE s == [p \in Policies |->
                    IF Own(i, above, p) = {} /\ Beside(i, above.all /\ AnyAllowed(i), p)
                    THEN {p} ELSE Own(i, above, p)]
<1>5. s \in [Policies -> SUBSET Policies]
  <2>1. ASSUME NEW p \in Policies PROVE s[p] \subseteq Policies
    BY <1>2
  <2>. QED
    BY <2>1
<1>6. LevelStep(i, above) = IF Cert(i).asserts THEN [stands |-> s, all |-> above.all /\ AnyAllowed(i)]
                            ELSE [stands |-> NoStands, all |-> FALSE]
  BY DEF LevelStep
<1>. HIDE DEF s
<1>. QED
  BY <1>3, <1>4, <1>5, <1>6 DEF LevelSet

\* Its fields.
LEMMA LevelHas ==
  ASSUME NEW i, NEW above
  PROVE  IF Cert(i).asserts
         THEN /\ LevelStep(i, above).all <=> above.all /\ AnyAllowed(i)
              /\ \A p \in Policies :
                   LevelStep(i, above).stands[p] =
                     IF Own(i, above, p) = {} /\ Beside(i, above.all /\ AnyAllowed(i), p)
                     THEN {p} ELSE Own(i, above, p)
         ELSE ~LevelStep(i, above).all /\ \A p \in Policies : LevelStep(i, above).stands[p] = {}
<1>1. PICK b \in BOOLEAN : b <=> above.all /\ AnyAllowed(i)
  OBVIOUS
<1>2. PICK s : s = [p \in Policies |->
                     IF Own(i, above, p) = {} /\ Beside(i, above.all /\ AnyAllowed(i), p)
                     THEN {p} ELSE Own(i, above, p)]
  OBVIOUS
<1>3. b = (above.all /\ AnyAllowed(i))
  BY <1>1
<1>4. CASE Cert(i).asserts
  <2>1. LevelStep(i, above) = [stands |-> s, all |-> b]
    BY <1>2, <1>3, <1>4, Zenon DEF LevelStep
  <2>2. LevelStep(i, above).stands = s /\ LevelStep(i, above).all = b
    BY <2>1
  <2>. QED
    BY <1>1, <1>2, <1>4, <2>2, Zenon
<1>5. CASE ~Cert(i).asserts
  <2>1. LevelStep(i, above) = [stands |-> NoStands, all |-> FALSE]
    BY <1>5 DEF LevelStep
  <2>. QED
    BY <1>5, <2>1 DEF NoStands
<1>. QED
  BY <1>4, <1>5, Zenon

\* The recursion has a solution, and Levels is one.
LEMMA LevelsAre ==
  ASSUME PathIsWell
  PROVE  /\ Levels \in [0..Size -> LevelSet] /\ Levels[0] = Root
         /\ \A i \in 1..Size : Levels[i] = LevelStep(i, Levels[i - 1])
<1> DEFINE D == 0..Size
           step == [x \in D \X [D -> LevelSet] |-> LevelAt(x[1], x[2])]
           rank == [i \in D |-> i]
<1>1. Size \in Nat
  BY SizeIsNat
<1>0. Root \in LevelSet
  BY DEF Root, LevelSet, NoStands
<1>2. ASSUME NEW i \in D, NEW g \in [D -> LevelSet] PROVE LevelAt(i, g) \in LevelSet
  <2>2. i # 0 => i - 1 \in D
    BY <1>1
  <2>3. i # 0 => g[i - 1] \in LevelSet
    BY <2>2
  <2>. QED
    BY <1>0, <2>3, LevelIs, Zenon DEF LevelAt
<1>3. \A i \in D, g \in [D -> LevelSet] : step[<<i, g>>] = LevelAt(i, g)
  OBVIOUS
<1>4. step \in [D \X [D -> LevelSet] -> LevelSet]
  BY <1>2
<1>5. ASSUME NEW i \in D, NEW g, NEW h, Agree(D, rank, i, g, h) PROVE LevelAt(i, g) = LevelAt(i, h)
  <2>1. i # 0 => i - 1 \in D /\ rank[i - 1] < rank[i]
    BY <1>1
  <2>2. i # 0 => g[i - 1] = h[i - 1]
    <3> HIDE DEF D, rank
    <3>. QED
      BY <1>5, <2>1, Zenon DEF Agree
  <2>. QED
    BY <2>2, Zenon DEF LevelAt
<1>6. Ranked(D, rank)
  <2>1. rank \in [D -> Nat] /\ Size + 1 \in Nat /\ \A i \in D : rank[i] < Size + 1
    BY <1>1
  <2> HIDE DEF D, rank
  <2>. QED
    BY <2>1 DEF Ranked
<1>7. PICK f : f = CHOOSE g : g = [i \in D |-> LevelAt(i, g)]
  OBVIOUS
<1>8. PICK e \in [D -> LevelSet] : \A i \in D : e[i] = LevelAt(i, e)
  <2>2. LooksBack(D, LevelSet, rank, step)
    <3>1. ASSUME NEW i \in D, NEW g \in [D -> LevelSet], NEW h \in [D -> LevelSet],
                 Agree(D, rank, i, g, h)
          PROVE  step[<<i, g>>] = step[<<i, h>>]
      BY <1>3, <1>5, <3>1
    <3> HIDE DEF D, rank, step
    <3>. QED
      BY <1>0, <1>4, <3>1 DEF LooksBack
  <2>3. PICK e \in [D -> LevelSet] : \A i \in D : e[i] = step[<<i, e>>]
    <3> HIDE DEF D, rank, step
    <3>. QED
      BY <1>6, <2>2, RecursionDefines
  <2>. QED
    BY <1>3, <2>3
<1>9. e = [i \in D |-> LevelAt(i, e)]
  BY <1>8
<1>10. f = [i \in D |-> LevelAt(i, f)]
  BY <1>7, <1>9
<1>11. Levels = f
  BY <1>7 DEF Levels
<1>12. \A i \in D : f[i] = LevelAt(i, f)
  <2> HIDE DEF D
  <2>. QED
    BY <1>10
<1>13. 0 \in D /\ f[0] = Root
  BY <1>1, <1>12 DEF LevelAt
<1>14. ASSUME NEW i \in 1..Size PROVE i \in D /\ f[i] = LevelStep(i, f[i - 1])
  <2>1. i \in D /\ i # 0
    BY <1>1
  <2> HIDE DEF D
  <2>2. f[i] = LevelAt(i, f)
    BY <1>12, <2>1
  <2>. QED
    BY <2>1, <2>2 DEF LevelAt
<1>15. f \in [D -> LevelSet]
  <2>. DEFINE S == {i \in D : f[i] \in LevelSet}
  <2>1. ASSUME NEW i \in D, \A j \in D : rank[j] < rank[i] => j \in S PROVE i \in S
    <3>1. CASE i = 0
      BY <1>0, <1>13, <3>1
    <3>2. CASE i # 0
      <4>1. i \in 1..Size /\ i - 1 \in D /\ rank[i - 1] < rank[i]
        BY <1>1, <3>2
      <4>2. f[i - 1] \in LevelSet
        BY <2>1, <4>1
      <4>3. f[i] = LevelStep(i, f[i - 1])
        BY <1>14, <4>1
      <4>. QED
        BY <4>2, <4>3, LevelIs
    <3>. QED
      BY <3>1, <3>2
  <2>2. rank \in [D -> Nat]
    BY <1>1
  <2>3. D \subseteq S
    <3> HIDE DEF D, S, rank
    <3>. QED
      BY <2>1, <2>2, ByRank
  <2>4. \A i \in D : f[i] \in LevelSet
    BY <2>3
  <2>. QED
    <3> HIDE DEF D
    <3>. QED
      BY <1>10, <2>4
<1>. QED
  BY <1>11, <1>13, <1>14, <1>15

-----------------------------------------------------------------------------
(* Where a chain of policies leaves anyPolicy.                             *)

\* A node of level d; below anything but anyPolicy there is no anyPolicy.
IsNode(node, d) ==
  /\ node \in Seq(PolicyIds) /\ Len(node) = d
  /\ \A i \in 1..d : node[i] = AnyPolicy => \A k \in 1..i : node[k] = AnyPolicy

\* The policy of the anchor's domain at which it leaves anyPolicy.
IsRoot(node, r) ==
  \E i \in 1..Len(node) :
    node[i] = r /\ r # AnyPolicy /\ \A k \in 1..(i - 1) : node[k] = AnyPolicy
RootsOf(nodes) == {r \in Policies : \E node \in nodes : IsRoot(node, r)}

\* The policy of a node is its last one.
LEMMA LastOf ==
  ASSUME NEW d \in Nat, NEW node, IsNode(node, d)
  PROVE  /\ IsAny(node) <=> d = 0 \/ node[d] = AnyPolicy
         /\ ~IsAny(node) => Last(node) \in Policies
         /\ node # << >> => Last(node) = node[d]
<1>1. node \in Seq(PolicyIds) /\ Len(node) = d
  BY DEF IsNode
<1>2. node = << >> <=> d = 0
  BY <1>1
<1>3. d > 0 => node[d] \in PolicyIds
  BY <1>1
<1>. QED
  BY <1>1, <1>2, <1>3 DEF IsAny, Last, PolicyIds

\* A node of anyPolicy is one of anyPolicy all the way, any other one has a root.
LEMMA AnyOrRoot ==
  ASSUME NEW d \in Nat, NEW node, IsNode(node, d)
  PROVE  /\ IsAny(node) => \A i \in 1..d : node[i] = AnyPolicy
         /\ ~IsAny(node) => \E r \in Policies : IsRoot(node, r)
<1>1. IsAny(node) <=> d = 0 \/ node[d] = AnyPolicy
  BY LastOf
<1>2. IsAny(node) => \A i \in 1..d : node[i] = AnyPolicy
  <2>1. d = 0 => 1..d = {}
    OBVIOUS
  <2>2. d # 0 => d \in 1..d
    OBVIOUS
  <2>. QED
    BY <1>1, <2>1, <2>2 DEF IsNode
<1>3. ASSUME ~IsAny(node) PROVE \E r \in Policies : IsRoot(node, r)
  <2>. DEFINE S == {i \in 1..d : node[i] # AnyPolicy}
  <2>1. S \subseteq Nat /\ d \in S
    BY <1>1, <1>3
  <2>2. PICK i \in S : \A k \in S : i <= k
    <3> HIDE DEF S
    <3>1. S # {}
      BY <2>1
    <3>2. PICK x \in S : \A y \in S : ~(<<y, x>> \in OpToRel(<, Nat))
      BY <2>1, <3>1, NatLessThanWellFounded, WFMin
    <3>3. \A y \in S : ~(y < x)
      BY <2>1, <3>2 DEF OpToRel
    <3>. QED
      BY <2>1, <3>3
  <2>3. \A k \in 1..(i - 1) : node[k] = AnyPolicy
    BY <2>2
  <2>4. node[i] \in Policies /\ i \in 1..Len(node) /\ node[i] # AnyPolicy
    BY PolicyAssumption DEF IsNode, PolicyIds
  <2>. QED
    BY <2>3, <2>4 DEF IsRoot
<1>. QED
  BY <1>2, <1>3

\* A chain that goes on keeps its root, and one that leaves anyPolicy gets it.
LEMMA AppendIs ==
  ASSUME NEW d \in Nat, NEW node, IsNode(node, d), NEW p \in PolicyIds
  PROVE  LET f == Append(node, p)
         IN  /\ Len(f) = d + 1 /\ Last(f) = p /\ f # << >> /\ f[d + 1] = p
             /\ \A k \in 1..d : f[k] = node[k]
             /\ IsAny(f) <=> p = AnyPolicy
<1>1. node \in Seq(PolicyIds) /\ Len(node) = d
  BY DEF IsNode
<1>2. PICK f : f = Append(node, p)
  OBVIOUS
<1>3. /\ f \in Seq(PolicyIds) /\ Len(f) = d + 1 /\ f[d + 1] = p /\ f # << >>
      /\ \A k \in 1..d : f[k] = node[k]
  BY <1>1, <1>2
<1>. QED
  BY <1>2, <1>3 DEF Last, IsAny

LEMMA AppendRoot ==
  ASSUME NEW d \in Nat, NEW node, IsNode(node, d), NEW p \in Policies, NEW r
  PROVE  IsRoot(Append(node, p), r) <=> IF IsAny(node) THEN r = p ELSE IsRoot(node, r)
<1>1. PICK f : f = Append(node, p)
  OBVIOUS
<1>2. /\ Len(f) = d + 1 /\ f[d + 1] = p /\ \A k \in 1..d : f[k] = node[k]
      /\ p # AnyPolicy /\ Len(node) = d
  BY <1>1, AppendIs, PolicyAssumption DEF PolicyIds, IsNode
<1>3. CASE IsAny(node)
  <2>1. \A i \in 1..d : node[i] = AnyPolicy
    BY <1>3, AnyOrRoot
  <2>2. ASSUME IsRoot(f, r) PROVE r = p
    <3>1. PICK i \in 1..(d + 1) : f[i] = r /\ r # AnyPolicy
      BY <1>2, <2>2 DEF IsRoot
    <3>2. i \notin 1..d
      BY <1>2, <2>1, <3>1
    <3>. QED
      BY <1>2, <3>1, <3>2
  <2>3. ASSUME r = p PROVE IsRoot(f, r)
    <3>1. d + 1 \in 1..Len(f) /\ \A k \in 1..((d + 1) - 1) : f[k] = AnyPolicy
      BY <1>2, <2>1
    <3>. QED
      BY <1>2, <2>3, <3>1 DEF IsRoot
  <2>. QED
    BY <1>1, <1>3, <2>2, <2>3
<1>4. CASE ~IsAny(node)
  <2>1. d # 0 /\ node[d] # AnyPolicy
    BY <1>4, LastOf
  <2>2. ASSUME IsRoot(f, r) PROVE IsRoot(node, r)
    <3>1. PICK i \in 1..(d + 1) : f[i] = r /\ r # AnyPolicy /\ \A k \in 1..(i - 1) : f[k] = AnyPolicy
      BY <1>2, <2>2 DEF IsRoot
    <3>2. i # d + 1
      <4>1. f[d] # AnyPolicy /\ d \in 1..((d + 1) - 1)
        BY <1>2, <2>1
      <4>. QED
        BY <3>1, <4>1
    <3>3. i \in 1..Len(node) /\ node[i] = r /\ \A k \in 1..(i - 1) : node[k] = AnyPolicy
      BY <1>2, <3>1, <3>2
    <3>. QED
      BY <3>1, <3>3 DEF IsRoot
  <2>3. ASSUME IsRoot(node, r) PROVE IsRoot(f, r)
    <3>1. PICK i \in 1..d : node[i] = r /\ r # AnyPolicy /\ \A k \in 1..(i - 1) : node[k] = AnyPolicy
      BY <1>2, <2>3 DEF IsRoot
    <3>2. i \in 1..Len(f) /\ f[i] = r /\ \A k \in 1..(i - 1) : f[k] = AnyPolicy
      BY <1>2, <3>1
    <3>. QED
      BY <3>1, <3>2 DEF IsRoot
  <2>. QED
    BY <1>1, <1>4, <2>2, <2>3
<1>. QED
  BY <1>3, <1>4

\* The sibling of a node of anyPolicy.
LEMMA BesideRoot ==
  ASSUME NEW d \in Nat, d > 0, NEW node, IsNode(node, d), Last(node) = AnyPolicy,
         NEW p \in Policies, NEW r
  PROVE  LET f == Append(Front(node), p)
         IN  /\ Len(f) = d /\ Last(f) = p /\ ~IsAny(f) /\ IsNode(f, d)
             /\ IsRoot(f, r) <=> r = p
<1>1. node \in Seq(PolicyIds) /\ Len(node) = d
  BY DEF IsNode
<1>2. PICK g : g = Front(node)
  OBVIOUS
<1>3. g \in Seq(PolicyIds) /\ Len(g) = d - 1 /\ \A k \in 1..(d - 1) : g[k] = node[k]
  BY <1>1, <1>2 DEF Front
<1>4. IsAny(node)
  BY DEF IsAny
<1>5. \A i \in 1..d : node[i] = AnyPolicy
  BY <1>4, AnyOrRoot
<1>6. \A i \in 1..(d - 1) : g[i] = AnyPolicy
  BY <1>3, <1>5
<1>7. IsNode(g, d - 1)
  BY <1>3, <1>6 DEF IsNode
<1>8. PICK n \in Nat : n = d - 1
  OBVIOUS
<1>9. IsAny(g)
  <2>1. n = 0 \/ g[n] = AnyPolicy
    BY <1>6, <1>8
  <2>. QED
    BY <1>7, <1>8, <2>1, LastOf
<1>10. PICK f : f = Append(g, p)
  OBVIOUS
<1>11. p \in PolicyIds /\ p # AnyPolicy
  BY PolicyAssumption DEF PolicyIds
<1>12. /\ Len(f) = n + 1 /\ Last(f) = p /\ f # << >> /\ f[n + 1] = p
       /\ \A k \in 1..n : f[k] = g[k]
       /\ IsAny(f) <=> p = AnyPolicy
  BY <1>7, <1>8, <1>10, <1>11, AppendIs
<1>13. IsRoot(f, r) <=> r = p
  BY <1>7, <1>8, <1>9, <1>10, AppendRoot
<1>14. f \in Seq(PolicyIds)
  BY <1>3, <1>10, <1>11
<1>15. IsNode(f, d)
  <2>1. Len(f) = d /\ \A i \in 1..d : f[i] = AnyPolicy => i \in 1..n
    BY <1>8, <1>11, <1>12
  <2>2. ASSUME NEW i \in 1..n, NEW k \in 1..i PROVE f[k] = AnyPolicy
    BY <1>6, <1>8, <1>12
  <2>. QED
    BY <1>14, <2>1, <2>2 DEF IsNode
<1>. QED
  BY <1>2, <1>8, <1>10, <1>11, <1>12, <1>13, <1>15

-----------------------------------------------------------------------------
(* The tree and the graph.                                                 *)

\* The tree t, with the policies e that its deepest nodes expect, and the graph agree
\* about level d: on everything, on what goes on from it, and on what arrives there.
Grounded(t, d) ==
  /\ t # {} => AtDepth(t, d) # {}
  /\ Levels[d].all <=> \E node \in AtDepth(t, d) : IsAny(node)
Expecting(t, e, d, p) == {node \in AtDepth(t, d) : ~IsAny(node) /\ p \in e[Last(node)]}
Continues(t, e, d) ==
  \A p \in Policies : From(d + 1, Levels[d], p) = RootsOf(Expecting(t, e, d, p))
Ending(t, d, p) == {node \in AtDepth(t, d) : Last(node) = p}
Arriving(d, p) == IF Cert(d).asserts THEN Own(d, Levels[d - 1], p) ELSE {}
Arrives(t, d) == \A p \in Policies : Arriving(d, p) = RootsOf(Ending(t, d, p))

\* Every node of level d is in its place.
NodesAre(t, d) == \A node \in AtDepth(t, d) : IsNode(node, d)

\* Where there are nodes that are not anyPolicy there are roots.
LEMMA RootsAre ==
  ASSUME NEW d \in Nat, NEW S, \A node \in S : IsNode(node, d) /\ ~IsAny(node)
  PROVE  RootsOf(S) = {} <=> S = {}
<1>1. \A node \in S : \E r \in Policies : IsRoot(node, r)
  BY AnyOrRoot
<1>. QED
  BY <1>1 DEF RootsOf

-----------------------------------------------------------------------------
(* (d), (e) and (f).                                                       *)

\* What the nodes above expect.
AllExpect ==
  /\ ExpectsWhatFollows(depth - 1) /\ expected[AnyPolicy] = {AnyPolicy}

\* Only a node of anyPolicy expects anything, and the others what goes on from them.
LEMMA ExpectsIs ==
  ASSUME PathIsWell, depth \in 1..Size, NodesAre(tree, depth - 1), AllExpect,
         NEW node \in AtDepth(tree, depth - 1)
  PROVE  /\ AnyPolicy \in Expects(node) <=> IsAny(node)
         /\ \A p \in Policies :
              p \in Expects(node) <=> node \in Expecting(tree, expected, depth - 1, p)
         /\ Expects(node) \subseteq PolicyIds
<1>1. PICK n \in Nat : n = depth - 1
  BY SizeIsNat
<1>2. IsNode(node, n)
  BY <1>1 DEF NodesAre
<1>3. CASE node = << >>
  <2>1. Expects(node) = {AnyPolicy} /\ IsAny(node)
    BY <1>3 DEF Expects, IsAny
  <2>. QED
    BY <2>1, PolicyAssumption DEF PolicyIds, Expecting
<1>4. CASE node # << >>
  <2>1. Expects(node) = expected[Last(node)]
    BY <1>4 DEF Expects
  <2>2. IsAny(node) <=> Last(node) = AnyPolicy
    BY <1>4 DEF IsAny
  <2>3. \A q \in expected[Last(node)] : q \in PolicyIds /\ (q = AnyPolicy => Last(node) = AnyPolicy)
    BY <1>4 DEF AllExpect, ExpectsWhatFollows
  <2>4. IsAny(node) => Expects(node) = {AnyPolicy}
    BY <2>1, <2>2 DEF AllExpect
  <2>5. AnyPolicy \in Expects(node) <=> IsAny(node)
    BY <2>1, <2>2, <2>3, <2>4
  <2>6. ASSUME NEW p \in Policies
        PROVE  p \in Expects(node) <=> node \in Expecting(tree, expected, depth - 1, p)
    <3>1. p # AnyPolicy
      BY PolicyAssumption
    <3>. QED
      BY <2>1, <2>4, <3>1 DEF Expecting
  <2>. QED
    BY <2>1, <2>3, <2>5, <2>6
<1>. QED
  BY <1>3, <1>4

\* The new nodes: p goes below a node.
Parents == AtDepth(tree, depth - 1)
Matched(p) == {node \in Parents : p \in Expects(node)}
Hangs(node, p) ==
  \/ /\ p \in Cert(depth).policies \ {AnyPolicy}
     /\ node \in IF Matched(p) # {} THEN Matched(p) ELSE {x \in Parents : AnyPolicy \in Expects(x)}
  \/ /\ AnyPolicy \in Cert(depth).policies /\ AnyCounts(Cert(depth), IsLast)
     /\ p \in Expects(node)

\* (d)(1) and (d)(2) add the policies that hang below a node.
IsGrown(f) == \E node \in Parents : \E p : Hangs(node, p) /\ f = Append(node, p)

LEMMA GrownHas ==
  LET below == UNION {Below(p, Parents) : p \in Cert(depth).policies \ {AnyPolicy}}
      all   == IF AnyPolicy \in Cert(depth).policies /\ AnyCounts(Cert(depth), IsLast)
               THEN BelowAll(Parents) ELSE {}
  IN  \A f : f \in below \cup all <=> IsGrown(f)
<1>. DEFINE below == UNION {Below(p, Parents) : p \in Cert(depth).policies \ {AnyPolicy}}
            all   == IF AnyPolicy \in Cert(depth).policies /\ AnyCounts(Cert(depth), IsLast)
                     THEN BelowAll(Parents) ELSE {}
            counts == AnyPolicy \in Cert(depth).policies /\ AnyCounts(Cert(depth), IsLast)
            onto(p) == IF Matched(p) # {} THEN Matched(p) ELSE {x \in Parents : AnyPolicy \in Expects(x)}
<1>1. ASSUME NEW p PROVE Below(p, Parents) = {Append(node, p) : node \in onto(p)}
  BY DEF Below, Matched
<1>2. ASSUME NEW p, NEW node \in onto(p) PROVE node \in Parents
  BY DEF Matched
<1>3. ASSUME NEW f
      PROVE  f \in below <=> \E p \in Cert(depth).policies \ {AnyPolicy} :
                               \E node \in onto(p) : f = Append(node, p)
  <2>. HIDE DEF onto
  <2>. QED
    BY <1>1
<1>4. ASSUME NEW f
      PROVE  f \in all <=> counts /\ \E node \in Parents : \E p \in Expects(node) : f = Append(node, p)
  BY DEF BelowAll
<1>5. ASSUME NEW node \in Parents, NEW p
      PROVE  Hangs(node, p) <=> \/ p \in Cert(depth).policies \ {AnyPolicy} /\ node \in onto(p)
                                \/ counts /\ p \in Expects(node)
  BY DEF Hangs
<1>. HIDE DEF below, all, counts, onto
<1>6. ASSUME NEW f PROVE f \in below \cup all <=> IsGrown(f)
  <2>1. ASSUME f \in below PROVE IsGrown(f)
    BY <1>2, <1>3, <1>5, <2>1 DEF IsGrown
  <2>2. ASSUME f \in all PROVE IsGrown(f)
    BY <1>4, <1>5, <2>2 DEF IsGrown
  <2>3. ASSUME IsGrown(f) PROVE f \in below \/ f \in all
    <3>1. PICK node \in Parents : \E p : Hangs(node, p) /\ f = Append(node, p)
      BY <2>3 DEF IsGrown
    <3>2. PICK p : Hangs(node, p) /\ f = Append(node, p)
      BY <3>1
    <3>. QED
      BY <1>3, <1>4, <1>5, <3>2
  <2>. QED
    BY <2>1, <2>2, <2>3
<1>. QED
  BY <1>6 DEF below, all

\* The tree that has grown has them at its deepest level, and nothing that ends above.
LEMMA GrownDepth ==
  ASSUME PathIsWell, depth \in 1..Size, NodesAre(tree, depth - 1), AllExpect,
         \A node \in tree : Len(node) \in Nat /\ Len(node) <= depth - 1
  PROVE  LET T == Grown(Cert(depth))
         IN  /\ \A f : f \in AtDepth(T, depth) <=> IsGrown(f)
             /\ T # {} => AtDepth(T, depth) # {}
<1>. DEFINE below == UNION {Below(p, Parents) : p \in Cert(depth).policies \ {AnyPolicy}}
            all   == IF AnyPolicy \in Cert(depth).policies /\ AnyCounts(Cert(depth), IsLast)
                     THEN BelowAll(Parents) ELSE {}
            u == tree \cup below \cup all
            T == Grown(Cert(depth))
<1>1. T = Prune(u, depth)
  BY DEF Grown, Parents
<1>2. \A f : f \in below \cup all <=> IsGrown(f)
  BY GrownHas
<1>3. PICK n \in Nat : n = depth - 1
  BY SizeIsNat
<1>4. depth \in Nat /\ depth = n + 1
  BY <1>3, SizeIsNat
<1>. HIDE DEF below, all, T
<1>5. ASSUME NEW f, IsGrown(f) PROVE Len(f) = depth
  <2>1. PICK node \in Parents : \E p : Hangs(node, p) /\ f = Append(node, p)
    BY <1>5 DEF IsGrown
  <2>2. PICK p : Hangs(node, p) /\ f = Append(node, p)
    BY <2>1
  <2>3. IsNode(node, n)
    BY <1>3 DEF NodesAre, Parents
  <2>. QED
    BY <1>4, <2>2, <2>3 DEF IsNode
<1>6. ASSUME NEW f PROVE f \in AtDepth(u, depth) <=> IsGrown(f)
  <2>1. f \in tree => Len(f) # depth
    BY <1>3, <1>4
  <2>. QED
    BY <1>2, <1>5, <2>1 DEF AtDepth
<1>8. AtDepth(T, depth) = AtDepth(u, depth)
  <2>. HIDE DEF u
  <2>1. \A f : Len(f) = depth => Len(f) >= depth
    BY <1>4
  <2>. QED
    BY <1>1, <2>1 DEF AtDepth, Prune
<1>9. ASSUME T # {} PROVE AtDepth(T, depth) # {}
  <2>1. PICK f \in T : TRUE
    BY <1>9
  <2>2. f \in u /\ (Len(f) >= depth \/ \E deep \in AtDepth(u, depth) : TRUE)
    <3>. HIDE DEF u
    <3>. QED
      BY <1>1 DEF Prune
  <2>3. CASE f \in tree
    <3>1. Len(f) \in Nat /\ ~(Len(f) >= depth)
      BY <1>3, <1>4, <2>3
    <3>. QED
      BY <1>8, <2>2, <3>1
  <2>4. CASE f \notin tree
    <3>1. IsGrown(f)
      BY <1>2, <2>2, <2>4
    <3>. QED
      BY <1>6, <1>8, <3>1
  <2>. QED
    BY <2>3, <2>4
<1>. QED
  BY <1>6, <1>8, <1>9 DEF T

\* The nodes that p hangs below, and the nodes of anyPolicy.
Over(p) == {node \in Parents : Hangs(node, p)}
Anys    == {node \in Parents : IsAny(node)}

\* What is between one level and the next: every node is in its place.
Growing ==
  /\ PathIsWell /\ depth \in 1..Size /\ NodesAre(tree, depth - 1) /\ AllExpect
  /\ \A node \in tree : Len(node) \in Nat /\ Len(node) <= depth - 1
  /\ AnyPolicy \in Cert(depth).policies => (AnyCounts(Cert(depth), IsLast) <=> AnyAllowed(depth))

\* What hangs below a node is a node of the next level.
LEMMA HangingIs ==
  ASSUME Growing, NEW node \in Parents, NEW p, Hangs(node, p)
  PROVE  /\ p \in PolicyIds /\ IsNode(node, depth - 1) /\ depth - 1 \in Nat
         /\ Len(Append(node, p)) = depth /\ Last(Append(node, p)) = p
         /\ IsAny(Append(node, p)) <=> p = AnyPolicy
<1>1. PICK n \in Nat : n = depth - 1
  BY SizeIsNat DEF Growing
<1>2. depth \in Nat /\ depth = n + 1 /\ IsNode(node, n)
  BY <1>1, SizeIsNat DEF Growing, NodesAre, Parents
<1>3. p \in PolicyIds
  <2>1. Expects(node) \subseteq PolicyIds
    BY ExpectsIs DEF Growing, Parents
  <2>2. Cert(depth).policies \subseteq PolicyIds
    BY DEF Growing, PathIsWell, CertIsWell
  <2>. QED
    BY <2>1, <2>2 DEF Hangs
<1>. QED
  BY <1>1, <1>2, <1>3, AppendIs

\* Which nodes p hangs below, as the graph has it.
LEMMA OverIs ==
  ASSUME Growing, NEW p \in Policies
  PROVE  /\ Matched(p) = Expecting(tree, expected, depth - 1, p)
         /\ Over(p) = IF p \in Cert(depth).policies
                      THEN IF Matched(p) # {} THEN Matched(p) ELSE Anys
                      ELSE IF AnyAllowed(depth) THEN Matched(p) ELSE {}
<1>1. \A node \in Parents :
        /\ AnyPolicy \in Expects(node) <=> IsAny(node)
        /\ p \in Expects(node) <=> node \in Expecting(tree, expected, depth - 1, p)
  BY ExpectsIs DEF Growing, Parents
<1>2. Matched(p) = Expecting(tree, expected, depth - 1, p)
  BY <1>1 DEF Matched, Expecting, Parents
<1>3. Anys = {x \in Parents : AnyPolicy \in Expects(x)}
  BY <1>1 DEF Anys
<1>4. p # AnyPolicy
  BY PolicyAssumption
<1>5. AnyPolicy \in Cert(depth).policies /\ AnyCounts(Cert(depth), IsLast) <=> AnyAllowed(depth)
  BY DEF Growing, AnyAllowed
<1>6. ASSUME NEW node \in Parents
      PROVE  Hangs(node, p) <=>
               \/ p \in Cert(depth).policies /\ node \in IF Matched(p) # {} THEN Matched(p) ELSE Anys
               \/ AnyAllowed(depth) /\ node \in Matched(p)
  BY <1>3, <1>4, <1>5 DEF Hangs, Matched
<1>7. Matched(p) \subseteq Parents /\ Anys \subseteq Parents
  BY DEF Matched, Anys
<1>8. CASE p \in Cert(depth).policies
  BY <1>6, <1>7, <1>8, <1>2 DEF Over
<1>9. CASE p \notin Cert(depth).policies
  BY <1>6, <1>7, <1>9, <1>2 DEF Over
<1>. QED
  BY <1>8, <1>9

\* The roots of the nodes that end in p come from the nodes it hangs below.
LEMMA EndingIs ==
  ASSUME Growing, NEW p \in Policies, NEW r
  PROVE  (\E f \in Ending(Grown(Cert(depth)), depth, p) : IsRoot(f, r))
           <=> \E node \in Over(p) : IF IsAny(node) THEN r = p ELSE IsRoot(node, r)
<1>. DEFINE T == Grown(Cert(depth))
<1>1. \A f : f \in AtDepth(T, depth) <=> IsGrown(f)
  BY GrownDepth DEF Growing
<1>. HIDE DEF T
<1>2. ASSUME NEW node \in Over(p)
      PROVE  /\ Append(node, p) \in Ending(T, depth, p)
             /\ IsRoot(Append(node, p), r) <=> IF IsAny(node) THEN r = p ELSE IsRoot(node, r)
  <2>1. node \in Parents /\ Hangs(node, p)
    BY DEF Over
  <2>2. /\ IsNode(node, depth - 1) /\ depth - 1 \in Nat /\ Last(Append(node, p)) = p
    BY <2>1, HangingIs
  <2>3. Append(node, p) \in AtDepth(T, depth)
    BY <1>1, <2>1 DEF IsGrown
  <2>. QED
    BY <2>2, <2>3, AppendRoot DEF Ending
<1>3. ASSUME NEW f \in Ending(T, depth, p) PROVE \E node \in Over(p) : f = Append(node, p)
  <2>1. IsGrown(f) /\ Last(f) = p
    BY <1>1 DEF Ending
  <2>2. PICK node \in Parents : \E q : Hangs(node, q) /\ f = Append(node, q)
    BY <2>1 DEF IsGrown
  <2>3. PICK q : Hangs(node, q) /\ f = Append(node, q)
    BY <2>2
  <2>4. q = p
    BY <2>1, <2>3, HangingIs
  <2>. QED
    BY <2>3, <2>4 DEF Over
<1>4. (\E f \in Ending(T, depth, p) : IsRoot(f, r))
        <=> \E node \in Over(p) : IF IsAny(node) THEN r = p ELSE IsRoot(node, r)
  BY <1>2, <1>3
<1>. QED
  BY <1>4 DEF T

\* A tree that agrees with the graph grows into one that does.
LEMMA GrownAgrees ==
  ASSUME Growing, Cert(depth).asserts, Grounded(tree, depth - 1),
         Continues(tree, expected, depth - 1)
  PROVE  Grounded(Grown(Cert(depth)), depth) /\ Arrives(Grown(Cert(depth)), depth)
<1>. DEFINE T == Grown(Cert(depth))
            L == Levels[depth - 1]
<1>1. PICK n \in Nat : n = depth - 1
  BY SizeIsNat DEF Growing
<1>2. depth \in Nat /\ depth = n + 1 /\ n \in 0..Size /\ depth \in 1..Size
  BY <1>1, SizeIsNat DEF Growing
<1>3. Levels[depth] = LevelStep(depth, L)
  <2>1. PathIsWell
    BY DEF Growing
  <2>2. \A i \in 1..Size : Levels[i] = LevelStep(i, Levels[i - 1])
    BY <2>1, LevelsAre
  <2>. QED
    BY <1>2, <2>2
<1>4. Levels[depth].all <=> L.all /\ AnyAllowed(depth)
  BY <1>3, LevelHas, Zenon
<1>5. /\ \A f : f \in AtDepth(T, depth) <=> IsGrown(f)
      /\ T # {} => AtDepth(T, depth) # {}
  BY GrownDepth DEF Growing
<1>6. L.all <=> Anys # {}
  BY DEF Grounded, Anys, Parents
<1>. HIDE DEF T, L
<1>7. (\E f \in AtDepth(T, depth) : IsAny(f)) <=> L.all /\ AnyAllowed(depth)
  <2>1. ASSUME NEW f \in AtDepth(T, depth), IsAny(f) PROVE L.all /\ AnyAllowed(depth)
    <3>1. PICK node \in Parents : \E q : Hangs(node, q) /\ f = Append(node, q)
      BY <1>5 DEF IsGrown
    <3>2. PICK q : Hangs(node, q) /\ f = Append(node, q)
      BY <3>1
    <3>3. q = AnyPolicy
      BY <2>1, <3>2, HangingIs
    <3>4. AnyAllowed(depth) /\ AnyPolicy \in Expects(node)
      BY <3>2, <3>3 DEF Hangs, Growing
    <3>5. IsAny(node)
      BY <3>4, ExpectsIs DEF Growing, Parents
    <3>. QED
      BY <1>6, <3>4, <3>5 DEF Anys
  <2>2. ASSUME L.all, AnyAllowed(depth) PROVE \E f \in AtDepth(T, depth) : IsAny(f)
    <3>1. PICK node \in Parents : IsAny(node)
      BY <1>6, <2>2 DEF Anys
    <3>2. AnyPolicy \in Expects(node)
      BY <3>1, ExpectsIs DEF Growing, Parents
    <3>3. Hangs(node, AnyPolicy)
      BY <2>2, <3>2 DEF Hangs, Growing, AnyAllowed
    <3>4. Append(node, AnyPolicy) \in AtDepth(T, depth)
      BY <1>5, <3>3 DEF IsGrown
    <3>. QED
      BY <3>3, <3>4, HangingIs
  <2>. QED
    BY <2>1, <2>2
<1>8. ASSUME NEW p \in Policies PROVE Arriving(depth, p) = RootsOf(Ending(T, depth, p))
  <2>1. /\ Matched(p) = Expecting(tree, expected, depth - 1, p)
        /\ Over(p) = IF p \in Cert(depth).policies
                     THEN IF Matched(p) # {} THEN Matched(p) ELSE Anys
                     ELSE IF AnyAllowed(depth) THEN Matched(p) ELSE {}
    BY OverIs
  <2>2. From(depth, L, p) = RootsOf(Matched(p))
    BY <1>1, <1>2, <2>1 DEF Continues, L
  <2>3. \A node \in Matched(p) : IsNode(node, n) /\ ~IsAny(node)
    BY <1>1, <2>1 DEF Growing, NodesAre, Expecting
  <2>4. RootsOf(Matched(p)) = {} <=> Matched(p) = {}
    BY <2>3, RootsAre
  <2>5. ASSUME NEW r \in Policies
        PROVE  r \in RootsOf(Ending(T, depth, p))
                 <=> \E node \in Over(p) : IF IsAny(node) THEN r = p ELSE IsRoot(node, r)
    BY EndingIs DEF RootsOf, T
  <2>6. \A node \in Anys : IsAny(node)
    BY DEF Anys
  <2>7. Arriving(depth, p) = Own(depth, L, p)
    BY DEF Arriving, L
  <2>8. CASE Over(p) = Matched(p)
    <3>1. ASSUME NEW r \in Policies
          PROVE  r \in RootsOf(Ending(T, depth, p)) <=> r \in RootsOf(Matched(p))
      BY <2>3, <2>5, <2>8 DEF RootsOf
    <3>2. RootsOf(Ending(T, depth, p)) = RootsOf(Matched(p))
      BY <3>1 DEF RootsOf
    <3>3. CASE Matched(p) # {} \/ (p \notin Cert(depth).policies /\ AnyAllowed(depth))
      <4>1. From(depth, L, p) # {} \/ (p \notin Cert(depth).policies /\ AnyAllowed(depth))
        BY <2>2, <2>4, <3>3
      <4>2. p \in Cert(depth).policies \/ AnyAllowed(depth)
        BY <2>1, <2>8, <3>3
      <4>3. Own(depth, L, p) = From(depth, L, p)
        BY <4>1, <4>2 DEF Own
      <4>. QED
        BY <2>2, <2>7, <3>2, <4>3
    <3>4. CASE Matched(p) = {} /\ p \notin Cert(depth).policies /\ ~AnyAllowed(depth)
      BY <2>2, <2>4, <2>7, <3>2, <3>4 DEF Own
    <3>5. CASE Matched(p) = {} /\ p \in Cert(depth).policies
      <4>1. Anys = {} /\ ~L.all /\ From(depth, L, p) = {}
        BY <1>6, <2>1, <2>2, <2>4, <2>8, <3>5
      <4>2. Own(depth, L, p) = {}
        BY <3>5, <4>1 DEF Own
      <4>. QED
        BY <2>4, <2>7, <3>2, <3>5, <4>2, Zenon
    <3>. QED
      BY <3>3, <3>4, <3>5, Zenon
  <2>9. CASE p \in Cert(depth).policies /\ Matched(p) = {}
    <3>1. Over(p) = Anys
      BY <2>1, <2>9
    <3>2. ASSUME NEW r \in Policies
          PROVE  r \in RootsOf(Ending(T, depth, p)) <=> Anys # {} /\ r = p
      BY <2>5, <2>6, <3>1
    <3>3. RootsOf(Ending(T, depth, p)) = IF Anys # {} THEN {p} ELSE {}
      <4>1. RootsOf(Ending(T, depth, p)) \subseteq Policies
        BY DEF RootsOf
      <4>. QED
        BY <3>2, <4>1
    <3>. QED
      BY <1>6, <2>2, <2>4, <2>7, <2>9, <3>3 DEF Own
  <2>10. CASE p \notin Cert(depth).policies /\ ~AnyAllowed(depth)
    <3>1. RootsOf(Ending(T, depth, p)) = {}
      BY <2>1, <2>5, <2>10 DEF RootsOf
    <3>. QED
      BY <2>7, <2>10, <3>1 DEF Own
  <2>. QED
    BY <2>1, <2>8, <2>9, <2>10
<1>9. Grounded(T, depth)
  BY <1>4, <1>5, <1>7 DEF Grounded
<1>10. Arrives(T, depth)
  BY <1>8 DEF Arrives
<1>. QED
  BY <1>9, <1>10 DEF T

\* A certificate without the extension leaves nothing of either.
LEMMA NothingAgrees ==
  ASSUME PathIsWell, NEW d \in 1..Size, ~Cert(d).asserts
  PROVE  Grounded({}, d) /\ Arrives({}, d)
<1>1. Levels[d] = LevelStep(d, Levels[d - 1])
  BY LevelsAre
<1>2. ~Levels[d].all
  <2>1. ~LevelStep(d, Levels[d - 1]).all
    BY LevelHas, Zenon
  <2>. QED
    BY <1>1, <2>1, Zenon
<1>3. AtDepth({}, d) = {}
  BY DEF AtDepth
<1>. QED
  BY <1>2, <1>3 DEF Grounded, Arrives, Arriving, Ending, RootsOf

-----------------------------------------------------------------------------
(* (a) and (b).                                                            *)

\* What goes on from a level, if each node expects what its policy is renamed to.
LEMMA RenamedContinues ==
  ASSUME NEW d \in Nat, d > 0, NEW T, NEW E, NodesAre(T, d),
         \A q \in Policies : Ending(T, d, q) # {} => E[q] = Renamed(d, q),
         \A q \in Policies : Renamed(d, q) # {} => Levels[d].stands[q] = RootsOf(Ending(T, d, q))
  PROVE  Continues(T, E, d)
<1>. SUFFICES ASSUME NEW p \in Policies
              PROVE  From(d + 1, Levels[d], p) = RootsOf(Expecting(T, E, d, p))
  BY DEF Continues
<1>1. (d + 1) - 1 = d /\ d + 1 > 1
  OBVIOUS
<1>2. From(d + 1, Levels[d], p) = UNION {Levels[d].stands[q] : q \in {x \in Policies : p \in Renamed(d, x)}}
  <2>1. \A x \in Policies : (d + 1 > 1 /\ p \in Renamed((d + 1) - 1, x)) <=> p \in Renamed(d, x)
    BY <1>1
  <2>2. {x \in Policies : d + 1 > 1 /\ p \in Renamed((d + 1) - 1, x)} = {x \in Policies : p \in Renamed(d, x)}
    BY <2>1
  <2>. QED
    BY <2>2, Zenon DEF From
<1>3. ASSUME NEW r
      PROVE  r \in From(d + 1, Levels[d], p)
               <=> \E q \in Policies : p \in Renamed(d, q) /\ r \in RootsOf(Ending(T, d, q))
  <2>1. \A q \in Policies : p \in Renamed(d, q) => Levels[d].stands[q] = RootsOf(Ending(T, d, q))
    OBVIOUS
  <2>2. r \in From(d + 1, Levels[d], p)
          <=> \E q \in Policies : p \in Renamed(d, q) /\ r \in Levels[d].stands[q]
    BY <1>2
  <2>. QED
    BY <2>1, <2>2
<1>4. ASSUME NEW q \in Policies, p \in Renamed(d, q), NEW node \in Ending(T, d, q)
      PROVE  node \in Expecting(T, E, d, p)
  <2>1. node \in AtDepth(T, d) /\ Last(node) = q /\ q # AnyPolicy
    BY PolicyAssumption DEF Ending
  <2>2. IsNode(node, d)
    BY <2>1 DEF NodesAre
  <2>3. node # << >>
    BY <2>2 DEF IsNode
  <2>4. E[q] = Renamed(d, q)
    BY <1>4
  <2>. QED
    BY <1>4, <2>1, <2>3, <2>4 DEF Expecting, IsAny
<1>5. ASSUME NEW node \in Expecting(T, E, d, p)
      PROVE  \E q \in Policies : p \in Renamed(d, q) /\ node \in Ending(T, d, q)
  <2>1. node \in AtDepth(T, d) /\ ~IsAny(node) /\ p \in E[Last(node)]
    BY DEF Expecting
  <2>2. PICK q \in Policies : q = Last(node)
    BY <2>1, LastOf DEF NodesAre
  <2>3. node \in Ending(T, d, q)
    BY <2>1, <2>2 DEF Ending
  <2>4. E[q] = Renamed(d, q)
    BY <2>3
  <2>. QED
    BY <2>1, <2>2, <2>3, <2>4
<1>6. ASSUME NEW r
      PROVE  r \in RootsOf(Expecting(T, E, d, p))
               <=> \E q \in Policies : p \in Renamed(d, q) /\ r \in RootsOf(Ending(T, d, q))
  BY <1>4, <1>5 DEF RootsOf
<1>. QED
  BY <1>3, <1>6

\* What is at work when mappings are processed.
Mapping ==
  /\ PathIsWell /\ depth \in 1..(Size - 1) /\ NodesAre(tree, depth)
  /\ \A node \in tree : Len(node) \in Nat /\ Len(node) <= depth
  /\ ExpectsItself /\ mapping \in Nat /\ (mapping > 0 <=> MappingAllowed(depth))
  /\ \A m \in Cert(depth).maps : m[1] # AnyPolicy /\ m[2] # AnyPolicy

\* There is a next certificate, and anyPolicy is not mapped.
LEMMA MappingHas ==
  ASSUME Mapping
  PROVE  /\ depth \in Nat /\ depth > 0 /\ depth # Size /\ depth \in 1..Size
         /\ Mapped(Cert(depth)) \subseteq Policies
         /\ \A q \in Policies : expected[q] = {q}
         /\ expected[AnyPolicy] = {AnyPolicy} /\ DOMAIN expected = PolicyIds
<1>1. Size \in Nat /\ depth \in 1..(Size - 1) /\ PathIsWell
  BY SizeIsNat DEF Mapping
<1>2. CertIsWell(Cert(depth))
  BY <1>1 DEF PathIsWell
<1>3. Mapped(Cert(depth)) \subseteq Policies
  BY <1>2 DEF Mapping, CertIsWell, PolicyIds, Mapped
<1>. QED
  BY <1>1, <1>3 DEF Mapping, ExpectsItself, PolicyIds

\* What a level stands for, of the policies that may go on.
LEMMA StandsIs ==
  ASSUME Mapping, Grounded(tree, depth), Arrives(tree, depth), NEW q \in Policies
  PROVE  LET beside == q \in Mapped(Cert(depth)) /\ MappingAllowed(depth)
                       /\ \E node \in AtDepth(tree, depth) : IsAny(node)
         IN  Levels[depth].stands[q] =
               IF Ending(tree, depth, q) = {} /\ beside THEN {q} ELSE RootsOf(Ending(tree, depth, q))
<1>. DEFINE beside == q \in Mapped(Cert(depth)) /\ MappingAllowed(depth)
                      /\ \E node \in AtDepth(tree, depth) : IsAny(node)
            L == Levels[depth - 1]
<1>1. PathIsWell /\ depth \in 1..Size /\ depth # Size /\ depth \in Nat
  BY MappingHas DEF Mapping
<1>2. Levels[depth] = LevelStep(depth, L)
  BY <1>1, LevelsAre
<1>3. Arriving(depth, q) = RootsOf(Ending(tree, depth, q))
  BY DEF Arrives
<1>4. RootsOf(Ending(tree, depth, q)) = {} <=> Ending(tree, depth, q) = {}
  <2>1. ASSUME NEW node \in Ending(tree, depth, q) PROVE IsNode(node, depth) /\ ~IsAny(node)
    <3>1. IsNode(node, depth) /\ Last(node) = q /\ q # AnyPolicy
      BY PolicyAssumption DEF Mapping, NodesAre, Ending
    <3>2. node # << >>
      BY <1>1, <3>1 DEF IsNode
    <3>. QED
      BY <3>1, <3>2 DEF IsAny
  <2>. QED
    BY <1>1, <2>1, RootsAre
<1>5. Levels[depth].all <=> \E node \in AtDepth(tree, depth) : IsAny(node)
  BY DEF Grounded
<1>. HIDE DEF L
<1>6. CASE Cert(depth).asserts
  <2>1. Levels[depth].all <=> L.all /\ AnyAllowed(depth)
    BY <1>2, <1>6, LevelHas, Zenon
  <2>2. Levels[depth].stands[q] =
          IF Own(depth, L, q) = {} /\ Beside(depth, L.all /\ AnyAllowed(depth), q)
          THEN {q} ELSE Own(depth, L, q)
    BY <1>2, <1>6, LevelHas, Zenon
  <2>3. Beside(depth, L.all /\ AnyAllowed(depth), q) <=> beside
    BY <1>1, <1>5, <2>1 DEF Beside
  <2>4. Own(depth, L, q) = RootsOf(Ending(tree, depth, q))
    BY <1>3, <1>6 DEF Arriving, L
  <2>. HIDE DEF beside
  <2>5. Levels[depth].stands[q] =
          IF Ending(tree, depth, q) = {} /\ beside THEN {q} ELSE RootsOf(Ending(tree, depth, q))
    BY <1>4, <2>2, <2>3, <2>4
  <2>. QED
    BY <2>5 DEF beside
<1>7. CASE ~Cert(depth).asserts
  <2>1. ~Levels[depth].all /\ Levels[depth].stands[q] = {}
    BY <1>2, <1>7, LevelHas, Zenon
  <2>2. RootsOf(Ending(tree, depth, q)) = {} /\ ~beside
    BY <1>3, <1>5, <1>7, <2>1 DEF Arriving
  <2>. QED
    BY <2>1, <2>2
<1>. QED
  BY <1>6, <1>7

\* The nodes of the level at work.
LEMMA AnyHere ==
  ASSUME Mapping, NEW node \in AtDepth(tree, depth)
  PROVE  /\ IsNode(node, depth) /\ node # << >>
         /\ IsAny(node) <=> Last(node) = AnyPolicy
         /\ ~IsAny(node) => Last(node) \in Policies
<1>1. IsNode(node, depth) /\ depth \in Nat /\ depth > 0
  BY MappingHas DEF Mapping, NodesAre
<1>2. node # << >>
  BY <1>1 DEF IsNode
<1>. QED
  BY <1>1, <1>2, LastOf DEF IsAny

\* Mapping is inhibited: the policy goes.
LEMMA DeletedAgrees ==
  ASSUME Mapping, Grounded(tree, depth), Arrives(tree, depth), ~(mapping > 0)
  PROVE  LET T == Deleted(Cert(depth))
         IN  Grounded(T, depth) /\ Continues(T, expected, depth)
<1>. DEFINE T == Deleted(Cert(depth))
            S == {node \in tree : Len(node) = depth => Last(node) \notin Mapped(Cert(depth))}
<1>1. /\ depth \in Nat /\ depth > 0 /\ Mapped(Cert(depth)) \subseteq Policies
      /\ \A q \in Policies : expected[q] = {q}
      /\ ~MappingAllowed(depth) /\ AnyPolicy \notin Policies
  BY MappingHas, PolicyAssumption DEF Mapping
<1>2. AtDepth(S, depth) = {node \in AtDepth(tree, depth) : Last(node) \notin Mapped(Cert(depth))}
  BY DEF AtDepth
<1>3. AtDepth(T, depth) = AtDepth(S, depth)
  BY <1>1 DEF AtDepth, Deleted, Prune
<1>4. ASSUME T # {} PROVE AtDepth(T, depth) # {}
  <2>1. PICK f \in T : TRUE
    BY <1>4
  <2>2. f \in S /\ (Len(f) >= depth \/ \E deep \in AtDepth(S, depth) : TRUE)
    <3>. HIDE DEF S
    <3>1. T = Prune(S, depth)
      BY DEF Deleted, S
    <3>. QED
      BY <3>1 DEF Prune
  <2>3. Len(f) \in Nat /\ Len(f) <= depth /\ f \in S
    BY <2>2 DEF Mapping
  <2>4. CASE Len(f) >= depth
    <3>1. Len(f) = depth
      BY <1>1, <2>3, <2>4
    <3>2. f \in AtDepth(S, depth)
      <4>. HIDE DEF S
      <4>. QED
        BY <2>3, <3>1 DEF AtDepth
    <3>. QED
      BY <1>3, <3>2
  <2>. QED
    BY <1>3, <2>2, <2>4
<1>. HIDE DEF T, S
<1>5. NodesAre(T, depth)
  BY <1>2, <1>3 DEF Mapping, NodesAre
<1>6. ASSUME NEW q \in Policies
      PROVE  Ending(T, depth, q) = IF q \in Mapped(Cert(depth)) THEN {} ELSE Ending(tree, depth, q)
  BY <1>2, <1>3 DEF Ending
<1>7. ASSUME NEW q \in Policies
      PROVE  Renamed(depth, q) = IF q \in Mapped(Cert(depth)) THEN {} ELSE {q}
  BY <1>1 DEF Renamed
<1>8. \A q \in Policies : Ending(T, depth, q) # {} => expected[q] = Renamed(depth, q)
  BY <1>1, <1>6, <1>7
<1>9. ASSUME NEW q \in Policies, Renamed(depth, q) # {}
      PROVE  Levels[depth].stands[q] = RootsOf(Ending(T, depth, q))
  <2>1. Ending(T, depth, q) = Ending(tree, depth, q) /\ q \notin Mapped(Cert(depth))
    BY <1>6, <1>7, <1>9
  <2>. QED
    BY <1>1, <2>1, StandsIs
<1>10. Continues(T, expected, depth)
  BY <1>1, <1>5, <1>8, <1>9, RenamedContinues
<1>11. (\E node \in AtDepth(T, depth) : IsAny(node)) <=> \E node \in AtDepth(tree, depth) : IsAny(node)
  <2>1. \A node \in AtDepth(tree, depth) : IsAny(node) => Last(node) \notin Mapped(Cert(depth))
    BY <1>1, AnyHere
  <2>. QED
    BY <1>2, <1>3, <2>1
<1>12. Grounded(T, depth)
  BY <1>4, <1>11 DEF Grounded
<1>. QED
  BY <1>10, <1>12 DEF T

\* It is allowed: a policy that only anyPolicy vouches for gets a node.
Added ==
  {Append(Front(node), p) :
     node \in {x \in AtDepth(tree, depth) : Last(x) = AnyPolicy},
     p \in {q \in Mapped(Cert(depth)) : \A x \in AtDepth(tree, depth) : Last(x) # q}}

LEMMA ExtendedAgrees ==
  ASSUME Mapping, Grounded(tree, depth), Arrives(tree, depth), mapping > 0, NEW E,
         \A q \in Policies : E[q] = IF q \in Mapped(Cert(depth)) THEN Targets(Cert(depth), q)
                                    ELSE expected[q]
  PROVE  LET T == Extended(Cert(depth))
         IN  Grounded(T, depth) /\ Continues(T, E, depth)
<1>. DEFINE T == Extended(Cert(depth))
            here == AtDepth(tree, depth)
            lone(q) == q \in Mapped(Cert(depth)) /\ \A x \in here : Last(x) # q
<1>1. /\ depth \in Nat /\ depth > 0 /\ Mapped(Cert(depth)) \subseteq Policies
      /\ \A q \in Policies : expected[q] = {q}
      /\ MappingAllowed(depth) /\ AnyPolicy \notin Policies
  BY MappingHas, PolicyAssumption DEF Mapping
<1>2. T = tree \cup Added
  BY DEF Extended, Added
<1>3. ASSUME NEW f \in Added
      PROVE  \E node \in here : \E p \in Policies :
               /\ Last(node) = AnyPolicy /\ lone(p) /\ f = Append(Front(node), p)
  BY <1>1 DEF Added
<1>4. ASSUME NEW node \in here, Last(node) = AnyPolicy, NEW p, lone(p)
      PROVE  Append(Front(node), p) \in Added
  BY <1>4 DEF Added
<1>. HIDE DEF here, lone, T
<1>5. ASSUME NEW node \in here, NEW p \in Policies, Last(node) = AnyPolicy
      PROVE  LET f == Append(Front(node), p)
             IN  /\ Len(f) = depth /\ Last(f) = p /\ ~IsAny(f) /\ IsNode(f, depth)
                 /\ \A r : IsRoot(f, r) <=> r = p
  BY <1>1, <1>5, AnyHere, BesideRoot DEF here
<1>6. ASSUME NEW f \in Added PROVE Len(f) = depth /\ ~IsAny(f) /\ IsNode(f, depth)
  <2>1. PICK node \in here, p \in Policies :
          Last(node) = AnyPolicy /\ lone(p) /\ f = Append(Front(node), p)
    BY <1>3, Zenon
  <2>. QED
    BY <1>5, <2>1
<1>7. AtDepth(T, depth) = here \cup Added
  BY <1>2, <1>6 DEF AtDepth, here
<1>8. NodesAre(T, depth)
  BY <1>6, <1>7 DEF NodesAre, Mapping, here
<1>9. (\E node \in AtDepth(T, depth) : IsAny(node)) <=> \E node \in here : IsAny(node)
  BY <1>6, <1>7
<1>10. ASSUME NEW q \in Policies
       PROVE  Levels[depth].stands[q] = RootsOf(Ending(T, depth, q))
  <2>. DEFINE beside == q \in Mapped(Cert(depth)) /\ \E node \in here : IsAny(node)
              new    == {f \in Added : Last(f) = q}
  <2>1. Ending(T, depth, q) = Ending(tree, depth, q) \cup new
    BY <1>7 DEF Ending, here
  <2>2. Ending(tree, depth, q) = {} <=> \A x \in here : Last(x) # q
    BY DEF Ending, here
  <2>3. Levels[depth].stands[q] =
          IF Ending(tree, depth, q) = {} /\ beside THEN {q} ELSE RootsOf(Ending(tree, depth, q))
    BY <1>1, StandsIs DEF here
  <2>4. ASSUME NEW f \in new PROVE lone(q) /\ beside /\ \A r : IsRoot(f, r) <=> r = q
    <3>1. PICK node \in here : \E p \in Policies :
            /\ Last(node) = AnyPolicy /\ lone(p) /\ f = Append(Front(node), p)
      BY <1>3
    <3>2. PICK p \in Policies : Last(node) = AnyPolicy /\ lone(p) /\ f = Append(Front(node), p)
      BY <3>1
    <3>3. p = q
      BY <1>5, <3>2
    <3>4. IsAny(node)
      BY <3>2 DEF IsAny
    <3>. QED
      BY <1>5, <3>2, <3>3, <3>4 DEF lone
  <2>5. ASSUME Ending(tree, depth, q) = {}, beside PROVE new # {}
    <3>1. PICK node \in here : IsAny(node)
      BY <2>5
    <3>2. Last(node) = AnyPolicy
      BY <3>1, AnyHere DEF here
    <3>3. lone(q)
      BY <2>2, <2>5 DEF lone
    <3>4. Append(Front(node), q) \in Added /\ Last(Append(Front(node), q)) = q
      BY <1>4, <1>5, <3>2, <3>3
    <3>. QED
      BY <3>4
  <2>6. ASSUME NEW f \in new PROVE Ending(tree, depth, q) = {}
    BY <2>2, <2>4 DEF lone
  <2>. HIDE DEF beside, new
  <2>7. CASE Ending(tree, depth, q) = {} /\ beside
    <3>1. Ending(T, depth, q) = new /\ new # {}
      BY <2>1, <2>5, <2>7
    <3>2. RootsOf(new) = {q}
      BY <2>4, <3>1 DEF RootsOf
    <3>. QED
      BY <2>3, <2>7, <3>1, <3>2
  <2>8. CASE ~(Ending(tree, depth, q) = {} /\ beside)
    <3>1. new = {}
      BY <2>4, <2>6, <2>8
    <3>2. Ending(T, depth, q) = Ending(tree, depth, q)
      BY <2>1, <3>1
    <3>. QED
      BY <2>3, <2>8, <3>2
  <2>. QED
    BY <2>7, <2>8
<1>11. \A q \in Policies : E[q] = Renamed(depth, q)
  BY <1>1 DEF Renamed
<1>12. Continues(T, E, depth)
  BY <1>1, <1>8, <1>10, <1>11, RenamedContinues
<1>13. T # {} => AtDepth(T, depth) # {}
  <2>1. tree # {} => here # {}
    BY DEF Grounded, here
  <2>. QED
    BY <1>2, <1>7, <2>1
<1>14. Grounded(T, depth)
  BY <1>9, <1>13 DEF Grounded, here
<1>. QED
  BY <1>12, <1>14 DEF T

-----------------------------------------------------------------------------
(* The counters, exactly.                                                  *)

\* A counter says how many certificates more until the first of the limits above d is
\* used up; the one of the whole path never is.
Count(j, d) == Cardinality(Between(j, d))
Reached(A, d, n) ==
  \/ Size + 1 <= n + Count(0, d)
  \/ \E j \in 1..(d - 1) : A[j] <= n + Count(j, d)
IsCounter(c, A, d) == c \in Nat /\ \A n \in Nat : c <= n <=> Reached(A, d, n)

\* One certificate more counts unless it is self-issued.
LEMMA CountSteps ==
  ASSUME NEW j \in Nat, NEW d \in Nat, j < d
  PROVE  /\ Count(j, d) \in Nat
         /\ Count(j, d + 1) = Count(j, d) + (IF Cert(d).selfIssued THEN 0 ELSE 1)
<1>1. IsFiniteSet(Between(j, d)) /\ Count(j, d) \in Nat
  BY BetweenIsFinite DEF Count
<1>2. CASE Cert(d).selfIssued
  <2>1. Between(j, d + 1) = Between(j, d)
    BY <1>2 DEF Between
  <2>. QED
    BY <1>1, <1>2, <2>1 DEF Count
<1>3. CASE ~Cert(d).selfIssued
  <2>1. Between(j, d + 1) = Between(j, d) \cup {d} /\ d \notin Between(j, d)
    BY <1>3 DEF Between
  <2>2. Cardinality(Between(j, d) \cup {d}) = Cardinality(Between(j, d)) + 1
    BY <1>1, <2>1, FS_AddElement
  <2>. QED
    BY <1>1, <1>3, <2>1, <2>2 DEF Count
<1>. QED
  BY <1>1, <1>2, <1>3

\* There are at most so many certificates between two others.
LEMMA CountBounds ==
  ASSUME NEW j \in Nat, NEW d \in Nat, NEW e \in Nat, j < d, d <= e
  PROVE  /\ Count(j, d) \in Nat /\ Count(j, e) \in Nat
         /\ Count(j, d) <= Count(j, e) /\ Count(j, d) < d - j
<1>1. IsFiniteSet(Between(j, e)) /\ Count(j, e) \in Nat /\ Count(j, d) \in Nat
  BY BetweenIsFinite DEF Count
<1>2. Between(j, d) \subseteq Between(j, e)
  BY DEF Between
<1>3. Cardinality(Between(j, d)) <= Cardinality(Between(j, e))
  BY <1>1, <1>2, FS_Subset
<1>4. IsFiniteSet((j + 1)..(d - 1)) /\ Cardinality((j + 1)..(d - 1)) < d - j
  <2>1. /\ IsFiniteSet((j + 1)..(d - 1))
        /\ Cardinality((j + 1)..(d - 1)) = IF j + 1 > d - 1 THEN 0 ELSE (d - 1) - (j + 1) + 1
    BY FS_Interval
  <2>. QED
    BY <2>1
<1>5. Between(j, d) \subseteq (j + 1)..(d - 1)
  BY DEF Between
<1>6. Cardinality(Between(j, d)) <= Cardinality((j + 1)..(d - 1))
  BY <1>4, <1>5, FS_Subset
<1>7. Cardinality((j + 1)..(d - 1)) \in Nat
  BY <1>4, FS_CardinalityType
<1>. QED
  BY <1>1, <1>3, <1>4, <1>6, <1>7 DEF Count

\* Before the first certificate only the limit of the whole path counts.
LEMMA CounterStarts ==
  ASSUME PathIsWell, NEW A
  PROVE  IsCounter(Len(path), A, 1)
<1>1. Size \in Nat /\ Len(path) = Size + 1
  BY SizeIsNat
<1>2. Count(0, 1) = 0
  BY NothingBetween DEF Count
<1>3. 1..(1 - 1) = {}
  OBVIOUS
<1>. QED
  BY <1>1, <1>2, <1>3 DEF IsCounter, Reached

\* (h), (i) and (j) keep a counter what it is.
LEMMA CounterSteps ==
  ASSUME PathIsWell, NEW d \in 1..Size, NEW c, NEW A, \A j \in 1..d : A[j] \in Nat,
         IsCounter(c, A, d)
  PROVE  IsCounter(Least(IF Cert(d).selfIssued THEN c ELSE Less(c), A[d]), A, d + 1)
<1>. DEFINE one == IF Cert(d).selfIssued THEN 0 ELSE 1
            m   == Least(IF Cert(d).selfIssued THEN c ELSE Less(c), A[d])
<1>1. /\ d \in Nat /\ d >= 1 /\ c \in Nat /\ A[d] \in Nat /\ Size \in Nat /\ one \in Nat
      /\ \A n \in Nat : c <= n <=> Reached(A, d, n)
  BY SizeIsNat DEF IsCounter
<1>2. m \in Nat
  BY <1>1 DEF Least, Less
<1>3. ASSUME NEW n \in Nat PROVE m <= n <=> c <= n + one \/ A[d] <= n
  BY <1>1 DEF Least, Less
<1>4. Count(d, d + 1) = 0
  BY <1>1, NothingBetween DEF Count
<1>5. ASSUME NEW j \in 0..(d - 1) PROVE Count(j, d + 1) = Count(j, d) + one /\ Count(j, d) \in Nat
  BY <1>1, CountSteps
<1>. HIDE DEF one, m
<1>6. ASSUME NEW n \in Nat PROVE Reached(A, d + 1, n) <=> Reached(A, d, n + one) \/ A[d] <= n
  <2>1. Size + 1 <= n + Count(0, d + 1) <=> Size + 1 <= (n + one) + Count(0, d)
    <3>1. Count(0, d + 1) = Count(0, d) + one /\ Count(0, d) \in Nat
      BY <1>1, <1>5
    <3>. QED
      BY <1>1, <3>1
  <2>2. ASSUME NEW j \in 1..(d - 1)
        PROVE  A[j] <= n + Count(j, d + 1) <=> A[j] <= (n + one) + Count(j, d)
    <3>1. Count(j, d + 1) = Count(j, d) + one /\ Count(j, d) \in Nat /\ A[j] \in Nat
      BY <1>1, <1>5
    <3>. QED
      BY <1>1, <3>1
  <2>3. 1..((d + 1) - 1) = 1..(d - 1) \cup {d}
    BY <1>1
  <2>4. A[d] <= n + Count(d, d + 1) <=> A[d] <= n
    BY <1>1, <1>4
  <2>5. (\E j \in 1..((d + 1) - 1) : A[j] <= n + Count(j, d + 1))
          <=> (\E j \in 1..(d - 1) : A[j] <= (n + one) + Count(j, d)) \/ A[d] <= n
    BY <2>2, <2>3, <2>4
  <2>. QED
    BY <2>1, <2>5 DEF Reached
<1>7. ASSUME NEW n \in Nat PROVE m <= n <=> Reached(A, d + 1, n)
  <2>1. n + one \in Nat
    BY <1>1
  <2>2. c <= n + one <=> Reached(A, d, n + one)
    BY <1>1, <2>1
  <2>. QED
    BY <1>3, <1>6, <2>2
<1>8. IsCounter(m, A, d + 1)
  BY <1>2, <1>7 DEF IsCounter
<1>. QED
  BY <1>8 DEF m

\* What the code asks of a counter.
LEMMA CounterIs ==
  ASSUME PathIsWell, NEW d \in 1..Size, NEW c, NEW A, IsCounter(c, A, d)
  PROVE  /\ c \in Nat
         /\ c > 0 <=> ~\E j \in 1..(d - 1) : A[j] <= 0 + Count(j, d)
         /\ c <= 1 <=> \E j \in 1..(d - 1) : A[j] <= 1 + Count(j, d)
<1>1. d \in Nat /\ 0 < d /\ d <= d /\ Size \in Nat /\ d <= Size
  BY SizeIsNat
<1>2. Count(0, d) \in Nat /\ Count(0, d) < d - 0
  BY <1>1, CountBounds
<1>3. ~(Size + 1 <= 0 + Count(0, d)) /\ ~(Size + 1 <= 1 + Count(0, d))
  BY <1>1, <1>2
<1>4. /\ c \in Nat /\ (c <= 0 <=> Reached(A, d, 0)) /\ (c <= 1 <=> Reached(A, d, 1))
  BY DEF IsCounter
<1>. QED
  BY <1>3, <1>4 DEF Reached

\* The limits that the certificates state.
Explicits == [j \in 1..Size |-> Cert(j).requireExplicit]
Mappings  == [j \in 1..Size |-> Cert(j).inhibitMapping]
Inhibits  == [j \in 1..Size |-> Cert(j).inhibitAny]

\* They are numbers.
LEMMA LimitsAre ==
  ASSUME PathIsWell, NEW d \in 1..Size
  PROVE  /\ \A j \in 1..d : Explicits[j] \in Nat /\ Mappings[j] \in Nat /\ Inhibits[j] \in Nat
         /\ \A j \in 1..d : /\ Explicits[j] = Cert(j).requireExplicit
                            /\ Mappings[j] = Cert(j).inhibitMapping
                            /\ Inhibits[j] = Cert(j).inhibitAny
<1>1. \A j \in 1..d : j \in 1..Size
  BY SizeIsNat
<1>. QED
  BY <1>1 DEF PathIsWell, CertIsWell, Explicits, Mappings, Inhibits

\* The counters and the definition of what is allowed, and of what is due, agree.
LEMMA AllowedIs ==
  ASSUME PathIsWell, NEW d \in 1..Size, NEW c
  PROVE  /\ IsCounter(c, Mappings, d) => (c > 0 <=> MappingAllowed(d))
         /\ IsCounter(c, Inhibits, d) /\ AnyPolicy \in Cert(d).policies =>
              (c > 0 \/ (d # Size /\ Cert(d).selfIssued) <=> AnyAllowed(d))
<1>1. ASSUME NEW j PROVE Count(j, d) = Cardinality({k \in (j + 1)..(d - 1) : ~Cert(k).selfIssued})
  BY DEF Count, Between
<1>2. \A j \in 1..(d - 1) : Count(j, d) \in Nat /\ j \in 1..d
  <2>1. d \in Nat
    BY SizeIsNat
  <2>. QED
    BY <2>1, CountBounds
<1>3. ASSUME NEW j \in 1..(d - 1)
      PROVE  /\ Mappings[j] <= 0 + Count(j, d) <=>
                  Cert(j).inhibitMapping <= Cardinality({k \in (j + 1)..(d - 1) : ~Cert(k).selfIssued})
             /\ Inhibits[j] <= 0 + Count(j, d) <=>
                  Cert(j).inhibitAny <= Cardinality({k \in (j + 1)..(d - 1) : ~Cert(k).selfIssued})
  <2>1. 0 + Count(j, d) = Count(j, d)
    BY <1>2
  <2>2. Mappings[j] = Cert(j).inhibitMapping /\ Inhibits[j] = Cert(j).inhibitAny
    BY <1>2, LimitsAre
  <2>. QED
    BY <1>1, <2>1, <2>2
<1>4. IsCounter(c, Mappings, d) => (c > 0 <=> MappingAllowed(d))
  <2>1. IsCounter(c, Mappings, d) => (c > 0 <=> ~\E j \in 1..(d - 1) : Mappings[j] <= 0 + Count(j, d))
    BY CounterIs
  <2>. QED
    BY <1>3, <2>1, Zenon DEF MappingAllowed, UsedUp
<1>5. IsCounter(c, Inhibits, d) => (c > 0 <=> ~UsedUp(d, LAMBDA x : x.inhibitAny))
  <2>1. IsCounter(c, Inhibits, d) => (c > 0 <=> ~\E j \in 1..(d - 1) : Inhibits[j] <= 0 + Count(j, d))
    BY CounterIs
  <2>. QED
    BY <1>3, <2>1, Zenon DEF UsedUp
<1>6. IsCounter(c, Inhibits, d) /\ AnyPolicy \in Cert(d).policies =>
        (c > 0 \/ (d # Size /\ Cert(d).selfIssued) <=> AnyAllowed(d))
  BY <1>5, Zenon DEF AnyAllowed
<1>. QED
  BY <1>4, <1>6

LEMMA DueIs ==
  ASSUME PathIsWell, Size > 0, required = AnyPolicy, IsCounter(explicit, Explicits, Size)
  PROVE  PolicyIsDue <=> Cert(Size).requireExplicit = 0 \/ explicit <= 1
<1>1. Size \in Nat /\ Size \in 1..Size
  BY SizeIsNat
<1>2. explicit <= 1 <=> \E j \in 1..(Size - 1) : Explicits[j] <= 1 + Count(j, Size)
  BY <1>1, CounterIs
<1>3. ASSUME NEW j \in 1..(Size - 1)
      PROVE  Explicits[j] <= 1 + Count(j, Size) <=>
               Cert(j).requireExplicit
                 <= 1 + Cardinality({k \in (j + 1)..(Size - 1) : ~Cert(k).selfIssued})
  <2>1. Explicits[j] = Cert(j).requireExplicit
    BY <1>1, LimitsAre
  <2>2. Count(j, Size) = Cardinality({k \in (j + 1)..(Size - 1) : ~Cert(k).selfIssued})
    BY DEF Count, Between
  <2>. QED
    BY <2>1, <2>2
<1>. QED
  BY <1>2, <1>3, Zenon DEF PolicyIsDue

\* A limit that is used up stays so.
LEMMA DueStays ==
  ASSUME PathIsWell, NEW d \in 1..Size, IsCounter(explicit, Explicits, d), explicit = 0
  PROVE  PolicyIsDue
<1>1. d \in Nat /\ Size \in Nat /\ d <= Size
  BY SizeIsNat
<1>2. PICK j \in 1..(d - 1) : Explicits[j] <= 0 + Count(j, d)
  BY CounterIs
<1>3. Explicits[j] = Cert(j).requireExplicit /\ Explicits[j] \in Nat /\ j \in 1..(Size - 1)
  BY <1>1, LimitsAre
<1>4. Count(j, d) \in Nat /\ Count(j, Size) \in Nat /\ Count(j, d) <= Count(j, Size)
  BY <1>1, CountBounds
<1>5. Cert(j).requireExplicit <= 1 + Count(j, Size)
  BY <1>2, <1>3, <1>4
<1>6. Count(j, Size) = Cardinality({k \in (j + 1)..(Size - 1) : ~Cert(k).selfIssued})
  BY DEF Count, Between
<1>7. Cert(j).requireExplicit <= 1 + Cardinality({k \in (j + 1)..(Size - 1) : ~Cert(k).selfIssued})
  BY <1>5, <1>6
<1>. QED
  BY <1>3, <1>7, Zenon DEF PolicyIsDue

-----------------------------------------------------------------------------
(* The names.                                                              *)

\* What each certificate leaves open; NamesAreOpen asks it of the names.
OpenAt(i, g) == IF i = 1 THEN Universe ELSE g[i - 1] \cap Open(path[i - 1].constraints)
Opens == CHOOSE open : open = [i \in 1..Len(path) |-> OpenAt(i, open)]

LEMMA OpensIs ==
  NamesAreOpen <=> \A i \in 2..Len(path) :
                     i = Len(path) \/ ~path[i].selfIssued => path[i].names \subseteq Opens[i]
BY DEF NamesAreOpen, Opens, OpenAt

\* A name is left open if it is not excluded and is permitted.
LEMMA OpenIs ==
  ASSUME NEW nc, NEW name \in Universe
  PROVE  name \in Open(nc) <=> ~Excluded(name, nc) /\ Permitted(name, nc)
<1>1. (\A b \in nc.permitted : b.type # name.type) <=> OfType(nc.permitted, name) = {}
  BY DEF OfType
<1>2. name \in UNION {Subtree(b) : b \in nc.permitted}
        <=> \E b \in OfType(nc.permitted, name) : Within(name, b)
  BY DEF Subtree, OfType
<1>3. name \in UNION {Subtree(b) : b \in nc.excluded} <=> Excluded(name, nc)
  BY DEF Subtree, OfType, Excluded
<1>. QED
  BY <1>1, <1>2, <1>3 DEF Open, Permitted

\* What is open at a place is what all certificates above leave open.
OpenTo(i) == {name \in Universe : \A k \in 1..(i - 1) : name \in Open(path[k].constraints)}

LEMMA OpensAre ==
  ASSUME PathIsWell
  PROVE  \A i \in 1..Len(path) : Opens[i] = OpenTo(i)
<1>. DEFINE n == Len(path)
            e == [i \in 1..n |-> OpenTo(i)]
<1>1. n \in Nat
  BY SizeIsNat
<1>2. ASSUME NEW i \in 1..n, i # 1
      PROVE  i - 1 \in 1..n /\ OpenTo(i) = OpenTo(i - 1) \cap Open(path[i - 1].constraints)
  <2>1. i - 1 \in 1..n /\ 1..(i - 1) = 1..((i - 1) - 1) \cup {i - 1}
    BY <1>1, <1>2
  <2>. QED
    BY <2>1 DEF OpenTo
<1>3. OpenTo(1) = Universe
  BY DEF OpenTo
<1>4. \A i \in 1..n : OpenAt(i, e) = OpenTo(i)
  BY <1>2, <1>3 DEF OpenAt
<1>5. e = [i \in 1..n |-> OpenAt(i, e)]
  BY <1>4
<1>6. PICK f : f = CHOOSE g : g = [i \in 1..n |-> OpenAt(i, g)]
  OBVIOUS
<1>7. f = [i \in 1..n |-> OpenAt(i, f)]
  BY <1>5, <1>6
<1>8. Opens = f
  BY <1>6 DEF Opens
<1>. HIDE DEF e
<1>9. \A i \in 1..n : f[i] = OpenAt(i, f)
  BY <1>7
<1>. DEFINE S == {i \in 1..n : f[i] = OpenTo(i)}
<1>10. ASSUME NEW i \in 1..n, \A j \in 1..(i - 1) : j \in S PROVE i \in S
  <2>1. f[i] = OpenAt(i, f)
    BY <1>9
  <2>2. CASE i = 1
    BY <1>3, <2>1, <2>2 DEF OpenAt
  <2>3. CASE i # 1
    <3>1. i - 1 \in 1..(i - 1)
      BY <1>1, <2>3
    <3>2. f[i - 1] = OpenTo(i - 1)
      BY <1>10, <3>1
    <3>. QED
      BY <1>2, <2>1, <2>3, <3>2 DEF OpenAt
  <2>. QED
    BY <2>2, <2>3
<1>. HIDE DEF n, S
<1>11. 1..n \subseteq S
  BY <1>1, <1>10, ByPlace
<1>. QED
  BY <1>8, <1>11 DEF n, S

\* The code's loop over pairs of certificates and the intersection say the same.
LEMMA NamesAgree ==
  ASSUME PathIsWell
  PROVE  NamesAreInside(path) <=> NamesAreOpen
<1>. DEFINE n == Len(path)
            bound(i) == i = n \/ ~path[i].selfIssued
            keeps(i, j) == \A name \in path[i].names :
                             ~Excluded(name, path[j].constraints) /\ Permitted(name, path[j].constraints)
<1>1. n \in Nat
  BY SizeIsNat
<1>2. ASSUME NEW i \in 2..n, NEW name \in path[i].names PROVE name \in Universe
  <2>1. i \in 1..n
    BY <1>1
  <2>. QED
    BY <2>1 DEF Universe
<1>3. ASSUME NEW i \in 2..n
      PROVE  path[i].names \subseteq Opens[i] <=> \A j \in 1..(i - 1) : keeps(i, j)
  <2>1. Opens[i] = OpenTo(i)
    <3>1. i \in 1..n
      BY <1>1
    <3>. QED
      BY <3>1, OpensAre
  <2>2. \A name \in path[i].names : \A j :
          name \in Open(path[j].constraints)
            <=> ~Excluded(name, path[j].constraints) /\ Permitted(name, path[j].constraints)
    BY <1>2, OpenIs
  <2>3. \A name \in path[i].names :
          name \in Opens[i] <=> \A j \in 1..(i - 1) : name \in Open(path[j].constraints)
    BY <1>2, <2>1 DEF OpenTo
  <2>. QED
    BY <2>2, <2>3
<1>. HIDE DEF keeps
<1>4. NamesAreInside(path) <=>
        \A i \in 2..n, j \in 1..n : (j < i /\ ~(i # n /\ path[i].selfIssued)) => keeps(i, j)
  BY DEF NamesAreInside, keeps
<1>5. ASSUME NEW i \in 2..n
      PROVE  (\A j \in 1..n : (j < i /\ ~(i # n /\ path[i].selfIssued)) => keeps(i, j))
               <=> (bound(i) => \A j \in 1..(i - 1) : keeps(i, j))
  <2>1. \A j \in 1..n : j < i <=> j \in 1..(i - 1)
    BY <1>1
  <2>2. 1..(i - 1) \subseteq 1..n
    BY <1>1
  <2>. QED
    BY <2>1, <2>2
<1>6. NamesAreOpen <=> \A i \in 2..n : bound(i) => path[i].names \subseteq Opens[i]
  BY OpensIs
<1>. QED
  BY <1>3, <1>4, <1>5, <1>6

-----------------------------------------------------------------------------
(* The end of the path.                                                    *)

\* From an empty level nothing goes on.
NoLevel(d) == ~Levels[d].all /\ \A p \in Policies : Levels[d].stands[p] = {}

LEMMA NothingGoesOn ==
  ASSUME PathIsWell, NEW d \in 1..Size, NoLevel(d)
  PROVE  ~PolicyRemains
<1>1. Size \in Nat
  BY SizeIsNat
<1>. DEFINE S == {i \in 1..Size : i >= d => NoLevel(i)}
<1>2. ASSUME NEW i \in 1..Size, \A j \in 1..(i - 1) : j \in S PROVE i \in S
  <2>1. CASE i < d
    BY <1>1, <2>1
  <2>2. CASE i = d
    BY <2>2
  <2>3. CASE i > d
    <3>1. i - 1 \in 1..(i - 1) /\ i - 1 >= d
      BY <1>1, <2>3
    <3>2. NoLevel(i - 1)
      BY <1>2, <3>1
    <3>. DEFINE L == Levels[i - 1]
    <3>3. Levels[i] = LevelStep(i, L)
      BY LevelsAre
    <3>4. ASSUME NEW p \in Policies PROVE Own(i, L, p) = {}
      <4>1. From(i, L, p) = {}
        BY <3>2 DEF From, NoLevel
      <4>2. ~L.all
        BY <3>2 DEF NoLevel
      <4>. QED
        BY <4>1, <4>2 DEF Own
    <3>5. ~L.all
      BY <3>2 DEF NoLevel
    <3>. HIDE DEF L
    <3>6. ~LevelStep(i, L).all
      BY <3>5, LevelHas, Zenon
    <3>7. ASSUME NEW p \in Policies PROVE LevelStep(i, L).stands[p] = {}
      <4>1. ~Beside(i, L.all /\ AnyAllowed(i), p)
        BY <3>5 DEF Beside
      <4>. QED
        BY <3>4, <4>1, LevelHas, Zenon
    <3>8. NoLevel(i)
      BY <3>3, <3>6, <3>7, Zenon DEF NoLevel
    <3>. QED
      BY <3>8
  <2>. QED
    BY <1>1, <2>1, <2>2, <2>3
<1>3. 1..Size \subseteq S
  <2>. HIDE DEF S
  <2>. QED
    BY <1>1, <1>2, ByPlace
<1>4. NoLevel(Size)
  BY <1>1, <1>3
<1>. QED
  BY <1>4, GraphIs DEF PolicyRemains, NoLevel

\* No policy remains once the tree is empty.
LEMMA EmptyTree ==
  ASSUME PathIsWell, NEW d \in 1..Size, Grounded({}, d), Arrives({}, d)
  PROVE  ~PolicyRemains
<1>1. AtDepth({}, d) = {}
  BY DEF AtDepth
<1>2. ~Levels[d].all /\ \A p \in Policies : Arriving(d, p) = {}
  BY <1>1 DEF Grounded, Arrives, Ending, RootsOf
<1>3. Levels[d] = LevelStep(d, Levels[d - 1])
  BY LevelsAre
<1>4. ASSUME NEW p \in Policies PROVE Levels[d].stands[p] = {}
  <2>. DEFINE L == Levels[d - 1]
  <2>1. Cert(d).asserts => Own(d, L, p) = {}
    BY <1>2 DEF Arriving
  <2>. HIDE DEF L
  <2>2. Cert(d).asserts => (LevelStep(d, L).all <=> L.all /\ AnyAllowed(d))
    BY LevelHas, Zenon
  <2>3. Cert(d).asserts => ~Beside(d, L.all /\ AnyAllowed(d), p)
    BY <1>2, <1>3, <2>2, Zenon DEF Beside, L
  <2>4. LevelStep(d, L).stands[p] = {}
    BY <2>1, <2>3, LevelHas, Zenon
  <2>. QED
    BY <1>3, <2>4 DEF L
<1>. QED
  BY <1>2, <1>4, NothingGoesOn DEF NoLevel

\* intersect_initial looks at the root of a node.
LEMMA RightBelowIsRoot ==
  ASSUME NEW d \in Nat, NEW node, IsNode(node, d), ~IsAny(node), NEW r \in Policies
  PROVE  (\A i \in RightBelowAny(node) : node[i] = r) <=> IsRoot(node, r)
<1>1. node \in Seq(PolicyIds) /\ Len(node) = d /\ DOMAIN node = 1..d
  BY DEF IsNode
<1>2. ASSUME IsRoot(node, r), NEW i \in RightBelowAny(node) PROVE node[i] = r
  <2>1. PICK h \in 1..d : node[h] = r /\ r # AnyPolicy /\ \A k \in 1..(h - 1) : node[k] = AnyPolicy
    BY <1>1, <1>2 DEF IsRoot
  <2>2. i \in 1..d /\ node[i] # AnyPolicy /\ (i = 1 \/ node[i - 1] = AnyPolicy)
    BY <1>1 DEF RightBelowAny
  <2>3. ~(i < h)
    BY <2>1, <2>2
  <2>4. ~(i > h)
    <3>1. ASSUME i > h PROVE FALSE
      <4>1. i - 1 \in 1..d /\ h \in 1..(i - 1) /\ node[i - 1] = AnyPolicy
        BY <2>2, <3>1
      <4>2. node[h] = AnyPolicy
        BY <4>1 DEF IsNode
      <4>. QED
        BY <2>1, <4>2
    <3>. QED
      BY <3>1
  <2>5. i = h
    BY <2>2, <2>3, <2>4
  <2>. QED
    BY <2>1, <2>5
<1>3. ASSUME \A i \in RightBelowAny(node) : node[i] = r PROVE IsRoot(node, r)
  <2>1. PICK q \in Policies : IsRoot(node, q)
    BY AnyOrRoot
  <2>2. PICK h \in 1..d : node[h] = q /\ q # AnyPolicy /\ \A k \in 1..(h - 1) : node[k] = AnyPolicy
    BY <1>1, <2>1 DEF IsRoot
  <2>3. h = 1 \/ node[h - 1] = AnyPolicy
    BY <2>2
  <2>4. h \in RightBelowAny(node)
    BY <1>1, <2>2, <2>3 DEF RightBelowAny
  <2>5. q = r
    BY <1>3, <2>2, <2>4
  <2>. QED
    BY <2>1, <2>5
<1>. QED
  BY <1>2, <1>3

\* What is at work when the path ends.
Wrapping ==
  /\ PathIsWell /\ Size > 0 /\ NodesAre(tree, Size)
  /\ \A node \in tree : Len(node) \in Nat /\ Len(node) <= Size
  /\ Grounded(tree, Size) /\ Arrives(tree, Size)

\* What the last level stands for.
LEMMA EndStands ==
  ASSUME Wrapping, NEW p \in Policies
  PROVE  Levels[Size].stands[p] = RootsOf(Ending(tree, Size, p))
<1>1. Size \in 1..Size /\ PathIsWell
  BY SizeIsNat DEF Wrapping
<1>. DEFINE L == Levels[Size - 1]
<1>2. Levels[Size] = LevelStep(Size, L)
  BY <1>1, LevelsAre
<1>3. Arriving(Size, p) = RootsOf(Ending(tree, Size, p))
  BY DEF Wrapping, Arrives
<1>4. Arriving(Size, p) = IF Cert(Size).asserts THEN Own(Size, L, p) ELSE {}
  BY DEF Arriving
<1>. HIDE DEF L
<1>5. ~Beside(Size, L.all /\ AnyAllowed(Size), p)
  BY DEF Beside
<1>6. LevelStep(Size, L).stands[p] = IF Cert(Size).asserts THEN Own(Size, L, p) ELSE {}
  BY <1>5, LevelHas, Zenon
<1>. QED
  BY <1>2, <1>3, <1>4, <1>6

\* The nodes of the last level, each with its policy and its root.
LEMMA EndingNode ==
  ASSUME Wrapping, NEW node \in AtDepth(tree, Size)
  PROVE  /\ IsNode(node, Size) /\ Size \in Nat
         /\ ~IsAny(node) => /\ Last(node) \in Policies /\ node \in Ending(tree, Size, Last(node))
                            /\ \E r \in Policies : IsRoot(node, r)
         /\ \A p \in Policies : node \in Ending(tree, Size, p) => ~IsAny(node)
<1>1. IsNode(node, Size) /\ Size \in Nat /\ Size > 0
  BY SizeIsNat DEF Wrapping, NodesAre
<1>2. node # << >>
  BY <1>1 DEF IsNode
<1>3. \A p \in Policies : node \in Ending(tree, Size, p) => ~IsAny(node)
  BY <1>2, PolicyAssumption DEF Ending, IsAny
<1>. QED
  BY <1>1, <1>3, LastOf, AnyOrRoot DEF Ending

\* What the intersection leaves.
LEMMA IntersectedHas ==
  ASSUME Wrapping, required # AnyPolicy, ~\E node \in AtDepth(tree, Size) : IsAny(node)
  PROVE  Intersected # {} <=> \E node \in AtDepth(tree, Size) : IsRoot(node, required)
<1>. DEFINE S == {node \in tree : \A i \in RightBelowAny(node) : node[i] = required}
<1>1. Intersected = Prune(S, Size)
  BY DEF Intersected
<1>2. Size \in Nat /\ required \in Policies
  BY SizeIsNat DEF Wrapping, PathIsWell, PolicyIds
<1>3. \A node \in AtDepth(tree, Size) : node \in AtDepth(S, Size) <=> IsRoot(node, required)
  <2>. SUFFICES ASSUME NEW node \in AtDepth(tree, Size)
                PROVE  node \in AtDepth(S, Size) <=> IsRoot(node, required)
    OBVIOUS
  <2>1. IsNode(node, Size) /\ ~IsAny(node)
    BY EndingNode
  <2>2. (\A i \in RightBelowAny(node) : node[i] = required) <=> IsRoot(node, required)
    BY <1>2, <2>1, RightBelowIsRoot
  <2>. QED
    BY <2>2 DEF AtDepth
<1>4. AtDepth(S, Size) \subseteq AtDepth(tree, Size)
  BY DEF AtDepth
<1>5. S \subseteq tree
  OBVIOUS
<1>. HIDE DEF S
<1>6. ASSUME Intersected # {} PROVE AtDepth(S, Size) # {}
  <2>1. PICK f \in S : Len(f) >= Size \/ \E deep \in AtDepth(S, Size) : TRUE
    BY <1>1, <1>6 DEF Prune
  <2>2. Len(f) \in Nat /\ Len(f) <= Size
    BY <1>5 DEF Wrapping
  <2>3. CASE Len(f) >= Size
    <3>1. Len(f) = Size
      BY <1>2, <2>2, <2>3
    <3>. QED
      BY <3>1 DEF AtDepth
  <2>. QED
    BY <2>1, <2>3
<1>7. ASSUME NEW f \in AtDepth(S, Size) PROVE Intersected # {}
  <2>1. f \in S /\ Len(f) >= Size
    BY <1>2 DEF AtDepth
  <2>. QED
    BY <1>1, <2>1 DEF Prune
<1>. QED
  BY <1>3, <1>4, <1>6, <1>7

\* A policy remains in the tree exactly when one remains in the graph.
LEMMA RemainsIs ==
  ASSUME Wrapping
  PROVE  Intersected # {} <=> PolicyRemains
<1>1. Graph = Levels[Size]
  BY GraphIs
<1>2. PolicyRemains <=>
        \/ Levels[Size].all
        \/ \E p \in Policies : /\ Levels[Size].stands[p] # {}
                               /\ required = AnyPolicy \/ required \in Levels[Size].stands[p]
  BY <1>1, Zenon DEF PolicyRemains
<1>3. PolicyRemains <=>
        \/ \E node \in AtDepth(tree, Size) : IsAny(node)
        \/ \E p \in Policies : /\ RootsOf(Ending(tree, Size, p)) # {}
                               /\ required = AnyPolicy \/ required \in RootsOf(Ending(tree, Size, p))
  <2>1. Levels[Size].all <=> \E node \in AtDepth(tree, Size) : IsAny(node)
    BY DEF Wrapping, Grounded
  <2>2. \A p \in Policies : Levels[Size].stands[p] = RootsOf(Ending(tree, Size, p))
    BY EndStands
  <2>. QED
    BY <1>2, <2>1, <2>2, Zenon
<1>4. tree # {} <=> AtDepth(tree, Size) # {}
  BY DEF Wrapping, Grounded, AtDepth
<1>5. CASE \E node \in AtDepth(tree, Size) : IsAny(node)
  <2>1. Intersected = tree
    BY <1>5 DEF Intersected
  <2>. QED
    BY <1>3, <1>4, <1>5, <2>1
<1>6. CASE required = AnyPolicy /\ ~\E node \in AtDepth(tree, Size) : IsAny(node)
  <2>1. Intersected = tree
    BY <1>6 DEF Intersected
  <2>2. ASSUME NEW node \in AtDepth(tree, Size)
        PROVE  \E p \in Policies : RootsOf(Ending(tree, Size, p)) # {}
    <3>1. /\ Last(node) \in Policies /\ node \in Ending(tree, Size, Last(node))
          /\ \E r \in Policies : IsRoot(node, r)
      BY <1>6, EndingNode
    <3>. QED
      BY <3>1 DEF RootsOf
  <2>3. ASSUME NEW p \in Policies, RootsOf(Ending(tree, Size, p)) # {} PROVE AtDepth(tree, Size) # {}
    BY <2>3 DEF RootsOf, Ending
  <2>. QED
    BY <1>3, <1>4, <1>6, <2>1, <2>2, <2>3
<1>7. CASE required # AnyPolicy /\ ~\E node \in AtDepth(tree, Size) : IsAny(node)
  <2>1. Intersected # {} <=> \E node \in AtDepth(tree, Size) : IsRoot(node, required)
    BY <1>7, IntersectedHas
  <2>2. required \in Policies
    BY <1>7 DEF Wrapping, PathIsWell, PolicyIds
  <2>3. ASSUME NEW node \in AtDepth(tree, Size), IsRoot(node, required)
        PROVE  \E p \in Policies : required \in RootsOf(Ending(tree, Size, p))
    <3>1. Last(node) \in Policies /\ node \in Ending(tree, Size, Last(node))
      BY <1>7, EndingNode
    <3>. QED
      BY <2>2, <2>3, <3>1 DEF RootsOf
  <2>4. ASSUME NEW p \in Policies, required \in RootsOf(Ending(tree, Size, p))
        PROVE  \E node \in AtDepth(tree, Size) : IsRoot(node, required)
    BY <2>4 DEF RootsOf, Ending
  <2>5. PolicyRemains <=> \E p \in Policies : required \in RootsOf(Ending(tree, Size, p))
    BY <1>3, <1>7
  <2>. QED
    BY <2>1, <2>3, <2>4, <2>5
<1>. QED
  BY <1>5, <1>6, <1>7

-----------------------------------------------------------------------------
(* The verdict.                                                            *)

\* The counters, and the tree at each step, agree with the path.
CountersAre ==
  /\ required = AnyPolicy => IsCounter(explicit, Explicits, depth)
  /\ IsCounter(mapping, Mappings, depth) /\ IsCounter(inhibit, Inhibits, depth)
TreeIs ==
  /\ pc \in {"names", "tree"} =>
       Grounded(tree, depth - 1) /\ Continues(tree, expected, depth - 1)
  /\ pc \in {"mappings", "wrap"} => Grounded(tree, depth) /\ Arrives(tree, depth)
  /\ pc = "limits" => Grounded(tree, depth) /\ Continues(tree, expected, depth)
VInv ==
  /\ pc # "done" => CountersAre /\ TreeIs /\ expected[AnyPolicy] = {AnyPolicy}
  /\ pc \notin {"names", "done"} => NamesAreOpen /\ Size > 0
  /\ VerdictIsRight

\* What makes a path one to accept.
Right == NamesAreOpen /\ (Size > 0 => ~MapsAnyPolicy /\ (PolicyIsDue => PolicyRemains))

\* What is said of the path stays, as the path does.
LEMMA LevelsStay ==
  ASSUME path' = path
  PROVE  Levels' = Levels
BY DEF Levels, LevelAt, Root, LevelStep, NoStands, From, Own, Beside, Renamed, AnyAllowed,
       MappingAllowed, UsedUp, Mapped, Targets, Cert, Size

LEMMA TreeStays ==
  ASSUME path' = path
  PROVE  /\ Grounded(tree, depth)' <=> Grounded(tree', depth')
         /\ Grounded(tree, depth - 1)' <=> Grounded(tree', depth' - 1)
         /\ Continues(tree, expected, depth)' <=> Continues(tree', expected', depth')
         /\ Continues(tree, expected, depth - 1)' <=> Continues(tree', expected', depth' - 1)
         /\ Arrives(tree, depth)' <=> Arrives(tree', depth')
<1>1. Levels' = Levels
  BY LevelsStay
<1>2. /\ Grounded(tree, depth)' <=> Grounded(tree', depth')
      /\ Grounded(tree, depth - 1)' <=> Grounded(tree', depth' - 1)
  BY <1>1 DEF Grounded, AtDepth, IsAny
<1>3. Continues(tree, expected, depth)' <=> Continues(tree', expected', depth')
  BY <1>1 DEF Continues, From, RootsOf, Expecting, IsRoot, AtDepth, IsAny, Renamed,
     MappingAllowed, UsedUp, Mapped, Targets, Cert, Size
<1>4. Continues(tree, expected, depth - 1)' <=> Continues(tree', expected', depth' - 1)
  BY <1>1 DEF Continues, From, RootsOf, Expecting, IsRoot, AtDepth, IsAny, Renamed,
     MappingAllowed, UsedUp, Mapped, Targets, Cert, Size
<1>5. Arrives(tree, depth)' <=> Arrives(tree', depth')
  BY <1>1 DEF Arrives, Arriving, Own, From, RootsOf, Ending, IsRoot, AtDepth, Renamed, AnyAllowed,
     MappingAllowed, UsedUp, Mapped, Targets, Cert, Size
<1>. QED
  BY <1>2, <1>3, <1>4, <1>5

LEMMA CountersStayIn ==
  ASSUME path' = path
  PROVE  /\ IsCounter(explicit, Explicits, depth)' <=> IsCounter(explicit', Explicits, depth')
         /\ IsCounter(mapping, Mappings, depth)' <=> IsCounter(mapping', Mappings, depth')
         /\ IsCounter(inhibit, Inhibits, depth)' <=> IsCounter(inhibit', Inhibits, depth')
<1>1. /\ Explicits' = Explicits /\ Mappings' = Mappings /\ Inhibits' = Inhibits
  BY DEF Explicits, Mappings, Inhibits, Cert, Size
<1>. QED
  BY <1>1 DEF IsCounter, Reached, Count, Between, Cert, Size

LEMMA RightStays ==
  ASSUME path' = path, required' = required
  PROVE  /\ Size' = Size /\ (NamesAreOpen' <=> NamesAreOpen)
         /\ VerdictIsRight' <=> (pc' = "done" => (verdict' = "accepted" <=> Right))
<1>1. Size' = Size
  BY DEF Size
<1>2. NamesAreOpen' <=> NamesAreOpen
  BY DEF NamesAreOpen, Open, Subtree, Universe
<1>3. Graph' = Graph
  BY DEF Graph, Renamed, AnyAllowed, MappingAllowed, UsedUp, Mapped, Targets, Cert, Size
<1>4. PolicyRemains' <=> PolicyRemains
  BY <1>3 DEF PolicyRemains
<1>5. PolicyIsDue' <=> PolicyIsDue
  BY DEF PolicyIsDue, Cert, Size
<1>6. MapsAnyPolicy' <=> MapsAnyPolicy
  BY DEF MapsAnyPolicy, Cert, Size
<1>. QED
  BY <1>1, <1>2, <1>4, <1>5, <1>6 DEF VerdictIsRight, Right

\* The nodes of the tree.
LEMMA NodesAreHere ==
  ASSUME IInv, pc # "done"
  PROVE  /\ \A node \in tree : Len(node) \in Nat /\ Len(node) <= depth
         /\ \A d : NodesAre(tree, d)
         /\ Size \in Nat /\ depth \in Nat /\ depth >= 1 /\ PathIsWell
         /\ pc # "names" => depth \in 1..Size
<1>1. PathIsWell /\ AtWork
  BY DEF IInv
<1>2. Size \in Nat
  BY <1>1, SizeIsNat
<1>3. depth \in Nat /\ depth >= 1 /\ (pc # "names" => depth \in 1..Size)
  BY <1>1, <1>2 DEF AtWork
<1>4. \A node \in tree : IsVouched(node) /\ Len(node) <= depth
  BY <1>1 DEF AtWork
<1>5. ASSUME NEW node \in tree PROVE Len(node) \in Nat /\ IsNode(node, Len(node))
  BY <1>4 DEF IsVouched, IsNode
<1>6. \A d : NodesAre(tree, d)
  BY <1>5 DEF NodesAre, AtDepth
<1>. QED
  BY <1>1, <1>2, <1>3, <1>4, <1>5, <1>6

\* The root of the tree agrees with level 0.
LEMMA VerdictBegins == Init => VInv
<1> SUFFICES ASSUME Init PROVE VInv
  OBVIOUS
<1>1. PathIsWell
  BY Initially DEF IInv
<1>2. Size \in Nat /\ depth - 1 = 0 /\ depth = 1 /\ tree = {<< >>}
  BY <1>1, SizeIsNat DEF Init
<1>3. Levels[0] = Root /\ Root.all /\ \A p \in Policies : Root.stands[p] = {}
  BY <1>1, LevelsAre DEF Root, NoStands
<1>4. AtDepth(tree, 0) = {<< >>} /\ IsAny(<< >>)
  BY <1>2 DEF AtDepth, IsAny
<1>5. Grounded(tree, 0)
  BY <1>3, <1>4 DEF Grounded
<1>6. Continues(tree, expected, 0)
  <2>1. \A p : Expecting(tree, expected, 0, p) = {}
    BY <1>4 DEF Expecting
  <2>2. \A p : RootsOf(Expecting(tree, expected, 0, p)) = {}
    BY <2>1 DEF RootsOf
  <2>3. \A p : From(0 + 1, Levels[0], p) = {}
    BY DEF From
  <2>. QED
    BY <2>2, <2>3 DEF Continues
<1>7. TreeIs
  BY <1>2, <1>5, <1>6 DEF TreeIs, Init
<1>8. CountersAre
  <2>1. \A A : IsCounter(Len(path), A, 1)
    BY <1>1, CounterStarts
  <2>2. mapping = Len(path) /\ inhibit = Len(path) /\ depth = 1
        /\ (required = AnyPolicy => explicit = Len(path))
    BY DEF Init
  <2>. QED
    BY <2>1, <2>2 DEF CountersAre
<1>9. expected[AnyPolicy] = {AnyPolicy} /\ VerdictIsRight /\ pc = "names"
  BY DEF Init, VerdictIsRight
<1>. QED
  BY <1>7, <1>8, <1>9 DEF VInv

\* The names are checked first.
LEMMA NamesVerdict == IInv /\ VInv /\ CheckNames => VInv'
<1> SUFFICES ASSUME IInv, VInv, CheckNames PROVE VInv'
  OBVIOUS
<1>1. /\ pc = "names" /\ path' = path /\ required' = required /\ depth' = depth /\ tree' = tree
      /\ expected' = expected /\ explicit' = explicit /\ mapping' = mapping /\ inhibit' = inhibit
  BY DEF CheckNames, state
<1>2. PathIsWell /\ Size \in Nat /\ (NamesAreInside(path) <=> NamesAreOpen)
  BY <1>1, NodesAreHere, NamesAgree
<1>3. /\ ~NamesAreOpen => pc' = "done" /\ verdict' = "rejected"
      /\ NamesAreOpen /\ Size = 0 => pc' = "done" /\ verdict' = "accepted"
      /\ NamesAreOpen /\ Size > 0 => pc' = "tree"
  BY <1>2 DEF CheckNames, Finish
<1>4. VerdictIsRight' /\ Size' = Size /\ (NamesAreOpen' <=> NamesAreOpen)
  BY <1>1, <1>2, <1>3, RightStays DEF Right
<1>5. CountersAre /\ TreeIs /\ expected[AnyPolicy] = {AnyPolicy}
  BY <1>1 DEF VInv
<1>6. CountersAre'
  BY <1>1, <1>5, CountersStayIn DEF CountersAre
<1>7. pc' = "tree" => TreeIs'
  BY <1>1, <1>5, TreeStays DEF TreeIs
<1>. QED
  BY <1>1, <1>2, <1>3, <1>4, <1>5, <1>6, <1>7 DEF VInv

\* An empty tree where a policy is due rejects the path, and rightly.
LEMMA GrowVerdict == IInv /\ VInv /\ Grow => VInv'
<1> SUFFICES ASSUME IInv, VInv, Grow PROVE VInv'
  OBVIOUS
<1>1. /\ pc = "tree" /\ path' = path /\ required' = required /\ depth' = depth
      /\ explicit' = explicit /\ mapping' = mapping /\ inhibit' = inhibit
      /\ tree' = IF Cert(depth).asserts THEN Grown(Cert(depth)) ELSE {}
      /\ expected' = [p \in Policies \cup {AnyPolicy} |-> {p}]
  BY DEF Grow
<1>2. /\ PathIsWell /\ depth \in 1..Size /\ NodesAre(tree, depth - 1) /\ Size > 0
      /\ AtWork /\ (required # AnyPolicy => explicit = 0)
  BY <1>1, NodesAreHere DEF IInv
<1>3. /\ CountersAre /\ TreeIs /\ expected[AnyPolicy] = {AnyPolicy} /\ NamesAreOpen
  BY <1>1 DEF VInv
<1>4. Grounded(tree, depth - 1) /\ Continues(tree, expected, depth - 1)
  BY <1>1, <1>3 DEF TreeIs
<1>5. Grounded(tree', depth) /\ Arrives(tree', depth)
  <2>1. CASE Cert(depth).asserts
    <3>1. AllExpect
      BY <1>1, <1>2, <1>3 DEF AllExpect, AtWork
    <3>2. AnyPolicy \in Cert(depth).policies =>
            (AnyCounts(Cert(depth), IsLast) <=> AnyAllowed(depth))
      BY <1>2, <1>3, AllowedIs DEF CountersAre, AnyCounts, IsLast
    <3>3. \A node \in tree : Len(node) \in Nat /\ Len(node) <= depth - 1
      BY <1>1, <1>2, NodesAreHere DEF AtWork
    <3>4. Growing
      BY <1>2, <3>1, <3>2, <3>3 DEF Growing
    <3>. QED
      BY <1>1, <1>4, <2>1, <3>4, GrownAgrees
  <2>2. CASE ~Cert(depth).asserts
    BY <1>1, <1>2, <2>2, NothingAgrees
  <2>. QED
    BY <2>1, <2>2
<1>6. /\ explicit = 0 /\ tree' = {} => pc' = "done" /\ verdict' = "rejected"
      /\ ~(explicit = 0 /\ tree' = {}) => pc' \in {"wrap", "mappings"}
  BY DEF Grow, Finish
<1>7. explicit = 0 /\ tree' = {} => ~Right
  <2> SUFFICES ASSUME explicit = 0, tree' = {} PROVE ~Right
    OBVIOUS
  <2>1. ~PolicyRemains
    BY <1>2, <1>5, EmptyTree
  <2>2. PolicyIsDue
    <3>1. CASE required = AnyPolicy
      BY <1>2, <1>3, <3>1, DueStays DEF CountersAre
    <3>2. CASE required # AnyPolicy
      BY <3>2 DEF PolicyIsDue
    <3>. QED
      BY <3>1, <3>2
  <2>. QED
    BY <1>2, <2>1, <2>2 DEF Right
<1>8. VerdictIsRight' /\ Size' = Size /\ (NamesAreOpen' <=> NamesAreOpen)
  BY <1>1, <1>6, <1>7, RightStays
<1>9. CountersAre'
  BY <1>1, <1>3, CountersStayIn DEF CountersAre
<1>10. pc' \in {"wrap", "mappings"} => TreeIs'
  BY <1>1, <1>5, TreeStays DEF TreeIs
<1>11. expected'[AnyPolicy] = {AnyPolicy}
  BY <1>1
<1>. QED
  BY <1>2, <1>3, <1>6, <1>8, <1>9, <1>10, <1>11 DEF VInv

\* So does a mapping of anyPolicy; any other one takes the level over to the next.
LEMMA MapVerdict == IInv /\ VInv /\ MapPolicies => VInv'
<1> SUFFICES ASSUME IInv, VInv, MapPolicies PROVE VInv'
  OBVIOUS
<1>1. /\ pc = "mappings" /\ path' = path /\ required' = required /\ depth' = depth
      /\ explicit' = explicit /\ mapping' = mapping /\ inhibit' = inhibit
  BY DEF MapPolicies
<1>2. /\ PathIsWell /\ depth \in 1..Size /\ NodesAre(tree, depth) /\ Size > 0 /\ Size \in Nat
      /\ AtWork /\ \A node \in tree : Len(node) \in Nat /\ Len(node) <= depth
  BY <1>1, NodesAreHere DEF IInv
<1>3. /\ CountersAre /\ TreeIs /\ expected[AnyPolicy] = {AnyPolicy} /\ NamesAreOpen
  BY <1>1 DEF VInv
<1>4. Grounded(tree, depth) /\ Arrives(tree, depth)
  BY <1>1, <1>3 DEF TreeIs
<1>5. ExpectsItself /\ depth \in 1..(Size - 1)
  <2>1. ExpectsItself /\ depth # Size
    BY <1>1, <1>2 DEF AtWork
  <2>. QED
    BY <1>2, <2>1
<1>6. Size' = Size /\ (NamesAreOpen' <=> NamesAreOpen)
  BY <1>1, RightStays
<1>7. CountersAre'
  BY <1>1, <1>3, CountersStayIn DEF CountersAre
<1>8. CASE \E m \in Cert(depth).maps : AnyPolicy \in {m[1], m[2]}
  <2>1. MapsAnyPolicy
    BY <1>5, <1>8 DEF MapsAnyPolicy
  <2>2. pc' = "done" /\ verdict' = "rejected"
    BY <1>8 DEF MapPolicies, Finish
  <2>3. VerdictIsRight'
    BY <1>1, <1>2, <2>1, <2>2, RightStays DEF Right
  <2>. QED
    BY <2>2, <2>3 DEF VInv
<1>9. CASE ~\E m \in Cert(depth).maps : AnyPolicy \in {m[1], m[2]}
  <2>1. /\ pc' = "limits"
        /\ mapping > 0 =>
             /\ tree' = Extended(Cert(depth))
             /\ expected' = [p \in DOMAIN expected |->
                  IF p \in Mapped(Cert(depth)) THEN Targets(Cert(depth), p) ELSE expected[p]]
        /\ ~(mapping > 0) => tree' = Deleted(Cert(depth)) /\ expected' = expected
    BY <1>9 DEF MapPolicies
  <2>2. mapping \in Nat /\ (mapping > 0 <=> MappingAllowed(depth))
    <3>1. mapping > 0 <=> MappingAllowed(depth)
      BY <1>2, <1>3, AllowedIs DEF CountersAre
    <3>. QED
      BY <1>3, <3>1 DEF CountersAre, IsCounter
  <2>3. Mapping
    BY <1>2, <1>5, <1>9, <2>2 DEF Mapping
  <2>4. /\ Mapped(Cert(depth)) \subseteq Policies /\ DOMAIN expected = PolicyIds
        /\ AnyPolicy \notin Policies /\ AnyPolicy \in PolicyIds
    BY <2>3, MappingHas, PolicyAssumption DEF PolicyIds
  <2>5. /\ Grounded(tree', depth) /\ Continues(tree', expected', depth)
        /\ expected'[AnyPolicy] = {AnyPolicy}
    <3>1. CASE mapping > 0
      <4>1. PICK E : E = expected'
        OBVIOUS
      <4>2. \A q \in PolicyIds : E[q] = IF q \in Mapped(Cert(depth)) THEN Targets(Cert(depth), q)
                                         ELSE expected[q]
        BY <2>1, <2>4, <3>1, <4>1
      <4>3. Grounded(tree', depth) /\ Continues(tree', E, depth)
        <5>1. \A q \in Policies : E[q] = IF q \in Mapped(Cert(depth)) THEN Targets(Cert(depth), q)
                                          ELSE expected[q]
          BY <4>2 DEF PolicyIds
        <5>. QED
          BY <1>4, <2>1, <2>3, <3>1, <5>1, ExtendedAgrees
      <4>4. E[AnyPolicy] = {AnyPolicy}
        BY <1>3, <2>4, <4>2
      <4>. QED
        BY <4>1, <4>3, <4>4
    <3>2. CASE ~(mapping > 0)
      BY <1>3, <1>4, <2>1, <2>3, <3>2, DeletedAgrees
    <3>. QED
      BY <3>1, <3>2
  <2>6. TreeIs'
    BY <1>1, <2>1, <2>5, TreeStays DEF TreeIs
  <2>7. VerdictIsRight'
    BY <2>1 DEF VerdictIsRight
  <2>. QED
    BY <1>2, <1>3, <1>6, <1>7, <2>1, <2>5, <2>6, <2>7 DEF VInv
<1>. QED
  BY <1>8, <1>9

\* On to the next certificate, with the counters of it.
LEMMA LimitVerdict == IInv /\ VInv /\ Limit => VInv'
<1> SUFFICES ASSUME IInv, VInv, Limit PROVE VInv'
  OBVIOUS
<1>1. /\ pc = "limits" /\ path' = path /\ required' = required /\ depth' = depth + 1
      /\ tree' = tree /\ expected' = expected /\ pc' = "tree"
  BY DEF Limit
<1>2. /\ PathIsWell /\ depth \in 1..Size /\ Size > 0 /\ Size \in Nat
  BY <1>1, NodesAreHere
<1>3. /\ CountersAre /\ TreeIs /\ expected[AnyPolicy] = {AnyPolicy} /\ NamesAreOpen
  BY <1>1 DEF VInv
<1>4. /\ \A j \in 1..depth : Explicits[j] \in Nat /\ Mappings[j] \in Nat /\ Inhibits[j] \in Nat
      /\ Explicits[depth] = Cert(depth).requireExplicit
      /\ Mappings[depth] = Cert(depth).inhibitMapping
      /\ Inhibits[depth] = Cert(depth).inhibitAny
  BY <1>2, LimitsAre
<1>5. CountersAre'
  <2>1. required = AnyPolicy => IsCounter(explicit', Explicits, depth')
    BY <1>1, <1>2, <1>3, <1>4, CounterSteps DEF Limit, CountersAre
  <2>2. IsCounter(mapping', Mappings, depth')
    BY <1>1, <1>2, <1>3, <1>4, CounterSteps DEF Limit, CountersAre
  <2>3. IsCounter(inhibit', Inhibits, depth')
    BY <1>1, <1>2, <1>3, <1>4, CounterSteps DEF Limit, CountersAre
  <2>. QED
    BY <1>1, <2>1, <2>2, <2>3, CountersStayIn DEF CountersAre
<1>6. TreeIs'
  <2>1. depth' - 1 = depth
    BY <1>1, <1>2
  <2>2. Grounded(tree', depth' - 1) /\ Continues(tree', expected', depth' - 1)
    BY <1>1, <1>3, <2>1 DEF TreeIs
  <2>. QED
    BY <1>1, <2>2, TreeStays DEF TreeIs
<1>7. Size' = Size /\ (NamesAreOpen' <=> NamesAreOpen) /\ VerdictIsRight'
  BY <1>1, RightStays
<1>. QED
  BY <1>1, <1>2, <1>3, <1>5, <1>6, <1>7 DEF VInv

\* The criterion of success.
LEMMA WrapUpVerdict == IInv /\ VInv /\ WrapUp => VInv'
<1> SUFFICES ASSUME IInv, VInv, WrapUp PROVE VInv'
  OBVIOUS
<1>1. /\ pc = "wrap" /\ path' = path /\ required' = required /\ pc' = "done"
      /\ explicit' = IF Cert(Size).requireExplicit = 0 THEN 0 ELSE Less(explicit)
      /\ tree' = Intersected
      /\ verdict' = IF explicit' > 0 \/ tree' # {} THEN "accepted" ELSE "rejected"
  BY DEF WrapUp, Finish
<1>2. /\ PathIsWell /\ depth = Size /\ Size > 0 /\ Size \in Nat /\ NodesAre(tree, Size)
      /\ \A node \in tree : Len(node) \in Nat /\ Len(node) <= Size
      /\ AnyIsNotMapped(Size - 1) /\ (required # AnyPolicy => explicit = 0)
  <2>1. AtWork
    BY <1>1 DEF IInv
  <2>2. depth = Size
    BY <1>1, <2>1 DEF AtWork
  <2>. QED
    BY <1>1, <2>1, <2>2, NodesAreHere DEF IInv, AtWork
<1>3. /\ CountersAre /\ TreeIs /\ NamesAreOpen
  BY <1>1 DEF VInv
<1>4. Wrapping
  BY <1>1, <1>2, <1>3 DEF Wrapping, TreeIs
<1>5. tree' # {} <=> PolicyRemains
  BY <1>1, <1>4, RemainsIs
<1>6. ~MapsAnyPolicy
  BY <1>2 DEF AnyIsNotMapped, MapsAnyPolicy
<1>7. explicit' > 0 <=> ~PolicyIsDue
  <2>1. CASE required = AnyPolicy
    <3>1. IsCounter(explicit, Explicits, Size) /\ explicit \in Nat
      BY <1>2, <1>3, <2>1 DEF CountersAre, IsCounter
    <3>2. PolicyIsDue <=> Cert(Size).requireExplicit = 0 \/ explicit <= 1
      BY <1>2, <2>1, <3>1, DueIs
    <3>. QED
      BY <1>1, <3>1, <3>2 DEF Less
  <2>2. CASE required # AnyPolicy
    BY <1>1, <1>2, <2>2 DEF PolicyIsDue, Less
  <2>. QED
    BY <2>1, <2>2
<1>8. VerdictIsRight'
  BY <1>1, <1>2, <1>3, <1>5, <1>6, <1>7, RightStays DEF Right
<1>. QED
  BY <1>1, <1>8 DEF VInv

LEMMA VerdictStutters == VInv /\ UNCHANGED vars => VInv'
<1> SUFFICES ASSUME VInv, UNCHANGED vars PROVE VInv'
  OBVIOUS
<1>1. /\ path' = path /\ required' = required /\ pc' = pc /\ depth' = depth /\ tree' = tree
      /\ expected' = expected /\ explicit' = explicit /\ mapping' = mapping
      /\ inhibit' = inhibit /\ verdict' = verdict
  BY DEF vars
<1>2. CountersAre' <=> CountersAre
  BY <1>1, CountersStayIn DEF CountersAre
<1>3. TreeIs' <=> TreeIs
  BY <1>1, TreeStays DEF TreeIs
<1>4. /\ Size' = Size /\ (NamesAreOpen' <=> NamesAreOpen)
      /\ VerdictIsRight' <=> VerdictIsRight
  BY <1>1, RightStays DEF VerdictIsRight, Right
<1>. QED
  BY <1>1, <1>2, <1>3, <1>4 DEF VInv

-----------------------------------------------------------------------------
\* Whatever the path: it is accepted exactly when its names are inside what every CA
\* above leaves open, no certificate maps anyPolicy, and where a policy is due one
\* remains in the graph; the tree and the counters never err on either side
\* (trust.rs:415-439, policy.rs:39-116).
THEOREM VerdictsAreRight == Spec => []VerdictIsRight
<1>1. IInv /\ VInv /\ [Next]_vars => VInv'
  BY NamesVerdict, GrowVerdict, MapVerdict, LimitVerdict, WrapUpVerdict, VerdictStutters DEF Next
<1>2. VInv => VerdictIsRight
  BY DEF VInv
<1>. QED
  BY Inductive, VerdictBegins, <1>1, <1>2, PTL DEF Spec
=============================================================================
