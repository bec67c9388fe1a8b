----------------------------- MODULE PathSearch -----------------------------
(***************************************************************************)
(* verify_chain and extend_path of src/src/trust.rs: depth-first search    *)
(* for a certification path from a leaf to a trusted root, with            *)
(* backtracking, a depth limit and a budget of candidate evaluations.      *)
(*                                                                         *)
(* The recursion is a stack of frames, one per certificate of the path.    *)
(* What the search asks about certificates is a PKI record:                *)
(*                                                                         *)
(*   leaf, roots, pool   the certificate judged, the trust store, and the  *)
(*                       candidate intermediates without duplicates        *)
(*   leafOk              its extensions and purpose (check_leaf_purpose)   *)
(*   issued              pairs <<child, issuer>> whose names match and     *)
(*                       whose signature verifies                          *)
(*   current             the certificates valid at the time of validation  *)
(*   usable              CA, keyCertSign, extensions understood            *)
(*   pathLen, selfIssued pathLenConstraint, and the self-issued ones       *)
(*   revoked             pairs <<child, issuer>> with revocation evidence  *)
(*   refused             the paths, from the leaf to a root, that finalize *)
(*                       refuses for their names or policies; any set, as  *)
(*                       the verdict on a path (module Policy) says        *)
(*                       nothing of the verdict on a longer one            *)
(*                                                                         *)
(* A definition right before another of the same parameters is the other   *)
(* with a likely mistake in it, used by no specification.                  *)
(***************************************************************************)
EXTENDS Integers, Sequences, FiniteSets, SequencesExt

CONSTANTS
  Pkis,       \* the PKIs to judge a leaf in
  MaxDepth,   \* MAX_DEPTH: intermediates on a path
  MaxBudget   \* MAX_CANDIDATE_EVALUATIONS

ASSUME LimitsAssumption == MaxDepth \in Nat /\ MaxBudget \in Nat
ASSUME PkisAssumption ==
  \A p \in Pkis : p.roots \in Seq(Range(p.roots)) /\ p.pool \in Seq(Range(p.pool))

VARIABLES
  pki,        \* the PKI of this call
  path,       \* the path so far, from the leaf up
  frames,     \* extend_path's activations: what each is at
  budget,     \* candidate evaluations left
  verdict,    \* ChainResult.trusted
  exhausted   \* history: the budget ran out

vars == <<pki, path, frames, budget, verdict, exhausted>>

Enter       == [phase |-> "enter", i |-> 0]
Roots(i)    == [phase |-> "roots", i |-> i]
Pool(i)     == [phase |-> "pool", i |-> i]
Top         == frames[Len(frames)]
Current     == path[Len(path)]
SetTop(f)   == frames' = [frames EXCEPT ![Len(frames)] = f]

-----------------------------------------------------------------------------
(* The checks.                                                             *)

\* finalize: name constraints and policies, over the whole path with its root.
FinalizesUnpushed(p, chain) == Front(chain) \notin p.refused
Finalizes(p, chain) == chain \notin p.refused

\* issued_by, revoked: one link of a path.
Link(p, child, issuer) ==
  <<child, issuer>> \in p.issued \ p.revoked

\* The non-self-issued intermediates that a pathLenConstraint counts.
AllBelow(p, chain) == Len(chain) - 1
CountedBelow(p, chain) ==
  Cardinality({k \in 2..Len(chain) : chain[k] \notin p.selfIssued})

\* The candidate may be the issuer of the last certificate of the path.
Admissible(p, chain, next) ==
  /\ Link(p, Last(chain), next)
  /\ next \in p.usable
  /\ CountedBelow(p, chain) <= p.pathLen[next]

-----------------------------------------------------------------------------
(* The search.                                                             *)

\* verify_chain: the leaf's own extensions and purpose are checked first.
Begin ==
  /\ verdict = "none" /\ path = << >>
  /\ IF pki.leafOk
     THEN path' = <<pki.leaf>> /\ frames' = <<Enter>> /\ UNCHANGED verdict
     ELSE verdict' = "untrusted" /\ UNCHANGED <<path, frames>>
  /\ UNCHANGED <<pki, budget, exhausted>>

Searching == verdict = "none" /\ path # << >>

Accept(chain) ==
  /\ path' = chain /\ verdict' = "trusted"
  /\ UNCHANGED <<pki, frames, exhausted>>

\* The candidate did not lead to a root: the caller goes on with its next one.
ResumeSame(fs) == fs
Resume(fs) ==
  IF fs = << >> THEN fs ELSE [fs EXCEPT ![Len(fs)].i = @ + 1]

GiveUpUnpopped ==
  /\ path' = path /\ frames' = Resume(Front(frames))
  /\ verdict' = IF Front(frames) = << >> THEN "untrusted" ELSE "none"
  /\ UNCHANGED <<pki, budget>>
GiveUp ==
  /\ path' = Front(path) /\ frames' = Resume(Front(frames))
  /\ verdict' = IF Front(path) = << >> THEN "untrusted" ELSE "none"
  /\ UNCHANGED <<pki, budget>>

\* spend: one candidate evaluation.
Spend == budget > 0 /\ budget' = budget - 1

\* A new activation of extend_path.
EnterFrame ==
  /\ Searching /\ Top = Enter
  /\ CASE Current \notin pki.current -> GiveUp /\ UNCHANGED exhausted
       [] Current \in pki.current /\ Current \in Range(pki.roots) ->
            IF Finalizes(pki, path) THEN Accept(path) /\ UNCHANGED budget
            ELSE GiveUp /\ UNCHANGED exhausted
       [] OTHER -> /\ SetTop(Roots(1))
                   /\ UNCHANGED <<pki, path, budget, verdict, exhausted>>

\* A trusted root that could have issued the current certificate.
TryRoot ==
  /\ Searching /\ Top.phase = "roots" /\ Top.i <= Len(pki.roots)
  /\ LET root  == pki.roots[Top.i]
         chain == Append(path, root)
     IN  /\ Spend
         /\ IF /\ Link(pki, Current, root) /\ root \in pki.current
               /\ Finalizes(pki, chain)
            THEN Accept(chain)
            ELSE SetTop(Roots(Top.i + 1)) /\ UNCHANGED <<pki, path, verdict, exhausted>>

RootsDone ==
  /\ Searching /\ Top.phase = "roots" /\ Top.i > Len(pki.roots)
  /\ Len(path) - 1 < MaxDepth
  /\ SetTop(Pool(1))
  /\ UNCHANGED <<pki, path, budget, verdict, exhausted>>

TooLong ==
  /\ Searching /\ Top.phase = "roots" /\ Top.i > Len(pki.roots)
  /\ Len(path) - 1 >= MaxDepth
  /\ GiveUp /\ UNCHANGED exhausted

\* A candidate already on the path is skipped, without an evaluation.
SkipNext ==
  /\ Searching /\ Top.phase = "pool" /\ Top.i <= Len(pki.pool)
  /\ pki.pool[Top.i] \in Range(path)
  /\ SetTop(Pool(Top.i + 1))
  /\ UNCHANGED <<pki, path, budget, verdict, exhausted>>

\* A candidate intermediate that could have issued the current certificate.
TryNext ==
  /\ Searching /\ Top.phase = "pool" /\ Top.i <= Len(pki.pool)
  /\ LET next == pki.pool[Top.i]
     IN  /\ next \notin Range(path)
         /\ Spend
         /\ IF Admissible(pki, path, next)
            THEN path' = Append(path, next) /\ frames' = Append(frames, Enter)
            ELSE SetTop(Pool(Top.i + 1)) /\ UNCHANGED path
  /\ UNCHANGED <<pki, verdict, exhausted>>

PoolDone ==
  /\ Searching /\ Top.phase = "pool" /\ Top.i > Len(pki.pool)
  /\ GiveUp /\ UNCHANGED exhausted

\* No budget for the next evaluation.
Exhaust ==
  /\ Searching /\ budget = 0
  /\ \/ Top.phase = "roots" /\ Top.i <= Len(pki.roots)
     \/ /\ Top.phase = "pool" /\ Top.i <= Len(pki.pool)
        /\ pki.pool[Top.i] \notin Range(path)
  /\ GiveUp /\ exhausted' = TRUE

Init ==
  /\ pki \in Pkis
  /\ path = << >> /\ frames = << >>
  /\ budget = MaxBudget /\ verdict = "none" /\ exhausted = FALSE

Next ==
  \/ Begin \/ EnterFrame \/ TryRoot \/ RootsDone \/ TooLong
  \/ SkipNext \/ TryNext \/ PoolDone \/ Exhaust

Spec == Init /\ [][Next]_vars

-----------------------------------------------------------------------------
(* What RFC 5280 asks of a path, whichever way it was found.               *)

\* chain goes from the leaf to a root of the store, link by link.
ValidPath(p, chain) ==
  LET n == Len(chain)
  IN  /\ p.leafOk /\ chain[1] = p.leaf /\ chain[n] \in Range(p.roots)
      /\ IsInjective(chain) /\ n - 2 <= MaxDepth
      /\ Range(chain) \subseteq p.current
      /\ \A k \in 1..(n - 1) : <<chain[k], chain[k + 1]>> \in p.issued \ p.revoked
      /\ \A k \in 2..(n - 1) :
           /\ chain[k] \in Range(p.pool) \cap p.usable
           /\ Cardinality({j \in 2..(k - 1) : chain[j] \notin p.selfIssued})
                <= p.pathLen[chain[k]]
      /\ chain \notin p.refused

\* Every way to get from the leaf to a root over certificates of the pool.
Routes(p) ==
  LET inner == UNION {[1..k -> Range(p.pool)] : k \in 0..MaxDepth}
  IN  {<<p.leaf>> \o s \o <<r>> : s \in inner, r \in Range(p.roots)} \cup {<<p.leaf>>}

\* No certificate of the path but the last is itself in the store.
MeetsOneRoot(p, chain) == \A k \in 1..(Len(chain) - 1) : chain[k] \notin Range(p.roots)

\* How far an activation is with its candidates, and the stack as a whole: the later
\* of two stacks is the one that is further on where they part.
Stage(f) == CASE f.phase = "enter" -> 0 [] f.phase = "roots" -> 1 [] f.phase = "pool" -> 2
FurtherOn(f, g) == Stage(f) < Stage(g) \/ (f.phase = g.phase /\ f.i < g.i)
Later(fs, gs) ==
  \E k \in 1..Len(gs) :
    /\ \A j \in 1..(k - 1) : j <= Len(fs) /\ gs[j] = fs[j]
    /\ k = Len(fs) + 1 \/ (k <= Len(fs) /\ FurtherOn(fs[k], gs[k]))

-----------------------------------------------------------------------------
(* Properties.                                                             *)

\* Type invariant: a frame per certificate, with its place in the lists.  The path is
\* what the frames are at.
TypeOK ==
  /\ path \in Seq({pki.leaf} \cup Range(pki.roots) \cup Range(pki.pool))
  /\ frames \in Seq([phase : {"enter", "roots", "pool"}, i : Nat])
  /\ budget \in 0..MaxBudget
  /\ verdict \in {"none", "trusted", "untrusted"} /\ exhausted \in BOOLEAN
  /\ verdict = "none" =>
       /\ Len(frames) = Len(path)
       /\ \A k \in 1..(Len(path) - 1) : path[k + 1] = pki.pool[frames[k].i]

\* trust.rs:240-249: a leaf is trusted only along a path that is valid in every
\* respect, although the checks on one certificate are made at different levels
\* of the recursion and those on the whole path only once a root is reached.
TrustIsJustified == verdict = "trusted" => ValidPath(pki, path)

\* trust.rs:329-331: "a rejected candidate is skipped, not fatal, so a later valid
\* issuer still gets its turn".  As long as the budget lasts, a leaf is rejected only
\* if there is no valid path that meets a root of the store at its end and not before,
\* whatever dead ends and cycles of cross-certificates came first.
NoPathIsMissed ==
  verdict = "untrusted" /\ ~exhausted =>
    ~\E chain \in Routes(pki) : ValidPath(pki, chain) /\ MeetsOneRoot(pki, chain)

\* trust.rs:289-292: a valid alternative chain, "e.g. under cross-signing", "can still
\* be found rather than abandoned".  The same of every valid path.  The search breaks
\* it: it stops at a certificate that is a root of the store (trust.rs:341-343), also
\* when finalize refuses the path to it and allows one that goes on above it.
NoPathIsAbandoned ==
  verdict = "untrusted" /\ ~exhausted => ~\E chain \in Routes(pki) : ValidPath(pki, chain)

\* trust.rs:344-411: the search only moves on: what it has tried as the continuation
\* of a path it never tries again as the continuation of that path, however often it
\* comes back from deeper levels of the recursion.
NothingIsTriedTwice == [][verdict' = "none" => Later(frames, frames')]_frames
=============================================================================
