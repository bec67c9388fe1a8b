-------------------------- MODULE PathSearchProofs --------------------------
(***************************************************************************)
(* Proofs about PathSearch, for every PKI, depth and budget: what the      *)
(* search trusts has a valid path, it finds the paths that meet one root,  *)
(* and it tries nothing twice.                                             *)
(***************************************************************************)
EXTENDS PathSearch, TLAPS

CertsOf(p) == {p.leaf} \cup Range(p.roots) \cup Range(p.pool)
Frames == [phase : {"enter", "roots", "pool"}, i : Nat]

\* What holds of a path at every level of the recursion, before a root is reached.
PartialPath(p, s) ==
  /\ s \in Seq(CertsOf(p)) /\ Len(s) >= 1
  /\ p.leafOk /\ s[1] = p.leaf
  /\ \A j, k \in 1..Len(s) : s[j] = s[k] => j = k
  /\ \A k \in 1..(Len(s) - 1) : <<s[k], s[k + 1]>> \in p.issued \ p.revoked
  /\ \A k \in 2..Len(s) :
       /\ s[k] \in Range(p.pool) \cap p.usable
       /\ Cardinality({j \in 2..(k - 1) : s[j] \notin p.selfIssued}) <= p.pathLen[s[k]]

\* What an activation of extend_path that has begun with its candidates has checked,
\* and that all but the newest are at the intermediate that the path goes on with.
FramesAreAt(p, s, fs) ==
  /\ Len(fs) = Len(s)
  /\ \A k \in 1..Len(fs) :
       /\ fs[k].phase # "enter" => s[k] \in p.current \ Range(p.roots) /\ fs[k].i >= 1
       /\ fs[k].phase = "pool" => k - 1 < MaxDepth
  /\ \A k \in 1..(Len(fs) - 1) :
       /\ fs[k].phase = "pool" /\ fs[k].i \in 1..Len(p.pool)
       /\ s[k + 1] = p.pool[fs[k].i]

BudgetKept == budget \in Nat /\ budget <= MaxBudget

IInv ==
  /\ pki \in Pkis /\ BudgetKept /\ exhausted \in BOOLEAN
  /\ path \in Seq(CertsOf(pki)) /\ frames \in Seq(Frames)
  /\ verdict \in {"none", "trusted", "untrusted"}
  /\ verdict = "none" /\ path = << >> => frames = << >>
  /\ verdict = "none" /\ path # << >> => PartialPath(pki, path) /\ FramesAreAt(pki, path, frames)
  /\ verdict = "trusted" => ValidPath(pki, path)

-----------------------------------------------------------------------------
(* Paths.                                                                  *)

\* A path without its last certificate.
LEMMA Shorter ==
  ASSUME NEW p, NEW s, PartialPath(p, s), Len(s) > 1
  PROVE  PartialPath(p, Front(s))
<1>1. s \in Seq(CertsOf(p)) /\ Len(s) \in Nat
  BY DEF PartialPath
<1>2. /\ Front(s) \in Seq(CertsOf(p)) /\ Len(Front(s)) = Len(s) - 1
      /\ \A k \in 1..(Len(s) - 1) : Front(s)[k] = s[k]
  BY <1>1 DEF Front
<1> DEFINE f == Front(s)
<1>3. \A k \in 2..Len(f) :
        {j \in 2..(k - 1) : f[j] \notin p.selfIssued} = {j \in 2..(k - 1) : s[j] \notin p.selfIssued}
  BY <1>1, <1>2, SMTT(30)
<1> HIDE DEF f
<1>4. f \in Seq(CertsOf(p)) /\ Len(f) = Len(s) - 1 /\ \A k \in 1..(Len(s) - 1) : f[k] = s[k]
  BY <1>2 DEF f
<1>5. \A k \in 2..Len(f) :
       /\ f[k] \in Range(p.pool) \cap p.usable
       /\ Cardinality({j \in 2..(k - 1) : f[j] \notin p.selfIssued}) <= p.pathLen[f[k]]
  <2> SUFFICES ASSUME NEW k \in 2..Len(f)
               PROVE  /\ f[k] \in Range(p.pool) \cap p.usable
                      /\ Cardinality({j \in 2..(k - 1) : f[j] \notin p.selfIssued}) <= p.pathLen[f[k]]
    OBVIOUS
  <2>1. k \in 2..Len(s) /\ f[k] = s[k]
    BY <1>1, <1>4
  <2>2. {j \in 2..(k - 1) : f[j] \notin p.selfIssued} = {j \in 2..(k - 1) : s[j] \notin p.selfIssued}
    BY <1>3
  <2>3. QED
    BY <2>1, <2>2 DEF PartialPath
<1>6. PartialPath(p, f)
  <2>1. Len(f) >= 1 /\ f[1] = p.leaf /\ p.leafOk
    BY <1>1, <1>4 DEF PartialPath
  <2>2. \A j, k \in 1..Len(f) : f[j] = f[k] => j = k
    BY <1>1, <1>4 DEF PartialPath
  <2>3. \A k \in 1..(Len(f) - 1) : <<f[k], f[k + 1]>> \in p.issued \ p.revoked
    BY <1>1, <1>4 DEF PartialPath
  <2>4. QED
    BY <1>4, <1>5, <2>1, <2>2, <2>3 DEF PartialPath
<1>7. QED
  BY <1>6 DEF f

\* A path and an intermediate that may have issued its last certificate.
LEMMA Longer ==
  ASSUME NEW p, NEW s, NEW next, PartialPath(p, s),
         next \in Range(p.pool), next \notin Range(s), Admissible(p, s, next)
  PROVE  PartialPath(p, Append(s, next))
<1>1. s \in Seq(CertsOf(p)) /\ Len(s) \in Nat /\ Len(s) >= 1 /\ next \in CertsOf(p)
  BY DEF PartialPath, CertsOf
<1>2. PICK f : f = Append(s, next)
  OBVIOUS
<1>3. /\ f \in Seq(CertsOf(p)) /\ Len(f) = Len(s) + 1 /\ f[Len(s) + 1] = next
      /\ \A k \in 1..Len(s) : f[k] = s[k]
  BY <1>1, <1>2
<1>4. \A k \in 1..Len(s) : s[k] # next
  BY <1>1 DEF Range
<1>5. \A k \in 2..Len(f) :
       /\ f[k] \in Range(p.pool) \cap p.usable
       /\ Cardinality({j \in 2..(k - 1) : f[j] \notin p.selfIssued}) <= p.pathLen[f[k]]
  <2> SUFFICES ASSUME NEW k \in 2..Len(f)
               PROVE  /\ f[k] \in Range(p.pool) \cap p.usable
                      /\ Cardinality({j \in 2..(k - 1) : f[j] \notin p.selfIssued}) <= p.pathLen[f[k]]
    OBVIOUS
  <2>1. {j \in 2..(k - 1) : f[j] \notin p.selfIssued} = {j \in 2..(k - 1) : s[j] \notin p.selfIssued}
    BY <1>1, <1>3
  <2>2. CASE k \in 2..Len(s)
    <3>1. f[k] = s[k]
      BY <1>1, <1>3, <2>2
    <3>2. s[k] \in Range(p.pool) \cap p.usable
            /\ Cardinality({j \in 2..(k - 1) : s[j] \notin p.selfIssued}) <= p.pathLen[s[k]]
      BY <2>2 DEF PartialPath
    <3>3. QED
      BY <2>1, <3>1, <3>2
  <2>3. CASE k = Len(s) + 1
    <3>1. f[k] = next /\ next \in p.usable
      BY <1>3, <2>3 DEF Admissible
    <3>2. {j \in 2..(k - 1) : s[j] \notin p.selfIssued} = {j \in 2..Len(s) : s[j] \notin p.selfIssued}
      BY <1>1, <2>3
    <3>3. Cardinality({j \in 2..Len(s) : s[j] \notin p.selfIssued}) <= p.pathLen[next]
      BY DEF Admissible, CountedBelow
    <3>4. QED
      BY <2>1, <3>1, <3>2, <3>3
  <2>4. QED
    BY <1>1, <1>3, <2>2, <2>3
<1>6. \A k \in 1..(Len(f) - 1) : <<f[k], f[k + 1]>> \in p.issued \ p.revoked
  <2> SUFFICES ASSUME NEW k \in 1..(Len(f) - 1)
               PROVE  <<f[k], f[k + 1]>> \in p.issued \ p.revoked
    OBVIOUS
  <2>1. CASE k < Len(s)
    BY <1>1, <1>3, <2>1 DEF PartialPath
  <2>2. CASE k = Len(s)
    <3>1. <<s[Len(s)], next>> \in p.issued \ p.revoked
      BY DEF Admissible, Link, Last
    <3>2. QED
      BY <1>1, <1>3, <2>2, <3>1, SMTT(30)
  <2>3. QED
    BY <1>1, <1>3, <2>1, <2>2
<1>7. \A j, k \in 1..Len(f) : f[j] = f[k] => j = k
  BY <1>1, <1>3, <1>4 DEF PartialPath
<1>8. Len(f) >= 1 /\ f[1] = p.leaf /\ p.leafOk
  BY <1>1, <1>3 DEF PartialPath
<1>9. PartialPath(p, f)
  BY <1>3, <1>5, <1>6, <1>7, <1>8 DEF PartialPath
<1>10. QED
  BY <1>2, <1>9

\* The last certificate of the path is itself a root.
LEMMA EndsAtRoot ==
  ASSUME NEW p, NEW s, PartialPath(p, s), Last(s) \in Range(p.roots),
         \A k \in 1..Len(s) : s[k] \in p.current, Len(s) - 2 <= MaxDepth, Finalizes(p, s)
  PROVE  ValidPath(p, s)
<1>1. s \in Seq(CertsOf(p)) /\ Len(s) \in Nat /\ Len(s) >= 1 /\ DOMAIN s = 1..Len(s)
  BY DEF PartialPath
<1>2. IsInjective(s) /\ Range(s) \subseteq p.current
  BY <1>1 DEF IsInjective, Range, PartialPath
<1>3. \A k \in 2..(Len(s) - 1) :
           /\ s[k] \in Range(p.pool) \cap p.usable
           /\ Cardinality({j \in 2..(k - 1) : s[j] \notin p.selfIssued}) <= p.pathLen[s[k]]
  BY <1>1 DEF PartialPath
<1>4. s[Len(s)] \in Range(p.roots)
  BY DEF Last
<1>5. QED
  BY <1>1, <1>2, <1>3, <1>4 DEF ValidPath, PartialPath, Finalizes

\* A root issued the last certificate of the path.
LEMMA ReachesRoot ==
  ASSUME NEW p, NEW s, NEW root, PartialPath(p, s), root \in Range(p.roots),
         \A k \in 1..Len(s) : s[k] \in p.current \ Range(p.roots), root \in p.current,
         Link(p, Last(s), root), Len(s) - 1 <= MaxDepth, Finalizes(p, Append(s, root))
  PROVE  ValidPath(p, Append(s, root))
<1>1. s \in Seq(CertsOf(p)) /\ Len(s) \in Nat /\ Len(s) >= 1 /\ root \in CertsOf(p)
  BY DEF PartialPath, CertsOf
<1>2. PICK f : f = Append(s, root)
  OBVIOUS
<1>3. /\ f \in Seq(CertsOf(p)) /\ Len(f) = Len(s) + 1 /\ f[Len(s) + 1] = root
      /\ DOMAIN f = 1..(Len(s) + 1) /\ \A k \in 1..Len(s) : f[k] = s[k]
  BY <1>1, <1>2
<1>4. IsInjective(f)
  BY <1>1, <1>3 DEF IsInjective, PartialPath
<1>5. Range(f) \subseteq p.current
  BY <1>1, <1>3 DEF Range
<1>6. \A k \in 1..(Len(f) - 1) : <<f[k], f[k + 1]>> \in p.issued \ p.revoked
  <2> SUFFICES ASSUME NEW k \in 1..(Len(f) - 1)
               PROVE  <<f[k], f[k + 1]>> \in p.issued \ p.revoked
    OBVIOUS
  <2>1. CASE k < Len(s)
    BY <1>1, <1>3, <2>1 DEF PartialPath
  <2>2. CASE k = Len(s)
    <3>1. <<s[Len(s)], root>> \in p.issued \ p.revoked
      BY DEF Link, Last
    <3>2. QED
      BY <1>1, <1>3, <2>2, <3>1, SMTT(30)
  <2>3. QED
    BY <1>1, <1>3, <2>1, <2>2
<1>7. \A k \in 2..(Len(f) - 1) :
           /\ f[k] \in Range(p.pool) \cap p.usable
           /\ Cardinality({j \in 2..(k - 1) : f[j] \notin p.selfIssued}) <= p.pathLen[f[k]]
  <2> SUFFICES ASSUME NEW k \in 2..(Len(f) - 1)
               PROVE  /\ f[k] \in Range(p.pool) \cap p.usable
                      /\ Cardinality({j \in 2..(k - 1) : f[j] \notin p.selfIssued}) <= p.pathLen[f[k]]
    OBVIOUS
  <2>1. {j \in 2..(k - 1) : f[j] \notin p.selfIssued} = {j \in 2..(k - 1) : s[j] \notin p.selfIssued}
    BY <1>1, <1>3
  <2>2. k \in 2..Len(s) /\ f[k] = s[k]
    BY <1>1, <1>3
  <2>3. QED
    BY <2>1, <2>2 DEF PartialPath
<1>8. p.leafOk /\ f[1] = p.leaf /\ f[Len(f)] \in Range(p.roots) /\ Len(f) - 2 <= MaxDepth
  BY <1>1, <1>3 DEF PartialPath
<1>9. f \notin p.refused
  BY <1>2 DEF Finalizes
<1>10. QED
  BY <1>2, <1>4, <1>5, <1>6, <1>7, <1>8, <1>9 DEF ValidPath

-----------------------------------------------------------------------------
(* The invariant.                                                          *)

LEMMA Initially == Init => IInv
<1> SUFFICES ASSUME Init PROVE IInv
  OBVIOUS
<1>1. BudgetKept
  BY LimitsAssumption DEF Init, BudgetKept
<1>2. << >> \in Seq(CertsOf(pki)) /\ << >> \in Seq(Frames)
  OBVIOUS
<1>3. QED
  BY <1>1, <1>2 DEF Init, IInv

LEMMA BeginKeeps == IInv /\ Begin => IInv'
<1> SUFFICES ASSUME IInv, Begin PROVE IInv'
  OBVIOUS
<1>1. CASE ~pki.leafOk
  BY <1>1 DEF Begin, IInv, BudgetKept
<1>2. CASE pki.leafOk
  <2>1. /\ path' = <<pki.leaf>> /\ frames' = <<Enter>> /\ pki' = pki /\ verdict' = verdict
        /\ verdict = "none" /\ budget' = budget /\ exhausted' = exhausted
    BY <1>2 DEF Begin
  <2>2. Enter \in Frames /\ Enter.phase = "enter" /\ pki.leaf \in CertsOf(pki)
    BY DEF Enter, Frames, CertsOf
  <2>3. path' \in Seq(CertsOf(pki)) /\ frames' \in Seq(Frames) /\ Len(path') = 1 /\ Len(frames') = 1
    BY <2>1, <2>2
  <2>4. PartialPath(pki, path')
    BY <1>2, <2>1, <2>3 DEF PartialPath
  <2>5. FramesAreAt(pki, path', frames')
    BY <2>1, <2>2, <2>3 DEF FramesAreAt
  <2>6. QED
    BY <2>1, <2>3, <2>4, <2>5 DEF IInv, BudgetKept
<1>3. QED
  BY <1>1, <1>2

\* What the search knows of its newest activation.
LEMMA AtTop ==
  ASSUME IInv, Searching
  PROVE  /\ PartialPath(pki, path) /\ FramesAreAt(pki, path, frames) /\ pki \in Pkis
         /\ path \in Seq(CertsOf(pki)) /\ frames \in Seq(Frames)
         /\ Len(path) \in Nat /\ Len(path) >= 1 /\ Len(frames) = Len(path)
         /\ Top = frames[Len(path)] /\ Top \in Frames /\ Current = path[Len(path)]
         /\ Current = Last(path) /\ verdict = "none"
<1>1. /\ PartialPath(pki, path) /\ FramesAreAt(pki, path, frames) /\ pki \in Pkis
      /\ path \in Seq(CertsOf(pki)) /\ frames \in Seq(Frames) /\ verdict = "none"
  BY DEF IInv, Searching
<1>2. Len(path) \in Nat /\ Len(path) >= 1 /\ Len(frames) = Len(path)
  BY <1>1 DEF PartialPath, FramesAreAt
<1>3. frames[Len(frames)] \in Frames
  BY <1>1, <1>2
<1>4. QED
  BY <1>1, <1>2, <1>3 DEF Top, Current, Last

\* The newest activation goes on to its next candidate.
LEMMA TopMoves ==
  ASSUME IInv, Searching, NEW f \in Frames, SetTop(f), pki' = pki, path' = path,
         verdict' = verdict, exhausted' = exhausted, BudgetKept',
         f.phase # "enter" => Current \in pki.current \ Range(pki.roots) /\ f.i >= 1,
         f.phase = "pool" => Len(path) - 1 < MaxDepth
  PROVE  IInv'
<1>1. /\ PartialPath(pki, path) /\ FramesAreAt(pki, path, frames)
      /\ frames \in Seq(Frames) /\ Len(frames) = Len(path) /\ Len(path) \in Nat /\ Len(path) >= 1
      /\ Current = path[Len(path)] /\ verdict = "none"
  BY AtTop
<1>2. /\ frames' \in Seq(Frames) /\ Len(frames') = Len(path) /\ frames'[Len(path)] = f
      /\ \A k \in 1..(Len(path) - 1) : frames'[k] = frames[k]
  BY <1>1 DEF SetTop
<1>3. FramesAreAt(pki, path, frames')
  <2>1. \A k \in 1..(Len(path) - 1) :
          /\ frames'[k].phase = "pool" /\ frames'[k].i \in 1..Len(pki.pool)
          /\ path[k + 1] = pki.pool[frames'[k].i]
    BY <1>1, <1>2 DEF FramesAreAt
  <2>2. \A k \in 1..Len(path) :
          /\ frames'[k].phase # "enter" => path[k] \in pki.current \ Range(pki.roots) /\ frames'[k].i >= 1
          /\ frames'[k].phase = "pool" => k - 1 < MaxDepth
    <3> SUFFICES ASSUME NEW k \in 1..Len(path)
                 PROVE  /\ frames'[k].phase # "enter" => path[k] \in pki.current \ Range(pki.roots) /\ frames'[k].i >= 1
                        /\ frames'[k].phase = "pool" => k - 1 < MaxDepth
      OBVIOUS
    <3>1. CASE k = Len(path)
      BY <1>1, <1>2, <3>1
    <3>2. CASE k # Len(path)
      <4>1. k \in 1..(Len(path) - 1) /\ k \in 1..Len(frames)
        BY <1>1, <3>2
      <4>2. frames'[k] = frames[k]
        BY <1>2, <4>1
      <4>3. QED
        BY <1>1, <4>1, <4>2 DEF FramesAreAt
    <3>3. QED
      BY <3>1, <3>2
  <2>3. QED
    BY <1>2, <2>1, <2>2 DEF FramesAreAt
<1>4. QED
  BY <1>1, <1>2, <1>3 DEF IInv

\* A candidate did not lead to a root: the path and the stack lose their last.
LEMMA GiveUpKeeps ==
  ASSUME IInv, Searching, path' = Front(path), frames' = Resume(Front(frames)),
         verdict' = IF Front(path) = << >> THEN "untrusted" ELSE "none",
         pki' = pki, budget' = budget, exhausted' \in BOOLEAN
  PROVE  IInv'
<1>1. /\ PartialPath(pki, path) /\ FramesAreAt(pki, path, frames) /\ path \in Seq(CertsOf(pki))
      /\ frames \in Seq(Frames) /\ Len(frames) = Len(path) /\ Len(path) \in Nat /\ Len(path) >= 1
  BY AtTop
<1>2. PICK s : s = Front(path)
  OBVIOUS
<1>3. PICK fs : fs = Front(frames)
  OBVIOUS
<1>4. /\ s \in Seq(CertsOf(pki)) /\ Len(s) = Len(path) - 1
      /\ \A k \in 1..(Len(path) - 1) : s[k] = path[k]
  BY <1>1, <1>2 DEF Front
<1>5. /\ fs \in Seq(Frames) /\ Len(fs) = Len(path) - 1
      /\ \A k \in 1..(Len(path) - 1) : fs[k] = frames[k]
  BY <1>1, <1>3 DEF Front
<1>6. BudgetKept'
  BY DEF IInv, BudgetKept
<1>7. CASE Len(path) = 1
  <2>1. s = << >> /\ fs = << >>
    BY <1>4, <1>5, <1>7
  <2>2. path' = << >> /\ frames' = << >> /\ verdict' = "untrusted"
    BY <1>2, <1>3, <2>1 DEF Resume
  <2>3. QED
    BY <1>6, <2>2 DEF IInv
<1>8. CASE Len(path) > 1
  <2>1. s # << >> /\ fs # << >>
    BY <1>1, <1>4, <1>5, <1>8
  <2>2. frames' = [fs EXCEPT ![Len(fs)].i = @ + 1] /\ path' = s /\ verdict' = "none"
    BY <1>2, <1>3, <2>1 DEF Resume
  <2>3. fs[Len(fs)] \in Frames
    BY <1>1, <1>5, <1>8
  <2>4. PICK f : f = [fs[Len(fs)] EXCEPT !.i = @ + 1]
    OBVIOUS
  <2>5. f \in Frames /\ f.phase = fs[Len(fs)].phase
    BY <2>3, <2>4 DEF Frames
  <2>6. frames' = [fs EXCEPT ![Len(fs)] = f]
    BY <2>2, <2>4
  <2>7. /\ frames' \in Seq(Frames) /\ Len(frames') = Len(path) - 1
        /\ \A k \in 1..(Len(path) - 1) :
             frames'[k].phase = frames[k].phase /\ frames'[k].i >= frames[k].i
        /\ \A k \in 1..(Len(path) - 2) : frames'[k] = frames[k]
    <3>1. /\ Len(frames') = Len(fs) /\ frames' \in Seq(Frames)
          /\ \A k \in 1..Len(fs) : frames'[k] = IF k = Len(fs) THEN f ELSE fs[k]
      BY <1>1, <1>5, <1>8, <2>5, <2>6
    <3>2. f.i >= fs[Len(fs)].i
      BY <2>3, <2>4 DEF Frames
    <3>3. \A k \in 1..Len(fs) : fs[k] \in Frames /\ fs[k].i \in Nat
      <4>1. \A k \in 1..Len(fs) : fs[k] \in Frames
        BY <1>5
      <4>2. \A x \in Frames : x.i \in Nat
        BY DEF Frames
      <4>3. QED
        BY <4>1, <4>2
    <3>4. \A k \in 1..Len(fs) : frames'[k].phase = fs[k].phase /\ frames'[k].i >= fs[k].i
      BY <2>5, <3>1, <3>2, <3>3
    <3>5. QED
      BY <1>1, <1>5, <3>1, <3>4
  <2>8. FramesAreAt(pki, s, frames')
    <3>1. ASSUME NEW k \in 1..(Len(path) - 1)
          PROVE  /\ frames'[k].phase = "pool" /\ s[k] = path[k] /\ frames'[k].i >= 1
                 /\ path[k] \in pki.current \ Range(pki.roots) /\ k - 1 < MaxDepth
      <4>1. k \in 1..Len(frames) /\ k \in 1..(Len(frames) - 1)
        BY <1>1
      <4>2. /\ frames[k].phase = "pool" /\ frames[k].i >= 1
            /\ path[k] \in pki.current \ Range(pki.roots) /\ k - 1 < MaxDepth
        BY <1>1, <4>1 DEF FramesAreAt
      <4>3. frames'[k].phase = "pool" /\ frames'[k].i >= frames[k].i
        BY <2>7, <4>2
      <4>4. frames[k].i \in Nat /\ frames'[k].i \in Nat
        <5>1. k \in 1..Len(frames') /\ frames[k] \in Frames /\ frames'[k] \in Frames
          BY <1>1, <2>7, <4>1
        <5>2. \A x \in Frames : x.i \in Nat
          BY DEF Frames
        <5>3. QED
          BY <5>1, <5>2
      <4>5. QED
        BY <1>4, <4>2, <4>3, <4>4
    <3>2. Len(frames') = Len(path) - 1 /\ Len(s) = Len(path) - 1
      BY <1>4, <2>7
    <3>3. ASSUME NEW k \in 1..(Len(path) - 2)
          PROVE  frames'[k].i \in 1..Len(pki.pool) /\ s[k + 1] = pki.pool[frames'[k].i]
      <4>1. k \in 1..(Len(frames) - 1) /\ k + 1 \in 1..(Len(path) - 1)
        BY <1>1
      <4>2. frames[k].i \in 1..Len(pki.pool) /\ path[k + 1] = pki.pool[frames[k].i]
        BY <1>1, <4>1 DEF FramesAreAt
      <4>3. frames'[k] = frames[k] /\ s[k + 1] = path[k + 1]
        BY <1>4, <2>7, <4>1
      <4>4. QED
        BY <4>2, <4>3
    <3>4. QED
      BY <1>1, <3>1, <3>2, <3>3 DEF FramesAreAt
  <2>9. PartialPath(pki, s)
    BY <1>1, <1>2, <1>8, Shorter
  <2>10. QED
    BY <1>4, <1>6, <2>1, <2>2, <2>7, <2>8, <2>9 DEF IInv
<1>9. QED
  BY <1>1, <1>7, <1>8

\* The search ends at a root.
LEMMA AcceptKeeps ==
  ASSUME IInv, NEW chain, Accept(chain), ValidPath(pki, chain),
         chain \in Seq(CertsOf(pki)), BudgetKept'
  PROVE  IInv'
  BY DEF Accept, IInv

\* The budget never grows.
LEMMA SpendKeeps == ASSUME IInv, Spend PROVE BudgetKept'
  BY LimitsAssumption DEF IInv, BudgetKept, Spend

LEMMA EnterKeeps == IInv /\ EnterFrame => IInv'
<1> SUFFICES ASSUME IInv, EnterFrame PROVE IInv'
  OBVIOUS
<1>1. Searching /\ Top = Enter
  BY DEF EnterFrame
<1>2. CASE Current \notin pki.current
  BY <1>1, <1>2, GiveUpKeeps DEF EnterFrame, GiveUp, IInv
<1>3. CASE Current \in pki.current /\ Current \in Range(pki.roots)
  <2>1. CASE ~Finalizes(pki, path)
    <3>1. GiveUp /\ exhausted' = exhausted
      BY <1>3, <2>1 DEF EnterFrame
    <3>2. QED
      BY <1>1, <3>1, GiveUpKeeps DEF GiveUp, IInv
  <2>2. CASE Finalizes(pki, path)
    <3>1. Accept(path) /\ budget' = budget
      BY <1>3, <2>2 DEF EnterFrame
    <3>2. /\ PartialPath(pki, path) /\ FramesAreAt(pki, path, frames) /\ Len(path) \in Nat
          /\ Len(path) >= 1 /\ Len(frames) = Len(path) /\ Current = path[Len(path)]
          /\ Current = Last(path) /\ path \in Seq(CertsOf(pki))
      BY <1>1, AtTop
    <3>3. ASSUME NEW k \in 1..(Len(path) - 1) PROVE path[k] \in pki.current /\ k - 1 < MaxDepth
      <4>1. frames[k].phase = "pool" /\ k \in 1..Len(frames)
        BY <3>2 DEF FramesAreAt
      <4>2. QED
        BY <3>2, <4>1 DEF FramesAreAt
    <3>4. ASSUME NEW k \in 1..Len(path) PROVE path[k] \in pki.current
      <4>1. k = Len(path) \/ k \in 1..(Len(path) - 1)
        BY <3>2
      <4>2. QED
        BY <1>3, <3>2, <3>3, <4>1
    <3>5. Len(path) - 2 <= MaxDepth
      <4>1. CASE Len(path) = 1
        BY <4>1, LimitsAssumption
      <4>2. CASE Len(path) > 1
        BY <3>2, <3>3, <4>2, LimitsAssumption
      <4>3. QED
        BY <3>2, <4>1, <4>2
    <3>6. ValidPath(pki, path)
      BY <1>3, <2>2, <3>2, <3>4, <3>5, EndsAtRoot
    <3>7. BudgetKept'
      BY <3>1 DEF IInv, BudgetKept
    <3>8. QED
      BY <3>1, <3>2, <3>6, <3>7, AcceptKeeps
  <2>3. QED
    BY <2>1, <2>2
<1>4. CASE Current \in pki.current /\ Current \notin Range(pki.roots)
  <2>1. /\ SetTop(Roots(1)) /\ pki' = pki /\ path' = path /\ budget' = budget
        /\ verdict' = verdict /\ exhausted' = exhausted
    BY <1>4 DEF EnterFrame
  <2>2. Roots(1) \in Frames /\ Roots(1).phase = "roots" /\ Roots(1).i >= 1
    BY DEF Roots, Frames
  <2>3. BudgetKept'
    BY <2>1 DEF IInv, BudgetKept
  <2>4. QED
    BY <1>1, <1>4, <2>1, <2>2, <2>3, TopMoves
<1>5. QED
  BY <1>2, <1>3, <1>4

\* At its roots, an activation has checked its certificate, and there is room for a root.
LEMMA AtRoots ==
  ASSUME IInv, Searching, Top.phase = "roots"
  PROVE  /\ \A k \in 1..Len(path) : path[k] \in pki.current \ Range(pki.roots)
         /\ Len(path) - 1 <= MaxDepth
<1>1. /\ FramesAreAt(pki, path, frames) /\ Len(path) \in Nat /\ Len(path) >= 1
      /\ Len(frames) = Len(path) /\ Top = frames[Len(path)]
  BY AtTop
<1>2. \A k \in 1..Len(path) : frames[k].phase # "enter"
  BY <1>1 DEF FramesAreAt
<1>3. ASSUME NEW k \in 1..(Len(path) - 1) PROVE k - 1 < MaxDepth
  <2>1. frames[k].phase = "pool" /\ k \in 1..Len(frames)
    BY <1>1 DEF FramesAreAt
  <2>2. QED
    BY <1>1, <2>1 DEF FramesAreAt
<1>4. CASE Len(path) = 1
  BY <1>1, <1>2, <1>4, LimitsAssumption DEF FramesAreAt
<1>5. CASE Len(path) > 1
  <2>1. Len(path) - 1 \in 1..(Len(path) - 1)
    BY <1>1, <1>5
  <2>2. Len(path) - 2 < MaxDepth
    BY <1>1, <1>3, <2>1
  <2>3. QED
    BY <1>1, <1>2, <2>2, LimitsAssumption DEF FramesAreAt
<1>6. QED
  BY <1>1, <1>4, <1>5

LEMMA RootKeeps == IInv /\ TryRoot => IInv'
<1> SUFFICES ASSUME IInv, TryRoot PROVE IInv'
  OBVIOUS
<1>1. Searching /\ Top.phase = "roots" /\ Top.i <= Len(pki.roots)
  BY DEF TryRoot
<1>2. PICK root : root = pki.roots[Top.i]
  OBVIOUS
<1>3. PICK chain : chain = Append(path, root)
  OBVIOUS
<1>4. /\ Spend
      /\ IF Link(pki, Current, root) /\ root \in pki.current /\ Finalizes(pki, chain)
         THEN Accept(chain)
         ELSE /\ SetTop(Roots(Top.i + 1))
              /\ pki' = pki /\ path' = path /\ verdict' = verdict /\ exhausted' = exhausted
  BY <1>2, <1>3 DEF TryRoot
<1>5. BudgetKept'
  BY <1>4, SpendKeeps
<1>6. /\ PartialPath(pki, path) /\ Current = Last(path) /\ path \in Seq(CertsOf(pki)) /\ pki \in Pkis
      /\ Top \in Frames /\ Len(path) \in Nat /\ Len(path) >= 1 /\ Current = path[Len(path)]
  BY <1>1, AtTop
<1>7. CASE Link(pki, Current, root) /\ root \in pki.current /\ Finalizes(pki, chain)
  <2>1. Accept(chain)
    BY <1>4, <1>7
  <2>2. root \in Range(pki.roots)
    <3>1. Top.i \in Nat /\ Top.i >= 1
      BY <1>1, <1>6, AtTop DEF Frames, FramesAreAt
    <3>2. pki.roots \in Seq(Range(pki.roots))
      BY <1>6, PkisAssumption
    <3>3. QED
      BY <1>1, <1>2, <3>1, <3>2
  <2>3. ValidPath(pki, chain)
    BY <1>1, <1>3, <1>6, <1>7, <2>2, AtRoots, ReachesRoot
  <2>4. chain \in Seq(CertsOf(pki))
    BY <1>3, <1>6, <2>2 DEF CertsOf
  <2>5. QED
    BY <1>5, <2>1, <2>3, <2>4, AcceptKeeps
<1>8. CASE ~(Link(pki, Current, root) /\ root \in pki.current /\ Finalizes(pki, chain))
  <2>1. /\ SetTop(Roots(Top.i + 1)) /\ pki' = pki /\ path' = path /\ verdict' = verdict
        /\ exhausted' = exhausted
    BY <1>4, <1>8
  <2>2. Roots(Top.i + 1) \in Frames /\ Roots(Top.i + 1).phase = "roots" /\ Roots(Top.i + 1).i >= 1
    BY <1>6 DEF Roots, Frames
  <2>3. Current \in pki.current \ Range(pki.roots)
    BY <1>1, <1>6, AtRoots
  <2>4. QED
    BY <1>1, <1>5, <2>1, <2>2, <2>3, TopMoves
<1>9. QED
  BY <1>7, <1>8

\* At its intermediates, an activation has checked its certificate, and there is room.
LEMMA AtPool ==
  ASSUME IInv, Searching, Top.phase = "pool"
  PROVE  /\ \A k \in 1..Len(path) : frames[k].phase = "pool"
         /\ Current \in pki.current \ Range(pki.roots) /\ Len(path) - 1 < MaxDepth
         /\ Top.i \in Nat /\ Top.i >= 1
<1>1. /\ FramesAreAt(pki, path, frames) /\ Len(path) \in Nat /\ Len(path) >= 1 /\ Top \in Frames
      /\ Len(frames) = Len(path) /\ Top = frames[Len(path)] /\ Current = path[Len(path)]
  BY AtTop
<1>2. QED
  BY <1>1 DEF FramesAreAt, Frames

LEMMA RootsDoneKeeps == IInv /\ RootsDone => IInv'
<1> SUFFICES ASSUME IInv, RootsDone PROVE IInv'
  OBVIOUS
<1>1. /\ Searching /\ Top.phase = "roots" /\ Len(path) - 1 < MaxDepth /\ SetTop(Pool(1)) /\ pki' = pki
      /\ path' = path /\ budget' = budget /\ verdict' = verdict /\ exhausted' = exhausted
  BY DEF RootsDone
<1>2. Current \in pki.current \ Range(pki.roots)
  BY <1>1, AtRoots, AtTop
<1>3. Pool(1) \in Frames /\ Pool(1).i >= 1
  BY DEF Pool, Frames
<1>4. BudgetKept'
  BY <1>1 DEF IInv, BudgetKept
<1>5. QED
  BY <1>1, <1>2, <1>3, <1>4, TopMoves

LEMMA SkipKeeps == IInv /\ SkipNext => IInv'
<1> SUFFICES ASSUME IInv, SkipNext PROVE IInv'
  OBVIOUS
<1>1. /\ Searching /\ Top.phase = "pool" /\ SetTop(Pool(Top.i + 1)) /\ pki' = pki
      /\ path' = path /\ budget' = budget /\ verdict' = verdict /\ exhausted' = exhausted
  BY DEF SkipNext
<1>2. Pool(Top.i + 1) \in Frames /\ Pool(Top.i + 1).i >= 1
  BY <1>1, AtPool DEF Pool, Frames
<1>3. BudgetKept'
  BY <1>1 DEF IInv, BudgetKept
<1>4. QED
  BY <1>1, <1>2, <1>3, AtPool, TopMoves

LEMMA NextKeeps == IInv /\ TryNext => IInv'
<1> SUFFICES ASSUME IInv, TryNext PROVE IInv'
  OBVIOUS
<1>1. Searching /\ Top.phase = "pool" /\ Top.i <= Len(pki.pool)
  BY DEF TryNext
<1>2. PICK next : next = pki.pool[Top.i]
  OBVIOUS
<1>3. /\ next \notin Range(path) /\ Spend
      /\ pki' = pki /\ verdict' = verdict /\ exhausted' = exhausted
      /\ IF Admissible(pki, path, next)
         THEN path' = Append(path, next) /\ frames' = Append(frames, Enter)
         ELSE SetTop(Pool(Top.i + 1)) /\ path' = path
  BY <1>2 DEF TryNext
<1>4. BudgetKept'
  BY <1>3, SpendKeeps
<1>5. /\ PartialPath(pki, path) /\ FramesAreAt(pki, path, frames) /\ path \in Seq(CertsOf(pki))
      /\ frames \in Seq(Frames) /\ Len(frames) = Len(path) /\ Len(path) \in Nat /\ Len(path) >= 1
      /\ pki \in Pkis /\ verdict = "none"
  BY <1>1, AtTop
<1>6. CASE Admissible(pki, path, next)
  <2>1. next \in Range(pki.pool)
    <3>1. Top.i \in Nat /\ Top.i >= 1
      BY <1>1, AtPool
    <3>2. pki.pool \in Seq(Range(pki.pool))
      BY <1>5, PkisAssumption
    <3>3. QED
      BY <1>1, <1>2, <3>1, <3>2
  <2>2. PICK s : s = Append(path, next)
    OBVIOUS
  <2>3. PICK fs : fs = Append(frames, Enter)
    OBVIOUS
  <2>4. path' = s /\ frames' = fs
    BY <1>3, <1>6, <2>2, <2>3
  <2>5. PartialPath(pki, s)
    BY <1>3, <1>5, <1>6, <2>1, <2>2, Longer
  <2>6. /\ s \in Seq(CertsOf(pki)) /\ Len(s) = Len(path) + 1
        /\ \A k \in 1..Len(path) : s[k] = path[k]
    BY <1>5, <2>1, <2>2 DEF CertsOf
  <2>7. Enter \in Frames /\ Enter.phase = "enter"
    BY DEF Enter, Frames
  <2>8. /\ fs \in Seq(Frames) /\ Len(fs) = Len(path) + 1 /\ fs[Len(path) + 1] = Enter
        /\ \A k \in 1..Len(path) : fs[k] = frames[k]
    BY <1>5, <2>3, <2>7
  <2>9. ASSUME NEW k \in 1..(Len(fs) - 1)
        PROVE  /\ fs[k].phase = "pool" /\ fs[k].i \in 1..Len(pki.pool)
               /\ s[k + 1] = pki.pool[fs[k].i]
    <3>1. k \in 1..Len(path) /\ fs[k] = frames[k] /\ fs[k].phase = "pool"
      BY <1>1, <1>5, <2>8, AtPool
    <3>2. CASE k < Len(path)
      <4>1. k \in 1..(Len(frames) - 1) /\ k + 1 \in 1..Len(path)
        BY <1>5, <3>1, <3>2
      <4>2. frames[k].i \in 1..Len(pki.pool) /\ path[k + 1] = pki.pool[frames[k].i]
        BY <1>5, <4>1 DEF FramesAreAt
      <4>3. QED
        BY <2>6, <3>1, <4>1, <4>2
    <3>3. CASE k = Len(path)
      <4>1. fs[k] = Top /\ Top.i \in Nat /\ Top.i >= 1
        BY <1>1, <1>5, <3>1, <3>3, AtPool DEF Top
      <4>2. s[k + 1] = next /\ pki.pool \in Seq(Range(pki.pool))
        BY <1>5, <2>2, <3>3, PkisAssumption
      <4>3. Top.i \in 1..Len(pki.pool)
        BY <1>1, <4>1, <4>2
      <4>4. QED
        BY <1>2, <3>1, <4>1, <4>2, <4>3
    <3>4. QED
      BY <1>5, <3>1, <3>2, <3>3
  <2>10. ASSUME NEW k \in 1..Len(fs)
         PROVE  /\ fs[k].phase # "enter" => s[k] \in pki.current \ Range(pki.roots) /\ fs[k].i >= 1
                /\ fs[k].phase = "pool" => k - 1 < MaxDepth
    <3>1. CASE k = Len(path) + 1
      BY <2>7, <2>8, <3>1
    <3>2. CASE k \in 1..Len(path)
      BY <1>5, <2>6, <2>8, <3>2 DEF FramesAreAt
    <3>3. QED
      BY <1>5, <2>8, <3>1, <3>2
  <2>11. FramesAreAt(pki, s, fs)
    BY <2>6, <2>8, <2>9, <2>10 DEF FramesAreAt
  <2>12. QED
    BY <1>3, <1>4, <1>5, <2>4, <2>5, <2>6, <2>8, <2>11 DEF IInv
<1>7. CASE ~Admissible(pki, path, next)
  <2>1. SetTop(Pool(Top.i + 1)) /\ path' = path
    BY <1>3, <1>7
  <2>2. Pool(Top.i + 1) \in Frames /\ Pool(Top.i + 1).i >= 1
    BY <1>1, AtPool DEF Pool, Frames
  <2>3. QED
    BY <1>1, <1>3, <1>4, <2>1, <2>2, AtPool, TopMoves
<1>8. QED
  BY <1>6, <1>7

\* The invariant holds at first and is kept by every branch of extend_path
\* (trust.rs:256-411).
THEOREM Inductive == Spec => []IInv
<1>1. IInv /\ [Next]_vars => IInv'
  <2> SUFFICES ASSUME IInv, [Next]_vars PROVE IInv'
    OBVIOUS
  <2>1. CASE UNCHANGED vars
    BY <2>1 DEF vars, IInv, BudgetKept
  <2>2. CASE TooLong
    BY <2>2, GiveUpKeeps DEF TooLong, GiveUp, IInv
  <2>3. CASE PoolDone
    BY <2>3, GiveUpKeeps DEF PoolDone, GiveUp, IInv
  <2>4. CASE Exhaust
    BY <2>4, GiveUpKeeps DEF Exhaust, GiveUp
  <2>5. QED
    BY <2>1, <2>2, <2>3, <2>4, BeginKeeps, EnterKeeps, RootKeeps, RootsDoneKeeps, SkipKeeps, NextKeeps
       DEF Next
<1>2. QED
  BY Initially, <1>1, PTL DEF Spec

-----------------------------------------------------------------------------
(* The properties.                                                         *)

\* Type correctness: the stack has an activation for every certificate of the path,
\* and each is at the candidate that the path goes on with.
THEOREM Types == Spec => []TypeOK
<1>1. IInv => TypeOK
  <2> SUFFICES ASSUME IInv PROVE TypeOK
    OBVIOUS
  <2>1. budget \in 0..MaxBudget
    BY LimitsAssumption DEF IInv, BudgetKept
  <2>2. path \in Seq({pki.leaf} \cup Range(pki.roots) \cup Range(pki.pool))
    BY DEF IInv, CertsOf
  <2>3. frames \in Seq([phase : {"enter", "roots", "pool"}, i : Nat])
    BY DEF IInv, Frames
  <2>4. ASSUME verdict = "none"
        PROVE  /\ Len(frames) = Len(path)
               /\ \A k \in 1..(Len(path) - 1) : path[k + 1] = pki.pool[frames[k].i]
    <3>1. CASE path = << >>
      BY <2>4, <3>1 DEF IInv
    <3>2. CASE path # << >>
      BY <2>4, <3>2 DEF IInv, FramesAreAt
    <3>3. QED
      BY <3>1, <3>2
  <2>5. QED
    BY <2>1, <2>2, <2>3, <2>4 DEF IInv, TypeOK
<1>2. QED
  BY Inductive, <1>1, PTL

\* Whatever the PKI: a leaf is trusted only along a path that is valid in every
\* respect (trust.rs:240-249).
THEOREM OnlyValidPathsAreTrusted == Spec => []TrustIsJustified
<1>1. IInv => TrustIsJustified
  BY DEF IInv, TrustIsJustified
<1>2. QED
  BY Inductive, <1>1, PTL

-----------------------------------------------------------------------------
(* The search moves on.                                                    *)

\* The newest activation is further on than it was.
LEMMA TopIsLater ==
  ASSUME IInv, Searching, NEW f, SetTop(f), FurtherOn(Top, f)
  PROVE  Later(frames, frames')
<1>1. /\ frames \in Seq(Frames) /\ Len(frames) = Len(path) /\ Len(path) \in Nat /\ Len(path) >= 1
      /\ Top = frames[Len(path)]
  BY AtTop
<1>2. /\ Len(frames') = Len(frames) /\ frames'[Len(frames)] = f
      /\ \A k \in 1..(Len(frames) - 1) : frames'[k] = frames[k]
  BY <1>1 DEF SetTop
<1>3. Len(frames) \in 1..Len(frames')
  BY <1>1, <1>2
<1>4. \A j \in 1..(Len(frames) - 1) : j <= Len(frames) /\ frames'[j] = frames[j]
  BY <1>1, <1>2
<1>5. FurtherOn(frames[Len(frames)], frames'[Len(frames)]) /\ Len(frames) <= Len(frames)
  BY <1>1, <1>2
<1>6. QED
  BY <1>3, <1>4, <1>5 DEF Later

\* A caller goes on with its next candidate.
LEMMA GiveUpIsLater ==
  ASSUME IInv, Searching, GiveUp, verdict' = "none"
  PROVE  Later(frames, frames')
<1>1. /\ frames \in Seq(Frames) /\ Len(frames) = Len(path) /\ Len(path) \in Nat /\ Len(path) >= 1
      /\ path \in Seq(CertsOf(pki))
  BY AtTop
<1>2. PICK fs : fs = Front(frames)
  OBVIOUS
<1>3. /\ fs \in Seq(Frames) /\ Len(fs) = Len(frames) - 1
      /\ \A k \in 1..(Len(frames) - 1) : fs[k] = frames[k]
  BY <1>1, <1>2 DEF Front
<1>4. Len(frames) > 1
  <2>1. Front(path) # << >>
    BY DEF GiveUp
  <2>2. CASE Len(path) = 1
    BY <1>1, <2>1, <2>2 DEF Front
  <2>3. QED
    BY <1>1, <2>2
<1>5. fs # << >> /\ Len(fs) \in 1..Len(fs) /\ fs[Len(fs)] \in Frames
  BY <1>1, <1>3, <1>4
<1>6. PICK f : f = [fs[Len(fs)] EXCEPT !.i = @ + 1]
  OBVIOUS
<1>7. f \in Frames /\ FurtherOn(fs[Len(fs)], f)
  BY <1>5, <1>6 DEF Frames, FurtherOn
<1>8. frames' = [fs EXCEPT ![Len(fs)] = f]
  BY <1>2, <1>5, <1>6 DEF GiveUp, Resume
<1>9. /\ Len(frames') = Len(fs) /\ frames'[Len(fs)] = f
      /\ \A k \in 1..(Len(fs) - 1) : frames'[k] = fs[k]
  BY <1>3, <1>5, <1>8
<1>10. Len(fs) \in 1..Len(frames') /\ Len(fs) <= Len(frames)
  BY <1>1, <1>3, <1>5, <1>9
<1>11. \A j \in 1..(Len(fs) - 1) : j <= Len(frames) /\ frames'[j] = frames[j]
  BY <1>1, <1>3, <1>9
<1>12. FurtherOn(frames[Len(fs)], frames'[Len(fs)])
  BY <1>3, <1>5, <1>7, <1>9
<1>13. QED
  BY <1>10, <1>11, <1>12 DEF Later

\* A new activation is on top of the others.
LEMMA PushIsLater ==
  ASSUME frames \in Seq(Frames), frames' = Append(frames, Enter)
  PROVE  Later(frames, frames')
<1>1. /\ Len(frames) \in Nat /\ Len(frames') = Len(frames) + 1
      /\ \A k \in 1..Len(frames) : frames'[k] = frames[k]
  BY DEF Enter, Frames
<1>2. Len(frames) + 1 \in 1..Len(frames')
  BY <1>1
<1>3. \A j \in 1..((Len(frames) + 1) - 1) : j <= Len(frames) /\ frames'[j] = frames[j]
  BY <1>1
<1>4. QED
  BY <1>2, <1>3 DEF Later

\* One step of the search.
LEMMA StepIsLater == IInv /\ Next /\ verdict' = "none" => frames' = frames \/ Later(frames, frames')
<1> SUFFICES ASSUME IInv, Next, verdict' = "none" PROVE frames' = frames \/ Later(frames, frames')
  OBVIOUS
<1>1. CASE Begin
  <2>1. frames = << >> /\ frames' = <<Enter>>
    BY <1>1 DEF Begin, IInv
  <2>2. frames \in Seq(Frames) /\ frames' = Append(frames, Enter)
    BY <2>1
  <2>3. QED
    BY <2>2, PushIsLater
<1>2. CASE EnterFrame
  <2>1. Searching /\ Top = Enter
    BY <1>2 DEF EnterFrame
  <2>2. CASE GiveUp
    BY <2>1, <2>2, GiveUpIsLater
  <2>3. CASE SetTop(Roots(1))
    <3>1. FurtherOn(Top, Roots(1))
      BY <2>1 DEF FurtherOn, Stage, Enter, Roots
    <3>2. QED
      BY <2>1, <2>3, <3>1, TopIsLater
  <2>4. ~\E chain : Accept(chain)
    BY DEF Accept
  <2>5. GiveUp \/ SetTop(Roots(1)) \/ Accept(path)
    BY <1>2 DEF EnterFrame
  <2>6. QED
    BY <2>2, <2>3, <2>4, <2>5
<1>3. CASE TryRoot
  <2>1. Searching /\ Top.phase = "roots" /\ Top \in Frames
    BY <1>3, AtTop DEF TryRoot
  <2>2. SetTop(Roots(Top.i + 1))
    BY <1>3 DEF TryRoot, Accept
  <2>3. FurtherOn(Top, Roots(Top.i + 1))
    BY <2>1 DEF FurtherOn, Roots, Frames
  <2>4. QED
    BY <2>1, <2>2, <2>3, TopIsLater
<1>4. CASE RootsDone
  <2>1. Searching /\ Top.phase = "roots" /\ SetTop(Pool(1))
    BY <1>4 DEF RootsDone
  <2>2. FurtherOn(Top, Pool(1))
    BY <2>1 DEF FurtherOn, Stage, Pool
  <2>3. QED
    BY <2>1, <2>2, TopIsLater
<1>5. CASE SkipNext \/ TryNext
  <2>1. Searching /\ Top.phase = "pool" /\ Top \in Frames
    BY <1>5, AtTop DEF SkipNext, TryNext
  <2>2. CASE SetTop(Pool(Top.i + 1))
    <3>1. FurtherOn(Top, Pool(Top.i + 1))
      BY <2>1 DEF FurtherOn, Pool, Frames
    <3>2. QED
      BY <2>1, <2>2, <3>1, TopIsLater
  <2>3. CASE frames' = Append(frames, Enter)
    BY <2>3, PushIsLater DEF IInv
  <2>4. QED
    BY <1>5, <2>2, <2>3 DEF SkipNext, TryNext
<1>6. CASE TooLong \/ PoolDone \/ Exhaust
  BY <1>6, GiveUpIsLater DEF TooLong, PoolDone, Exhaust
<1>7. QED
  BY <1>1, <1>2, <1>3, <1>4, <1>5, <1>6 DEF Next

\* Whatever the PKI: every step of the search is a step forward in the order of the
\* stacks, so no candidate is tried twice on one path (trust.rs:344-411).
THEOREM TheSearchMovesOn == Spec => NothingIsTriedTwice
<1>1. IInv /\ [Next]_vars => [verdict' = "none" => Later(frames, frames')]_frames
  BY StepIsLater DEF vars
<1>2. QED
  BY Inductive, <1>1, PTL DEF Spec, NothingIsTriedTwice

-----------------------------------------------------------------------------
(* Completeness: a valid path is found or is still ahead of the search.     *)

\* An activation at the k-th certificate of v has not yet passed the candidate that
\* goes on with v.  It has begun with its after-th candidate from f.i on.
Untried(p, f, v, k, after) ==
  /\ f.phase = "roots" =>
       /\ k < Len(v)
       /\ k + 1 = Len(v) => \E m \in 1..Len(p.roots) : m >= f.i /\ p.roots[m] = v[k + 1]
  /\ f.phase = "pool" =>
       /\ k + 1 < Len(v)
       /\ \E m \in 1..Len(p.pool) : m >= f.i + after /\ p.pool[m] = v[k + 1]

\* The path leaves v at its k-th certificate, and the activation there has v ahead.
LeavesAt(p, s, fs, v, k) ==
  /\ k \in 1..Len(s) /\ k <= Len(v) /\ \A j \in 1..k : v[j] = s[j]
  /\ Untried(p, fs[k], v, k, IF k = Len(s) THEN 0 ELSE 1)
Ahead(p, s, fs, v) == \E k \in 1..Len(s) : LeavesAt(p, s, fs, v, k)

\* The valid paths that meet a root at their end and not before.
ValidRoutes(p) == {v \in Routes(p) : ValidPath(p, v) /\ MeetsOneRoot(p, v)}

NoneLost ==
  ~exhausted =>
    /\ verdict = "none" /\ path # << >> => \A v \in ValidRoutes(pki) : Ahead(pki, path, frames, v)
    /\ verdict = "untrusted" => ValidRoutes(pki) = {}

\* What is used of a valid route.
LEMMA ARoute ==
  ASSUME NEW p, p \in Pkis, NEW v \in ValidRoutes(p)
  PROVE  /\ v \in Seq(CertsOf(p)) /\ Len(v) \in Nat /\ Len(v) >= 1 /\ DOMAIN v = 1..Len(v)
         /\ p.leafOk /\ v[1] = p.leaf /\ v[Len(v)] \in Range(p.roots)
         /\ \A j, k \in 1..Len(v) : v[j] = v[k] => j = k
         /\ \A k \in 1..Len(v) : v[k] \in p.current
<1>1. v \in Routes(p) /\ ValidPath(p, v)
  BY DEF ValidRoutes
<1>2. v \in Seq(CertsOf(p)) /\ Len(v) \in Nat /\ Len(v) >= 1
  <2>1. CASE v = <<p.leaf>>
    <3>1. p.leaf \in CertsOf(p)
      BY DEF CertsOf
    <3>2. QED
      BY <2>1, <3>1
  <2>2. CASE v # <<p.leaf>>
    <3> DEFINE
           inner == UNION {[1..k -> Range(p.pool)] : k \in 0..MaxDepth}
           route(s, r) == <<p.leaf>> \o s \o <<r>>
           long == {route(s, r) : s \in inner, r \in Range(p.roots)}
    <3>a. Routes(p) = long \cup {<<p.leaf>>}
      BY DEF Routes
    <3>0. v \in long
      <4> HIDE DEF long
      <4> QED
        BY <1>1, <2>2, <3>a
    <3>1. PICK s \in inner, r \in Range(p.roots) : v = route(s, r)
      <4> HIDE DEF inner, route
      <4> QED
        BY <3>0
    <3>2. PICK k \in 0..MaxDepth : s \in [1..k -> Range(p.pool)]
      BY <3>1
    <3>3. s \in Seq(Range(p.pool))
      BY <3>2, LimitsAssumption
    <3>4. s \in Seq(CertsOf(p)) /\ r \in CertsOf(p) /\ p.leaf \in CertsOf(p)
      BY <3>3 DEF CertsOf
    <3>5. QED
      BY <3>1, <3>4
  <2>3. QED
    BY <2>1, <2>2
<1>3. DOMAIN v = 1..Len(v)
  BY <1>2
<1>4. QED
  BY <1>1, <1>2, <1>3 DEF ValidPath, IsInjective, Range

\* What a valid route says of its intermediates.
Counted(p, v, k) == {j \in 2..(k - 1) : v[j] \notin p.selfIssued}
LEMMA InnerOfRoute ==
  ASSUME NEW p, NEW v \in ValidRoutes(p), NEW i, i \in 2..(Len(v) - 1)
  PROVE  v[i] \in Range(p.pool) /\ v[i] \in p.usable /\ Cardinality(Counted(p, v, i)) <= p.pathLen[v[i]]
<1>1. ValidPath(p, v)
  BY DEF ValidRoutes
<1>2. \A k \in 2..(Len(v) - 1) :
        v[k] \in Range(p.pool) \cap p.usable /\ Cardinality(Counted(p, v, k)) <= p.pathLen[v[k]]
  BY <1>1, Zenon DEF ValidPath, Counted
<1>3. QED
  BY <1>2

\* A path that agrees with a route to the end is the route, and finalize accepts it.
LEMMA RouteFinalizes ==
  ASSUME NEW p, p \in Pkis, NEW v \in ValidRoutes(p), NEW s, s \in Seq(CertsOf(p)),
         Len(s) = Len(v), \A j \in 1..Len(s) : v[j] = s[j]
  PROVE  Finalizes(p, s)
<1>1. v \in Seq(CertsOf(p)) /\ v \notin p.refused
  BY ARoute DEF ValidRoutes, ValidPath
<1>2. v = s
  BY <1>1
<1>3. QED
  BY <1>1, <1>2 DEF Finalizes

\* Giving up a candidate loses no route that does not go through it.
LEMMA GiveUpLosesNone ==
  ASSUME IInv, NoneLost, Searching, path' = Front(path), frames' = Resume(Front(frames)),
         verdict' = IF Front(path) = << >> THEN "untrusted" ELSE "none",
         pki' = pki, exhausted' = exhausted,
         ~exhausted => \A v \in ValidRoutes(pki) : ~LeavesAt(pki, path, frames, v, Len(path))
  PROVE  NoneLost'
<1>1. /\ path \in Seq(CertsOf(pki)) /\ frames \in Seq(Frames) /\ Len(frames) = Len(path)
      /\ Len(path) \in Nat /\ Len(path) >= 1 /\ verdict = "none" /\ path # << >>
  BY AtTop
<1>2. PICK s : s = Front(path)
  OBVIOUS
<1>3. PICK fs : fs = Front(frames)
  OBVIOUS
<1>4. /\ s \in Seq(CertsOf(pki)) /\ Len(s) = Len(path) - 1
      /\ \A k \in 1..(Len(path) - 1) : s[k] = path[k]
  BY <1>1, <1>2 DEF Front
<1>5. /\ fs \in Seq(Frames) /\ Len(fs) = Len(path) - 1
      /\ \A k \in 1..(Len(path) - 1) : fs[k] = frames[k]
  BY <1>1, <1>3 DEF Front
<1>6. SUFFICES ASSUME ~exhausted
               PROVE  /\ verdict' = "none" /\ path' # << >> =>
                           \A v \in ValidRoutes(pki) : Ahead(pki, path', frames', v)
                      /\ verdict' = "untrusted" => ValidRoutes(pki) = {}
  BY DEF NoneLost
<1>7. \A v \in ValidRoutes(pki) : \E k \in 1..(Len(path) - 1) : LeavesAt(pki, path, frames, v, k)
  <2> SUFFICES ASSUME NEW v \in ValidRoutes(pki)
               PROVE  \E k \in 1..(Len(path) - 1) : LeavesAt(pki, path, frames, v, k)
    OBVIOUS
  <2>1. PICK k \in 1..Len(path) : LeavesAt(pki, path, frames, v, k)
    BY <1>1, <1>6 DEF NoneLost, Ahead
  <2>2. k # Len(path)
    BY <1>6, <2>1
  <2>3. k \in 1..(Len(path) - 1)
    BY <1>1, <2>2
  <2>4. QED
    BY <2>1, <2>3
<1>8. ASSUME Len(path) = 1 PROVE ValidRoutes(pki) = {}
  BY <1>1, <1>7, <1>8
<1>9. CASE Len(path) = 1
  <2>1. path' = << >>
    BY <1>2, <1>4, <1>9
  <2>2. QED
    BY <1>8, <1>9, <2>1
<1>10. CASE Len(path) > 1
  <2>1. s # << >> /\ fs # << >>
    BY <1>1, <1>4, <1>5, <1>10
  <2>2. frames' = [fs EXCEPT ![Len(fs)].i = @ + 1] /\ path' = s /\ verdict' = "none"
    BY <1>2, <1>3, <2>1 DEF Resume
  <2>3. PICK f : f = [fs[Len(fs)] EXCEPT !.i = @ + 1]
    OBVIOUS
  <2>4. fs[Len(fs)] \in Frames
    BY <1>1, <1>5, <1>10
  <2>5. f \in Frames /\ f.phase = fs[Len(fs)].phase /\ f.i = fs[Len(fs)].i + 1
    BY <2>3, <2>4 DEF Frames
  <2>6. \A k \in 1..Len(fs) : frames'[k] = IF k = Len(fs) THEN f ELSE fs[k]
    BY <1>5, <2>2, <2>3
  <2>7. ASSUME NEW v \in ValidRoutes(pki) PROVE Ahead(pki, s, frames', v)
    <3>1. PICK k \in 1..(Len(path) - 1) : LeavesAt(pki, path, frames, v, k)
      BY <1>7
    <3>2. k \in 1..Len(s) /\ k \in 1..Len(path) /\ k # Len(path)
      BY <1>1, <1>4
    <3>3. k <= Len(v) /\ Untried(pki, frames[k], v, k, 1) /\ \A j \in 1..k : v[j] = path[j]
      BY <3>1, <3>2 DEF LeavesAt
    <3>4. \A j \in 1..k : v[j] = s[j]
      <4>1. \A j \in 1..k : j \in 1..(Len(path) - 1)
        BY <1>1
      <4>2. QED
        BY <1>4, <3>3, <4>1
    <3>5. CASE k = Len(s)
      <4>1. frames'[k] = f /\ fs[k] = frames[k] /\ k = Len(fs)
        BY <1>4, <1>5, <2>6, <3>2, <3>5
      <4>2. f.phase = frames[k].phase /\ f.i + 0 = frames[k].i + 1 /\ f.i \in Nat /\ frames[k].i \in Nat
        <5>1. frames[k] \in Frames
          BY <1>1, <3>2
        <5>2. QED
          BY <2>5, <4>1, <5>1 DEF Frames
      <4>3. Untried(pki, f, v, k, 0)
        <5>1. ASSUME f.phase = "roots"
              PROVE  /\ k < Len(v)
                     /\ k + 1 = Len(v) => \E m \in 1..Len(pki.roots) : m >= f.i /\ pki.roots[m] = v[k + 1]
          <6>1. frames[k].phase = "pool"
            BY <1>1, AtTop, <3>1 DEF FramesAreAt
          <6>2. QED
            BY <4>2, <5>1, <6>1
        <5>2. ASSUME f.phase = "pool"
              PROVE  /\ k + 1 < Len(v)
                     /\ \E m \in 1..Len(pki.pool) : m >= f.i + 0 /\ pki.pool[m] = v[k + 1]
          BY <3>3, <4>2, <5>2 DEF Untried
        <5>3. QED
          BY <5>1, <5>2 DEF Untried
      <4>4. LeavesAt(pki, s, frames', v, k)
        BY <3>2, <3>3, <3>4, <3>5, <4>1, <4>3 DEF LeavesAt
      <4>5. QED
        BY <3>2, <4>4 DEF Ahead
    <3>6. CASE k # Len(s)
      <4>1. frames'[k] = frames[k]
        BY <1>4, <1>5, <2>6, <3>2, <3>6
      <4>2. LeavesAt(pki, s, frames', v, k)
        BY <3>2, <3>3, <3>4, <3>6, <4>1 DEF LeavesAt
      <4>3. QED
        BY <3>2, <4>2 DEF Ahead
    <3>7. QED
      BY <3>5, <3>6
  <2>8. QED
    BY <2>2, <2>7
<1>11. QED
  BY <1>1, <1>9, <1>10

\* The newest activation goes on: a route that it had ahead it still has ahead.
LEMMA MoveLosesNone ==
  ASSUME IInv, NoneLost, Searching, NEW f \in Frames, SetTop(f), pki' = pki, path' = path,
         verdict' = verdict, exhausted' = exhausted,
         ASSUME NEW v \in ValidRoutes(pki), LeavesAt(pki, path, frames, v, Len(path))
         PROVE  Untried(pki, f, v, Len(path), 0)
  PROVE  NoneLost'
<1>1. /\ frames \in Seq(Frames) /\ Len(frames) = Len(path) /\ Len(path) \in Nat /\ Len(path) >= 1
      /\ verdict = "none" /\ path # << >>
  BY AtTop
<1>2. \A k \in 1..Len(path) : frames'[k] = IF k = Len(path) THEN f ELSE frames[k]
  BY <1>1 DEF SetTop
<1>3. SUFFICES ASSUME ~exhausted, NEW v \in ValidRoutes(pki)
               PROVE  Ahead(pki, path, frames', v)
  BY <1>1 DEF NoneLost
<1>4. PICK k \in 1..Len(path) : LeavesAt(pki, path, frames, v, k)
  BY <1>1, <1>3 DEF NoneLost, Ahead
<1>5. CASE k = Len(path)
  <2>1. Untried(pki, f, v, Len(path), 0)
    BY <1>4, <1>5
  <2>2. LeavesAt(pki, path, frames', v, k)
    BY <1>2, <1>4, <1>5, <2>1 DEF LeavesAt
  <2>3. QED
    BY <2>2 DEF Ahead
<1>6. CASE k # Len(path)
  <2>1. LeavesAt(pki, path, frames', v, k)
    BY <1>2, <1>4, <1>6 DEF LeavesAt
  <2>2. QED
    BY <2>1 DEF Ahead
<1>7. QED
  BY <1>5, <1>6

LEMMA BeginLosesNone == IInv /\ NoneLost /\ Begin => NoneLost'
<1> SUFFICES ASSUME IInv, NoneLost, Begin PROVE NoneLost'
  OBVIOUS
<1>0. pki \in Pkis
  BY DEF IInv
<1>1. CASE ~pki.leafOk
  <2>1. pki' = pki /\ exhausted' = exhausted /\ path' = << >>
    BY <1>1 DEF Begin
  <2>2. ValidRoutes(pki) = {}
    BY <1>0, <1>1, ARoute
  <2>3. QED
    BY <2>1, <2>2 DEF NoneLost
<1>2. CASE pki.leafOk
  <2>1. /\ path' = <<pki.leaf>> /\ frames' = <<Enter>> /\ pki' = pki /\ verdict' = "none"
        /\ exhausted' = exhausted
    BY <1>2 DEF Begin
  <2>2. ASSUME NEW v \in ValidRoutes(pki) PROVE Ahead(pki, path', frames', v)
    <3>1. Len(v) \in Nat /\ Len(v) >= 1 /\ v[1] = pki.leaf
      BY <1>0, ARoute
    <3>2. Len(path') = 1 /\ path'[1] = pki.leaf /\ frames'[1] = Enter
      BY <2>1
    <3>3. Untried(pki, Enter, v, 1, 0)
      BY DEF Untried, Enter
    <3>4. LeavesAt(pki, path', frames', v, 1)
      BY <3>1, <3>2, <3>3 DEF LeavesAt
    <3>5. QED
      BY <3>2, <3>4 DEF Ahead
  <2>3. QED
    BY <2>1, <2>2 DEF NoneLost
<1>3. QED
  BY <1>1, <1>2

LEMMA EnterLosesNone == IInv /\ NoneLost /\ EnterFrame => NoneLost'
<1> SUFFICES ASSUME IInv, NoneLost, EnterFrame PROVE NoneLost'
  OBVIOUS
<1>1. Searching /\ Top = Enter
  BY DEF EnterFrame
<1>2. /\ pki \in Pkis /\ path \in Seq(CertsOf(pki)) /\ Len(path) \in Nat /\ Len(path) >= 1
      /\ Current = path[Len(path)]
  BY <1>1, AtTop
<1>3. CASE Current \notin pki.current
  <2>1. ASSUME NEW v \in ValidRoutes(pki) PROVE ~LeavesAt(pki, path, frames, v, Len(path))
    BY <1>2, <1>3, ARoute DEF LeavesAt
  <2>2. QED
    BY <1>1, <1>3, <2>1, GiveUpLosesNone DEF EnterFrame, GiveUp
<1>4. CASE Current \in pki.current /\ Current \in Range(pki.roots)
  <2>1. CASE ~Finalizes(pki, path)
    <3>1. GiveUp /\ exhausted' = exhausted
      BY <1>4, <2>1 DEF EnterFrame
    <3>2. ASSUME NEW v \in ValidRoutes(pki) PROVE ~LeavesAt(pki, path, frames, v, Len(path))
      <4> SUFFICES ASSUME LeavesAt(pki, path, frames, v, Len(path)) PROVE FALSE
        OBVIOUS
      <4>1. Len(path) <= Len(v) /\ \A j \in 1..Len(path) : v[j] = path[j]
        BY DEF LeavesAt
      <4>2. Len(v) \in Nat /\ \A k \in 1..(Len(v) - 1) : v[k] \notin Range(pki.roots)
        BY <1>2, ARoute DEF ValidRoutes, MeetsOneRoot
      <4>3. v[Len(path)] \in Range(pki.roots)
        BY <1>2, <1>4, <4>1
      <4>4. Len(path) = Len(v)
        BY <1>2, <4>1, <4>2, <4>3
      <4>5. QED
        BY <1>2, <2>1, <4>1, <4>4, RouteFinalizes
    <3>3. QED
      BY <1>1, <3>1, <3>2, GiveUpLosesNone DEF GiveUp
  <2>2. CASE Finalizes(pki, path)
    BY <1>4, <2>2 DEF EnterFrame, Accept, NoneLost
  <2>3. QED
    BY <2>1, <2>2
<1>5. CASE Current \in pki.current /\ Current \notin Range(pki.roots)
  <2>1. /\ SetTop(Roots(1)) /\ pki' = pki /\ path' = path /\ verdict' = verdict
        /\ exhausted' = exhausted
    BY <1>5 DEF EnterFrame
  <2>2. Roots(1) \in Frames
    BY DEF Roots, Frames
  <2>3. ASSUME NEW v \in ValidRoutes(pki), LeavesAt(pki, path, frames, v, Len(path))
        PROVE  Untried(pki, Roots(1), v, Len(path), 0)
    <3>1. Len(path) <= Len(v) /\ v[Len(path)] = Current /\ Len(v) \in Nat
            /\ v[Len(v)] \in Range(pki.roots)
      BY <1>2, <2>3, ARoute DEF LeavesAt
    <3>2. Len(path) < Len(v)
      BY <1>2, <1>5, <3>1
    <3>3. pki.roots \in Seq(Range(pki.roots))
      BY <1>2, PkisAssumption
    <3>4. PICK m \in 1..Len(pki.roots) : pki.roots[m] = v[Len(v)]
      BY <3>1, <3>3, SMTT(30) DEF Range
    <3>5. QED
      BY <3>2, <3>4 DEF Untried, Roots
  <2>4. QED
    BY <1>1, <2>1, <2>2, <2>3, MoveLosesNone
<1>6. QED
  BY <1>3, <1>4, <1>5

\* A root that is next on a valid route is accepted.
LEMMA RouteIsAccepted ==
  ASSUME IInv, Searching, Top.phase = "roots", NEW v \in ValidRoutes(pki),
         LeavesAt(pki, path, frames, v, Len(path)), Len(path) + 1 = Len(v), NEW root, root = v[Len(v)]
  PROVE  Link(pki, Current, root) /\ root \in pki.current /\ Finalizes(pki, Append(path, root))
<1>1. /\ pki \in Pkis /\ path \in Seq(CertsOf(pki)) /\ Len(path) \in Nat /\ Len(path) >= 1
      /\ Current = path[Len(path)]
  BY AtTop
<1>2. /\ Len(v) \in Nat /\ v \in Seq(CertsOf(pki)) /\ \A k \in 1..Len(v) : v[k] \in pki.current
      /\ \A j \in 1..Len(path) : v[j] = path[j]
  BY <1>1, ARoute DEF LeavesAt
<1>3. <<v[Len(path)], v[Len(path) + 1]>> \in pki.issued \ pki.revoked
  BY <1>1, <1>2 DEF ValidRoutes, ValidPath
<1>4. PICK s : s = Append(path, root)
  OBVIOUS
<1>5. /\ s \in Seq(CertsOf(pki)) /\ Len(s) = Len(path) + 1 /\ s[Len(path) + 1] = root
      /\ \A j \in 1..Len(path) : s[j] = path[j]
  <2>1. root \in CertsOf(pki)
    BY <1>1, <1>2
  <2>2. QED
    BY <1>1, <1>4, <2>1
<1>6. \A j \in 1..Len(s) : v[j] = s[j]
  BY <1>1, <1>2, <1>5
<1>7. Finalizes(pki, s)
  BY <1>1, <1>2, <1>5, <1>6, RouteFinalizes
<1>8. <<Current, root>> \in pki.issued \ pki.revoked /\ root \in pki.current
  <2>1. v[Len(path)] = Current /\ v[Len(path) + 1] = root
    BY <1>1, <1>2
  <2>2. QED
    BY <1>1, <1>2, <1>3, <2>1
<1>9. QED
  BY <1>4, <1>7, <1>8 DEF Link

LEMMA RootLosesNone == IInv /\ NoneLost /\ TryRoot => NoneLost'
<1> SUFFICES ASSUME IInv, NoneLost, TryRoot PROVE NoneLost'
  OBVIOUS
<1>1. Searching /\ Top.phase = "roots" /\ Top.i <= Len(pki.roots)
  BY DEF TryRoot
<1>2. PICK root : root = pki.roots[Top.i]
  OBVIOUS
<1>3. /\ Top \in Frames /\ Top = frames[Len(path)] /\ Len(path) \in Nat /\ Len(path) >= 1
      /\ pki \in Pkis
  BY <1>1, AtTop
<1>4. CASE Link(pki, Current, root) /\ root \in pki.current /\ Finalizes(pki, Append(path, root))
  <2>1. Accept(Append(path, root))
    BY <1>2, <1>4 DEF TryRoot
  <2>2. verdict' = "trusted"
    BY <2>1 DEF Accept
  <2>3. QED
    BY <2>2 DEF NoneLost
<1>5. CASE ~(Link(pki, Current, root) /\ root \in pki.current /\ Finalizes(pki, Append(path, root)))
  <2>1. /\ SetTop(Roots(Top.i + 1)) /\ pki' = pki /\ path' = path /\ verdict' = verdict
        /\ exhausted' = exhausted
    BY <1>2, <1>5 DEF TryRoot
  <2>2. Roots(Top.i + 1) \in Frames /\ Top.i \in Nat
    BY <1>3 DEF Roots, Frames
  <2>3. ASSUME NEW v \in ValidRoutes(pki), LeavesAt(pki, path, frames, v, Len(path))
        PROVE  Untried(pki, Roots(Top.i + 1), v, Len(path), 0)
    <3>1. Untried(pki, Top, v, Len(path), 0)
      BY <1>3, <2>3 DEF LeavesAt
    <3>2. Len(path) < Len(v)
      BY <1>1, <3>1 DEF Untried
    <3>3. ASSUME Len(path) + 1 = Len(v)
          PROVE  \E m \in 1..Len(pki.roots) : m >= Top.i + 1 /\ pki.roots[m] = v[Len(path) + 1]
      <4>1. PICK m \in 1..Len(pki.roots) : m >= Top.i /\ pki.roots[m] = v[Len(path) + 1]
        BY <1>1, <3>1, <3>3 DEF Untried
      <4>2. m # Top.i
        BY <1>1, <1>2, <1>5, <2>3, <3>3, <4>1, RouteIsAccepted
      <4>3. QED
        BY <2>2, <4>1, <4>2
    <3>4. QED
      BY <3>2, <3>3 DEF Untried, Roots
  <2>4. QED
    BY <1>1, <2>1, <2>2, <2>3, MoveLosesNone
<1>6. QED
  BY <1>4, <1>5

\* A route that goes on past the roots has room for another intermediate.
LEMMA RoomForMore ==
  ASSUME IInv, Searching, Top.phase = "roots", Top.i > Len(pki.roots),
         NEW v \in ValidRoutes(pki), LeavesAt(pki, path, frames, v, Len(path))
  PROVE  Len(path) + 1 < Len(v) /\ Len(path) - 1 < MaxDepth
<1>1. /\ Top \in Frames /\ Top = frames[Len(path)] /\ Len(path) \in Nat /\ Len(path) >= 1
      /\ pki \in Pkis
  BY AtTop
<1>2. Len(v) \in Nat /\ Len(v) - 2 <= MaxDepth
  BY <1>1, ARoute DEF ValidRoutes, ValidPath
<1>3. Untried(pki, Top, v, Len(path), 0)
  BY <1>1 DEF LeavesAt
<1>4. pki.roots \in Seq(Range(pki.roots)) /\ Top.i \in Nat
  BY <1>1, PkisAssumption DEF Frames
<1>5. Len(path) < Len(v) /\ Len(path) + 1 # Len(v)
  BY <1>3, <1>4 DEF Untried
<1>6. QED
  BY <1>1, <1>2, <1>5, LimitsAssumption

LEMMA RootsDoneLosesNone == IInv /\ NoneLost /\ RootsDone => NoneLost'
<1> SUFFICES ASSUME IInv, NoneLost, RootsDone PROVE NoneLost'
  OBVIOUS
<1>1. /\ Searching /\ Top.phase = "roots" /\ Top.i > Len(pki.roots) /\ SetTop(Pool(1)) /\ pki' = pki
      /\ path' = path /\ verdict' = verdict /\ exhausted' = exhausted
  BY DEF RootsDone
<1>2. Pool(1) \in Frames /\ pki \in Pkis /\ Len(path) \in Nat /\ Len(path) >= 1
  BY <1>1, AtTop DEF Pool, Frames
<1>3. ASSUME NEW v \in ValidRoutes(pki), LeavesAt(pki, path, frames, v, Len(path))
      PROVE  Untried(pki, Pool(1), v, Len(path), 0)
  <2>1. Len(path) + 1 < Len(v) /\ Len(v) \in Nat
    BY <1>1, <1>2, <1>3, RoomForMore, ARoute
  <2>2. v[Len(path) + 1] \in Range(pki.pool)
    <3>1. Len(path) + 1 \in 2..(Len(v) - 1)
      BY <1>2, <2>1
    <3>2. QED
      BY <3>1, InnerOfRoute
  <2>3. pki.pool \in Seq(Range(pki.pool))
    BY <1>2, PkisAssumption
  <2>4. PICK m \in 1..Len(pki.pool) : pki.pool[m] = v[Len(path) + 1]
    BY <2>2, <2>3 DEF Range
  <2>5. QED
    BY <2>1, <2>4 DEF Untried, Pool
<1>4. QED
  BY <1>1, <1>2, <1>3, MoveLosesNone

LEMMA TooLongLosesNone == IInv /\ NoneLost /\ TooLong => NoneLost'
<1> SUFFICES ASSUME IInv, NoneLost, TooLong PROVE NoneLost'
  OBVIOUS
<1>1. /\ Searching /\ Top.phase = "roots" /\ Top.i > Len(pki.roots) /\ Len(path) - 1 >= MaxDepth
      /\ GiveUp /\ exhausted' = exhausted
  BY DEF TooLong
<1>2. Len(path) \in Nat
  BY <1>1, AtTop
<1>3. ASSUME NEW v \in ValidRoutes(pki) PROVE ~LeavesAt(pki, path, frames, v, Len(path))
  BY <1>1, <1>2, RoomForMore, LimitsAssumption
<1>4. QED
  BY <1>1, <1>3, GiveUpLosesNone DEF GiveUp

\* What a valid route says of its next certificate, below the root.
LEMMA NextOnRoute ==
  ASSUME IInv, Searching, Top.phase = "pool",
         NEW v \in ValidRoutes(pki), LeavesAt(pki, path, frames, v, Len(path)),
         NEW next, next = v[Len(path) + 1]
  PROVE  /\ Len(path) + 1 < Len(v) /\ next \notin Range(path) /\ Admissible(pki, path, next)
<1>1. /\ Top = frames[Len(path)] /\ Len(path) \in Nat /\ Len(path) >= 1 /\ Current = Last(path)
      /\ pki \in Pkis /\ path \in Seq(CertsOf(pki)) /\ Current = path[Len(path)]
  BY AtTop
<1>2. Len(path) + 1 < Len(v)
  BY <1>1 DEF LeavesAt, Untried
<1>3. /\ Len(v) \in Nat /\ \A j, k \in 1..Len(v) : v[j] = v[k] => j = k
      /\ \A j \in 1..Len(path) : v[j] = path[j]
  BY <1>1, ARoute DEF LeavesAt
<1>4. next \notin Range(path)
  <2>1. \A j \in 1..Len(path) : path[j] # next
    BY <1>1, <1>2, <1>3
  <2>2. QED
    BY <1>1, <2>1 DEF Range
<1>5. Link(pki, Last(path), next)
  <2>1. <<v[Len(path)], v[Len(path) + 1]>> \in pki.issued \ pki.revoked
    BY <1>1, <1>2, <1>3 DEF ValidRoutes, ValidPath
  <2>2. QED
    BY <1>1, <1>3, <2>1, SMTT(30) DEF Link
<1>6. next \in pki.usable /\ CountedBelow(pki, path) <= pki.pathLen[next]
  <2>1. Len(path) + 1 \in 2..(Len(v) - 1)
    BY <1>1, <1>2, <1>3
  <2>2. /\ v[Len(path) + 1] \in pki.usable
        /\ Cardinality(Counted(pki, v, Len(path) + 1)) <= pki.pathLen[v[Len(path) + 1]]
    BY <2>1, InnerOfRoute
  <2>3. Counted(pki, v, Len(path) + 1) = {j \in 2..Len(path) : path[j] \notin pki.selfIssued}
    BY <1>1, <1>3 DEF Counted
  <2>4. QED
    BY <2>2, <2>3 DEF CountedBelow
<1>7. QED
  BY <1>2, <1>4, <1>5, <1>6 DEF Admissible

\* A candidate that is not next on any valid route is passed over.
LEMMA PassLosesNone ==
  ASSUME IInv, NoneLost, Searching, Top.phase = "pool", Top.i <= Len(pki.pool),
         SetTop(Pool(Top.i + 1)), pki' = pki, path' = path,
         verdict' = verdict, exhausted' = exhausted,
         pki.pool[Top.i] \in Range(path) \/ ~Admissible(pki, path, pki.pool[Top.i])
  PROVE  NoneLost'
<1>1. Top = frames[Len(path)] /\ Top.i \in Nat /\ pki \in Pkis /\ Len(path) \in Nat
  BY AtTop, AtPool
<1>2. Pool(Top.i + 1) \in Frames
  BY <1>1 DEF Pool, Frames
<1>3. ASSUME NEW v \in ValidRoutes(pki), LeavesAt(pki, path, frames, v, Len(path))
      PROVE  Untried(pki, Pool(Top.i + 1), v, Len(path), 0)
  <2>1. Untried(pki, Top, v, Len(path), 0)
    BY <1>1, <1>3 DEF LeavesAt
  <2>2. PICK m \in 1..Len(pki.pool) : m >= Top.i + 0 /\ pki.pool[m] = v[Len(path) + 1]
    BY <2>1 DEF Untried
  <2>3. m # Top.i
    BY <1>3, <2>2, NextOnRoute
  <2>4. m >= Top.i + 1 + 0
    BY <1>1, <2>2, <2>3
  <2>5. QED
    BY <1>3, <2>2, <2>4, NextOnRoute DEF Untried, Pool
<1>4. QED
  BY <1>2, <1>3, MoveLosesNone

LEMMA SkipLosesNone == IInv /\ NoneLost /\ SkipNext => NoneLost'
  BY PassLosesNone DEF SkipNext

LEMMA NextLosesNone == IInv /\ NoneLost /\ TryNext => NoneLost'
<1> SUFFICES ASSUME IInv, NoneLost, TryNext PROVE NoneLost'
  OBVIOUS
<1>1. Searching /\ Top.phase = "pool" /\ Top.i <= Len(pki.pool)
  BY DEF TryNext
<1>2. PICK next : next = pki.pool[Top.i]
  OBVIOUS
<1>3. /\ next \notin Range(path) /\ pki' = pki /\ verdict' = verdict /\ exhausted' = exhausted
      /\ IF Admissible(pki, path, next)
         THEN path' = Append(path, next) /\ frames' = Append(frames, Enter)
         ELSE SetTop(Pool(Top.i + 1)) /\ path' = path
  BY <1>2 DEF TryNext
<1>4. CASE ~Admissible(pki, path, next)
  BY <1>1, <1>2, <1>3, <1>4, PassLosesNone
<1>5. CASE Admissible(pki, path, next)
  <2>1. /\ path \in Seq(CertsOf(pki)) /\ frames \in Seq(Frames) /\ Len(frames) = Len(path)
        /\ Len(path) \in Nat /\ Len(path) >= 1 /\ Top = frames[Len(path)] /\ Top \in Frames
        /\ pki \in Pkis /\ verdict = "none" /\ path # << >>
    BY <1>1, AtTop
  <2>2. PICK s : s = Append(path, next)
    OBVIOUS
  <2>3. PICK fs : fs = Append(frames, Enter)
    OBVIOUS
  <2>4. path' = s /\ frames' = fs
    BY <1>3, <1>5, <2>2, <2>3
  <2>5. /\ Len(s) = Len(path) + 1 /\ s[Len(path) + 1] = next
        /\ \A k \in 1..Len(path) : s[k] = path[k]
    BY <2>1, <2>2
  <2>6. fs[Len(path) + 1] = Enter /\ \A k \in 1..Len(path) : fs[k] = frames[k]
    BY <2>1, <2>3
  <2>7. SUFFICES ASSUME ~exhausted, NEW v \in ValidRoutes(pki) PROVE Ahead(pki, s, fs, v)
    BY <1>3, <2>1, <2>4 DEF NoneLost
  <2>8. Len(v) \in Nat
    BY <2>1, ARoute
  <2>9. PICK k \in 1..Len(path) : LeavesAt(pki, path, frames, v, k)
    BY <2>1, <2>7 DEF NoneLost, Ahead
  <2>10. k \in 1..Len(s) /\ k # Len(s) /\ fs[k] = frames[k] /\ k <= Len(v)
         /\ \A j \in 1..k : v[j] = path[j] /\ s[j] = path[j]
    BY <2>1, <2>5, <2>6, <2>9 DEF LeavesAt
  <2>11. CASE k # Len(path)
    <3>1. LeavesAt(pki, s, fs, v, k)
      BY <2>9, <2>10, <2>11 DEF LeavesAt
    <3>2. QED
      BY <2>10, <3>1 DEF Ahead
  <2>12. CASE k = Len(path)
    <3>1. LeavesAt(pki, path, frames, v, Len(path)) /\ Len(path) + 1 < Len(v)
      BY <1>1, <2>9, <2>12, NextOnRoute
    <3>2. PICK m \in 1..Len(pki.pool) : m >= Top.i + 0 /\ pki.pool[m] = v[Len(path) + 1]
      BY <1>1, <2>1, <3>1 DEF LeavesAt, Untried
    <3>3. Top.i \in Nat
      BY <2>1 DEF Frames
    <3>4. CASE m = Top.i
      <4>1. v[Len(path) + 1] = next
        BY <1>2, <3>2, <3>4
      <4>2. \A j \in 1..(Len(path) + 1) : v[j] = s[j]
        BY <2>1, <2>5, <2>10, <2>12, <4>1
      <4>3. Untried(pki, Enter, v, Len(path) + 1, 0)
        BY DEF Untried, Enter
      <4>4. LeavesAt(pki, s, fs, v, Len(path) + 1)
        BY <2>1, <2>5, <2>6, <2>8, <3>1, <4>2, <4>3 DEF LeavesAt
      <4>5. QED
        BY <2>1, <2>5, <4>4 DEF Ahead
    <3>5. CASE m # Top.i
      <4>1. m >= Top.i + 1
        BY <3>2, <3>3, <3>5
      <4>2. Untried(pki, Top, v, Len(path), 1)
        BY <1>1, <3>1, <3>2, <4>1 DEF Untried
      <4>3. LeavesAt(pki, s, fs, v, k)
        BY <2>1, <2>10, <2>12, <4>2 DEF LeavesAt
      <4>4. QED
        BY <2>10, <4>3 DEF Ahead
    <3>6. QED
      BY <3>4, <3>5
  <2>13. QED
    BY <2>11, <2>12
<1>6. QED
  BY <1>4, <1>5

LEMMA PoolDoneLosesNone == IInv /\ NoneLost /\ PoolDone => NoneLost'
<1> SUFFICES ASSUME IInv, NoneLost, PoolDone PROVE NoneLost'
  OBVIOUS
<1>1. /\ Searching /\ Top.phase = "pool" /\ Top.i > Len(pki.pool) /\ GiveUp /\ exhausted' = exhausted
  BY DEF PoolDone
<1>2. Top = frames[Len(path)] /\ Top.i \in Nat /\ pki \in Pkis
  BY <1>1, AtTop, AtPool
<1>3. pki.pool \in Seq(Range(pki.pool))
  BY <1>2, PkisAssumption
<1>4. ASSUME NEW v \in ValidRoutes(pki) PROVE ~LeavesAt(pki, path, frames, v, Len(path))
  <2>1. ASSUME LeavesAt(pki, path, frames, v, Len(path)) PROVE FALSE
    <3>1. Untried(pki, Top, v, Len(path), 0)
      BY <1>2, <2>1 DEF LeavesAt
    <3>2. PICK m \in 1..Len(pki.pool) : m >= Top.i + 0
      BY <1>1, <3>1 DEF Untried
    <3>3. QED
      BY <1>1, <1>2, <1>3, <3>2
  <2>2. QED
    BY <2>1
<1>5. QED
  BY <1>1, <1>4, GiveUpLosesNone DEF GiveUp

\* Whatever the PKI, its dead ends and its cycles, and whatever paths finalize refuses:
\* while the budget lasts, a leaf is rejected only if no valid path exists that meets a
\* root of the store at its end and not before (trust.rs:329-331).  Such a route is,
\* until then, ahead of the activation at which the path leaves it.
THEOREM EveryPathIsFound == Spec => []NoPathIsMissed
<1>1. Init => NoneLost
  BY DEF Init, NoneLost
<1>2. IInv /\ NoneLost /\ [Next]_vars => NoneLost'
  <2> SUFFICES ASSUME IInv, NoneLost, [Next]_vars PROVE NoneLost'
    OBVIOUS
  <2>1. CASE UNCHANGED vars
    BY <2>1 DEF vars, NoneLost
  <2>2. CASE Exhaust
    BY <2>2 DEF Exhaust, NoneLost
  <2>3. QED
    BY <2>1, <2>2, BeginLosesNone, EnterLosesNone, RootLosesNone, RootsDoneLosesNone,
       TooLongLosesNone, SkipLosesNone, NextLosesNone, PoolDoneLosesNone DEF Next
<1>3. NoneLost => NoPathIsMissed
  BY DEF NoneLost, NoPathIsMissed, ValidRoutes
<1>4. QED
  BY Inductive, <1>1, <1>2, <1>3, PTL DEF Spec
=============================================================================
