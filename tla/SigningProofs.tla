--------------------------- MODULE SigningProofs ---------------------------
(***************************************************************************)
(* Proofs about files and about Signing, for every document, every caller  *)
(* and every size, in four parts, one for each of SigningInvariants.       *)
(*                                                                         *)
(* The first is about the bytes.  An update extends the file it is rendered *)
(* for and has its signature object behind the end of that file; a call    *)
(* only ever appends to the document and patches nothing but its own       *)
(* signature object, which verifies once it is filled in (IInv).           *)
(*                                                                         *)
(* The second is about what the bytes say.  Load reads back from an updated *)
(* file the objects of the update and, for every other number, the object  *)
(* of the file before it; FieldUpdate, DssUpdate and the edits of other    *)
(* programs replace containers by containers that refer to more; so a      *)
(* document goes on from every document before it, and the signatures read *)
(* from it are the ones before and the new one (LInv).                     *)
(*                                                                         *)
(* The third is about the objects that matter to a reader: each signature  *)
(* keeps the one field that has it as its value (FInv), and the validation *)
(* material grows in place, nothing twice (MInv).                          *)
(*                                                                         *)
(* The fourth is about what was appended after the last signature: every   *)
(* page edit and every new object stays visible to is_dss_only_update,     *)
(* whatever is appended behind it; validation material never is (XInv).    *)
(***************************************************************************)
EXTENDS SigningInvariants

-----------------------------------------------------------------------------
(* Updates.                                                                *)

LEMMA TerminatedExtends ==
  ASSUME NEW f, IsSeq(f)
  PROVE  /\ IsSeq(Terminated(f)) /\ IsPrefix(f, Terminated(f))
         /\ Len(f) <= Len(Terminated(f))
<1>1. CASE EndsWithNewline(f)
  BY <1>1, PrefixFacts, SeqFacts DEF Terminated
<1>2. CASE ~EndsWithNewline(f)
  <2>1. IsSeq(<<Nl>>)
    <3>1. <<Nl>> \in Seq({Nl})
      OBVIOUS
    <3>. QED
      BY <3>1, SeqOver
  <2>2. Append(f, Nl) = f \o <<Nl>>
    BY DEF IsSeq
  <2>3. Len(<<Nl>>) = 1
    OBVIOUS
  <2>4. IsSeq(f \o <<Nl>>) /\ Len(f \o <<Nl>>) = Len(f) + 1
        /\ \A i \in 1..Len(f) : (f \o <<Nl>>)[i] = f[i]
    BY <2>1, <2>3, ConcatFacts
  <2>5. Len(f) \in Nat
    BY SeqFacts
  <2>6. Terminated(f) = f \o <<Nl>>
    BY <1>2, <2>2 DEF Terminated
  <2>7. IsPrefix(f, f \o <<Nl>>)
    BY <2>1, PrefixOfConcat
  <2>. QED
    BY <2>4, <2>5, <2>6, <2>7
<1>. QED
  BY <1>1, <1>2

\* incremental.rs render: "keeps the original bytes verbatim".
LEMMA RenderExtends ==
  ASSUME NEW f, NEW body, NEW size, NEW root, IsSeq(f), IsSeq(body)
  PROVE  /\ IsSeq(Render(f, body, size, root))
         /\ IsPrefix(f, Render(f, body, size, root))
         /\ Len(Render(f, body, size, root)) = Len(Terminated(f)) + Len(body) + 2
         /\ \A i \in 1..Len(body) :
              Render(f, body, size, root)[Len(Terminated(f)) + i] = body[i]
<1>. DEFINE out  == Terminated(f) \o body
            xoff == Len(out) - HeaderOffset(f)
            tail == <<Section(f, body, size, root, xoff), StartXref(xoff, TRUE)>>
<1>1. Render(f, body, size, root) = out \o tail
  BY DEF Render
<1>2. IsSeq(tail) /\ Len(tail) = 2
  <2>1. tail \in Seq({tail[1], tail[2]}) /\ Len(tail) = 2
    OBVIOUS
  <2>. HIDE DEF tail
  <2>. QED
    BY <2>1, SeqOver
<1>3. /\ IsSeq(out) /\ Len(out) = Len(Terminated(f)) + Len(body)
      /\ \A i \in 1..Len(Terminated(f)) : out[i] = Terminated(f)[i]
      /\ \A i \in 1..Len(body) : out[Len(Terminated(f)) + i] = body[i]
  BY TerminatedExtends, ConcatFacts
<1>4. /\ IsSeq(out \o tail) /\ Len(out \o tail) = Len(out) + 2
      /\ \A i \in 1..Len(out) : (out \o tail)[i] = out[i]
  <2>1. IsSeq(out) /\ IsSeq(tail) /\ Len(tail) = 2
    BY <1>2, <1>3
  <2>. HIDE DEF out, tail
  <2>2. /\ IsSeq(out \o tail) /\ Len(out \o tail) = Len(out) + Len(tail)
        /\ \A i \in 1..Len(out) : (out \o tail)[i] = out[i]
    BY <2>1, ConcatFacts, ZenonT(40)
  <2>. QED
    BY <2>1, <2>2
<1>5. /\ IsSeq(Terminated(f)) /\ Len(f) <= Len(Terminated(f))
      /\ \A i \in 1..Len(f) : f[i] = Terminated(f)[i]
  BY TerminatedExtends, PrefixFacts
<1>6. /\ Len(f) \in Nat /\ Len(Terminated(f)) \in Nat /\ Len(body) \in Nat
  BY <1>5, SeqFacts
<1>. HIDE DEF out, tail
<1>7. IsPrefix(f, out \o tail)
  <2>1. Len(f) <= Len(out \o tail)
    BY <1>3, <1>4, <1>5, <1>6
  <2>2. ASSUME NEW i \in 1..Len(f) PROVE f[i] = (out \o tail)[i]
    BY <1>3, <1>4, <1>5, <1>6
  <2>. QED
    BY <1>4, <2>1, <2>2, PrefixFacts
<1>. QED
  BY <1>1, <1>3, <1>4, <1>6, <1>7

\* A list of ordinary objects: one cell each.
LEMMA PlainFacts ==
  ASSUME NEW objs, NEW ids, IsFiniteSet(ids)
  PROVE  /\ IsSeq(Plain(objs, ids))
         /\ \A i \in DOMAIN Plain(objs, ids) : Plain(objs, ids)[i].k = "obj"
<1>. DEFINE p == Plain(objs, ids)
<1>1. Cardinality(ids) \in Nat
  BY FS_CardinalityType
<1>2. DOMAIN p = 1..Cardinality(ids) /\ p = [i \in 1..Cardinality(ids) |-> p[i]]
  BY DEF Plain
<1>3. \A i \in 1..Cardinality(ids) : p[i].k = "obj"
  BY DEF Plain, ObjCell
<1>. HIDE DEF p
<1>4. IsSeq(p)
  BY <1>1, <1>2, SeqPointwise
<1>. QED
  BY <1>2, <1>3, <1>4 DEF p

\* A fresh signature dictionary: the head, '<', the placeholder, '>', the tail.
LEMMA SigCellsFacts ==
  ASSUME NEW id, NEW sig, sig.cap \in Nat
  PROVE  LET c == SigCells(id, sig)
         IN  /\ IsSeq(c) /\ Len(c) = sig.cap + 4
             /\ c[1] = SigHead(id, sig.sub, ByteRangePlaceholder)
             /\ c[2] = Lt /\ c[sig.cap + 3] = Gt
             /\ \A i \in 2..Len(c) : c[i].k # "sig"
<1>. DEFINE hd == SigHead(id, sig.sub, ByteRangePlaceholder)
            a  == <<hd, Lt>>
            z  == [i \in 1..sig.cap |-> Zero]
            e  == <<Gt, EndObj>>
            c  == SigCells(id, sig)
<1>1. IsSeq(a) /\ IsSeq(z) /\ IsSeq(e)
  <2>1. a \in Seq({hd, Lt}) /\ z \in Seq({Zero}) /\ e \in Seq({Gt, EndObj})
    OBVIOUS
  <2>. HIDE DEF a, z, e
  <2>. QED
    BY <2>1, SeqOver
<1>2. Len(a) = 2 /\ a[1] = hd /\ a[2] = Lt /\ Len(z) = sig.cap /\ Len(e) = 2
      /\ e[1] = Gt /\ e[2] = EndObj /\ \A i \in 1..sig.cap : z[i] = Zero
  OBVIOUS
<1>3. c = (a \o z) \o e
  BY DEF SigCells
<1>. HIDE DEF a, z, e, hd, c
<1>8. /\ IsSeq(c) /\ Len(c) = Len(a) + Len(z) + Len(e)
      /\ \A i \in 1..Len(a) : c[i] = a[i]
      /\ \A i \in 1..Len(z) : c[Len(a) + i] = z[i]
      /\ \A i \in 1..Len(e) : c[Len(a) + Len(z) + i] = e[i]
  <2>1. Joins(c, a, z, e)
    BY <1>1, <1>3, Concat3Facts
  <2>. QED
    BY <2>1 DEF Joins
<1>4. /\ Len(c) = sig.cap + 4
      /\ c[1] = hd /\ c[2] = Lt /\ c[sig.cap + 3] = Gt /\ c[sig.cap + 4] = EndObj
      /\ \A i \in 3..(sig.cap + 2) : c[i] = Zero
  <2>1. /\ Len(c) = sig.cap + 4 /\ c[1] = hd /\ c[2] = Lt
    BY <1>2, <1>8
  <2>2. c[2 + sig.cap + 1] = Gt /\ c[2 + sig.cap + 2] = EndObj
    BY <1>2, <1>8
  <2>3. ASSUME NEW i \in 3..(sig.cap + 2) PROVE c[i] = Zero
    <3>1. PICK j \in 1..sig.cap : i = 2 + j
      <4>1. i - 2 \in 1..sig.cap /\ i = 2 + (i - 2)
        OBVIOUS
      <4>. QED
        BY <4>1
    <3>. QED
      BY <3>1, <1>2, <1>8
  <2>. QED
    BY <2>1, <2>2, <2>3
<1>5. Lt.k # "sig" /\ Gt.k # "sig" /\ EndObj.k # "sig" /\ Zero.k # "sig"
  BY DEF Lt, Gt, EndObj, Zero
<1>6. \A i \in 2..Len(c) : c[i].k # "sig"
  <2>. SUFFICES ASSUME NEW i \in 2..(sig.cap + 4) PROVE c[i].k # "sig"
    BY <1>4
  <2>1. i = 2 \/ i \in 3..(sig.cap + 2) \/ i = sig.cap + 3 \/ i = sig.cap + 4
    OBVIOUS
  <2>. QED
    BY <2>1, <1>4, <1>5
<1>. QED
  BY <1>8, <1>4, <1>6 DEF c, hd

\* The cells c of a signature object, the only ones of its kind, are in the body
\* from position n on.
OnlySigAt(body, c, cap, n) ==
  /\ n \in 1..Len(body) /\ n + cap + 3 <= Len(body)
  /\ body[n] = c[1] /\ body[n + 1] = c[2] /\ body[n + 2 + cap] = c[cap + 3]
  /\ \A i \in 1..Len(body) : body[i].k = "sig" => i = n

LEMMA OnlyOneSig ==
  ASSUME NEW lo, NEW c, NEW hi, NEW body, NEW cap \in Nat,
         Len(lo) \in Nat, Len(hi) \in Nat, Len(c) = cap + 4,
         Joins(body, lo, c, hi),
         \A i \in 1..Len(lo) : lo[i].k # "sig",
         \A i \in 1..Len(hi) : hi[i].k # "sig",
         \A i \in 2..Len(c) : c[i].k # "sig"
  PROVE  OnlySigAt(body, c, cap, Len(lo) + 1)
<1>. USE DEF Joins
<1>. DEFINE n == Len(lo) + 1
<1>1. n \in 1..Len(body) /\ n + cap + 3 <= Len(body)
  OBVIOUS
<1>2. body[n] = c[1] /\ body[n + 1] = c[2]
  OBVIOUS
<1>3. body[n + 2 + cap] = c[cap + 3]
  <2>1. cap + 3 \in 1..Len(c) /\ Len(lo) + (cap + 3) = n + 2 + cap
    OBVIOUS
  <2>. QED
    BY <2>1
<1>4. ASSUME NEW i \in 1..Len(body), body[i].k = "sig" PROVE i = n
  <2>1. CASE i \in 1..Len(lo)
    BY <2>1, <1>4
  <2>2. CASE i \in (Len(lo) + 2)..(Len(lo) + Len(c))
    <3>1. PICK j \in 2..Len(c) : i = Len(lo) + j
      <4>1. i - Len(lo) \in 2..Len(c) /\ i = Len(lo) + (i - Len(lo))
        BY <2>2
      <4>. QED
        BY <4>1
    <3>2. j \in 1..Len(c)
      BY <3>1
    <3>. QED
      BY <3>1, <3>2, <1>4
  <2>3. CASE i \in (Len(lo) + Len(c) + 1)..Len(body)
    <3>1. PICK j \in 1..Len(hi) : i = Len(lo) + Len(c) + j
      <4>1. /\ i - (Len(lo) + Len(c)) \in 1..Len(hi)
            /\ i = Len(lo) + Len(c) + (i - (Len(lo) + Len(c)))
        BY <2>3
      <4>. QED
        BY <4>1
    <3>. QED
      BY <3>1, <1>4
  <2>. QED
    BY <2>1, <2>2, <2>3
<1>. QED
  BY <1>1, <1>2, <1>3, <1>4 DEF OnlySigAt

\* The body of an update with a fresh signature has exactly one signature cell,
\* and the whole placeholder behind it.
LEMMA SignedBodyFacts ==
  ASSUME NEW objs, NEW s, IsFiniteSet(DOMAIN objs), objs[s].cap \in Nat
  PROVE  LET body == SignedBody(objs, s)
             cap  == objs[s].cap
         IN  /\ IsSeq(body)
             /\ \E n \in 1..Len(body) :
                  /\ n + cap + 3 <= Len(body)
                  /\ body[n] = SigHead(s, objs[s].sub, ByteRangePlaceholder)
                  /\ body[n + 1] = Lt /\ body[n + 2 + cap] = Gt
                  /\ \A i \in 1..Len(body) : body[i].k = "sig" => i = n
<1>. DEFINE lo  == Plain(objs, IdsBelow(objs, s))
            c   == SigCells(s, objs[s])
            hi  == Plain(objs, IdsAbove(objs, s))
            cap == objs[s].cap
<1>1. IsFiniteSet(IdsBelow(objs, s)) /\ IsFiniteSet(IdsAbove(objs, s))
  BY FS_Subset DEF IdsBelow, IdsAbove
<1>2. /\ IsSeq(lo) /\ \A i \in 1..Len(lo) : lo[i].k = "obj"
      /\ IsSeq(hi) /\ \A i \in 1..Len(hi) : hi[i].k = "obj"
  BY <1>1, PlainFacts, SeqFacts
<1>3. /\ IsSeq(c) /\ Len(c) = cap + 4
      /\ c[1] = SigHead(s, objs[s].sub, ByteRangePlaceholder)
      /\ c[2] = Lt /\ c[cap + 3] = Gt
      /\ \A i \in 2..Len(c) : c[i].k # "sig"
  BY SigCellsFacts
<1>. DEFINE body == SignedBody(objs, s)
<1>4. body = (lo \o c) \o hi
  BY DEF SignedBody
<1>. HIDE DEF lo, c, hi, body
<1>5. Joins(body, lo, c, hi)
  <2>1. IsSeq(lo) /\ IsSeq(c) /\ IsSeq(hi)
    BY <1>2, <1>3
  <2>. QED
    BY <2>1, <1>4, Concat3Facts
<1>6. Len(lo) \in Nat /\ Len(hi) \in Nat /\ cap \in Nat
  BY <1>2, SeqFacts
<1>7. OnlySigAt(body, c, cap, Len(lo) + 1)
  <2>1. /\ \A i \in 1..Len(lo) : lo[i].k # "sig"
        /\ \A i \in 1..Len(hi) : hi[i].k # "sig"
    BY <1>2
  <2>2. Len(c) = cap + 4 /\ \A i \in 2..Len(c) : c[i].k # "sig"
    BY <1>3
  <2>. HIDE DEF cap
  <2>. QED
    BY <1>5, <1>6, <2>1, <2>2, OnlyOneSig
<1>. QED
  BY <1>3, <1>5, <1>7 DEF body, OnlySigAt, Joins

-----------------------------------------------------------------------------
(* Signatures.                                                             *)

\* A signature that verifies over a file verifies over every extension of it.
LEMMA ValidSurvivesExtension ==
  ASSUME NEW f, NEW g, NEW sig, IsSeq(f), IsSeq(g), IsPrefix(f, g),
         sig.br \in [1..4 -> Int], Valid(f, sig)
  PROVE  Valid(g, sig)
<1>. DEFINE br == sig.br
<1>1. /\ Len(f) \in Nat /\ Len(g) \in Nat /\ Len(f) <= Len(g)
      /\ \A i \in 1..Len(f) : f[i] = g[i]
  BY PrefixFacts, SeqFacts
<1>2. /\ br[1] \in Nat /\ br[2] \in Nat /\ br[3] \in Nat /\ br[4] \in Nat
      /\ br[1] + br[2] <= Len(f) /\ br[3] + br[4] <= Len(f)
  BY DEF Valid, WellFormedRange
<1>3. WellFormedRange(g, br)
  BY <1>1, <1>2 DEF Valid, WellFormedRange
<1>4. ASSUME NEW from \in Nat, NEW n \in Nat, from + n <= Len(f)
      PROVE  SubSeq(f, from + 1, from + n) = SubSeq(g, from + 1, from + n)
  BY <1>1, <1>4
<1>5. SignedCells(f, br) = SignedCells(g, br)
  BY <1>2, <1>4 DEF SignedCells
<1>. QED
  BY <1>3, <1>5 DEF Valid

-----------------------------------------------------------------------------
(* The objects of an update are finitely many.                             *)

LEMMA FreshIdsFinite ==
  ASSUME NEW doc, NEW c, NEW n \in Nat
  PROVE  IsFiniteSet(FreshIds(doc, c, n))
<1>. DEFINE f == [i \in 1..n |-> FreshId(doc, c + i)]
<1>1. IsFiniteSet(1..n)
  BY FS_Interval
<1>2. DOMAIN f = 1..n /\ f = [x \in DOMAIN f |-> f[x]]
  OBVIOUS
<1>3. {f[x] : x \in DOMAIN f} = FreshIds(doc, c, n)
  BY DEF FreshIds
<1>. HIDE DEF f
<1>. QED
  BY <1>1, <1>2, <1>3, ImageFinite

LEMMA MergeFinite ==
  ASSUME NEW f, NEW g, IsFiniteSet(DOMAIN f), IsFiniteSet(DOMAIN g)
  PROVE  IsFiniteSet(DOMAIN (f ++ g))
<1>1. DOMAIN (f ++ g) = DOMAIN f \cup DOMAIN g
  BY DEF ++
<1>. QED
  BY <1>1, FS_Union

LEMMA MergeLeft ==
  ASSUME NEW f, NEW g, NEW x \in DOMAIN f
  PROVE  x \in DOMAIN (f ++ g) /\ (f ++ g)[x] = f[x]
BY DEF ++

LEMMA SingleFacts ==
  ASSUME NEW d, NEW e
  PROVE  DOMAIN Queue(d, e) = {d} /\ Queue(d, e)[d] = e
BY DEF Queue

LEMMA SingleFinite ==
  ASSUME NEW d, NEW e
  PROVE  IsFiniteSet(DOMAIN Queue(d, e))
<1>1. DOMAIN Queue(d, e) = {d}
  BY SingleFacts
<1>2. IsFiniteSet({d})
  BY FS_Singleton
<1>. QED
  BY <1>1, <1>2

\* build_incremental_update, build_doctimestamp_update: finitely many objects, and
\* the signature dictionary is the first of the fresh ones.
LEMMA FieldUpdateFacts ==
  ASSUME NEW doc, NEW page, NEW sub, NEW cap, NEW nap \in Nat
  PROVE  LET objs == FieldUpdate(doc, page, sub, cap, nap)
         IN  /\ IsFiniteSet(DOMAIN objs)
             /\ objs[FreshId(doc, 1)] = [t |-> "newsig", sub |-> sub, cap |-> cap]
<1>. DEFINE sig    == FreshId(doc, 1)
            widget == FreshId(doc, nap + 2)
            s == Queue(sig, [t |-> "newsig", sub |-> sub, cap |-> cap])
            a == [id \in FreshIds(doc, 1, nap) |-> ApObj]
            w == Queue(widget, [t |-> "widget", sig |-> sig])
            p == PageUpdate(doc, page, widget)
            f == FormUpdate(doc, widget)
<1>1. IsFiniteSet(DOMAIN s) /\ IsFiniteSet(DOMAIN w)
  BY SingleFinite
<1>2. IsFiniteSet(DOMAIN a)
  BY FreshIdsFinite
<1>3. IsFiniteSet(DOMAIN p)
  BY SingleFinite DEF PageUpdate
<1>4. IsFiniteSet(DOMAIN f)
  BY SingleFinite, EmptyFinite, MergeFinite DEF FormUpdate, FieldsUpdate
<1>5. FieldUpdate(doc, page, sub, cap, nap) = (((s ++ a) ++ w) ++ p) ++ f
  BY Zenon DEF FieldUpdate
<1>6. s[sig] = [t |-> "newsig", sub |-> sub, cap |-> cap] /\ sig \in DOMAIN s
  <2>. DEFINE v == [t |-> "newsig", sub |-> sub, cap |-> cap]
  <2>. HIDE DEF v, sig
  <2>1. DOMAIN Queue(sig, v) = {sig} /\ Queue(sig, v)[sig] = v
    BY SingleFacts
  <2>. QED
    BY <2>1 DEF v
<1>. HIDE DEF s, a, w, p, f, sig
<1>7. IsFiniteSet(DOMAIN ((((s ++ a) ++ w) ++ p) ++ f))
  BY <1>1, <1>2, <1>3, <1>4, MergeFinite
<1>8. ((((s ++ a) ++ w) ++ p) ++ f)[sig] = s[sig]
  BY <1>6, MergeLeft
<1>. QED
  BY <1>5, <1>6, <1>7, <1>8 DEF sig

\* add_dss: finitely many objects, if the validation material is finite.
LEMMA DssUpdateFinite ==
  ASSUME NEW doc, NEW material, \A key \in DssKeys : IsFiniteSet(material[key])
  PROVE  IsFiniteSet(DOMAIN DssUpdate(doc, material))
<1>. DEFINE old == ExistingDss(doc)
            n(key) == NewStreams(doc, old, material, key)
<1>1. ASSUME NEW key \in DssKeys PROVE IsFiniteSet(DOMAIN n(key))
  <2>1. IsFiniteSet(Missing(doc, old, material, key))
    BY FS_Subset DEF Missing
  <2>2. Cardinality(Missing(doc, old, material, key)) \in Nat
    BY <2>1, FS_CardinalityType
  <2>3. DOMAIN n(key) = FreshIds(doc, FirstNew(doc, old, material, key),
                                 Cardinality(Missing(doc, old, material, key)))
    BY DEF NewStreams
  <2>. QED
    BY <2>2, <2>3, FreshIdsFinite
<1>2. IsFiniteSet(DOMAIN n("Certs")) /\ IsFiniteSet(DOMAIN n("CRLs"))
      /\ IsFiniteSet(DOMAIN n("OCSPs"))
  BY <1>1 DEF DssKeys
<1>. QED
  BY <1>2, MergeFinite, SingleFinite DEF DssUpdate

LEMMA PlainBodySeq ==
  ASSUME NEW objs, IsFiniteSet(DOMAIN objs)
  PROVE  IsSeq(PlainBody(objs))
BY PlainFacts DEF PlainBody

-----------------------------------------------------------------------------
(* The signature object in the buffer.                                     *)

\* An update with a signature dictionary leaves it where Rendered.offsets says.
LEMMA SignedUpdateLaid ==
  ASSUME NEW f, NEW objs, NEW s, NEW size, NEW root, NEW cap \in Nat, NEW sub,
         IsSeq(f), IsFiniteSet(DOMAIN objs),
         objs[s] = [t |-> "newsig", sub |-> sub, cap |-> cap]
  PROVE  LET body == SignedBody(objs, s)
             b    == Render(f, body, size, root)
             h    == SigPosition(f, body)
         IN  Laid(f, b, h, cap) /\ b[h].sub = sub
<1>. DEFINE body == SignedBody(objs, s)
            b    == Render(f, body, size, root)
            h    == SigPosition(f, body)
            T    == Len(Terminated(f))
            hd   == SigHead(s, sub, ByteRangePlaceholder)
<1>1. objs[s].cap = cap /\ objs[s].sub = sub
  OBVIOUS
<1>2. IsSeq(body)
  BY <1>1, SignedBodyFacts
<1>3. PICK n \in 1..Len(body) :
        /\ n + cap + 3 <= Len(body)
        /\ body[n] = hd /\ body[n + 1] = Lt /\ body[n + 2 + cap] = Gt
        /\ \A i \in 1..Len(body) : body[i].k = "sig" => i = n
  BY <1>1, SignedBodyFacts
<1>. HIDE DEF body
<1>4. /\ IsSeq(b) /\ IsPrefix(f, b) /\ Len(b) = T + Len(body) + 2
      /\ \A i \in 1..Len(body) : b[T + i] = body[i]
  BY <1>2, RenderExtends
<1>. HIDE DEF b, hd
<1>5. DOMAIN body = 1..Len(body) /\ Len(body) \in Nat
  BY <1>2, SeqFacts
<1>6. h = T + n
  <2>1. body[n].k = "sig"
    BY <1>3 DEF hd, SigHead
  <2>2. (CHOOSE i \in DOMAIN body : body[i].k = "sig") = n
    BY <1>3, <1>5, <2>1
  <2>. QED
    BY <2>2 DEF SigPosition
<1>7. T \in Nat /\ Len(f) \in Nat /\ Len(f) <= T
  BY TerminatedExtends, SeqFacts
<1>. HIDE DEF h, T
<1>8. b[h] = hd /\ b[h + 1] = Lt /\ b[h + 2 + cap] = Gt
  <2>1. n + 1 \in 1..Len(body) /\ n + 2 + cap \in 1..Len(body)
    BY <1>3, <1>5
  <2>2. T + (n + 1) = h + 1 /\ T + (n + 2 + cap) = h + 2 + cap
    BY <1>3, <1>5, <1>6, <1>7
  <2>3. b[T + n] = body[n] /\ b[T + (n + 1)] = body[n + 1]
        /\ b[T + (n + 2 + cap)] = body[n + 2 + cap]
    BY <2>1, <1>4
  <2>. QED
    BY <2>2, <2>3, <1>3, <1>6
<1>9. h \in Nat /\ Len(f) < h /\ h + 2 + cap < Len(b)
  BY <1>3, <1>4, <1>5, <1>6, <1>7
<1>10. b[h] = SigHead(b[h].id, b[h].sub, b[h].br) /\ b[h].sub = sub
  BY <1>8 DEF hd, SigHead
<1>. QED
  BY <1>4, <1>8, <1>9, <1>10 DEF Laid, LtPos, GtPos, b, h, body

\* What is appended behind a signature object does not touch it.
SameObject(b, c, h, cap) == SignatureAt(c, h, cap) = SignatureAt(b, h, cap)
LEMMA LaidExtends ==
  ASSUME NEW f, NEW b, NEW c, NEW h, NEW cap \in Nat, IsSeq(f), IsSeq(c),
         Laid(f, b, h, cap), IsPrefix(b, c)
  PROVE  Laid(f, c, h, cap) /\ SameObject(b, c, h, cap)
<1>1. /\ Len(b) \in Nat /\ Len(c) \in Nat /\ Len(f) \in Nat
      /\ DOMAIN b = 1..Len(b) /\ DOMAIN c = 1..Len(c)
      /\ Len(b) <= Len(c) /\ \A i \in 1..Len(b) : b[i] = c[i]
  BY PrefixFacts, SeqFacts DEF Laid
<1>2. /\ h \in 1..Len(b) /\ h + 1 \in 1..Len(b) /\ h + 2 + cap \in 1..Len(b)
  BY <1>1 DEF Laid, GtPos
<1>3. c[h] = b[h] /\ c[h + 1] = b[h + 1] /\ c[h + 2 + cap] = b[h + 2 + cap]
  BY <1>1, <1>2
<1>4. IsPrefix(f, c)
  BY PrefixTransitive DEF Laid
<1>5. SubSeq(c, h + 1 + 1, h + 1 + cap) = SubSeq(b, h + 1 + 1, h + 1 + cap)
  BY <1>1, <1>2
<1>6. Laid(f, c, h, cap)
  BY <1>1, <1>3, <1>4 DEF Laid, GtPos, LtPos
<1>. QED
  BY <1>3, <1>5, <1>6 DEF SameObject, SignatureAt, LtPos

\* patch_byte_range changes nothing but the /ByteRange of the object at h.
Repatched(b, c, h, r) == Len(c) = Len(b) /\ c[h].sub = b[h].sub /\ c[h].br = r
LEMMA PatchLaid ==
  ASSUME NEW f, NEW b, NEW h, NEW cap \in Nat, NEW r, IsSeq(f), Laid(f, b, h, cap)
  PROVE  LET c == [b EXCEPT ![h].br = r]
         IN  Laid(f, c, h, cap) /\ Repatched(b, c, h, r)
<1>. DEFINE c == [b EXCEPT ![h].br = r]
<1>1. /\ Len(b) \in Nat /\ Len(f) \in Nat /\ DOMAIN b = 1..Len(b)
      /\ Len(f) <= Len(b) /\ \A i \in 1..Len(f) : f[i] = b[i]
  BY PrefixFacts, SeqFacts DEF Laid
<1>2. h \in 1..Len(b) /\ h + 2 + cap \in 1..Len(b) /\ h + 1 \in 1..Len(b)
  BY <1>1 DEF Laid, GtPos
<1>3. DOMAIN c = 1..Len(b) /\ c = [i \in 1..Len(b) |-> c[i]]
  BY <1>1
<1>4. IsSeq(c) /\ Len(c) = Len(b)
  <2>. HIDE DEF c
  <2>. QED
    BY <1>1, <1>3, SeqPointwise
<1>5. c[h] = [b[h] EXCEPT !.br = r] /\ \A i \in 1..Len(b) : i # h => c[i] = b[i]
  BY <1>1, <1>2
<1>. HIDE DEF c
<1>6. c[h] = SigHead(b[h].id, b[h].sub, r)
  BY <1>5 DEF Laid, SigHead
<1>7. c[h].id = b[h].id /\ c[h].sub = b[h].sub /\ c[h].br = r
  BY <1>6 DEF SigHead
<1>8. c[h + 1] = b[h + 1] /\ c[h + 2 + cap] = b[h + 2 + cap]
  BY <1>2, <1>5
<1>9. IsPrefix(f, c)
  <2>1. Len(f) <= Len(c) /\ \A i \in 1..Len(f) : f[i] = c[i]
    BY <1>1, <1>4, <1>5 DEF Laid
  <2>. QED
    BY <2>1, <1>4, PrefixFacts
<1>10. Laid(f, c, h, cap)
  BY <1>4, <1>6, <1>7, <1>8, <1>9 DEF Laid, LtPos, GtPos
<1>. QED
  BY <1>4, <1>7, <1>10 DEF c, Repatched

\* The first byte inside the hole is the first of the DER value.
DerStartsAt(b, i, d) == b[i] = DerCell(d)
FirstInHole(h, cap, i) ==
  i \in (LtPos(h) + 1)..(LtPos(h) + cap) /\ i - LtPos(h) = 1
NotEmpty(d) == 1 <= d.size
LEMMA FilledAt ==
  ASSUME NEW b, NEW h, NEW cap, NEW d, NEW i, i \in DOMAIN b,
         FirstInHole(h, cap, i), NotEmpty(d)
  PROVE  DerStartsAt(Filled(b, h, cap, d), i, d)
<1>1. Filled(b, h, cap, d)[i] =
        IF i - LtPos(h) <= d.size THEN DerBytes(d)[i - LtPos(h)] ELSE Zero
  BY Zenon DEF Filled, FirstInHole
<1>2. NotEmpty(d) => DerBytes(d)[1] = DerCell(d)
  BY DEF DerBytes, NotEmpty
<1>. QED
  BY <1>1, <1>2, Zenon DEF DerStartsAt, FirstInHole, NotEmpty

\* fill_placeholder: if the /ByteRange is the one patch_byte_range computed and
\* the DER value is over the bytes outside the hole, the result verifies.
LEMMA FillVerifies ==
  ASSUME NEW f, NEW b, NEW h, NEW cap \in Nat, NEW d, IsSeq(f), Laid(f, b, h, cap),
         b[h].br = ByteRange(b, h, cap),
         d.size \in Nat \ {0}, d.size <= cap, d.digest = Covered(b, h, cap),
         d.t = IF b[h].sub = "ETSI.RFC3161" THEN "tst" ELSE "cms"
  PROVE  LET c   == Filled(b, h, cap, d)
             sig == SignatureAt(c, h, cap)
         IN  /\ Laid(f, c, h, cap) /\ sig.br \in [1..4 -> Int]
             /\ Valid(c, sig) /\ CoversWholeDocument(c, sig)
<1>. DEFINE c   == Filled(b, h, cap, d)
            sig == SignatureAt(c, h, cap)
            n   == Len(b)
<1>1. /\ n \in Nat /\ Len(f) \in Nat /\ DOMAIN b = 1..n
      /\ Len(f) <= n /\ \A i \in 1..Len(f) : f[i] = b[i]
  BY PrefixFacts, SeqFacts DEF Laid
<1>2. h \in Nat /\ Len(f) < h /\ h + 2 + cap < n
  BY DEF Laid, GtPos
<1>3. /\ DOMAIN c = 1..n /\ c = [i \in 1..n |-> c[i]]
      /\ \A i \in 1..n : i \notin (h + 1 + 1)..(h + 1 + cap) => c[i] = b[i]
  BY <1>1 DEF Filled, LtPos
<1>4. c[h + 2] = DerCell(d)
  <2>1. h + 2 \in 1..n /\ h + 2 \in (h + 1 + 1)..(h + 1 + cap) /\ h + 2 - (h + 1) = 1
    BY <1>1, <1>2
  <2>3. h + 2 \in DOMAIN b /\ FirstInHole(h, cap, h + 2) /\ NotEmpty(d)
    <3>1. h + 2 \in DOMAIN b
      BY <1>1, <2>1, Zenon
    <3>2. FirstInHole(h, cap, h + 2)
      BY <1>2, <2>1 DEF LtPos, FirstInHole
    <3>. QED
      BY <3>1, <3>2 DEF NotEmpty
  <2>4. DerStartsAt(c, h + 2, d)
    <3>. HIDE DEF n
    <3>1. DerStartsAt(Filled(b, h, cap, d), h + 2, d)
      BY <2>3, FilledAt, Zenon
    <3>. QED
      BY <3>1, Zenon
  <2>. QED
    BY <2>4, Zenon DEF DerStartsAt
<1>. HIDE DEF c
<1>5. IsSeq(c) /\ Len(c) = n
  BY <1>1, <1>3, SeqPointwise
<1>6. \A i \in 1..(h + 1) : c[i] = b[i]
  BY <1>1, <1>2, <1>3
<1>7. \A i \in (h + 2 + cap)..n : c[i] = b[i]
  BY <1>1, <1>2, <1>3
<1>8. Laid(f, c, h, cap)
  <2>1. IsPrefix(f, c)
    BY <1>1, <1>2, <1>5, <1>6, PrefixFacts
  <2>2. c[h] = b[h] /\ c[h + 1] = b[h + 1] /\ c[h + 2 + cap] = b[h + 2 + cap]
    BY <1>2, <1>6, <1>7, <1>1
  <2>. QED
    BY <1>2, <1>5, <2>1, <2>2 DEF Laid, LtPos, GtPos
<1>9. /\ sig.br = <<0, h, h + 2 + cap, n - (h + 2 + cap)>>
      /\ sig.sub = b[h].sub /\ sig.contents = SubSeq(c, h + 2, h + 1 + cap)
  <2>1. c[h] = b[h]
    BY <1>2, <1>6
  <2>2. sig.br = ByteRange(b, h, cap) /\ sig.sub = b[h].sub
        /\ sig.contents = SubSeq(c, h + 1 + 1, h + 1 + cap)
    BY <2>1 DEF SignatureAt, LtPos
  <2>3. ByteRange(b, h, cap) = <<0, h, h + 2 + cap, n - (h + 2 + cap)>>
    <3>1. LtPos(h) - 1 = h /\ GtPos(h, cap) = h + 2 + cap
      BY <1>2 DEF LtPos, GtPos
    <3>. QED
      BY <3>1, Zenon DEF ByteRange
  <2>4. h + 1 + 1 = h + 2
    BY <1>2
  <2>. HIDE DEF sig
  <2>. QED
    BY <2>2, <2>3, <2>4
<1>. HIDE DEF sig
<1>10. /\ sig.br[1] = 0 /\ sig.br[2] = h /\ sig.br[3] = h + 2 + cap
       /\ sig.br[4] = n - (h + 2 + cap) /\ sig.br \in [1..4 -> Int]
  BY <1>1, <1>2, <1>9
<1>11. WellFormedRange(c, sig.br)
  BY <1>1, <1>2, <1>5, <1>10 DEF WellFormedRange
<1>12. SignedCells(c, sig.br) = Covered(b, h, cap)
  <2>1. SubSeq(c, 1, h) = SubSeq(b, 1, h)
    BY <1>1, <1>2, <1>5, <1>6
  <2>2. SubSeq(c, h + 2 + cap + 1, n) = SubSeq(b, h + 2 + cap + 1, n)
    BY <1>1, <1>2, <1>5, <1>7
  <2>3. /\ sig.br[1] + 1 = 1 /\ sig.br[1] + sig.br[2] = h
        /\ sig.br[3] + 1 = h + 2 + cap + 1 /\ sig.br[3] + sig.br[4] = n
    BY <1>1, <1>2, <1>10
  <2>4. SignedCells(c, sig.br) = SubSeq(c, 1, h) \o SubSeq(c, h + 2 + cap + 1, n)
    BY <2>3, Zenon DEF SignedCells
  <2>5. Covered(b, h, cap) = SubSeq(b, 1, h) \o SubSeq(b, h + 2 + cap + 1, n)
    <3>1. LtPos(h) - 1 = h /\ GtPos(h, cap) + 1 = h + 2 + cap + 1
      BY <1>2 DEF LtPos, GtPos
    <3>. QED
      BY <3>1, Zenon DEF Covered
  <2>. QED
    BY <2>1, <2>2, <2>4, <2>5, Zenon
<1>13. HasDer(sig.contents) /\ sig.contents[1].der = d
  <2>1. /\ Len(sig.contents) = cap /\ sig.contents # << >>
        /\ sig.contents[1] = c[h + 2]
    <3>1. 1 <= h + 2 /\ h + 2 <= h + 1 + cap /\ h + 1 + cap <= Len(c)
          /\ h + 1 + cap - (h + 2) + 1 = cap
      <4>1. Len(c) = n BY <1>5
      <4>2. h \in Nat \ {0} /\ cap \in Nat \ {0} /\ n \in Nat /\ h + 2 + cap < n
        BY <1>1, <1>2
      <4>. HIDE DEF n
      <4>. QED BY <4>1, <4>2
    <3>2. h + 2 \in Int /\ h + 1 + cap \in Int
      BY <1>2
    <3>3. Slice(c, h + 2, SubSeq(c, h + 2, h + 1 + cap), cap)
      <4>1. PICK lo, hi : lo = h + 2 /\ hi = h + 1 + cap
        OBVIOUS
      <4>2. lo \in Int /\ hi \in Int /\ hi - lo + 1 = cap /\ 1 <= lo /\ lo <= hi
        BY <1>2, <4>1
      <4>3. hi <= Len(c)
        BY <3>1, <4>1, Zenon
      <4>4. Slice(c, lo, SubSeq(c, lo, hi), cap)
        BY <1>5, <4>2, <4>3, SliceFacts, Zenon
      <4>. QED
        BY <4>1, <4>4, Zenon
    <3>4. Slice(c, h + 2, sig.contents, cap)
      BY <1>9, <3>3, Zenon
    <3>. QED
      BY <3>4, Zenon DEF Slice
  <2>. QED
    BY <1>4, <2>1 DEF HasDer, DerCell
<1>14. Valid(c, sig)
  BY <1>9, <1>11, <1>12, <1>13 DEF Valid, IsTimestamp
<1>15. CoversWholeDocument(c, sig)
  <2>1. sig.br[3] + sig.br[4] = Len(c)
    BY <1>1, <1>2, <1>5, <1>10
  <2>2. GapIsContents(c, h, h + 2 + cap, sig.contents)
    <3>1. h + 2 + cap - 1 = h + 1 + cap
      BY <1>2
    <3>2. c[h + 1].k = "lt" /\ c[h + 2 + cap].k = "gt"
      BY <1>8 DEF Laid, LtPos, GtPos, Lt, Gt
    <3>. QED
      BY <1>2, <1>5, <1>9, <3>1, <3>2 DEF GapIsContents
  <2>3. GapStart(sig) = h
    BY <1>2, <1>10 DEF GapStart
  <2>. QED
    BY <1>10, <1>11, <2>1, <2>2, <2>3 DEF CoversWholeDocument
<1>. QED
  BY <1>8, <1>10, <1>14, <1>15 DEF c, sig

-----------------------------------------------------------------------------
(* Between calls.                                                          *)

\* An update with ordinary objects extends the document.
LEMMA PlainUpdateExtends ==
  ASSUME NEW f, NEW objs, NEW size, NEW root, IsSeq(f), f # << >>,
         IsFiniteSet(DOMAIN objs)
  PROVE  LET g == Render(f, PlainBody(objs), size, root)
         IN  IsSeq(g) /\ IsPrefix(f, g) /\ g # << >>
<1>1. IsSeq(PlainBody(objs))
  BY PlainBodySeq
<1>. DEFINE g == Render(f, PlainBody(objs), size, root)
<1>2. IsSeq(g) /\ IsPrefix(f, g)
  BY <1>1, RenderExtends
<1>. HIDE DEF g
<1>3. g # << >>
  BY <1>2, ExtensionNotEmpty
<1>. QED
  BY <1>2, <1>3 DEF g

\* What another program appends extends the document.
LEMMA EditExtends ==
  ASSUME IsSeq(file), file # << >>,
         EditPage \/ EditObject \/ EditDss \/ EditGarbage
  PROVE  IsSeq(file') /\ IsPrefix(file, file') /\ file' # << >>
<1>1. CASE EditPage
  BY <1>1, SingleFinite, PlainUpdateExtends DEF EditPage, Edit
<1>2. CASE EditObject
  BY <1>2, SingleFinite, PlainUpdateExtends DEF EditObject, Edit
<1>3. CASE EditDss
  <2>1. PICK material \in Materials :
          file' = Render(file, PlainBody(DssUpdate(Load(file), material)),
                         FreshId(Load(file), NewBlobs(Load(file), material) + 1),
                         Load(file).root)
    BY <1>3 DEF EditDss, Edit
  <2>2. IsFiniteSet(DOMAIN DssUpdate(Load(file), material))
    BY SizesAssumption, DssUpdateFinite
  <2>. QED
    BY <2>1, <2>2, PlainUpdateExtends
<1>4. CASE EditGarbage
  <2>1. file' = Append(file, Junk)
    BY <1>4 DEF EditGarbage
  <2>2. file \in Seq(Range(file) \cup {Junk}) /\ Append(file, Junk) \in Seq(Range(file) \cup {Junk})
    BY DEF IsSeq
  <2>3. IsSeq(file')
    BY <2>1, <2>2, SeqOver
  <2>4. Len(file) <= Len(file') /\ \A i \in 1..Len(file) : file[i] = file'[i]
    BY <2>1, <2>2
  <2>5. IsPrefix(file, file')
    BY <2>3, <2>4, PrefixFacts
  <2>. QED
    BY <2>3, <2>5, ExtensionNotEmpty
<1>. QED
  BY <1>1, <1>2, <1>3, <1>4

\* Between calls only the types matter.
LEMMA Outside ==
  ASSUME TypeOK', buf' = file', pc' \in {"idle", "check"}
  PROVE  IInv'
<1>1. IsPrefix(file', buf')
  BY PrefixReflexive DEF TypeOK, IsSeq
<1>. QED
  BY <1>1 DEF IInv, InBuffer, Working, RightKind, RangePatched, DerMade, Written,
              WrittenVerifies, AtDss

LEMMA InitInv == Init => IInv
<1>. SUFFICES ASSUME Init PROVE IInv
  OBVIOUS
<1>1. TypeOK
  <2>1. opts \in Options
    BY OptionsAssumption DEF Init
  <2>. QED
    BY <2>1, InitialFilesAssumption, BoundsAssumption DEF Init, TypeOK, NoDer, Steps
<1>2. IsPrefix(file, buf)
  BY <1>1, PrefixReflexive DEF TypeOK, IsSeq, Init
<1>. QED
  BY <1>1, <1>2 DEF Init, IInv, InBuffer, Working, RightKind, RangePatched, DerMade,
                    Written, WrittenVerifies, AtDss

LEMMA EditInv ==
  ASSUME IInv, EditPage \/ EditObject \/ EditDss \/ EditGarbage
  PROVE  IInv'
<1>1. IsSeq(file) /\ file # << >> /\ TypeOK
  BY DEF IInv, TypeOK, IsSeq
<1>2. IsSeq(file') /\ file' # << >>
  BY <1>1, EditExtends
<1>3. /\ pc = "idle" /\ pc' = pc /\ buf' = file' /\ head' = 1 /\ der' = NoDer
      /\ opts' = opts /\ res' = res /\ calls' = calls
      /\ edits < MaxEdits /\ edits' = edits + 1
      /\ \E kind \in {"dss", "edit", "garbage"} : since' = since \cup {kind}
  BY DEF EditPage, EditObject, EditDss, EditGarbage, Edit, Drop
<1>4. TypeOK'
  BY <1>1, <1>2, <1>3, BoundsAssumption DEF TypeOK, NoDer, IsSeq
<1>. QED
  BY <1>3, <1>4, Outside

LEMMA CallInv ==
  ASSUME IInv, NEW o \in Options, Call(o)
  PROVE  IInv'
<1>1. TypeOK'
  BY BoundsAssumption DEF IInv, TypeOK, Call, Steps
<1>. QED
  BY <1>1, Outside DEF IInv, InBuffer, Working, Call

LEMMA FailInv ==
  ASSUME IInv, Fail
  PROVE  IInv'
<1>1. TypeOK'
  BY DEF IInv, TypeOK, Fail, Drop, NoDer, Steps
<1>. QED
  BY <1>1, Outside DEF Fail, Drop

LEMMA ReturnInv ==
  ASSUME IInv, Return
  PROVE  IInv'
<1>1. TypeOK'
  BY DEF IInv, TypeOK, Return, Drop, NoDer, Steps
<1>. QED
  BY <1>1, Outside DEF Return, Drop

-----------------------------------------------------------------------------
(* In a call.                                                              *)

\* The types of the working state.
LEMMA WorkingType ==
  ASSUME TypeOK, pc' \in Working, Laid(file, buf', head', opts.cap),
         der'.size \in Nat, UNCHANGED <<file, opts, res, report, since, calls, edits>>
  PROVE  TypeOK'
<1>1. IsSeq(buf') /\ head' \in Nat /\ Len(file) < head' /\ IsPrefix(file, buf')
  BY DEF Laid
<1>2. IsSeq(file) /\ file # << >> /\ Len(file) \in Nat
  BY SeqFacts DEF TypeOK, IsSeq
<1>3. buf' # << >>
  BY <1>1, <1>2, ExtensionNotEmpty
<1>4. head' \in Nat \ {0}
  BY <1>1, <1>2
<1>. QED
  BY <1>1, <1>3, <1>4 DEF TypeOK, Working, IsSeq

LEMMA BuildInv ==
  ASSUME IInv, Build
  PROVE  IInv'
<1>. DEFINE doc  == Load(file)
            nap  == ApObjects(opts.ap)
            page == PageIds(doc)[PageNumber(opts)]
            objs == FieldUpdate(doc, page, "ETSI.CAdES.detached", opts.cap, nap)
            body == SignedBody(objs, FreshId(doc, 1))
<1>1. /\ buf' = Render(file, body, FreshId(doc, nap + 3), doc.root)
      /\ head' = SigPosition(file, body)
      /\ pc' = "patch"
      /\ UNCHANGED <<file, opts, der, res, report, since, calls, edits>>
  BY DEF Build
<1>2. nap \in Nat
  BY DEF ApObjects
<1>3. opts.cap \in Nat /\ IsSeq(file)
  BY OptionsAssumption DEF IInv, TypeOK, IsSeq
<1>4. /\ IsFiniteSet(DOMAIN objs)
      /\ objs[FreshId(doc, 1)] =
           [t |-> "newsig", sub |-> "ETSI.CAdES.detached", cap |-> opts.cap]
  BY <1>2, FieldUpdateFacts
<1>. HIDE DEF objs, doc, nap
<1>5. Laid(file, buf', head', opts.cap) /\ buf'[head'].sub = "ETSI.CAdES.detached"
  BY <1>1, <1>3, <1>4, SignedUpdateLaid
<1>6. TypeOK'
  BY <1>1, <1>5, WorkingType DEF IInv, TypeOK, Working, Steps
<1>. QED
  BY <1>1, <1>5, <1>6
  DEF IInv, InBuffer, Working, Steps, RightKind, RangePatched, DerMade, Written,
      WrittenVerifies, AtDss, Laid

\* A shorter document extended by a longer one that is extended by the object.
LEMMA LaidWeaken ==
  ASSUME NEW f, NEW g, NEW b, NEW h, NEW cap, IsSeq(f), IsSeq(g), IsPrefix(f, g),
         Laid(g, b, h, cap)
  PROVE  Laid(f, b, h, cap)
<1>1. Len(f) \in Nat /\ Len(g) \in Nat /\ Len(f) <= Len(g)
  BY PrefixFacts, SeqFacts
<1>2. IsSeq(b) /\ IsPrefix(f, b)
  BY PrefixTransitive DEF Laid
<1>. QED
  BY <1>1, <1>2 DEF Laid

LEMMA StampInv ==
  ASSUME IInv, Stamp
  PROVE  IInv'
<1>. DEFINE doc  == Load(buf)
            objs == FieldUpdate(doc, PageIds(doc)[1], "ETSI.RFC3161", opts.cap, 0)
            body == SignedBody(objs, FreshId(doc, 1))
<1>1. /\ buf' = Render(buf, body, FreshId(doc, 3), doc.root)
      /\ head' = SigPosition(buf, body)
      /\ pc = "stamp" /\ pc' = "tspatch"
      /\ UNCHANGED <<file, opts, der, res, report, since, calls, edits>>
  BY DEF Stamp
<1>2. opts.cap \in Nat /\ IsSeq(file) /\ IsSeq(buf) /\ IsPrefix(file, buf)
  BY OptionsAssumption DEF IInv, TypeOK, IsSeq, InBuffer
<1>3. /\ IsFiniteSet(DOMAIN objs)
      /\ objs[FreshId(doc, 1)] =
           [t |-> "newsig", sub |-> "ETSI.RFC3161", cap |-> opts.cap]
  BY FieldUpdateFacts
<1>. HIDE DEF objs, doc
<1>4. Laid(buf, buf', head', opts.cap) /\ buf'[head'].sub = "ETSI.RFC3161"
  BY <1>1, <1>2, <1>3, SignedUpdateLaid
<1>5. Laid(file, buf', head', opts.cap)
  BY <1>2, <1>4, LaidWeaken
<1>6. TypeOK'
  BY <1>1, <1>5, WorkingType DEF IInv, TypeOK, Working, Steps
<1>. QED
  BY <1>1, <1>4, <1>5, <1>6
  DEF IInv, InBuffer, Working, Steps, RightKind, RangePatched, DerMade, Written,
      WrittenVerifies, AtDss, Laid

LEMMA PatchInv ==
  ASSUME IInv, NEW from, NEW to, Patch(from, to),
         <<from, to>> \in {<<"patch", "cms">>, <<"tspatch", "token">>}
  PROVE  IInv'
<1>1. /\ pc = from /\ pc' = to
      /\ buf' = [buf EXCEPT ![head].br = ByteRange(buf, head, opts.cap)]
      /\ UNCHANGED <<file, opts, head, der, res, report, since, calls, edits>>
  BY DEF Patch
<1>2. opts.cap \in Nat /\ IsSeq(file) /\ Laid(file, buf, head, opts.cap)
  BY <1>1, OptionsAssumption DEF IInv, TypeOK, IsSeq, InBuffer, Working, Steps
<1>3. /\ Laid(file, buf', head, opts.cap) /\ Len(buf') = Len(buf)
      /\ buf'[head].sub = buf[head].sub
      /\ buf'[head].br = ByteRange(buf, head, opts.cap)
  <2>. DEFINE r == ByteRange(buf, head, opts.cap)
              c == [buf EXCEPT ![head].br = r]
  <2>. HIDE DEF r
  <2>1. Laid(file, c, head, opts.cap) /\ Repatched(buf, c, head, r)
    BY <1>2, PatchLaid, Zenon
  <2>2. buf' = c
    BY <1>1 DEF r
  <2>. HIDE DEF c
  <2>. QED
    BY <2>1, <2>2 DEF r, Repatched
<1>4. ByteRange(buf, head, opts.cap) = ByteRange(buf', head, opts.cap)
  BY <1>3, Zenon DEF ByteRange
<1>5. TypeOK'
  BY <1>1, <1>3, WorkingType DEF IInv, TypeOK, Working, Steps
<1>6. RightKind' /\ RangePatched'
  BY <1>1, <1>3, <1>4 DEF IInv, RightKind, RangePatched
<1>7. InBuffer'
  BY <1>1, <1>3 DEF InBuffer, Working, Steps, Laid
<1>. QED
  BY <1>1, <1>5, <1>6, <1>7 DEF IInv, DerMade, Written, WrittenVerifies, AtDss

\* cms_sign and request_timestamp: a value of some length over the signed bytes.
LEMMA DerInv ==
  ASSUME IInv, CmsSign \/ Token
  PROVE  IInv'
<1>1. PICK n \in DerSizes :
        /\ der' = [t |-> IF pc = "cms" THEN "cms" ELSE "tst",
                   digest |-> Covered(buf, head, opts.cap), size |-> n]
        /\ \/ pc = "cms" /\ pc' = "fill"
           \/ pc = "token" /\ pc' = "tsfill"
        /\ UNCHANGED <<file, opts, buf, head, res, report, since, calls, edits>>
  BY DEF CmsSign, Token
<1>2. n \in Nat \ {0}
  BY SizesAssumption
<1>3. Laid(file, buf, head, opts.cap)
  BY <1>1 DEF IInv, InBuffer, Working, Steps
<1>4. TypeOK'
  BY <1>1, <1>2, <1>3, WorkingType DEF IInv, TypeOK, Working, Steps
<1>5. DerMade'
  BY <1>1, <1>2 DEF IInv, DerMade, RightKind
<1>6. InBuffer' /\ RightKind' /\ RangePatched'
  BY <1>1 DEF IInv, InBuffer, Working, Steps, RightKind, RangePatched
<1>. QED
  BY <1>1, <1>4, <1>5, <1>6 DEF IInv, Written, WrittenVerifies, AtDss

\* fill_placeholder
LEMMA FillInv ==
  ASSUME IInv, Fill \/ FillStep("tsfill", "return")
  PROVE  IInv'
<1>1. /\ pc \in {"fill", "tsfill"} /\ pc' \in {"dss", "return"}
      /\ pc' = "dss" => opts.level >= Blt
      /\ der.size <= opts.cap
      /\ buf' = Filled(buf, head, opts.cap, der)
      /\ UNCHANGED <<file, opts, head, der, res, report, since, calls, edits>>
  BY DEF Fill, FillStep
<1>2. opts.cap \in Nat /\ IsSeq(file) /\ Laid(file, buf, head, opts.cap)
  BY <1>1, OptionsAssumption DEF IInv, TypeOK, IsSeq, InBuffer, Working, Steps
<1>3. /\ buf[head].br = ByteRange(buf, head, opts.cap)
      /\ der.size \in Nat \ {0}
      /\ der.digest = Covered(buf, head, opts.cap)
      /\ der.t = IF buf[head].sub = "ETSI.RFC3161" THEN "tst" ELSE "cms"
  BY <1>1 DEF IInv, TypeOK, RangePatched, DerMade
<1>. DEFINE sig == SignatureAt(buf', head, opts.cap)
<1>4. /\ Laid(file, buf', head, opts.cap) /\ RangeTyped(sig)
      /\ Valid(buf', sig) /\ CoversWholeDocument(buf', sig)
  BY <1>1, <1>2, <1>3, FillVerifies, Zenon DEF RangeTyped
<1>5. TypeOK'
  BY <1>1, <1>4, WorkingType DEF IInv, TypeOK, Working, Steps
<1>6. InBuffer'
  BY <1>1, <1>4 DEF InBuffer, Working, Steps, Laid
<1>7. Written' /\ WrittenVerifies'
  BY <1>1, <1>4, Zenon DEF Written, WrittenVerifies
<1>. QED
  BY <1>1, <1>5, <1>6, <1>7 DEF IInv, RightKind, RangePatched, DerMade, AtDss

\* add_dss appends behind what was written; that no longer covers the end.
LEMMA AddDssInv ==
  ASSUME IInv, AddDss
  PROVE  IInv'
<1>. DEFINE doc == Load(buf)
<1>1. PICK material \in Materials :
        buf' = Render(buf, PlainBody(DssUpdate(doc, material)),
                      FreshId(doc, NewBlobs(doc, material) + 1), doc.root)
  BY DEF AddDss
<1>2. /\ pc = "dss"
      /\ pc' = IF opts.level >= Blta THEN "stamp" ELSE "return"
      /\ UNCHANGED <<file, opts, head, der, res, report, since, calls, edits>>
  BY DEF AddDss
<1>3. /\ IsSeq(file) /\ IsSeq(buf) /\ buf # << >>
      /\ opts.cap \in Nat /\ Laid(file, buf, head, opts.cap)
  BY <1>2, OptionsAssumption DEF IInv, TypeOK, IsSeq, InBuffer, Working, Steps
<1>4. IsFiniteSet(DOMAIN DssUpdate(doc, material))
  BY SizesAssumption, DssUpdateFinite
<1>5. IsSeq(buf') /\ IsPrefix(buf, buf')
  BY <1>1, <1>3, <1>4, PlainUpdateExtends
<1>. DEFINE sig == SignatureAt(buf, head, opts.cap)
<1>6. /\ Laid(file, buf', head, opts.cap)
      /\ SignatureAt(buf', head, opts.cap) = sig
  <2>1. Laid(file, buf', head, opts.cap) /\ SameObject(buf, buf', head, opts.cap)
    BY <1>3, <1>5, LaidExtends
  <2>. QED
    BY <2>1, Zenon DEF SameObject
<1>7. RangeTyped(sig) /\ Valid(buf, sig)
  BY <1>2 DEF IInv, Written, WrittenVerifies
<1>8. Valid(buf', sig)
  <2>. HIDE DEF sig
  <2>. QED
    BY <1>3, <1>5, <1>7, ValidSurvivesExtension DEF RangeTyped
<1>9. opts.level >= Blt /\ opts.level \in 0..3
  BY <1>2, OptionsAssumption DEF IInv, TypeOK, AtDss
<1>10. pc' \in {"stamp", "return"} /\ (pc' = "return" => opts.level = Blt)
  BY <1>2, <1>9 DEF Blt, Blta
<1>11. TypeOK'
  BY <1>2, <1>6, <1>10, WorkingType DEF IInv, TypeOK, Working, Steps
<1>12. InBuffer'
  BY <1>2, <1>6, <1>10 DEF InBuffer, Working, Steps, Laid
<1>13. Written' /\ WrittenVerifies'
  BY <1>2, <1>6, <1>7, <1>8, <1>10, Zenon DEF Written, WrittenVerifies
<1>. QED
  BY <1>10, <1>11, <1>12, <1>13 DEF IInv, RightKind, RangePatched, DerMade, AtDss

LEMMA StepInv == IInv /\ [Next]_vars => IInv'
<1>. SUFFICES ASSUME IInv, [Next]_vars PROVE IInv'
  OBVIOUS
<1>1. CASE \E o \in Options : Call(o)
  BY <1>1, CallInv
<1>2. CASE Reject \/ PatchFails \/ CryptoFails \/ FillFails
  BY <1>2, FailInv DEF Reject, PatchFails, CryptoFails, FillFails
<1>3. CASE Build
  BY <1>3, BuildInv
<1>4. CASE Patch("patch", "cms") \/ Patch("tspatch", "token")
  BY <1>4, PatchInv
<1>5. CASE CmsSign \/ Token
  BY <1>5, DerInv
<1>6. CASE Fill \/ FillStep("tsfill", "return")
  BY <1>6, FillInv
<1>7. CASE AddDss
  BY <1>7, AddDssInv
<1>8. CASE Stamp
  BY <1>8, StampInv
<1>9. CASE Return
  BY <1>9, ReturnInv
<1>10. CASE EditPage \/ EditObject \/ EditDss \/ EditGarbage
  BY <1>10, EditInv
<1>11. CASE UNCHANGED vars
  BY <1>11, Zenon
     DEF vars, IInv, TypeOK, InBuffer, RightKind, RangePatched, DerMade, Written,
         WrittenVerifies, AtDss
<1>. QED
  BY <1>1, <1>2, <1>3, <1>4, <1>5, <1>6, <1>7, <1>8, <1>9, <1>10, <1>11, Zenon
  DEF Next, Step

-----------------------------------------------------------------------------
(* Theorems about the bytes.                                               *)

\* Every reachable state satisfies the inductive invariant.
LEMMA SpecInv == Spec => []IInv
BY InitInv, StepInv, PTL DEF Spec

\* In every behaviour the document and the buffer are sequences of cells, and the
\* control state and the counters keep their bounds (sign_pdf_bytes).
THEOREM Types == Spec => []TypeOK
<1>1. IInv => TypeOK
  BY DEF IInv
<1>. QED
  BY <1>1, SpecInv, PTL

\* sign_pdf_bytes patches bytes in place (patch_byte_range, fill_placeholder) only
\* in the part it has appended: the input stays a prefix of the buffer.
THEOREM OnlyTheUpdateIsPatched == Spec => []UpdateOnly
<1>1. IInv => UpdateOnly
  <2>. SUFFICES ASSUME IInv PROVE UpdateOnly
    OBVIOUS
  <2>1. IsPrefix(file, buf)
    BY DEF IInv, InBuffer
  <2>2. HasPlaceholder => Len(file) < head /\ GtPos(head, opts.cap) < Len(buf)
    BY DEF IInv, InBuffer, HasPlaceholder, Working, Steps, Laid
  <2>3. Len(file) \in Nat /\ head \in Nat
    BY SeqFacts DEF IInv, TypeOK, IsSeq
  <2>. QED
    BY <2>1, <2>2, <2>3 DEF UpdateOnly
<1>. QED
  BY <1>1, SpecInv, PTL

\* What fill_placeholder has written verifies against the /ByteRange that was
\* patched before it, whatever is appended until the call returns.
THEOREM WhatIsWrittenVerifies == Spec => []WrittenVerifies
<1>1. IInv => WrittenVerifies
  BY DEF IInv
<1>. QED
  BY <1>1, SpecInv, PTL

\* A step leaves the document as it is or extends it.
LEMMA StepAppends ==
  ASSUME IInv, [Next]_vars
  PROVE  IsPrefix(file, file') /\ IsSeq(file) /\ IsSeq(file')
<1>1. IsSeq(file) /\ file # << >> /\ IsPrefix(file, buf) /\ IsPrefix(file, file)
  BY PrefixReflexive DEF IInv, TypeOK, IsSeq, InBuffer
<1>2. IsSeq(file')
  BY StepInv DEF IInv, TypeOK, IsSeq
<1>3. CASE EditPage \/ EditObject \/ EditDss \/ EditGarbage
  BY <1>1, <1>2, <1>3, EditExtends
<1>4. CASE Return
  BY <1>1, <1>2, <1>4 DEF Return
<1>5. CASE file' = file
  BY <1>1, <1>5, Zenon
<1>6. \/ EditPage \/ EditObject \/ EditDss \/ EditGarbage \/ Return
      \/ file' = file
  BY Zenon
  DEF Next, Step, vars, Call, Reject, Build, Patch, PatchFails, CmsSign, Token,
      CryptoFails, Fail, Fill, FillStep, FillFails, AddDss, Stamp
<1>. QED
  BY <1>1, <1>2, <1>3, <1>4, <1>5, <1>6, Zenon

\* No call and no other program changes what a document already says.
THEOREM DocumentsOnlyGrow == Spec => AppendOnly
<1>1. IInv /\ [Next]_vars => [IsPrefix(file, file')]_vars
  BY StepAppends
<1>. QED
  BY <1>1, SpecInv, PTL DEF Spec, AppendOnly

\* A signature dictionary that verifies over the document verifies over whatever
\* the document becomes: the lasting half of SignaturesSurvive, for every
\* dictionary and not only for those the cross-reference chain leads to.
EntriesSurvive ==
  [][\A sig : RangeTyped(sig) /\ Valid(file, sig) => Valid(file', sig)]_vars
THEOREM ValidEntriesStayValid == Spec => EntriesSurvive
<1>1. IInv /\ [Next]_vars =>
        [\A sig : RangeTyped(sig) /\ Valid(file, sig) => Valid(file', sig)]_vars
  BY StepAppends, ValidSurvivesExtension DEF RangeTyped
<1>. QED
  BY <1>1, SpecInv, PTL DEF Spec, EntriesSurvive

-----------------------------------------------------------------------------
(* What a file says of itself.                                             *)

LEMMA HeaderFacts ==
  ASSUME NEW f, IsSeq(f), Readable(f)
  PROVE  /\ HeaderOffset(f) \in Nat /\ HeaderOffset(f) + 1 \in 1..Len(f)
         /\ f[HeaderOffset(f) + 1].k = "hdr"
         /\ \A i \in 1..Len(f) : f[i].k = "hdr" => HeaderOffset(f) + 1 <= i
<1> DEFINE H == {i \in DOMAIN f : f[i].k = "hdr"}
<1>1. DOMAIN f = 1..Len(f) /\ Len(f) \in Nat
  BY SeqFacts
<1>2. H # {} /\ H \subseteq Nat
  BY <1>1 DEF Readable
<1>3. Min(H) \in H /\ \A y \in H : Min(H) <= y
  <2> HIDE DEF H
  <2>1. QED
    BY <1>2, LeastOf
<1>4. HeaderOffset(f) = Min(H) - 1
  BY <1>2 DEF HeaderOffset
<1>5. PICK m : m = Min(H)
  OBVIOUS
<1>6. m \in 1..Len(f) /\ f[m].k = "hdr" /\ HeaderOffset(f) = m - 1
      /\ \A i \in 1..Len(f) : f[i].k = "hdr" => m <= i
  BY <1>1, <1>3, <1>4, <1>5
<1>7. m = HeaderOffset(f) + 1
  BY <1>6
<1>8. QED
  BY <1>1, <1>6, <1>7

LEMMA TopFacts ==
  ASSUME NEW f, IsSeq(f), Readable(f)
  PROVE  /\ Top(f) \in 1..Len(f) /\ f[Top(f)].k = "xref" /\ LastStartXref(f) \in Nat
         /\ LastStartXref(f) # 0
         /\ \E m \in 1..Len(f) : /\ f[m].k = "startxref" /\ LastStartXref(f) = f[m].at
                                 /\ \A i \in 1..Len(f) : f[i].k = "startxref" => i <= m
<1>1. DOMAIN f = 1..Len(f) /\ Len(f) \in Nat
  BY SeqFacts
<1>2. StartXrefs(f) # {} /\ StartXrefs(f) \subseteq 0..Len(f)
  BY <1>1 DEF Readable, Loadable, StartXrefs
<1>3. PICK m : m = Max(StartXrefs(f)) /\ m \in StartXrefs(f) /\ \A y \in StartXrefs(f) : y <= m
  BY <1>1, <1>2, GreatestOf
<1>4. m \in 1..Len(f) /\ f[m].k = "startxref" /\ f[m].at \in Nat /\ LastStartXref(f) = f[m].at
  BY <1>1, <1>3 DEF StartXrefs, LastStartXref, Readable
<1>5. Top(f) \in 1..Len(f) /\ f[Top(f)].k = "xref"
  BY <1>1 DEF Readable, Loadable, Top
<1>6. LastStartXref(f) # 0
  <2>1. SUFFICES ASSUME LastStartXref(f) = 0 PROVE FALSE
    OBVIOUS
  <2>2. Top(f) = HeaderOffset(f) + 1
    BY <2>1, HeaderFacts DEF Top
  <2>3. QED
    BY <1>5, <2>2, HeaderFacts
<1>7. QED
  BY <1>1, <1>3, <1>4, <1>5, <1>6 DEF StartXrefs

-----------------------------------------------------------------------------
(* The entries along the chain of cross-reference sections.                *)

Tables == UNION {[I -> Int] : I \in SUBSET Nat}
EntryAt(f, g, p) ==
  IF f[p].k # "xref" THEN << >>
  ELSE f[p].entries ++
         (IF f[p].prev = 0 THEN << >> ELSE g[f[p].prev + HeaderOffset(f) + 1])

LEMMA EmptyTable == << >> \in Tables /\ DOMAIN << >> = {}
<1>1. << >> \in [{} -> Int]
  OBVIOUS
<1>2. QED
  BY <1>1 DEF Tables

LEMMA MergeTables ==
  ASSUME NEW g \in Tables, NEW h \in Tables
  PROVE  g ++ h \in Tables
<1>1. PICK I \in SUBSET Nat : g \in [I -> Int]
  BY DEF Tables
<1>2. PICK J \in SUBSET Nat : h \in [J -> Int]
  BY DEF Tables
<1>3. g ++ h \in [I \cup J -> Int]
  BY <1>1, <1>2 DEF ++
<1>4. QED
  BY <1>3 DEF Tables

LEMMA SectionTable ==
  ASSUME NEW f, IsSeq(f), Readable(f), NEW p \in 1..Len(f), f[p].k = "xref"
  PROVE  IsSection(f, p) /\ f[p].entries \in Tables
<1>1. IsSection(f, p)
  BY SeqFacts DEF Readable
<1>2. DOMAIN f[p].entries \subseteq Nat /\ f[p].entries \in [DOMAIN f[p].entries -> Int]
  BY <1>1 DEF IsSection
<1>3. QED
  BY <1>1, <1>2 DEF Tables

LEMMA EntryTyped ==
  ASSUME NEW f, IsSeq(f), Readable(f), NEW g \in [1..Len(f) -> Tables], NEW p \in 1..Len(f)
  PROVE  EntryAt(f, g, p) \in Tables
<1>1. CASE f[p].k # "xref"
  BY <1>1, EmptyTable DEF EntryAt
<1>2. CASE f[p].k = "xref" /\ f[p].prev = 0
  BY <1>2, SectionTable, EmptyTable, MergeTables DEF EntryAt
<1>3. CASE f[p].k = "xref" /\ f[p].prev # 0
  <2>1. f[p].prev + HeaderOffset(f) + 1 \in 1..(p - 1)
    BY <1>3, SectionTable DEF IsSection
  <2>2. f[p].prev + HeaderOffset(f) + 1 \in 1..Len(f)
    BY <2>1, SeqFacts
  <2>3. QED
    BY <1>3, <2>2, SectionTable, MergeTables DEF EntryAt
<1>4. QED
  BY <1>1, <1>2, <1>3

LEMMA EntryLooksBack ==
  ASSUME NEW f, IsSeq(f), Readable(f), NEW p \in 1..Len(f), NEW g, NEW h,
         \A q \in 1..(p - 1) : g[q] = h[q]
  PROVE  EntryAt(f, g, p) = EntryAt(f, h, p)
<1>1. CASE f[p].k = "xref" /\ f[p].prev # 0
  <2>1. f[p].prev + HeaderOffset(f) + 1 \in 1..(p - 1)
    BY <1>1, SectionTable DEF IsSection
  <2>2. QED
    BY <1>1, <2>1 DEF EntryAt
<1>2. QED
  BY <1>1 DEF EntryAt

\* The recursive definition in Load defines the entries from every place on.
LEMMA EntriesUnfold ==
  ASSUME NEW f, IsSeq(f), Readable(f)
  PROVE  /\ EntriesFrom(f) \in [1..Len(f) -> Tables]
         /\ \A p \in 1..Len(f) : EntriesFrom(f)[p] = EntryAt(f, EntriesFrom(f), p)
<1> DEFINE D == 1..Len(f)
           step == [x \in D \X [D -> Tables] |-> EntryAt(f, x[2], x[1])]
           rank == [p \in D |-> p]
<1>1. Len(f) \in Nat /\ DOMAIN f = D /\ rank \in [D -> Nat] /\ Len(f) + 1 \in Nat
  BY SeqFacts
<1>2. \A p \in D : rank[p] < Len(f) + 1
  BY <1>1
<1>3. \A p \in D, g \in [D -> Tables] :
        step[<<p, g>>] = EntryAt(f, g, p) /\ EntryAt(f, g, p) \in Tables
  BY EntryTyped
<1>4. step \in [D \X [D -> Tables] -> Tables]
  <2>1. \A x \in D \X [D -> Tables] : EntryAt(f, x[2], x[1]) \in Tables
    BY EntryTyped
  <2>2. QED
    BY <2>1
<1>5. ASSUME NEW p \in D, NEW g, NEW h, \A q \in D : rank[q] < rank[p] => g[q] = h[q]
      PROVE  EntryAt(f, g, p) = EntryAt(f, h, p)
  <2>1. ASSUME NEW q \in 1..(p - 1) PROVE g[q] = h[q]
    BY <1>1, <1>5, <2>1
  <2>2. QED
    BY <2>1, EntryLooksBack
<1>6. Ranked(D, rank)
  BY <1>1, <1>2 DEF Ranked
<1>7. PICK e \in [D -> Tables] : \A p \in D : e[p] = EntryAt(f, e, p)
  <2>1. Tables # {}
    BY EmptyTable
  <2>2. ASSUME NEW p \in D, NEW g \in [D -> Tables], NEW h \in [D -> Tables],
               Agree(D, rank, p, g, h)
        PROVE  step[<<p, g>>] = step[<<p, h>>]
    <3>1. EntryAt(f, g, p) = EntryAt(f, h, p)
      <4> HIDE DEF D, rank
      <4>1. QED
        BY <1>5, <2>2 DEF Agree
    <3>2. QED
      BY <1>3, <3>1
  <2>3. LooksBack(D, Tables, rank, step)
    <3> HIDE DEF D, rank, step
    <3>1. QED
      BY <1>4, <2>1, <2>2 DEF LooksBack
  <2>4. PICK e \in [D -> Tables] : \A p \in D : e[p] = step[<<p, e>>]
    <3> HIDE DEF D, rank, step
    <3>1. QED
      BY <1>6, <2>3, RecursionDefines
  <2>5. QED
    BY <1>3, <2>4
<1>8. e = [p \in D |-> EntryAt(f, e, p)]
  BY <1>7
<1>9. PICK s : s = CHOOSE g : g = [p \in D |-> EntryAt(f, g, p)]
  OBVIOUS
<1>10. s = [p \in D |-> EntryAt(f, s, p)]
  BY <1>8, <1>9
<1>11. EntriesFrom(f) = s
  <2>1. EntriesFrom(f) = CHOOSE g : g = [p \in DOMAIN f |-> EntryAt(f, g, p)]
    BY Zenon DEF EntriesFrom, EntryAt
  <2>2. QED
    BY <1>1, <1>9, <2>1
<1>12. \A p \in D : s[p] = e[p]
  <2> DEFINE S == {p \in D : s[p] = e[p]}
  <2>1. ASSUME NEW p \in 1..Len(f), \A q \in 1..(p - 1) : q \in S PROVE p \in S
    <3>1. EntryAt(f, s, p) = EntryAt(f, e, p)
      BY <2>1, EntryLooksBack
    <3>2. QED
      BY <1>7, <1>10, <3>1
  <2>2. 1..Len(f) \subseteq S
    <3> HIDE DEF S
    <3>1. QED
      BY <1>1, <2>1, ByPlace
  <2>3. QED
    BY <2>2
<1>13. s \in [D -> Tables]
  BY <1>7, <1>10, <1>12
<1>14. QED
  BY <1>10, <1>11, <1>13

\* A table leads to objects by their numbers, none of them behind p.
IsPlace(f, q, id) ==
  f[q].k = "xref" \/ (f[q].k \in {"obj", "sig"} /\ f[q].id = id)
IsTable(f, t, p) ==
  /\ t \in Tables /\ DOMAIN t # {} /\ \E n \in Nat : DOMAIN t \subseteq 0..n
  /\ \A id \in DOMAIN t :
       t[id] + HeaderOffset(f) + 1 \in 1..p /\ IsPlace(f, t[id] + HeaderOffset(f) + 1, id)

LEMMA SectionIsTable ==
  ASSUME NEW f, IsSeq(f), Readable(f), NEW p \in 1..Len(f), f[p].k = "xref"
  PROVE  IsTable(f, f[p].entries, p)
<1>1. IsSection(f, p) /\ f[p].entries \in Tables
  BY SectionTable
<1>2. f[p].size \in Nat /\ DOMAIN f[p].entries \subseteq 0..(f[p].size - 1)
      /\ DOMAIN f[p].entries # {}
  BY <1>1 DEF IsSection
<1>3. \E n \in Nat : DOMAIN f[p].entries \subseteq 0..n
  <2>1. PICK m \in Nat : m = f[p].size
    BY <1>2
  <2>2. 0..(m - 1) \subseteq 0..m
    OBVIOUS
  <2>3. QED
    BY <1>2, <2>1, <2>2
<1>4. QED
  BY <1>1, <1>2, <1>3 DEF IsSection, IsTable, IsPlace

LEMMA MergeIsTable ==
  ASSUME NEW f, NEW s, NEW t, NEW p \in Nat, NEW q \in Nat, q <= p,
         IsTable(f, s, p), IsTable(f, t, q)
  PROVE  IsTable(f, s ++ t, p)
<1>1. s ++ t \in Tables
  BY MergeTables DEF IsTable
<1>2. DOMAIN (s ++ t) = DOMAIN s \cup DOMAIN t
      /\ \A id \in DOMAIN (s ++ t) : (s ++ t)[id] = IF id \in DOMAIN s THEN s[id] ELSE t[id]
  BY DEF ++
<1>3. \E n \in Nat : DOMAIN (s ++ t) \subseteq 0..n
  <2>1. PICK m \in Nat : DOMAIN s \subseteq 0..m
    BY DEF IsTable
  <2>2. PICK n \in Nat : DOMAIN t \subseteq 0..n
    BY DEF IsTable
  <2>3. DOMAIN (s ++ t) \subseteq 0..(m + n)
    BY <1>2, <2>1, <2>2
  <2>4. QED
    BY <2>3
<1>4. DOMAIN (s ++ t) # {}
  BY <1>2 DEF IsTable
<1>5. ASSUME NEW id \in DOMAIN (s ++ t)
      PROVE  /\ (s ++ t)[id] + HeaderOffset(f) + 1 \in 1..p
             /\ IsPlace(f, (s ++ t)[id] + HeaderOffset(f) + 1, id)
  <2>1. CASE id \in DOMAIN s
    BY <1>2, <2>1 DEF IsTable
  <2>2. CASE id \notin DOMAIN s
    <3>1. /\ t[id] + HeaderOffset(f) + 1 \in 1..q
          /\ IsPlace(f, t[id] + HeaderOffset(f) + 1, id)
      BY <1>2, <2>2 DEF IsTable
    <3>2. \A r \in 1..q : r \in 1..p
      OBVIOUS
    <3>3. QED
      BY <1>2, <2>2, <3>1, <3>2
  <2>3. QED
    BY <2>1, <2>2
<1>6. QED
  BY <1>1, <1>3, <1>4, <1>5 DEF IsTable

LEMMA EntriesAreTables ==
  ASSUME NEW f, IsSeq(f), Readable(f), NEW p \in 1..Len(f), f[p].k = "xref"
  PROVE  IsTable(f, EntriesFrom(f)[p], p)
<1> DEFINE e == EntriesFrom(f)
           S == {q \in 1..Len(f) : f[q].k = "xref" => IsTable(f, e[q], q)}
<1>1. ASSUME NEW n \in 1..Len(f), \A q \in 1..(n - 1) : q \in S PROVE n \in S
  <2> SUFFICES ASSUME f[n].k = "xref" PROVE IsTable(f, e[n], n)
    OBVIOUS
  <2>1. e[n] = EntryAt(f, e, n) /\ IsTable(f, f[n].entries, n)
    BY EntriesUnfold, SectionIsTable
  <2>2. CASE f[n].prev = 0
    <3>1. f[n].entries ++ << >> = f[n].entries
      <4>1. f[n].entries \in Tables
        BY SectionTable
      <4>2. PICK I \in SUBSET Nat : f[n].entries \in [I -> Int]
        BY <4>1 DEF Tables
      <4>3. QED
        BY <4>2, EmptyTable DEF ++
    <3>2. QED
      BY <2>1, <2>2, <3>1 DEF EntryAt
  <2>3. CASE f[n].prev # 0
    <3>1. PICK q \in 1..(n - 1) : q = f[n].prev + HeaderOffset(f) + 1 /\ f[q].k = "xref"
      <4>1. IsSection(f, n)
        BY SectionTable
      <4>2. QED
        BY <2>3, <4>1 DEF IsSection
    <3>2. IsTable(f, e[q], q) /\ q \in Nat /\ n \in Nat /\ q <= n
      BY <1>1, <3>1, SeqFacts
    <3>3. e[n] = f[n].entries ++ e[q]
      BY <2>1, <2>3, <3>1 DEF EntryAt
    <3>4. QED
      <4> HIDE DEF e
      <4>1. QED
        BY <2>1, <3>2, <3>3, MergeIsTable
  <2>4. QED
    BY <2>2, <2>3
<1>2. 1..Len(f) \subseteq S
  <2> HIDE DEF S
  <2>1. QED
    BY <1>1, ByPlace, SeqFacts
<1>3. QED
  BY <1>2

\* Two files with the same sections in the first have the same entries there.
Alike(f, g) ==
  /\ HeaderOffset(g) = HeaderOffset(f) /\ Len(f) <= Len(g)
  /\ \A p \in 1..Len(f) : /\ g[p].k = "xref" <=> f[p].k = "xref"
                          /\ f[p].k = "xref" => g[p] = f[p]
LEMMA EntriesAlike ==
  ASSUME NEW f, NEW g, IsSeq(f), IsSeq(g), Readable(f), Readable(g), Alike(f, g)
  PROVE  \A p \in 1..Len(f) : EntriesFrom(g)[p] = EntriesFrom(f)[p]
<1> DEFINE e == EntriesFrom(f)
           d == EntriesFrom(g)
           S == {q \in 1..Len(f) : d[q] = e[q]}
<1>1. \A p \in 1..Len(f) : p \in 1..Len(g)
  BY SeqFacts DEF Alike
<1>2. ASSUME NEW n \in 1..Len(f), \A q \in 1..(n - 1) : q \in S PROVE n \in S
  <2>1. e[n] = EntryAt(f, e, n) /\ d[n] = EntryAt(g, d, n)
    BY <1>1, EntriesUnfold
  <2>2. EntryAt(f, d, n) = EntryAt(f, e, n)
    BY <1>2, EntryLooksBack
  <2>3. EntryAt(g, d, n) = EntryAt(f, d, n)
    BY DEF EntryAt, Alike
  <2>4. QED
    BY <2>1, <2>2, <2>3
<1>3. 1..Len(f) \subseteq S
  <2> HIDE DEF S
  <2>1. QED
    BY <1>2, ByPlace, SeqFacts
<1>4. QED
  BY <1>3

-----------------------------------------------------------------------------
(* What Load returns.                                                      *)

LEMMA LoadFacts ==
  ASSUME NEW f
  PROVE  /\ DOMAIN Load(f).objects = Ids(f)
         /\ \A id \in Ids(f) : Load(f).objects[id] = ObjectAt(f, PlaceIn(f, id))
         /\ Load(f).maxId = Max(Ids(f)) /\ Load(f).root = f[Top(f)].root
         /\ Load(f).encrypt = f[Top(f)].encrypt
<1> DEFINE objects == [id \in Ids(f) |-> ObjectAt(f, PlaceIn(f, id))]
<1>1. Load(f) = [objects |-> objects, maxId |-> Max(Ids(f)), root |-> f[Top(f)].root,
                 encrypt |-> f[Top(f)].encrypt]
  BY DEF Load, Ids, Table, PlaceIn, Top
<1>2. DOMAIN objects = Ids(f) /\ \A id \in Ids(f) : objects[id] = ObjectAt(f, PlaceIn(f, id))
  OBVIOUS
<1> HIDE DEF objects
<1>3. QED
  BY <1>1, <1>2

LEMMA TableFacts ==
  ASSUME NEW f, IsSeq(f), Readable(f)
  PROVE  /\ Ids(f) # {} /\ Ids(f) \subseteq Nat
         /\ Load(f).maxId \in Ids(f) /\ Load(f).maxId \in Nat
         /\ \A id \in Ids(f) : id <= Load(f).maxId
         /\ IsFiniteSet(Ids(f))
         /\ \A id \in Ids(f) : /\ PlaceIn(f, id) \in 1..Len(f) /\ PlaceIn(f, id) <= Top(f)
                               /\ IsPlace(f, PlaceIn(f, id), id)
<1>1. IsTable(f, Table(f), Top(f)) /\ Top(f) \in 1..Len(f) /\ Len(f) \in Nat
  BY TopFacts, EntriesAreTables, SeqFacts DEF Table
<1>2. PICK n \in Nat : Ids(f) \subseteq 0..n /\ Ids(f) # {}
  BY <1>1 DEF IsTable, Ids
<1>3. Max(Ids(f)) \in Ids(f) /\ \A y \in Ids(f) : y <= Max(Ids(f))
  BY <1>2, GreatestOf
<1>4. IsFiniteSet(Ids(f))
  <2>1. IsFiniteSet(0..n)
    BY FS_Interval
  <2>2. QED
    BY <1>2, <2>1, FS_Subset
<1>5. ASSUME NEW id \in Ids(f)
      PROVE  /\ PlaceIn(f, id) \in 1..Len(f) /\ PlaceIn(f, id) <= Top(f)
             /\ IsPlace(f, PlaceIn(f, id), id)
  <2>1. PlaceIn(f, id) \in 1..Top(f) /\ IsPlace(f, PlaceIn(f, id), id)
    BY <1>1 DEF IsTable, Ids, PlaceIn
  <2>2. QED
    BY <1>1, <2>1
<1>6. Ids(f) \subseteq Nat
  BY <1>2
<1>7. QED
  BY <1>2, <1>3, <1>4, <1>5, <1>6, LoadFacts

-----------------------------------------------------------------------------
(* The objects in the body of an update.                                   *)

\* PdfFile.Nth: a number of a finite set by its rank.
LEMMA NthFacts ==
  ASSUME NEW S, S \subseteq Nat, IsFiniteSet(S)
  PROVE  /\ \A i \in 1..Cardinality(S) : Nth(S, i) \in S
         /\ \A x \in S : \E i \in 1..Cardinality(S) : Nth(S, i) = x
         /\ \A i, j \in 1..Cardinality(S) : Nth(S, i) = Nth(S, j) => i = j
<1> DEFINE key == [x \in S |-> x]
<1>1. Keys(S, key)
  BY DEF Keys
<1>2. \A x \in S : Upto(S, key, x) = {y \in S : y <= x}
  BY DEF Upto
<1>3. \A x \in S : Rank(S, key, x) = Cardinality({y \in S : y <= x})
  BY <1>2, Zenon DEF Rank
<1> HIDE DEF key
<1>4. ASSUME NEW i \in 1..Cardinality(S) PROVE Nth(S, i) = CHOOSE y \in S : Rank(S, key, y) = i
  BY <1>3, Zenon DEF Nth
<1>5. \A i \in 1..Cardinality(S) : Nth(S, i) \in S /\ Rank(S, key, Nth(S, i)) = i
  BY <1>1, <1>4, RankedElement
<1>6. ASSUME NEW x \in S PROVE \E i \in 1..Cardinality(S) : Nth(S, i) = x
  <2>1. PICK i \in 1..Cardinality(S) : i = Rank(S, key, x)
    BY <1>1, RankFacts
  <2>2. (CHOOSE y \in S : Rank(S, key, y) = Rank(S, key, x)) = x
    BY <1>1, RankedElement
  <2>3. Nth(S, i) = x
    BY <1>4, <2>1, <2>2, Zenon
  <2>4. QED
    BY <2>3
<1>7. QED
  BY <1>5, <1>6

\* The cell of an ordinary object.
AsWritten(objs, id) == ObjCell(id, Serialized(objs[id]))
IsPlain(p, objs, ids) ==
  /\ IsSeq(p)
  /\ \A i \in 1..Len(p) : \E id \in ids : p[i] = AsWritten(objs, id)
  /\ \A id \in ids : \E i \in 1..Len(p) : p[i] = AsWritten(objs, id)
  /\ \A i, j \in 1..Len(p) : p[i].id = p[j].id => i = j

LEMMA PlainIsPlain ==
  ASSUME NEW objs, NEW ids, ids \subseteq Nat, IsFiniteSet(ids)
  PROVE  IsPlain(Plain(objs, ids), objs, ids)
<1> DEFINE p == Plain(objs, ids)
           n == Cardinality(ids)
<1>1. n \in Nat
  BY FS_CardinalityType
<1>2. DOMAIN p = 1..n /\ \A i \in 1..n : p[i] = AsWritten(objs, Nth(ids, i))
  BY DEF Plain, AsWritten
<1>3. IsSeq(p)
  BY PlainFacts
<1> HIDE DEF p
<1>4. Len(p) = n
  BY <1>1, <1>2, <1>3, SeqFacts
<1>5. /\ \A i \in 1..n : Nth(ids, i) \in ids
      /\ \A x \in ids : \E i \in 1..n : Nth(ids, i) = x
      /\ \A i, j \in 1..n : Nth(ids, i) = Nth(ids, j) => i = j
  BY NthFacts
<1>6. \A i \in 1..n : p[i].id = Nth(ids, i)
  BY <1>2 DEF AsWritten, ObjCell
<1> HIDE DEF n
<1>7. \A i \in 1..Len(p) : \E id \in ids : p[i] = AsWritten(objs, id)
  BY <1>2, <1>4, <1>5
<1>8. \A id \in ids : \E i \in 1..Len(p) : p[i] = AsWritten(objs, id)
  BY <1>2, <1>4, <1>5
<1>9. \A i, j \in 1..Len(p) : p[i].id = p[j].id => i = j
  BY <1>4, <1>5, <1>6
<1>10. QED
  BY <1>3, <1>7, <1>8, <1>9 DEF IsPlain, p

\* The body of an update: each of the objects once, those in S as fresh signature
\* dictionaries with a placeholder.
FreshAt(body, i, objs, id) ==
  LET cap == objs[id].cap
  IN  /\ cap \in Nat /\ i + cap + 3 <= Len(body)
      /\ body[i] = SigHead(id, objs[id].sub, ByteRangePlaceholder)
      /\ body[i + 1] = Lt /\ body[i + 2 + cap] = Gt
      /\ \A j \in (i + 2)..(i + 1 + cap) : body[j] = Zero
ObjectOf(body, i, objs, S, id) ==
  IF id \in S THEN FreshAt(body, i, objs, id) ELSE body[i] = AsWritten(objs, id)
IsStart(cell) == cell.k \in {"obj", "sig"}
Inert(cell) == cell.k \notin {"obj", "sig", "xref", "startxref"}
IsBody(body, objs, S) ==
  /\ IsSeq(body) /\ DOMAIN objs \subseteq Nat /\ IsFiniteSet(DOMAIN objs)
  /\ \A i \in 1..Len(body) :
       \/ Inert(body[i])
       \/ \E id \in DOMAIN objs : ObjectOf(body, i, objs, S, id)
  /\ \A id \in DOMAIN objs : \E i \in 1..Len(body) : ObjectOf(body, i, objs, S, id)
  /\ \A i, j \in 1..Len(body) :
       IsStart(body[i]) /\ IsStart(body[j]) /\ body[i].id = body[j].id => i = j

LEMMA PlainBodyIsBody ==
  ASSUME NEW objs, DOMAIN objs \subseteq Nat, IsFiniteSet(DOMAIN objs)
  PROVE  IsBody(PlainBody(objs), objs, {})
<1>1. PICK p : p = PlainBody(objs) /\ IsPlain(p, objs, DOMAIN objs)
  BY PlainIsPlain DEF PlainBody
<1>2. \A i \in 1..Len(p) : \E id \in DOMAIN objs : ObjectOf(p, i, objs, {}, id)
  BY <1>1 DEF IsPlain, ObjectOf
<1>3. \A id \in DOMAIN objs : \E i \in 1..Len(p) : ObjectOf(p, i, objs, {}, id)
  BY <1>1 DEF IsPlain, ObjectOf
<1>4. IsBody(p, objs, {})
  BY <1>1, <1>2, <1>3 DEF IsBody, IsPlain
<1>5. QED
  BY <1>1, <1>4

\* The cells of a fresh signature dictionary.
LEMMA SigCellsAre ==
  ASSUME NEW id, NEW sig, sig.cap \in Nat
  PROVE  LET c == SigCells(id, sig)
         IN  /\ IsSeq(c) /\ Len(c) = sig.cap + 4
             /\ c[1] = SigHead(id, sig.sub, ByteRangePlaceholder)
             /\ c[2] = Lt /\ c[sig.cap + 3] = Gt
             /\ \A i \in 3..(sig.cap + 2) : c[i] = Zero
             /\ \A i \in 2..Len(c) : Inert(c[i])
<1>. DEFINE hd == SigHead(id, sig.sub, ByteRangePlaceholder)
            a  == <<hd, Lt>>
            z  == [i \in 1..sig.cap |-> Zero]
            e  == <<Gt, EndObj>>
            c  == SigCells(id, sig)
<1>1. IsSeq(a) /\ IsSeq(z) /\ IsSeq(e)
  <2>1. a \in Seq({hd, Lt}) /\ z \in Seq({Zero}) /\ e \in Seq({Gt, EndObj})
    OBVIOUS
  <2>. HIDE DEF a, z, e
  <2>. QED
    BY <2>1, SeqOver
<1>2. Len(a) = 2 /\ a[1] = hd /\ a[2] = Lt /\ Len(z) = sig.cap /\ Len(e) = 2
      /\ e[1] = Gt /\ e[2] = EndObj /\ \A i \in 1..sig.cap : z[i] = Zero
  OBVIOUS
<1>3. c = (a \o z) \o e
  BY DEF SigCells
<1>. HIDE DEF a, z, e, hd, c
<1>4. Joins(c, a, z, e)
  BY <1>1, <1>3, Concat3Facts
<1>5. /\ IsSeq(c) /\ Len(c) = sig.cap + 4
      /\ c[1] = hd /\ c[2] = Lt
  BY <1>2, <1>4 DEF Joins
<1>6. c[2 + sig.cap + 1] = Gt /\ c[2 + sig.cap + 2] = EndObj
  BY <1>2, <1>4 DEF Joins
<1>7. ASSUME NEW i \in 3..(sig.cap + 2) PROVE c[i] = Zero
  <2>1. i - 2 \in 1..sig.cap /\ i = 2 + (i - 2)
    OBVIOUS
  <2>2. c[2 + (i - 2)] = z[i - 2]
    BY <2>1, <1>2, <1>4 DEF Joins
  <2>3. QED
    BY <2>1, <2>2, <1>2
<1>8. Inert(Lt) /\ Inert(Gt) /\ Inert(EndObj) /\ Inert(Zero)
  BY DEF Inert, Lt, Gt, EndObj, Zero
<1>9. ASSUME NEW i \in 2..Len(c) PROVE Inert(c[i])
  <2>1. i = 2 \/ i \in 3..(sig.cap + 2) \/ i = 2 + sig.cap + 1 \/ i = 2 + sig.cap + 2
    BY <1>5, SMTT(30)
  <2>. QED
    BY <2>1, <1>5, <1>6, <1>7, <1>8
<1>10. 2 + sig.cap + 1 = sig.cap + 3
  OBVIOUS
<1>. QED
  BY <1>5, <1>6, <1>7, <1>9, <1>10 DEF c, hd

LEMMA SignedBodyIsBody ==
  ASSUME NEW objs, DOMAIN objs \subseteq Nat, IsFiniteSet(DOMAIN objs), NEW s \in DOMAIN objs,
         objs[s].cap \in Nat
  PROVE  IsBody(SignedBody(objs, s), objs, {s})
<1>. DEFINE L   == IdsBelow(objs, s)
            H   == IdsAbove(objs, s)
            lo  == Plain(objs, L)
            c   == SigCells(s, objs[s])
            hi  == Plain(objs, H)
            cap == objs[s].cap
            m   == Len(lo)
            body == SignedBody(objs, s)
<1>1. /\ L \subseteq DOMAIN objs /\ H \subseteq DOMAIN objs /\ DOMAIN objs = L \cup {s} \cup H
      /\ s \notin L /\ s \notin H /\ L \cap H = {}
  BY DEF IdsBelow, IdsAbove
<1>2. IsFiniteSet(L) /\ IsFiniteSet(H) /\ L \subseteq Nat /\ H \subseteq Nat
  BY <1>1, FS_Subset
<1>3. IsPlain(lo, objs, L) /\ IsPlain(hi, objs, H)
  BY <1>2, PlainIsPlain
<1>4. /\ IsSeq(c) /\ Len(c) = cap + 4
      /\ c[1] = SigHead(s, objs[s].sub, ByteRangePlaceholder)
      /\ c[2] = Lt /\ c[cap + 3] = Gt
      /\ \A i \in 3..(cap + 2) : c[i] = Zero
      /\ \A i \in 2..Len(c) : Inert(c[i])
  BY SigCellsAre
<1>5. body = (lo \o c) \o hi
  BY DEF SignedBody
<1>. HIDE DEF L, H, lo, c, hi, cap, body
<1>6. IsSeq(lo) /\ IsSeq(hi) /\ Len(lo) \in Nat /\ Len(hi) \in Nat /\ Len(c) \in Nat /\ cap \in Nat
  BY <1>3, <1>4, SeqFacts DEF IsPlain, cap
<1>7. Joins(body, lo, c, hi)
  BY <1>4, <1>5, <1>6, Concat3Facts
<1>8. FreshAt(body, m + 1, objs, s)
  <2>1. ASSUME NEW j \in 1..Len(c) PROVE body[m + j] = c[j]
    BY <1>7 DEF Joins
  <2>2. body[m + 1] = c[1] /\ body[m + 2] = c[2] /\ body[m + (cap + 3)] = c[cap + 3]
    BY <1>4, <1>6, <2>1
  <2>3. ASSUME NEW j \in (m + 3)..(m + 2 + cap) PROVE body[j] = Zero
    <3>1. j - m \in 3..(cap + 2) /\ j - m \in 1..Len(c) /\ j = m + (j - m)
      BY <1>4, <1>6, SMTT(30)
    <3>2. QED
      BY <1>4, <2>1, <3>1
  <2>4. m + 1 + cap + 3 <= Len(body)
    BY <1>4, <1>6, <1>7 DEF Joins
  <2>5. /\ (m + 1) + 1 = m + 2 /\ (m + 1) + 2 + cap = m + (cap + 3)
        /\ (m + 1) + 2 = m + 3 /\ (m + 1) + 1 + cap = m + 2 + cap
    BY <1>6
  <2>6. body[(m + 1) + 1] = Lt /\ body[(m + 1) + 2 + cap] = Gt
        /\ \A j \in ((m + 1) + 2)..((m + 1) + 1 + cap) : body[j] = Zero
    BY <1>4, <2>2, <2>3, <2>5
  <2>7. QED
    BY <1>4, <1>6, <2>2, <2>4, <2>6 DEF FreshAt, cap
<1>9. ASSUME NEW i \in 1..Len(body)
      PROVE  \/ Inert(body[i])
             \/ i = m + 1
             \/ FromPart(body, i, lo, 0) /\ \E id \in L : body[i] = AsWritten(objs, id)
             \/ FromPart(body, i, hi, m + Len(c)) /\ \E id \in H : body[i] = AsWritten(objs, id)
  <2>1. FromPart(body, i, lo, 0) \/ FromPart(body, i, c, m) \/ FromPart(body, i, hi, m + Len(c))
    BY <1>6, <1>7, JoinCases
  <2>2. CASE FromPart(body, i, lo, 0)
    BY <2>2, <1>3 DEF FromPart, IsPlain
  <2>3. CASE FromPart(body, i, hi, m + Len(c))
    BY <2>3, <1>3 DEF FromPart, IsPlain
  <2>4. CASE FromPart(body, i, c, m)
    <3>1. PICK j \in 1..Len(c) : i = m + j /\ body[i] = c[j]
      BY <2>4 DEF FromPart
    <3>2. j = 1 \/ j \in 2..Len(c)
      BY <1>6
    <3>3. QED
      BY <1>4, <3>1, <3>2
  <2>5. QED
    BY <2>1, <2>2, <2>3, <2>4
<1>10. ASSUME NEW i \in 1..Len(body), ~Inert(body[i])
       PROVE  \E id \in DOMAIN objs : ObjectOf(body, i, objs, {s}, id)
  BY <1>1, <1>8, <1>9, <1>10 DEF ObjectOf
<1>11. ASSUME NEW id \in DOMAIN objs
       PROVE  \E i \in 1..Len(body) : ObjectOf(body, i, objs, {s}, id)
  <2>1. CASE id = s
    <3>1. m + 1 \in 1..Len(body)
      BY <1>4, <1>6, <1>7 DEF Joins
    <3>2. QED
      BY <2>1, <1>8, <3>1 DEF ObjectOf
  <2>2. CASE id \in L
    <3>1. PICK j \in 1..Len(lo) : lo[j] = AsWritten(objs, id)
      BY <2>2, <1>3 DEF IsPlain
    <3>2. j \in 1..Len(body) /\ body[j] = lo[j]
      BY <1>6, <1>7 DEF Joins
    <3>3. QED
      BY <1>1, <2>2, <3>1, <3>2 DEF ObjectOf
  <2>3. CASE id \in H
    <3>1. PICK j \in 1..Len(hi) : hi[j] = AsWritten(objs, id)
      BY <2>3, <1>3 DEF IsPlain
    <3>2. m + Len(c) + j \in 1..Len(body) /\ body[m + Len(c) + j] = hi[j]
      BY <1>6, <1>7 DEF Joins
    <3>3. QED
      BY <1>1, <2>3, <3>1, <3>2 DEF ObjectOf
  <2>4. QED
    BY <1>1, <2>1, <2>2, <2>3
<1>12. ASSUME NEW i \in 1..Len(body), NEW j \in 1..Len(body),
              IsStart(body[i]), IsStart(body[j]), body[i].id = body[j].id
       PROVE  i = j
  <2>1. ~Inert(body[i]) /\ ~Inert(body[j])
    BY <1>12 DEF Inert, IsStart
  <2>2. body[m + 1].id = s
    BY <1>8 DEF FreshAt, SigHead
  <2>3. ASSUME NEW k \in 1..Len(body), ~Inert(body[k])
        PROVE  \/ k = m + 1 /\ body[k].id = s
               \/ FromPart(body, k, lo, 0) /\ body[k].id \in L
               \/ FromPart(body, k, hi, m + Len(c)) /\ body[k].id \in H
    <3>1. \A id : AsWritten(objs, id).id = id
      BY DEF AsWritten, ObjCell
    <3>2. QED
      BY <1>9, <2>2, <2>3, <3>1
  <2>4. CASE FromPart(body, i, lo, 0) /\ FromPart(body, j, lo, 0)
    BY <2>4, <1>3, <1>6, <1>12 DEF FromPart, IsPlain
  <2>5. CASE FromPart(body, i, hi, m + Len(c)) /\ FromPart(body, j, hi, m + Len(c))
    BY <2>5, <1>3, <1>6, <1>12 DEF FromPart, IsPlain
  <2>6. QED
    BY <1>1, <1>12, <2>1, <2>3, <2>4, <2>5
<1>13. DOMAIN objs \subseteq Nat /\ IsFiniteSet(DOMAIN objs)
  OBVIOUS
<1>14. IsBody(body, objs, {s})
  BY <1>7, <1>10, <1>11, <1>12, <1>13 DEF IsBody, Joins
<1>15. QED
  BY <1>14 DEF body

-----------------------------------------------------------------------------
(* An update, cell by cell.                                                *)

End(f) == Len(Terminated(f))
XOff(f, body) == (End(f) + Len(body)) - HeaderOffset(f)
IsRendered(f, g, body, size, root) ==
  /\ IsSeq(g) /\ Len(g) = End(f) + Len(body) + 2
  /\ \A i \in 1..Len(f) : g[i] = f[i]
  /\ \A i \in (Len(f) + 1)..End(f) : g[i] = Nl
  /\ \A i \in 1..Len(body) : g[End(f) + i] = body[i]
  /\ g[End(f) + Len(body) + 1] = Section(f, body, size, root, XOff(f, body))
  /\ g[End(f) + Len(body) + 2] = StartXref(XOff(f, body), TRUE)

LEMMA TerminatedIs ==
  ASSUME NEW f, IsSeq(f)
  PROVE  /\ IsSeq(Terminated(f)) /\ End(f) \in Nat /\ Len(f) \in Nat /\ Len(f) <= End(f)
         /\ \A i \in 1..Len(f) : Terminated(f)[i] = f[i]
         /\ \A i \in (Len(f) + 1)..End(f) : Terminated(f)[i] = Nl
<1>1. /\ IsSeq(Terminated(f)) /\ End(f) \in Nat /\ Len(f) \in Nat /\ Len(f) <= End(f)
      /\ \A i \in 1..Len(f) : Terminated(f)[i] = f[i]
  BY TerminatedExtends, PrefixFacts, SeqFacts DEF End
<1>2. CASE EndsWithNewline(f)
  BY <1>1, <1>2 DEF Terminated, End
<1>3. CASE ~EndsWithNewline(f)
  <2>1. Terminated(f) = Append(f, Nl)
    BY <1>3 DEF Terminated
  <2>2. Len(Append(f, Nl)) = Len(f) + 1 /\ Append(f, Nl)[Len(f) + 1] = Nl
    BY DEF IsSeq
  <2>3. QED
    BY <1>1, <2>1, <2>2 DEF End
<1>4. QED
  BY <1>2, <1>3

LEMMA RenderCells ==
  ASSUME NEW f, NEW body, NEW size, NEW root, IsSeq(f), IsSeq(body)
  PROVE  IsRendered(f, Render(f, body, size, root), body, size, root)
<1>. DEFINE out  == Terminated(f) \o body
            xoff == Len(out) - HeaderOffset(f)
            sec  == Section(f, body, size, root, xoff)
            sx   == StartXref(xoff, TRUE)
            tail == <<sec, sx>>
            g    == Render(f, body, size, root)
<1>1. g = out \o tail
  BY DEF Render
<1>2. IsSeq(tail) /\ Len(tail) = 2 /\ tail[1] = sec /\ tail[2] = sx
  <2>. HIDE DEF sec, sx
  <2>1. tail \in Seq({sec, sx}) /\ Len(tail) = 2 /\ tail[1] = sec /\ tail[2] = sx
    OBVIOUS
  <2>. HIDE DEF tail
  <2>. QED
    BY <2>1, SeqOver
<1>3. /\ IsSeq(out) /\ Len(out) = End(f) + Len(body)
      /\ \A i \in 1..End(f) : out[i] = Terminated(f)[i]
      /\ \A i \in 1..Len(body) : out[End(f) + i] = body[i]
  BY TerminatedExtends, ConcatFacts DEF End
<1>. HIDE DEF out
<1>4. xoff = XOff(f, body)
  <2>1. Len(out) = End(f) + Len(body)
    BY <1>3
  <2>2. QED
    BY <2>1, Zenon DEF XOff
<1>. HIDE DEF tail, g, xoff, sec, sx
<1>5. /\ IsSeq(g) /\ Len(g) = Len(out) + Len(tail)
      /\ \A i \in 1..Len(out) : g[i] = out[i]
      /\ \A i \in 1..Len(tail) : g[Len(out) + i] = tail[i]
  <2>1. IsSeq(out) /\ IsSeq(tail)
    BY <1>2, <1>3
  <2>2. QED
    <3>1. /\ IsSeq(out \o tail) /\ Len(out \o tail) = Len(out) + Len(tail)
          /\ \A i \in 1..Len(out) : (out \o tail)[i] = out[i]
      BY <2>1, ConcatFacts, Zenon
    <3>2. \A i \in 1..Len(tail) : (out \o tail)[Len(out) + i] = tail[i]
      <4>1. ASSUME NEW i \in 1..Len(tail) PROVE (out \o tail)[Len(out) + i] = tail[i]
        BY <2>1, ConcatFacts
      <4>2. QED
        BY <4>1
    <3>3. QED
      BY <1>1, <3>1, <3>2, Zenon
<1>6. End(f) \in Nat /\ Len(f) \in Nat /\ Len(body) \in Nat /\ Len(f) <= End(f)
  BY TerminatedIs, SeqFacts
<1>6a. /\ \A i \in 1..Len(f) : Terminated(f)[i] = f[i]
       /\ \A i \in (Len(f) + 1)..End(f) : Terminated(f)[i] = Nl
  BY TerminatedIs
<1>6b. \A i \in 1..End(f) : g[i] = Terminated(f)[i]
  BY <1>3, <1>5, <1>6
<1>7. \A i \in 1..Len(f) : g[i] = f[i]
  BY <1>6, <1>6a, <1>6b
<1>8. \A i \in (Len(f) + 1)..End(f) : g[i] = Nl
  BY <1>6, <1>6a, <1>6b
<1>9. \A i \in 1..Len(body) : g[End(f) + i] = body[i]
  BY <1>3, <1>5, <1>6
<1>10. g[End(f) + Len(body) + 1] = sec /\ g[End(f) + Len(body) + 2] = sx
  <2>1. g[Len(out) + 1] = tail[1] /\ g[Len(out) + 2] = tail[2]
    <3>1. 1 \in 1..Len(tail) /\ 2 \in 1..Len(tail)
      BY <1>2
    <3>2. QED
      BY <1>5, <3>1
  <2>2. QED
    BY <1>2, <1>3, <1>6, <2>1
<1>11. Len(g) = End(f) + Len(body) + 2
  BY <1>2, <1>3, <1>5
<1>12. IsRendered(f, g, body, size, root)
  BY <1>4, <1>5, <1>7, <1>8, <1>9, <1>10, <1>11, Zenon DEF IsRendered, sec, sx
<1>13. QED
  BY <1>12 DEF g

\* Every cell of an update is the document's, a newline, the body's, or one of the last two.
LEMMA RenderedCases ==
  ASSUME NEW f, NEW g, NEW body, NEW size, NEW root, IsSeq(f), IsSeq(body),
         IsRendered(f, g, body, size, root), NEW p \in 1..Len(g)
  PROVE  \/ p \in 1..Len(f) /\ g[p] = f[p]
         \/ g[p] = Nl
         \/ \E i \in 1..Len(body) : p = End(f) + i /\ g[p] = body[i]
         \/ p = End(f) + Len(body) + 1
         \/ p = Len(g)
<1>1. End(f) \in Nat /\ Len(f) \in Nat /\ Len(body) \in Nat /\ Len(f) <= End(f)
      /\ Len(g) = End(f) + Len(body) + 2
  BY TerminatedIs, SeqFacts DEF IsRendered
<1>2. \/ p \in 1..Len(f) \/ p \in (Len(f) + 1)..End(f)
      \/ p \in (End(f) + 1)..(End(f) + Len(body))
      \/ p = End(f) + Len(body) + 1 \/ p = Len(g)
  BY <1>1
<1>3. CASE p \in (End(f) + 1)..(End(f) + Len(body))
  <2>1. p - End(f) \in 1..Len(body) /\ p = End(f) + (p - End(f))
    BY <1>1, <1>3
  <2>2. QED
    BY <2>1 DEF IsRendered
<1>4. QED
  BY <1>2, <1>3 DEF IsRendered

-----------------------------------------------------------------------------
(* What is appended to a file leaves what it says as it is.                *)

LEMMA HeaderKept ==
  ASSUME NEW f, NEW g, IsSeq(f), IsSeq(g), Readable(f), StartOf(f, g)
  PROVE  HeaderOffset(g) = HeaderOffset(f)
<1>1. /\ HeaderOffset(f) \in Nat /\ HeaderOffset(f) + 1 \in 1..Len(f)
      /\ f[HeaderOffset(f) + 1].k = "hdr"
      /\ \A i \in 1..Len(f) : f[i].k = "hdr" => HeaderOffset(f) + 1 <= i
  BY HeaderFacts
<1>2. DOMAIN g = 1..Len(g) /\ Len(g) \in Nat /\ Len(f) \in Nat
  BY SeqFacts
<1>3. PICK m \in 1..Len(f) : m = HeaderOffset(f) + 1
  BY <1>1
<1>. DEFINE H == {i \in DOMAIN g : g[i].k = "hdr"}
<1>4. m \in H /\ H \subseteq Int
  BY <1>1, <1>2, <1>3 DEF StartOf
<1>5. ASSUME NEW i \in H PROVE m <= i
  <2>1. CASE i \in 1..Len(f)
    BY <2>1, <1>1, <1>3 DEF StartOf
  <2>2. CASE i \notin 1..Len(f)
    BY <2>2, <1>2
  <2>3. QED
    BY <2>1, <2>2
<1>6. Min(H) = m
  <2>. HIDE DEF H
  <2>1. QED
    BY <1>4, <1>5, IsLeast
<1>7. HeaderOffset(g) = Min(H) - 1
  BY <1>4 DEF HeaderOffset
<1>8. QED
  BY <1>1, <1>3, <1>6, <1>7

\* What the parser does with a signature dictionary.
LEMMA WholeObject ==
  ASSUME NEW f, IsSeq(f), NEW p \in 1..Len(f), NEW cap \in Nat, WholeAt(f, p, cap)
  PROVE  ObjectAt(f, p) = [t |-> "sig", sub |-> f[p].sub, br |-> f[p].br,
                           contents |-> SubSeq(f, p + 2, p + 1 + cap)]
<1>1. f[p].k = "sig"
  BY DEF WholeAt, SigHead
<1>2. /\ Len(f) \in Nat /\ p + cap + 2 < Len(f) /\ f[p + 2 + cap].k = "gt"
      /\ \A i \in p..(p + 1 + cap) : f[i].k # "gt"
  <2>1. p + cap + 2 < Len(f) /\ f[p + 2 + cap].k = "gt"
    BY DEF WholeAt, Gt
  <2>2. \A i \in (p + 1)..(p + 1 + cap) : f[i].k # "gt"
    BY DEF WholeAt
  <2>3. QED
    BY <1>1, <2>1, <2>2, SeqFacts, SMTT(30)
<1>. DEFINE First(i) == f[i].k = "gt" /\ \A j \in p..(i - 1) : f[j].k # "gt"
            gt == CHOOSE i \in p..Len(f) : First(i)
<1>3. p + 2 + cap \in p..Len(f) /\ First(p + 2 + cap)
  BY <1>2
<1>4. ASSUME NEW i \in p..Len(f), First(i) PROVE i = p + 2 + cap
  BY <1>2, <1>4
<1>5. gt = p + 2 + cap
  <2>. HIDE DEF First
  <2>1. QED
    BY <1>3, <1>4
<1>6. ObjectAt(f, p) = [t |-> "sig", sub |-> f[p].sub, br |-> f[p].br,
                        contents |-> SubSeq(f, p + 2, gt - 1)]
  BY <1>1 DEF ObjectAt
<1>7. gt - 1 = p + 1 + cap
  <2>. HIDE DEF gt
  <2>1. QED
    BY <1>5, SeqFacts
<1>8. QED
  BY <1>6, <1>7

LEMMA WholeKept ==
  ASSUME NEW f, NEW g, IsSeq(f), IsSeq(g), StartOf(f, g), NEW p \in 1..Len(f), NEW cap \in Nat,
         WholeAt(f, p, cap)
  PROVE  WholeAt(g, p, cap) /\ ObjectAt(g, p) = ObjectAt(f, p)
<1>1. Len(f) \in Nat /\ Len(g) \in Nat /\ Len(f) <= Len(g) /\ p + cap + 2 < Len(f)
  BY SeqFacts DEF StartOf, WholeAt
<1>2. \A i \in p..(p + 2 + cap) : i \in 1..Len(f) /\ g[i] = f[i]
  BY <1>1 DEF StartOf
<1>3. g[p] = f[p] /\ g[p + 1] = f[p + 1] /\ g[p + 2 + cap] = f[p + 2 + cap]
  BY <1>2
<1>4. WholeAt(g, p, cap)
  BY <1>1, <1>2, <1>3 DEF WholeAt
<1>5. SubSeq(g, p + 2, p + 1 + cap) = SubSeq(f, p + 2, p + 1 + cap)
  BY <1>2
<1>6. p \in 1..Len(g)
  BY <1>1
<1>7. QED
  BY <1>3, <1>4, <1>5, <1>6, WholeObject

LEMMA IsWholeFacts ==
  ASSUME NEW f, IsSeq(f), Readable(f), NEW p \in 1..Len(f), f[p].k = "sig"
  PROVE  \E cap \in Nat : WholeAt(f, p, cap)
BY SeqFacts DEF Readable, IsWhole

\* An object of a file is the same object of whatever the file becomes.
LEMMA ObjectKept ==
  ASSUME NEW f, NEW g, IsSeq(f), IsSeq(g), Readable(f), StartOf(f, g), NEW p \in 1..Len(f)
  PROVE  ObjectAt(g, p) = ObjectAt(f, p)
<1>1. CASE f[p].k = "sig"
  BY <1>1, IsWholeFacts, WholeKept
<1>2. CASE f[p].k # "sig"
  BY <1>2 DEF ObjectAt, StartOf
<1>3. QED
  BY <1>1, <1>2

LEMMA SectionKept ==
  ASSUME NEW f, NEW g, IsSeq(f), IsSeq(g), Readable(f), StartOf(f, g), NEW p \in 1..Len(f),
         f[p].k = "xref"
  PROVE  IsSection(g, p)
<1>1. IsSection(f, p) /\ HeaderOffset(g) = HeaderOffset(f) /\ g[p] = f[p]
  BY SectionTable, HeaderKept DEF StartOf
<1>2. \A q \in 1..p : g[q] = f[q]
  BY SeqFacts DEF StartOf
<1>3. \A q \in 1..(p - 1) : g[q] = f[q]
  BY <1>2
<1>. DEFINE x == f[p]
<1>4. ASSUME NEW id \in DOMAIN x.entries
      PROVE  LET q == x.entries[id] + HeaderOffset(g) + 1
             IN  /\ q \in 1..p
                 /\ \/ g[q].k = "xref"
                    \/ g[q].k \in {"obj", "sig"} /\ g[q].id = id
  BY <1>1, <1>2, SMTT(30) DEF IsSection
<1>5. x.prev # 0 => /\ x.prev + HeaderOffset(g) + 1 \in 1..(p - 1)
                    /\ g[x.prev + HeaderOffset(g) + 1].k = "xref"
  BY <1>1, <1>3 DEF IsSection
<1>6. g[p] = x
  BY <1>1
<1>. HIDE DEF x
<1>7. IsSection(g, p) <=> 
        /\ x.size \in Nat /\ x.prev \in Nat /\ x.root \in Nat
        /\ DOMAIN x.entries # {} /\ DOMAIN x.entries \subseteq 0..(x.size - 1)
        /\ x.entries \in [DOMAIN x.entries -> Int]
  BY <1>4, <1>5, <1>6, Zenon DEF IsSection
<1>8. QED
  BY <1>1, <1>7 DEF IsSection, x

-----------------------------------------------------------------------------
(* A document and an update of it.                                         *)

\* The serializer writes values a reader knows.
LEMMA SerializedValue ==
  ASSUME NEW val, IsValue(val)
  PROVE  /\ IsValue(Serialized(val)) /\ Serialized(val).t = val.t
         /\ val \in Catalogs => Serialized(val) \in Catalogs
         /\ val \notin Catalogs => Serialized(val) = val
<1>1. CASE val \in Catalogs
  <2>1. [val EXCEPT !.number = "integer"] \in Catalogs
    BY <1>1 DEF Catalogs
  <2>2. Serialized(val) \in Catalogs /\ Serialized(val).t = "catalog" /\ val.t = "catalog"
    BY <1>1, <2>1 DEF Serialized, Catalogs
  <2>3. IsValue(Serialized(val))
    BY <2>2 DEF IsValue
  <2>4. QED
    BY <1>1, <2>2, <2>3
<1>2. CASE val \notin Catalogs
  <2>1. val.t # "catalog"
    BY <1>2 DEF IsValue, Pages, Forms, Dsses, Arrays, Widgets, ApObj, Der
  <2>2. Serialized(val) = val
    BY <2>1 DEF Serialized
  <2>3. QED
    BY <1>2, <2>2
<1>3. QED
  BY <1>1, <1>2

LEMMA ValueIsNoSig ==
  ASSUME NEW val, IsValue(val)
  PROVE  val.t # "sig" /\ val.t # "xref"
BY DEF IsValue, Catalogs, Pages, Forms, Dsses, Arrays, Widgets, ApObj

LEMMA ObjectOfFacts ==
  ASSUME NEW body, NEW i, NEW objs, NEW S, NEW id, ObjectOf(body, i, objs, S, id)
  PROVE  /\ IsStart(body[i]) /\ body[i].id = id /\ ~Inert(body[i])
         /\ IF id \in S THEN body[i].k = "sig" ELSE body[i].k = "obj"
BY DEF ObjectOf, FreshAt, SigHead, AsWritten, ObjCell, IsStart, Inert

LEMMA BodyPlaces ==
  ASSUME NEW body, NEW objs, NEW S, IsBody(body, objs, S)
  PROVE  /\ BodyIds(body) = DOMAIN objs
         /\ \A id \in DOMAIN objs :
              /\ PlaceOf(body, id) \in 1..Len(body)
              /\ ObjectOf(body, PlaceOf(body, id), objs, S, id)
         /\ \A i \in 1..Len(body) :
              IsStart(body[i]) => body[i].id \in DOMAIN objs /\ PlaceOf(body, body[i].id) = i
<1>1. DOMAIN body = 1..Len(body)
  BY SeqFacts DEF IsBody
<1>2. Starts(body) = {i \in 1..Len(body) : IsStart(body[i])}
  BY <1>1 DEF Starts, IsStart
<1>3. ASSUME NEW i \in Starts(body) PROVE body[i].id \in DOMAIN objs
  <2>1. i \in 1..Len(body) /\ ~Inert(body[i])
    BY <1>2 DEF Inert, IsStart
  <2>2. PICK id \in DOMAIN objs : ObjectOf(body, i, objs, S, id)
    BY <2>1 DEF IsBody
  <2>3. QED
    BY <2>2, ObjectOfFacts
<1>4. ASSUME NEW id \in DOMAIN objs
      PROVE  /\ \E i \in Starts(body) : body[i].id = id
             /\ PlaceOf(body, id) \in 1..Len(body)
             /\ ObjectOf(body, PlaceOf(body, id), objs, S, id)
  <2>1. PICK i \in 1..Len(body) : ObjectOf(body, i, objs, S, id)
    BY DEF IsBody
  <2>2. i \in Starts(body) /\ body[i].id = id
    BY <1>2, <2>1, ObjectOfFacts
  <2>3. PlaceOf(body, id) \in Starts(body) /\ body[PlaceOf(body, id)].id = id
    BY <2>2 DEF PlaceOf
  <2>4. PlaceOf(body, id) = i
    BY <1>2, <2>2, <2>3 DEF IsBody
  <2>5. QED
    BY <2>1, <2>2, <2>4
<1>5. BodyIds(body) = DOMAIN objs
  BY <1>3, <1>4 DEF BodyIds
<1>6. ASSUME NEW i \in 1..Len(body), IsStart(body[i])
      PROVE  body[i].id \in DOMAIN objs /\ PlaceOf(body, body[i].id) = i
  <2>1. i \in Starts(body)
    BY <1>2, <1>6
  <2>2. PICK j : j = PlaceOf(body, body[i].id) /\ j \in Starts(body) /\ body[j].id = body[i].id
    BY <2>1 DEF PlaceOf
  <2>3. j = i
    BY <1>2, <2>1, <2>2 DEF IsBody
  <2>4. QED
    BY <1>3, <2>1, <2>2, <2>3
<1>7. QED
  BY <1>4, <1>5, <1>6

\* An update that a document can be given.
Fits(f, objs, S, size, root) ==
  /\ IsSeq(f) /\ Readable(f) /\ DOMAIN objs # {}
  /\ size \in Nat /\ root \in Nat /\ DOMAIN objs \subseteq 0..(size - 1)
  /\ \A id \in DOMAIN objs \ S : IsValue(objs[id])
IsUpdate(f, g, body, objs, S, size, root) ==
  /\ Fits(f, objs, S, size, root) /\ IsBody(body, objs, S)
  /\ IsRendered(f, g, body, size, root)

LEMMA UpdateNumbers ==
  ASSUME NEW f, NEW g, NEW body, NEW objs, NEW S, NEW size, NEW root,
         IsUpdate(f, g, body, objs, S, size, root)
  PROVE  /\ IsSeq(f) /\ Readable(f) /\ IsSeq(body) /\ IsSeq(g)
         /\ End(f) \in Nat /\ Len(f) \in Nat /\ Len(body) \in Nat /\ Len(f) <= End(f)
         /\ Len(g) = End(f) + Len(body) + 2 /\ StartOf(f, g)
         /\ HeaderOffset(f) \in Nat /\ HeaderOffset(f) < Len(f)
         /\ HeaderOffset(g) = HeaderOffset(f)
<1>1. IsSeq(f) /\ Readable(f) /\ IsSeq(body) /\ IsSeq(g)
  BY DEF IsUpdate, Fits, IsBody, IsRendered
<1>2. End(f) \in Nat /\ Len(f) \in Nat /\ Len(body) \in Nat /\ Len(f) <= End(f)
  BY <1>1, TerminatedIs, SeqFacts
<1>3. Len(g) = End(f) + Len(body) + 2 /\ StartOf(f, g)
  BY <1>2 DEF IsUpdate, IsRendered, StartOf
<1>4. HeaderOffset(f) \in Nat /\ HeaderOffset(f) < Len(f)
  <2>1. HeaderOffset(f) \in Nat /\ HeaderOffset(f) + 1 \in 1..Len(f)
    BY <1>1, HeaderFacts
  <2>2. QED
    BY <1>2, <2>1
<1>5. HeaderOffset(g) = HeaderOffset(f)
  BY <1>1, <1>3, HeaderKept
<1>6. QED
  BY <1>1, <1>2, <1>3, <1>4, <1>5

LEMMA SectionIsXref ==
  ASSUME NEW f, NEW body, NEW size, NEW root, NEW x
  PROVE  Section(f, body, size, root, x).k = "xref"
BY DEF Section

\* The update's cross-reference section is the newest.
LEMMA NewTop ==
  ASSUME NEW f, NEW g, NEW body, NEW objs, NEW S, NEW size, NEW root,
         IsUpdate(f, g, body, objs, S, size, root)
  PROVE  /\ Top(g) = End(f) + Len(body) + 1 /\ Top(g) \in 1..Len(g) /\ Len(f) < Top(g)
         /\ LastStartXref(g) = XOff(f, body) /\ XOff(f, body) \in Nat
         /\ g[Top(g)] = Section(f, body, size, root, XOff(f, body)) /\ g[Top(g)].k = "xref"
         /\ StartXrefs(g) # {}
<1>1. /\ IsSeq(g) /\ Len(g) = End(f) + Len(body) + 2 /\ HeaderOffset(g) = HeaderOffset(f)
      /\ End(f) \in Nat /\ Len(f) \in Nat /\ Len(body) \in Nat /\ Len(f) <= End(f)
      /\ HeaderOffset(f) \in Nat /\ HeaderOffset(f) < Len(f)
  BY UpdateNumbers
<1>2. /\ g[End(f) + Len(body) + 1] = Section(f, body, size, root, XOff(f, body))
      /\ g[Len(g)] = StartXref(XOff(f, body), TRUE)
  BY <1>1 DEF IsUpdate, IsRendered
<1>3. DOMAIN g = 1..Len(g) /\ Len(g) \in Nat
  BY <1>1, SeqFacts
<1>4. Len(g) \in StartXrefs(g) /\ StartXrefs(g) \subseteq Int /\ \A y \in StartXrefs(g) : y <= Len(g)
  <2>1. g[Len(g)].k = "startxref"
    BY <1>2 DEF StartXref
  <2>2. QED
    BY <1>1, <1>3, <2>1 DEF StartXrefs
<1>5. Max(StartXrefs(g)) = Len(g)
  BY <1>4, IsGreatest
<1>6. LastStartXref(g) = XOff(f, body)
  <2>1. g[Len(g)].at = XOff(f, body)
    BY <1>2 DEF StartXref
  <2>2. QED
    BY <1>5, <2>1 DEF LastStartXref
<1>7. XOff(f, body) \in Nat /\ XOff(f, body) + HeaderOffset(f) + 1 = End(f) + Len(body) + 1
  BY <1>1 DEF XOff
<1>8. Top(g) = End(f) + Len(body) + 1
  BY <1>1, <1>6, <1>7 DEF Top
<1>9. Top(g) \in 1..Len(g) /\ Len(f) < Top(g)
  BY <1>1, <1>8
<1>10. g[End(f) + Len(body) + 1].k = "xref"
  BY <1>2, SectionIsXref
<1>11. QED
  BY <1>2, <1>4, <1>6, <1>7, <1>8, <1>9, <1>10

\* Where the update's section leads to.
NewEntries(f, body, size) ==
  IF UsesXrefStream(f) THEN Queue(size, XOff(f, body)) ++ Entries(f, body)
  ELSE Entries(f, body)
NewIds(f, objs, size) == IF UsesXrefStream(f) THEN DOMAIN objs \cup {size} ELSE DOMAIN objs

LEMMA EntriesOf ==
  ASSUME NEW f, NEW g, NEW body, NEW objs, NEW S, NEW size, NEW root,
         IsUpdate(f, g, body, objs, S, size, root)
  PROVE  LET e == NewEntries(f, body, size)
         IN  /\ DOMAIN e = NewIds(f, objs, size) /\ e \in [NewIds(f, objs, size) -> Int]
             /\ \A id \in DOMAIN objs :
                  e[id] + HeaderOffset(f) + 1 = End(f) + PlaceOf(body, id)
             /\ UsesXrefStream(f) => e[size] + HeaderOffset(f) + 1 = End(f) + Len(body) + 1
<1>. DEFINE e == NewEntries(f, body, size)
            p == Entries(f, body)
<1>1. /\ End(f) \in Nat /\ Len(body) \in Nat /\ HeaderOffset(f) \in Nat
      /\ XOff(f, body) \in Nat /\ XOff(f, body) + HeaderOffset(f) + 1 = End(f) + Len(body) + 1
  BY UpdateNumbers, NewTop DEF XOff
<1>2. /\ BodyIds(body) = DOMAIN objs
      /\ \A id \in DOMAIN objs : PlaceOf(body, id) \in 1..Len(body)
  BY BodyPlaces DEF IsUpdate
<1>3. /\ DOMAIN p = DOMAIN objs
      /\ \A id \in DOMAIN objs : p[id] \in Int /\ p[id] + HeaderOffset(f) + 1 = End(f) + PlaceOf(body, id)
  <2>1. p = [id \in DOMAIN objs |-> End(f) + PlaceOf(body, id) - 1 - HeaderOffset(f)]
    BY <1>2 DEF Entries, End
  <2>2. ASSUME NEW id \in DOMAIN objs
        PROVE  p[id] \in Int /\ p[id] + HeaderOffset(f) + 1 = End(f) + PlaceOf(body, id)
    <3>1. p[id] = End(f) + PlaceOf(body, id) - 1 - HeaderOffset(f)
      BY <2>1
    <3>2. PICK n \in 1..Len(body) : n = PlaceOf(body, id)
      BY <1>2
    <3>3. QED
      <4> HIDE DEF p
      <4>1. QED
        BY <1>1, <3>1, <3>2
  <2>3. QED
    BY <2>1, <2>2
<1>4. size \notin DOMAIN objs
  BY DEF IsUpdate, Fits
<1>5. p \in [DOMAIN objs -> Int]
  BY <1>2, <1>3 DEF Entries
<1>. HIDE DEF p
<1>6. CASE ~UsesXrefStream(f)
  <2>1. e = p /\ NewIds(f, objs, size) = DOMAIN objs
    BY <1>6 DEF NewEntries, NewIds, p
  <2>2. QED
    BY <1>3, <1>5, <1>6, <2>1
<1>7. CASE UsesXrefStream(f)
  <2>1. e = Queue(size, XOff(f, body)) ++ p /\ NewIds(f, objs, size) = DOMAIN objs \cup {size}
    BY <1>7 DEF NewEntries, NewIds, p
  <2>2. DOMAIN Queue(size, XOff(f, body)) = {size} /\ Queue(size, XOff(f, body))[size] = XOff(f, body)
    BY SingleFacts
  <2>3. /\ DOMAIN e = DOMAIN objs \cup {size} /\ e[size] = XOff(f, body)
        /\ \A id \in DOMAIN objs : e[id] = p[id]
        /\ e = [id \in DOMAIN e |-> e[id]]
    BY <1>3, <1>4, <2>1, <2>2 DEF ++
  <2>. HIDE DEF e
  <2>4. e \in [DOMAIN objs \cup {size} -> Int]
    BY <1>1, <1>3, <2>3
  <2>5. QED
    BY <1>1, <1>3, <2>1, <2>3, <2>4 DEF e
<1>8. QED
  BY <1>6, <1>7

\* Where the objects of an update are in it.
NewPlace(f, body, objs, id) ==
  IF id \in DOMAIN objs THEN End(f) + PlaceOf(body, id) ELSE End(f) + Len(body) + 1

LEMMA NewPlaces ==
  ASSUME NEW f, NEW g, NEW body, NEW objs, NEW S, NEW size, NEW root,
         IsUpdate(f, g, body, objs, S, size, root), NEW id \in NewIds(f, objs, size)
  PROVE  LET q == NewPlace(f, body, objs, id)
         IN  /\ q \in 1..Top(g) /\ Len(f) < q /\ IsPlace(g, q, id)
             /\ NewEntries(f, body, size)[id] + HeaderOffset(g) + 1 = q
             /\ id \in DOMAIN objs => /\ PlaceOf(body, id) \in 1..Len(body)
                                      /\ g[q] = body[PlaceOf(body, id)]
                                      /\ ObjectOf(body, PlaceOf(body, id), objs, S, id)
             /\ id \notin DOMAIN objs => id = size /\ g[q].k = "xref"
<1>1. /\ HeaderOffset(g) = HeaderOffset(f) /\ Len(g) = End(f) + Len(body) + 2
      /\ End(f) \in Nat /\ Len(f) \in Nat /\ Len(body) \in Nat /\ Len(f) <= End(f)
  BY UpdateNumbers
<1>2. Top(g) = End(f) + Len(body) + 1 /\ g[Top(g)].k = "xref"
  BY NewTop
<1>3. CASE id \in DOMAIN objs
  <2>1. PICK n \in 1..Len(body) : n = PlaceOf(body, id) /\ ObjectOf(body, n, objs, S, id)
    BY <1>3, BodyPlaces DEF IsUpdate
  <2>2. g[End(f) + n] = body[n]
    BY DEF IsUpdate, IsRendered
  <2>3. IsStart(body[n]) /\ body[n].id = id
    BY <2>1, ObjectOfFacts
  <2>4. IsPlace(g, End(f) + n, id)
    BY <2>2, <2>3 DEF IsPlace, IsStart
  <2>5. NewEntries(f, body, size)[id] + HeaderOffset(g) + 1 = End(f) + n
    BY <1>1, <1>3, <2>1, EntriesOf
  <2>6. NewPlace(f, body, objs, id) = End(f) + n
    BY <1>3, <2>1 DEF NewPlace
  <2>7. End(f) + n \in 1..Top(g) /\ Len(f) < End(f) + n
    BY <1>1, <1>2
  <2>8. QED
    BY <1>3, <2>1, <2>2, <2>4, <2>5, <2>6, <2>7
<1>4. CASE id \notin DOMAIN objs
  <2>1. id = size /\ UsesXrefStream(f)
    BY <1>4 DEF NewIds
  <2>2. NewEntries(f, body, size)[id] + HeaderOffset(g) + 1 = Top(g)
    BY <1>1, <1>2, <2>1, EntriesOf
  <2>3. NewPlace(f, body, objs, id) = Top(g)
    BY <1>2, <1>4 DEF NewPlace
  <2>4. Top(g) \in 1..Top(g) /\ Len(f) < Top(g)
    BY <1>1, <1>2
  <2>5. IsPlace(g, Top(g), id)
    BY <1>2 DEF IsPlace
  <2>6. QED
    BY <1>2, <1>4, <2>1, <2>2, <2>3, <2>4, <2>5
<1>5. QED
  BY <1>3, <1>4

LEMMA NewSection ==
  ASSUME NEW f, NEW g, NEW body, NEW objs, NEW S, NEW size, NEW root,
         IsUpdate(f, g, body, objs, S, size, root)
  PROVE  /\ IsSection(g, Top(g))
         /\ g[Top(g)].entries = NewEntries(f, body, size) /\ g[Top(g)].prev = LastStartXref(f)
         /\ g[Top(g)].root = root /\ g[Top(g)].encrypt = FALSE
<1>. DEFINE e == NewEntries(f, body, size)
            D == NewIds(f, objs, size)
            n == IF UsesXrefStream(f) THEN size + 1 ELSE size
<1>1. g[Top(g)] = Section(f, body, size, root, XOff(f, body)) /\ HeaderOffset(g) = HeaderOffset(f)
  BY NewTop, UpdateNumbers
<1>2. /\ g[Top(g)].entries = e /\ g[Top(g)].prev = LastStartXref(f) /\ g[Top(g)].root = root
      /\ g[Top(g)].encrypt = FALSE /\ g[Top(g)].size = n
  <2>1. \A x : g[Top(g)] = Section(f, body, size, root, x) =>
          /\ g[Top(g)].prev = LastStartXref(f) /\ g[Top(g)].root = root
          /\ g[Top(g)].encrypt = FALSE /\ g[Top(g)].size = n
    BY DEF Section, XrefId
  <2>2. g[Top(g)].entries = e
    BY <1>1 DEF Section, XrefId, NewEntries
  <2>3. QED
    BY <1>1, <2>1, <2>2
<1>3. DOMAIN e = D /\ e \in [D -> Int]
  BY EntriesOf
<1>4. /\ size \in Nat /\ root \in Nat /\ DOMAIN objs # {} /\ DOMAIN objs \subseteq 0..(size - 1)
      /\ IsSeq(f) /\ Readable(f)
  BY DEF IsUpdate, Fits
<1>5. D # {} /\ D \subseteq 0..(n - 1) /\ n \in Nat
  BY <1>4 DEF NewIds
<1>6. ASSUME NEW id \in D
      PROVE  LET q == e[id] + HeaderOffset(g) + 1
             IN  /\ q \in 1..Top(g)
                 /\ \/ g[q].k = "xref"
                    \/ g[q].k \in {"obj", "sig"} /\ g[q].id = id
  BY NewPlaces DEF IsPlace
<1>7. /\ LastStartXref(f) \in Nat
      /\ LastStartXref(f) + HeaderOffset(g) + 1 \in 1..(Top(g) - 1)
      /\ g[LastStartXref(f) + HeaderOffset(g) + 1].k = "xref"
  <2>1. Top(f) \in 1..Len(f) /\ f[Top(f)].k = "xref" /\ LastStartXref(f) \in Nat
    BY <1>4, TopFacts
  <2>2. StartOf(f, g) /\ Len(f) \in Nat
    BY UpdateNumbers
  <2>3. Len(f) < Top(g) /\ Top(g) \in Nat
    BY NewTop, UpdateNumbers
  <2>4. g[Top(f)].k = "xref"
    BY <2>1, <2>2 DEF StartOf
  <2>5. Top(f) \in 1..(Top(g) - 1)
    BY <2>1, <2>2, <2>3
  <2>6. Top(f) = LastStartXref(f) + HeaderOffset(g) + 1
    BY <1>1 DEF Top
  <2>7. QED
    BY <2>1, <2>4, <2>5, <2>6
<1>. HIDE DEF e, D, n
<1>8. IsSection(g, Top(g))
  BY <1>2, <1>3, <1>4, <1>5, <1>6, <1>7 DEF IsSection
<1>9. QED
  BY <1>2, <1>8 DEF e

LEMMA Between ==
  ASSUME NEW e \in Nat, NEW i \in Nat, NEW k \in Int, NEW n \in Nat,
         e + i + 1 < e + k, e + k <= e + i + 1 + n
  PROVE  i + 2 <= k /\ k <= i + 1 + n
OBVIOUS

\* A fresh signature dictionary has its whole placeholder, in the file too.
LEMMA FreshIsWhole ==
  ASSUME NEW f, NEW g, NEW body, NEW objs, NEW S, NEW size, NEW root,
         IsUpdate(f, g, body, objs, S, size, root), NEW i \in 1..Len(body), NEW id,
         FreshAt(body, i, objs, id)
  PROVE  WholeAt(g, End(f) + i, objs[id].cap)
<1>. DEFINE cap == objs[id].cap
            p   == End(f) + i
<1>1. /\ cap \in Nat /\ i + cap + 3 <= Len(body)
      /\ body[i] = SigHead(id, objs[id].sub, ByteRangePlaceholder)
      /\ body[i + 1] = Lt /\ body[i + 2 + cap] = Gt
      /\ \A j \in (i + 2)..(i + 1 + cap) : body[j] = Zero
  BY DEF FreshAt
<1>2. /\ Len(g) = End(f) + Len(body) + 2 /\ End(f) \in Nat /\ Len(body) \in Nat
      /\ \A j \in 1..Len(body) : g[End(f) + j] = body[j]
  BY UpdateNumbers DEF IsUpdate, IsRendered
<1>. HIDE DEF cap
<1>3. /\ g[p] = body[i]
      /\ g[End(f) + (i + 1)] = body[i + 1]
      /\ g[End(f) + (i + 2 + cap)] = body[i + 2 + cap]
  <2>1. i + 1 \in 1..Len(body) /\ i + 2 + cap \in 1..Len(body)
    BY <1>1, <1>2
  <2>2. QED
    BY <1>2, <2>1
<1>4. /\ g[p] = SigHead(g[p].id, g[p].sub, g[p].br)
      /\ End(f) + (i + 1) = p + 1 /\ End(f) + (i + 2 + cap) = p + 2 + cap
  BY <1>1, <1>2, <1>3, SMTT(30) DEF SigHead
<1>5. ASSUME NEW j \in (p + 1)..(p + 1 + cap) PROVE g[j].k # "gt"
  <2>1. CASE j = p + 1
    BY <2>1, <1>1, <1>3, <1>4 DEF Lt
  <2>2. CASE j # p + 1
    <3>1. j \in Int /\ p + 1 < j /\ j <= p + 1 + cap
      <4>1. p \in Nat
        BY <1>2
      <4>. HIDE DEF p
      <4>2. QED
        BY <1>1, <2>2, <4>1
    <3>2. PICK k \in Int : k = j - End(f) /\ j = End(f) + k
      BY <1>2, <3>1
    <3>3. k \in (i + 2)..(i + 1 + cap) /\ k \in 1..Len(body)
      <4>1. PICK e \in Nat : e = End(f)
        BY <1>2
      <4>2. PICK n \in Nat : n = cap /\ i + n + 3 <= Len(body)
        BY <1>1
      <4>3. e + i + 1 < e + k /\ e + k <= e + i + 1 + n
        BY <3>1, <3>2, <4>1, <4>2
      <4>4. i \in Nat /\ 1 <= i /\ Len(body) \in Nat
        BY <1>2
      <4>5. i + 2 <= k /\ k <= i + 1 + n
        BY <4>1, <4>2, <4>3, <4>4, Between
      <4>6. QED
        BY <4>2, <4>4, <4>5
    <3>4. g[j] = Zero
      BY <1>1, <1>2, <3>2, <3>3
    <3>5. QED
      BY <3>4 DEF Zero
  <2>3. QED
    BY <2>1, <2>2
<1>6. p + cap + 2 < Len(g)
  BY <1>1, <1>2
<1>7. WholeAt(g, p, cap)
  <2>. HIDE DEF p
  <2>1. QED
    BY <1>1, <1>3, <1>4, <1>5, <1>6 DEF WholeAt
<1>8. QED
  BY <1>7 DEF cap

\* An update of a file a parser reads is one it reads.
CellReadable(g, p) ==
  /\ g[p].k = "xref"      => IsSection(g, p)
  /\ g[p].k = "startxref" => g[p].at \in Nat
  /\ g[p].k = "obj"       => g[p].id \in Nat /\ IsValue(g[p].val)
  /\ g[p].k = "sig"       => g[p].id \in Nat /\ IsWhole(g, p)

LEMMA WholeIsWhole ==
  ASSUME NEW g, IsSeq(g), NEW p \in 1..Len(g), NEW cap \in Nat, WholeAt(g, p, cap)
  PROVE  IsWhole(g, p)
<1>1. cap \in 0..Len(g)
  BY SeqFacts DEF WholeAt
<1>2. QED
  BY <1>1 DEF IsWhole

LEMMA CellKept ==
  ASSUME NEW f, NEW g, IsSeq(f), IsSeq(g), Readable(f), StartOf(f, g), NEW p \in 1..Len(f)
  PROVE  CellReadable(g, p)
<1>1. g[p] = f[p] /\ p \in 1..Len(g)
  BY SeqFacts DEF StartOf
<1>2. CASE f[p].k = "xref"
  BY <1>1, <1>2, SectionKept DEF CellReadable
<1>3. CASE f[p].k = "sig"
  <2>1. PICK cap \in Nat : WholeAt(g, p, cap)
    BY <1>3, IsWholeFacts, WholeKept
  <2>2. IsWhole(g, p)
    BY <1>1, <2>1, WholeIsWhole
  <2>3. f[p].id \in Nat
    BY <1>3, SeqFacts DEF Readable
  <2>4. QED
    BY <1>1, <1>3, <2>2, <2>3 DEF CellReadable
<1>4. CASE f[p].k \notin {"xref", "sig"}
  BY <1>1, <1>4, SeqFacts DEF CellReadable, Readable
<1>5. QED
  BY <1>2, <1>3, <1>4

LEMMA ReadableKept ==
  ASSUME NEW f, NEW g, IsSeq(f), IsSeq(g), Readable(f), StartOf(f, g), Loadable(g),
         \A p \in 1..Len(g) : p \notin 1..Len(f) => CellReadable(g, p)
  PROVE  Readable(g)
<1>1. DOMAIN g = 1..Len(g) /\ DOMAIN f = 1..Len(f) /\ Len(f) \in Nat /\ Len(g) \in Nat
  BY SeqFacts
<1>2. \A p \in DOMAIN g : CellReadable(g, p)
  BY <1>1, CellKept
<1>3. \E i \in DOMAIN g : g[i].k = "hdr"
  BY <1>1 DEF Readable, StartOf
<1>4. QED
  BY <1>2, <1>3, Zenon DEF Readable, CellReadable

LEMMA UpdateReadable ==
  ASSUME NEW f, NEW g, NEW body, NEW objs, NEW S, NEW size, NEW root,
         IsUpdate(f, g, body, objs, S, size, root)
  PROVE  Readable(g)
<1>1. /\ IsSeq(f) /\ Readable(f) /\ IsSeq(body) /\ IsSeq(g) /\ StartOf(f, g)
      /\ Len(g) = End(f) + Len(body) + 2 /\ End(f) \in Nat /\ Len(body) \in Nat
  BY UpdateNumbers
<1>2. /\ Top(g) \in 1..Len(g) /\ g[Top(g)].k = "xref" /\ StartXrefs(g) # {}
      /\ Top(g) = End(f) + Len(body) + 1
  BY NewTop
<1>3. Loadable(g)
  BY <1>1, <1>2, SeqFacts DEF Loadable, Top
<1>4. ASSUME NEW p \in 1..Len(g), p \notin 1..Len(f) PROVE CellReadable(g, p)
  <2>1. \/ g[p] = Nl
        \/ \E i \in 1..Len(body) : p = End(f) + i /\ g[p] = body[i]
        \/ p = Top(g)
        \/ p = Len(g)
    BY <1>1, <1>2, <1>4, RenderedCases, SMTT(30) DEF IsUpdate
  <2>2. CASE g[p] = Nl
    BY <2>2 DEF Nl, CellReadable
  <2>3. CASE p = Top(g)
    BY <1>2, <2>3, NewSection DEF CellReadable
  <2>4. CASE p = Len(g)
    <3>1. g[p] = StartXref(XOff(f, body), TRUE) /\ XOff(f, body) \in Nat
      BY <1>1, <2>4, NewTop DEF IsUpdate, IsRendered
    <3>2. QED
      BY <3>1 DEF StartXref, CellReadable
  <2>5. CASE \E i \in 1..Len(body) : p = End(f) + i /\ g[p] = body[i]
    <3>1. PICK i \in 1..Len(body) : p = End(f) + i /\ g[p] = body[i]
      BY <2>5
    <3>2. CASE Inert(body[i])
      BY <3>1, <3>2 DEF Inert, CellReadable
    <3>3. CASE ~Inert(body[i])
      <4>1. PICK id \in DOMAIN objs : ObjectOf(body, i, objs, S, id)
        BY <3>3 DEF IsUpdate, IsBody
      <4>2. id \in Nat
        BY DEF IsUpdate, IsBody
      <4>3. CASE id \in S
        <5>1. FreshAt(body, i, objs, id) /\ objs[id].cap \in Nat
          BY <4>1, <4>3 DEF ObjectOf, FreshAt
        <5>2. IsWhole(g, p)
          BY <1>1, <3>1, <5>1, FreshIsWhole, WholeIsWhole
        <5>3. g[p].k = "sig" /\ g[p].id = id
          BY <3>1, <4>1, <4>3, ObjectOfFacts
        <5>4. QED
          BY <4>2, <5>2, <5>3 DEF CellReadable
      <4>4. CASE id \notin S
        <5>1. IsValue(Serialized(objs[id]))
          BY <4>4, SerializedValue DEF IsUpdate, Fits
        <5>2. g[p] = ObjCell(id, Serialized(objs[id]))
          BY <3>1, <4>1, <4>4 DEF ObjectOf, AsWritten
        <5>3. QED
          BY <4>2, <5>1, <5>2 DEF ObjCell, CellReadable
      <4>5. QED
        BY <4>3, <4>4
    <3>4. QED
      BY <3>2, <3>3
  <2>6. QED
    BY <2>1, <2>2, <2>3, <2>4, <2>5
<1>5. QED
  BY <1>1, <1>3, <1>4, ReadableKept

\* The object numbers of an update, and where they lead.
LEMMA UpdateTable ==
  ASSUME NEW f, NEW g, NEW body, NEW objs, NEW S, NEW size, NEW root,
         IsUpdate(f, g, body, objs, S, size, root)
  PROVE  /\ Ids(g) = NewIds(f, objs, size) \cup Ids(f)
         /\ \A id \in NewIds(f, objs, size) : PlaceIn(g, id) = NewPlace(f, body, objs, id)
         /\ \A id \in Ids(f) \ NewIds(f, objs, size) : PlaceIn(g, id) = PlaceIn(f, id)
<1>. DEFINE e == NewEntries(f, body, size)
            D == NewIds(f, objs, size)
<1>1. /\ IsSeq(f) /\ Readable(f) /\ IsSeq(g) /\ StartOf(f, g) /\ HeaderOffset(g) = HeaderOffset(f)
      /\ Len(f) \in Nat /\ Readable(g)
  BY UpdateNumbers, UpdateReadable
<1>2. /\ Top(g) \in 1..Len(g) /\ g[Top(g)].k = "xref" /\ g[Top(g)].entries = e
      /\ g[Top(g)].prev = LastStartXref(f)
  BY NewTop, NewSection
<1>3. /\ Top(f) \in 1..Len(f) /\ LastStartXref(f) # 0
      /\ LastStartXref(f) + HeaderOffset(g) + 1 = Top(f)
  BY <1>1, TopFacts DEF Top
<1>4. Alike(f, g)
  BY <1>1 DEF Alike, StartOf
<1>5. EntriesFrom(g)[Top(f)] = Table(f)
  BY <1>1, <1>3, <1>4, EntriesAlike DEF Table
<1>6. Table(g) = e ++ Table(f)
  <2>1. Table(g) = EntryAt(g, EntriesFrom(g), Top(g))
    BY <1>1, <1>2, EntriesUnfold DEF Table
  <2>2. QED
    BY <2>1, <1>2, <1>3, <1>5 DEF EntryAt
<1>7. DOMAIN e = D
  BY EntriesOf
<1>. HIDE DEF e, D
<1>8. DOMAIN Table(g) = D \cup Ids(f)
      /\ \A id \in DOMAIN Table(g) : Table(g)[id] = IF id \in D THEN e[id] ELSE Table(f)[id]
  BY <1>6, <1>7 DEF ++, Ids
<1>9. \A id \in D : PlaceIn(g, id) = NewPlace(f, body, objs, id)
  BY <1>8, NewPlaces DEF PlaceIn, e, D
<1>10. \A id \in Ids(f) \ D : PlaceIn(g, id) = PlaceIn(f, id)
  BY <1>1, <1>8 DEF PlaceIn
<1>11. QED
  BY <1>8, <1>9, <1>10 DEF Ids, D

\* The object a parser finds for a cell of an update.
LEMMA OrdinaryObject ==
  ASSUME NEW g, NEW p, NEW id, NEW val, g[p] = ObjCell(id, val)
  PROVE  ObjectAt(g, p) = val
<1>1. g[p].k = "obj" /\ g[p].val = val
  BY DEF ObjCell
<1>2. QED
  BY <1>1 DEF ObjectAt

LEMMA XrefObject ==
  ASSUME NEW g, NEW p, g[p].k = "xref"
  PROVE  ObjectAt(g, p) = XrefObj
BY DEF ObjectAt

LEMMA SigObject ==
  ASSUME NEW g, IsSeq(g), NEW p \in 1..Len(g), Readable(g), g[p].k = "sig"
  PROVE  ObjectAt(g, p).t = "sig" /\ ObjectAt(g, p).br = g[p].br /\ ObjectAt(g, p).sub = g[p].sub
<1>1. PICK cap \in Nat : WholeAt(g, p, cap)
  BY IsWholeFacts
<1>2. ObjectAt(g, p) = [t |-> "sig", sub |-> g[p].sub, br |-> g[p].br,
                        contents |-> SubSeq(g, p + 2, p + 1 + cap)]
  BY <1>1, WholeObject
<1>3. QED
  BY <1>2

\* What the updated document says.
UpdateLoads(f, g, body, objs, S, size, root) ==
  LET old == Load(f)
      new == Load(g)
  IN  /\ DOMAIN new.objects = NewIds(f, objs, size) \cup DOMAIN old.objects
      /\ new.root = root /\ new.encrypt = FALSE
      /\ \A id \in DOMAIN objs \ S : new.objects[id] = Serialized(objs[id])
      /\ \A id \in DOMAIN objs \cap S : new.objects[id].t = "sig"
      /\ \A id \in NewIds(f, objs, size) \ DOMAIN objs : id = size /\ new.objects[id] = XrefObj
      /\ \A id \in DOMAIN old.objects \ NewIds(f, objs, size) : new.objects[id] = old.objects[id]

LEMMA UpdateLoad ==
  ASSUME NEW f, NEW g, NEW body, NEW objs, NEW S, NEW size, NEW root,
         IsUpdate(f, g, body, objs, S, size, root)
  PROVE  UpdateLoads(f, g, body, objs, S, size, root)
<1>. DEFINE old == Load(f)
            new == Load(g)
            D   == NewIds(f, objs, size)
<1>1. /\ IsSeq(f) /\ Readable(f) /\ IsSeq(g) /\ StartOf(f, g) /\ Readable(g)
  BY UpdateNumbers, UpdateReadable
<1>2. /\ DOMAIN old.objects = Ids(f) /\ DOMAIN new.objects = Ids(g)
      /\ \A id \in Ids(f) : old.objects[id] = ObjectAt(f, PlaceIn(f, id))
      /\ \A id \in Ids(g) : new.objects[id] = ObjectAt(g, PlaceIn(g, id))
      /\ new.root = g[Top(g)].root /\ new.encrypt = g[Top(g)].encrypt
  BY LoadFacts
<1>3. /\ Ids(g) = D \cup Ids(f)
      /\ \A id \in D : PlaceIn(g, id) = NewPlace(f, body, objs, id)
      /\ \A id \in Ids(f) \ D : PlaceIn(g, id) = PlaceIn(f, id)
  BY UpdateTable
<1>4. new.root = root /\ new.encrypt = FALSE
  BY <1>2, NewSection
<1>5. DOMAIN objs \subseteq D
  BY DEF NewIds
<1>. HIDE DEF old, new, D
<1>6. ASSUME NEW id \in DOMAIN objs
      PROVE  /\ new.objects[id] = ObjectAt(g, PlaceIn(g, id))
             /\ PlaceIn(g, id) \in 1..Len(g)
             /\ g[PlaceIn(g, id)] = body[PlaceOf(body, id)]
             /\ ObjectOf(body, PlaceOf(body, id), objs, S, id)
  <2>1. id \in D /\ id \in Ids(g)
    BY <1>3, <1>5
  <2>2. PlaceIn(g, id) \in 1..Len(g)
    BY <1>1, <2>1, TableFacts
  <2>3. g[NewPlace(f, body, objs, id)] = body[PlaceOf(body, id)]
        /\ ObjectOf(body, PlaceOf(body, id), objs, S, id)
    BY <2>1, NewPlaces DEF D
  <2>4. QED
    BY <1>2, <1>3, <2>1, <2>2, <2>3
<1>7. ASSUME NEW id \in DOMAIN objs \ S PROVE new.objects[id] = Serialized(objs[id])
  <2>1. g[PlaceIn(g, id)] = ObjCell(id, Serialized(objs[id]))
    BY <1>6 DEF ObjectOf, AsWritten
  <2>2. QED
    BY <1>6, <2>1, OrdinaryObject
<1>8. ASSUME NEW id \in DOMAIN objs \cap S PROVE new.objects[id].t = "sig"
  <2>1. g[PlaceIn(g, id)].k = "sig"
    BY <1>6, ObjectOfFacts
  <2>2. QED
    BY <1>1, <1>6, <2>1, SigObject
<1>9. ASSUME NEW id \in D \ DOMAIN objs PROVE id = size /\ new.objects[id] = XrefObj
  <2>1. id = size /\ g[PlaceIn(g, id)].k = "xref"
    BY <1>3, NewPlaces DEF D
  <2>2. QED
    BY <1>2, <1>3, <2>1, XrefObject
<1>10. ASSUME NEW id \in Ids(f) \ D PROVE new.objects[id] = old.objects[id]
  <2>1. PlaceIn(g, id) = PlaceIn(f, id) /\ PlaceIn(f, id) \in 1..Len(f)
    BY <1>1, <1>3, TableFacts
  <2>2. ObjectAt(g, PlaceIn(f, id)) = ObjectAt(f, PlaceIn(f, id))
    BY <1>1, <2>1, ObjectKept
  <2>3. QED
    BY <1>2, <1>3, <2>1, <2>2
<1>11. DOMAIN new.objects = D \cup DOMAIN old.objects
  BY <1>2, <1>3
<1>12. \A id \in DOMAIN old.objects \ D : new.objects[id] = old.objects[id]
  BY <1>2, <1>10
<1>13. QED
  BY <1>4, <1>7, <1>8, <1>9, <1>11, <1>12, Zenon DEF UpdateLoads, old, new, D

-----------------------------------------------------------------------------
(* References keep leading to values of their kind.                        *)

Kinds == {Catalogs, Pages, Forms, Dsses, Arrays}

\* new has the objects of old, those of a kind with references as values of this kind.
Refines(new, old) ==
  \A id \in DOMAIN old.objects :
    /\ id \in DOMAIN new.objects
    /\ \A V \in Kinds : old.objects[id] \in V => new.objects[id] \in V

LEMMA SameKind ==
  ASSUME NEW v, NEW w, IsValue(w), v.t = w.t, NEW V \in Kinds, v \in V
  PROVE  w \in V
<1>1. CASE V = Catalogs
  BY <1>1 DEF IsValue, Catalogs, Pages, Forms, Dsses, Arrays, Widgets, ApObj
<1>2. CASE V = Pages
  BY <1>2 DEF IsValue, Catalogs, Pages, Forms, Dsses, Arrays, Widgets, ApObj
<1>3. CASE V = Forms
  BY <1>3 DEF IsValue, Catalogs, Pages, Forms, Dsses, Arrays, Widgets, ApObj
<1>4. CASE V = Dsses
  BY <1>4 DEF IsValue, Catalogs, Pages, Forms, Dsses, Arrays, Widgets, ApObj
<1>5. CASE V = Arrays
  BY <1>5 DEF IsValue, Catalogs, Pages, Forms, Dsses, Arrays, Widgets, ApObj
<1>6. QED
  BY <1>1, <1>2, <1>3, <1>4, <1>5 DEF Kinds

LEMMA LeadsStill ==
  ASSUME NEW old, NEW new, Refines(new, old), NEW holder, NEW V \in Kinds,
         LeadsTo(old, holder, V)
  PROVE  LeadsTo(new, holder, V)
BY DEF Refines, LeadsTo

LEMMA ArrayStill ==
  ASSUME NEW old, NEW new, Refines(new, old), NEW holder, ArrayIn(old, holder)
  PROVE  ArrayIn(new, holder)
<1>1. LeadsTo(new, holder, Arrays)
  BY LeadsStill DEF Kinds, ArrayIn
<1>2. DOMAIN old.objects \subseteq DOMAIN new.objects
  BY DEF Refines
<1>3. QED
  BY <1>1, <1>2 DEF ArrayIn, Known

LEMMA SoundStill ==
  ASSUME NEW old, NEW new, Refines(new, old), NEW val, IsSound(old, val)
  PROVE  IsSound(new, val)
<1>1. val.t = "array" => Known(new, val)
  BY DEF IsSound, Known, Refines
<1>2. val.t = "page" => ArrayIn(new, val.annots)
  BY ArrayStill DEF IsSound
<1>3. \A form : FormIn(old, form) => FormIn(new, form)
  BY ArrayStill DEF FormIn
<1>4. \A dss : DssIn(old, dss) => DssIn(new, dss)
  BY ArrayStill DEF DssIn
<1>5. /\ LeadsTo(old, val.form, Forms) => LeadsTo(new, val.form, Forms)
      /\ LeadsTo(old, val.dss, Dsses) => LeadsTo(new, val.dss, Dsses)
  BY LeadsStill DEF Kinds
<1>6. QED
  BY <1>1, <1>2, <1>3, <1>4, <1>5 DEF IsSound

\* What the serializer changes is no reference.
LEMMA SerializedSound ==
  ASSUME NEW doc, NEW val, IsValue(val), IsSound(doc, val)
  PROVE  IsSound(doc, Serialized(val))
<1>1. CASE val \in Catalogs
  <2>1. /\ Serialized(val).t = "catalog" /\ val.t = "catalog"
        /\ Serialized(val).form = val.form /\ Serialized(val).dss = val.dss
    BY <1>1 DEF Serialized, Catalogs
  <2>2. QED
    BY <2>1 DEF IsSound
<1>2. CASE val \notin Catalogs
  BY <1>2, SerializedValue
<1>3. QED
  BY <1>1, <1>2

\* What objects there are in a file.
LEMMA ObjectKinds ==
  ASSUME NEW f, IsSeq(f), Readable(f), NEW id \in DOMAIN Load(f).objects
  PROVE  LET o == Load(f).objects[id]
             c == f[PlaceIn(f, id)]
         IN  \/ c.k = "xref" /\ o = XrefObj
             \/ c.k = "sig" /\ c.id = id /\ o.t = "sig"
             \/ c.k = "obj" /\ c.id = id /\ IsValue(o)
<1>. DEFINE p == PlaceIn(f, id)
            o == Load(f).objects[id]
<1>1. id \in Ids(f) /\ o = ObjectAt(f, p)
  BY LoadFacts
<1>2. p \in 1..Len(f) /\ IsPlace(f, p, id)
  BY <1>1, TableFacts
<1>. HIDE DEF p, o
<1>3. CASE f[p].k = "xref"
  BY <1>1, <1>3, XrefObject DEF p, o
<1>4. CASE f[p].k = "sig"
  <2>1. o.t = "sig"
    BY <1>1, <1>2, <1>4, SigObject
  <2>2. QED
    BY <1>2, <1>4, <2>1 DEF IsPlace, p, o
<1>5. CASE f[p].k = "obj"
  <2>1. ObjectAt(f, p) = f[p].val
    BY <1>5 DEF ObjectAt
  <2>2. IsValue(f[p].val)
    BY <1>2, <1>5, SeqFacts DEF Readable
  <2>3. QED
    BY <1>1, <1>2, <1>5, <2>1, <2>2 DEF IsPlace, p, o
<1>6. QED
  BY <1>2, <1>3, <1>4, <1>5 DEF IsPlace

\* An update that gives new objects new numbers and values of the same kind to the
\* containers it extends.
IsChange(doc, objs, S, size) ==
  /\ \A id \in DOMAIN doc.objects : id < size
  /\ \A id \in DOMAIN objs \cap DOMAIN doc.objects :
       id \notin S /\ objs[id].t = doc.objects[id].t /\ doc.objects[id].t \in Containers

LEMMA NothingLost ==
  ASSUME NEW f, NEW g, NEW body, NEW objs, NEW S, NEW size, NEW root,
         IsUpdate(f, g, body, objs, S, size, root), IsChange(Load(f), objs, S, size)
  PROVE  Keeps(Load(f), Load(g)) /\ Refines(Load(g), Load(f))
<1>. DEFINE old == Load(f)
            new == Load(g)
            D   == NewIds(f, objs, size)
<1>0. UpdateLoads(f, g, body, objs, S, size, root)
  BY UpdateLoad
<1>1. /\ DOMAIN new.objects = D \cup DOMAIN old.objects
      /\ \A id \in DOMAIN objs \ S : new.objects[id] = Serialized(objs[id])
      /\ \A id \in DOMAIN old.objects \ D : new.objects[id] = old.objects[id]
  BY <1>0, Zenon DEF UpdateLoads
<1>2. \A id \in DOMAIN objs \ S : IsValue(objs[id])
  BY DEF IsUpdate, Fits
<1>3. DOMAIN old.objects \subseteq Nat /\ size \in Nat
  <2>1. IsSeq(f) /\ Readable(f)
    BY UpdateNumbers
  <2>2. Ids(f) \subseteq Nat
    BY <2>1, TableFacts
  <2>3. QED
    BY <2>2, LoadFacts DEF IsUpdate, Fits
<1>. HIDE DEF old, new, D
<1>4. ASSUME NEW id \in DOMAIN old.objects
      PROVE  /\ id \in DOMAIN new.objects
             /\ \/ new.objects[id] = old.objects[id]
                \/ /\ old.objects[id].t \in Containers /\ new.objects[id].t = old.objects[id].t
                   /\ IsValue(new.objects[id])
  <2>1. id # size
    BY <1>3 DEF IsChange, old
  <2>2. CASE id \notin D
    BY <1>1, <2>2
  <2>3. CASE id \in D
    <3>1. id \in DOMAIN objs
      BY <2>1, <2>3 DEF NewIds, D
    <3>2. id \notin S /\ objs[id].t = old.objects[id].t /\ old.objects[id].t \in Containers
      BY <3>1 DEF IsChange, old
    <3>3. new.objects[id] = Serialized(objs[id]) /\ IsValue(objs[id])
      BY <1>1, <1>2, <3>1, <3>2
    <3>4. QED
      BY <1>1, <3>2, <3>3, SerializedValue
  <2>4. QED
    BY <2>2, <2>3
<1>5. Keeps(old, new)
  BY <1>4 DEF Keeps
<1>6. Refines(new, old)
  BY <1>4, SameKind DEF Refines
<1>7. QED
  BY <1>5, <1>6 DEF old, new

\* If its values are sound in it, a document that was updated is one.
LEMMA DocumentStill ==
  ASSUME NEW f, NEW g, NEW body, NEW objs, NEW S, NEW size,
         IsUpdate(f, g, body, objs, S, size, Load(f).root), IsChange(Load(f), objs, S, size),
         IsDocument(Load(f)), \A id \in DOMAIN objs \ S : IsSound(Load(g), objs[id])
  PROVE  IsDocument(Load(g))
<1>. DEFINE old == Load(f)
            new == Load(g)
            D   == NewIds(f, objs, size)
<1>0. UpdateLoads(f, g, body, objs, S, size, Load(f).root)
  BY UpdateLoad
<1>1. /\ DOMAIN new.objects = D \cup DOMAIN old.objects /\ new.root = old.root
      /\ \A id \in DOMAIN objs \ S : new.objects[id] = Serialized(objs[id])
      /\ \A id \in DOMAIN objs \cap S : new.objects[id].t = "sig"
      /\ \A id \in D \ DOMAIN objs : new.objects[id] = XrefObj
      /\ \A id \in DOMAIN old.objects \ D : new.objects[id] = old.objects[id]
  BY <1>0, Zenon DEF UpdateLoads
<1>2. \A id \in DOMAIN objs \ S : IsValue(objs[id])
  BY DEF IsUpdate, Fits
<1>3. Refines(new, old) /\ Keeps(old, new)
  BY NothingLost
<1>4. new.root \in DOMAIN new.objects /\ Catalog(new) \in Catalogs
  <2>1. old.root \in DOMAIN old.objects /\ old.objects[old.root] \in Catalogs
    BY DEF IsDocument, Catalog
  <2>2. old.root \in DOMAIN new.objects /\ new.objects[old.root] \in Catalogs
    BY <1>3, <2>1 DEF Refines, Kinds
  <2>3. QED
    BY <1>1, <2>2 DEF Catalog
<1>. HIDE DEF old, new, D
<1>5. \E id \in DOMAIN new.objects : new.objects[id].t = "page"
  <2>1. PICK id \in DOMAIN old.objects : old.objects[id].t = "page"
    BY DEF IsDocument, old
  <2>2. id \in DOMAIN new.objects /\ new.objects[id].t = "page"
    BY <1>3, <2>1 DEF Keeps
  <2>3. QED
    BY <2>2
<1>6. ASSUME NEW id \in DOMAIN new.objects PROVE IsSound(new, new.objects[id])
  <2>1. CASE id \in DOMAIN objs \ S
    BY <1>1, <1>2, <2>1, SerializedSound DEF new
  <2>2. CASE id \in DOMAIN objs \cap S
    BY <1>1, <2>2 DEF IsSound
  <2>3. CASE id \in D \ DOMAIN objs
    BY <1>1, <2>3 DEF IsSound, XrefObj
  <2>4. CASE id \in DOMAIN old.objects \ D
    <3>1. IsSound(old, old.objects[id])
      BY <2>4 DEF IsDocument, old
    <3>2. QED
      BY <1>1, <1>3, <2>4, <3>1, SoundStill
  <2>5. QED
    BY <1>1, <2>1, <2>2, <2>3, <2>4
<1>7. IsDocument(new)
  BY <1>4, <1>5, <1>6 DEF IsDocument
<1>8. QED
  BY <1>7 DEF new

LEMMA KeepsTransitive ==
  ASSUME NEW a, NEW b, NEW c, Keeps(a, b), Keeps(b, c)
  PROVE  Keeps(a, c)
BY DEF Keeps

LEMMA KeepsItself ==
  ASSUME NEW a
  PROVE  Keeps(a, a)
BY DEF Keeps

-----------------------------------------------------------------------------
(* What each update writes (the values of FieldUpdate, DssUpdate).         *)

\* Every reference a document has.
LEMMA DocFacts ==
  ASSUME NEW f, IsSeq(f), Readable(f), IsDocument(Load(f))
  PROVE  LET doc == Load(f)
         IN  /\ DOMAIN doc.objects \subseteq Nat /\ DOMAIN doc.objects # {}
             /\ doc.maxId \in Nat /\ \A id \in DOMAIN doc.objects : id <= doc.maxId
             /\ doc.root \in DOMAIN doc.objects /\ Catalog(doc) \in Catalogs
             /\ IsSound(doc, Catalog(doc))
             /\ \A id \in DOMAIN doc.objects :
                  /\ IsSound(doc, doc.objects[id])
                  /\ \/ IsValue(doc.objects[id]) \/ doc.objects[id] = XrefObj
                     \/ doc.objects[id].t = "sig"
<1>. DEFINE doc == Load(f)
<1>1. DOMAIN doc.objects = Ids(f)
  BY LoadFacts
<1>2. /\ Ids(f) \subseteq Nat /\ Ids(f) # {} /\ doc.maxId \in Nat
      /\ \A id \in Ids(f) : id <= doc.maxId
  BY TableFacts
<1>3. \A id \in DOMAIN doc.objects : \/ IsValue(doc.objects[id]) \/ doc.objects[id] = XrefObj
                                     \/ doc.objects[id].t = "sig"
  BY ObjectKinds
<1>. HIDE DEF doc
<1>4. doc.root \in DOMAIN doc.objects /\ Catalog(doc) \in Catalogs
      /\ \A id \in DOMAIN doc.objects : IsSound(doc, doc.objects[id])
  BY DEF IsDocument, doc
<1>5. IsSound(doc, Catalog(doc))
  BY <1>4 DEF Catalog
<1>6. QED
  BY <1>1, <1>2, <1>3, <1>4, <1>5 DEF doc

\* An object of a kind, by the name of the kind.
LEMMA KindByName ==
  ASSUME NEW val, IsValue(val)
  PROVE  /\ val.t = "page" => val \in Pages
         /\ val.t = "array" => val \in Arrays
         /\ val.t = "form" => val \in Forms
         /\ val.t = "dss" => val \in Dsses
         /\ val.t = "catalog" => val \in Catalogs
BY DEF IsValue, Catalogs, Pages, Forms, Dsses, Arrays, Widgets, ApObj, Der

\* An array with one more element.
LEMMA PushFacts ==
  ASSUME NEW doc, NEW holder \in Holders(Arrays), ArrayIn(doc, holder), NEW id \in Nat
  PROVE  LET new == Push(doc, holder, id)
             old == IF holder.at = "none" THEN << >> ELSE Resolve(doc, holder).a
         IN  /\ new \in Arrays /\ IsValue(new) /\ old \in Seq(Nat) /\ new.a = Append(old, id)
             /\ Range(new.a) = Range(old) \cup {id}
             /\ new.t = "array"
<1>. DEFINE old == IF holder.at = "none" THEN << >> ELSE Resolve(doc, holder).a
<1>1. old \in Seq(Nat)
  <2>1. CASE holder.at = "none"
    BY <2>1
  <2>2. CASE holder.at = "inline"
    BY <2>2 DEF Holders, Resolve, Arrays, Absent
  <2>3. CASE holder.at = "ref"
    BY <2>3 DEF ArrayIn, LeadsTo, Resolve, Arrays
  <2>4. QED
    BY <2>1, <2>2, <2>3 DEF Holders, Absent
<1>2. Push(doc, holder, id) = Arr(Append(old, id))
  <2>1. CASE holder.at = "none"
    <3>1. Append(<< >>, id) = <<id>>
      OBVIOUS
    <3>2. QED
      BY <2>1, <3>1 DEF Push
  <2>2. CASE holder.at # "none"
    BY <2>2 DEF Push
  <2>3. QED
    BY <2>1, <2>2
<1>. HIDE DEF old
<1>3. Append(old, id) \in Seq(Nat) /\ Range(Append(old, id)) = Range(old) \cup {id}
  <2>1. Append(old, id) \in Seq(Nat)
    BY <1>1
  <2>2. /\ DOMAIN Append(old, id) = 1..(Len(old) + 1) /\ DOMAIN old = 1..Len(old) /\ Len(old) \in Nat
        /\ Append(old, id)[Len(old) + 1] = id
        /\ \A i \in 1..Len(old) : Append(old, id)[i] = old[i]
    BY <1>1
  <2>3. QED
    BY <2>1, <2>2 DEF Range
<1>4. Arr(Append(old, id)) \in Arrays
  BY <1>3 DEF Arr, Arrays
<1>5. QED
  BY <1>1, <1>2, <1>3, <1>4 DEF Arr, IsValue, old

\* An update of containers that only adds references, to objects with the numbers fresh.
Grown(doc, new, fresh) == Refines(new, doc) /\ fresh \subseteq DOMAIN new.objects
IsRewrite(doc, u, fresh) ==
  /\ DOMAIN u \subseteq DOMAIN doc.objects
  /\ \A id \in DOMAIN u :
       /\ IsValue(u[id])
       /\ u[id].t = doc.objects[id].t /\ doc.objects[id].t \in Containers
       /\ \A new : Grown(doc, new, fresh) => IsSound(new, u[id])

LEMMA QueueRewrite ==
  ASSUME NEW doc, NEW id \in DOMAIN doc.objects, NEW val, NEW fresh, IsValue(val),
         val.t = doc.objects[id].t, val.t \in Containers,
         \A new : Grown(doc, new, fresh) => IsSound(new, val)
  PROVE  IsRewrite(doc, Queue(id, val), fresh)
BY DEF IsRewrite, Queue

LEMMA NoRewrite ==
  ASSUME NEW doc, NEW fresh
  PROVE  IsRewrite(doc, << >>, fresh)
<1>1. DOMAIN << >> = {}
  BY EmptyTable
<1>2. QED
  BY <1>1 DEF IsRewrite

LEMMA MergeRewrites ==
  ASSUME NEW doc, NEW fresh, NEW u, NEW v, IsRewrite(doc, u, fresh), IsRewrite(doc, v, fresh)
  PROVE  IsRewrite(doc, u ++ v, fresh)
<1>1. DOMAIN (u ++ v) = DOMAIN u \cup DOMAIN v
      /\ \A id \in DOMAIN (u ++ v) : (u ++ v)[id] = IF id \in DOMAIN u THEN u[id] ELSE v[id]
  BY DEF ++
<1>. DEFINE w == u ++ v
<1>. HIDE DEF w
<1>2. DOMAIN w = DOMAIN u \cup DOMAIN v
      /\ \A id \in DOMAIN w : w[id] = IF id \in DOMAIN u THEN u[id] ELSE v[id]
  BY <1>1 DEF w
<1>3. DOMAIN w \subseteq DOMAIN doc.objects
  BY <1>2 DEF IsRewrite
<1>4. ASSUME NEW id \in DOMAIN w
      PROVE  /\ IsValue(w[id]) /\ w[id].t = doc.objects[id].t /\ doc.objects[id].t \in Containers
             /\ \A new : Grown(doc, new, fresh) => IsSound(new, w[id])
  <2>1. CASE id \in DOMAIN u
    <3>1. w[id] = u[id]
      BY <1>2, <2>1
    <3>2. QED
      BY <2>1, <3>1 DEF IsRewrite
  <2>2. CASE id \notin DOMAIN u
    <3>1. w[id] = v[id] /\ id \in DOMAIN v
      BY <1>2, <2>2
    <3>2. QED
      BY <3>1 DEF IsRewrite
  <2>3. QED
    BY <2>1, <2>2
<1>5. IsRewrite(doc, w, fresh)
  BY <1>3, <1>4, Zenon DEF IsRewrite
<1>6. QED
  BY <1>5 DEF w

-----------------------------------------------------------------------------
(* A form with one field more.                                             *)

LEMMA InlineIn ==
  ASSUME NEW V, NEW v \in V
  PROVE  Inline(v) \in Holders(V) /\ Inline(v).at = "inline" /\ Inline(v).v = v
BY DEF Inline, Holders

\* The elements of an array are objects of the document.
LEMMA ElementsKnown ==
  ASSUME NEW doc, IsDocument(doc), NEW holder \in Holders(Arrays), ArrayIn(doc, holder)
  PROVE  Range(Elements(doc, holder)) \subseteq DOMAIN doc.objects /\ Elements(doc, holder) \in Seq(Nat)
<1>1. CASE holder.at = "none"
  <2>1. Elements(doc, holder) = << >> /\ Range(<< >>) = {}
    BY <1>1, EmptyTable DEF Elements, Range
  <2>2. QED
    BY <2>1
<1>2. CASE holder.at = "inline"
  <2>1. Elements(doc, holder) = holder.v.a /\ holder.v \in Arrays
    BY <1>2 DEF Elements, Resolve, Holders, Absent
  <2>2. Range(holder.v.a) \subseteq DOMAIN doc.objects
    BY <1>2 DEF ArrayIn, Known
  <2>3. QED
    BY <2>1, <2>2 DEF Arrays
<1>3. CASE holder.at = "ref"
  <2>1. /\ Elements(doc, holder) = doc.objects[holder.ref].a
        /\ holder.ref \in DOMAIN doc.objects /\ doc.objects[holder.ref] \in Arrays
    BY <1>3 DEF Elements, Resolve, ArrayIn, LeadsTo
  <2>2. Known(doc, doc.objects[holder.ref])
    BY <2>1 DEF IsDocument, IsSound, Arrays
  <2>3. QED
    BY <2>1, <2>2 DEF Known, Arrays
<1>4. QED
  BY <1>1, <1>2, <1>3 DEF Holders, Absent

\* An array with one more element, once this element exists.
LEMMA PushSound ==
  ASSUME NEW doc, IsDocument(doc), NEW holder \in Holders(Arrays), ArrayIn(doc, holder),
         NEW id \in Nat, NEW new, Grown(doc, new, {id})
  PROVE  Known(new, Push(doc, holder, id))
<1>1. Range(Push(doc, holder, id).a) = Range(Elements(doc, holder)) \cup {id}
  BY PushFacts DEF Elements
<1>2. Range(Elements(doc, holder)) \subseteq DOMAIN doc.objects
  BY ElementsKnown
<1>3. DOMAIN doc.objects \subseteq DOMAIN new.objects /\ id \in DOMAIN new.objects
  BY DEF Grown, Refines
<1>4. QED
  BY <1>1, <1>2, <1>3 DEF Known

\* The array a holder leads to, with one more element, written as an object.
LEMMA PushRewrite ==
  ASSUME NEW doc, IsDocument(doc), NEW holder \in Holders(Arrays), ArrayIn(doc, holder),
         holder.at = "ref", NEW id \in Nat
  PROVE  IsRewrite(doc, Queue(holder.ref, Push(doc, holder, id)), {id})
<1>. DEFINE val == Push(doc, holder, id)
<1>1. holder.ref \in DOMAIN doc.objects /\ doc.objects[holder.ref].t = "array"
  BY DEF ArrayIn, LeadsTo, Arrays
<1>2. IsValue(val) /\ val.t = "array"
  BY PushFacts
<1>3. \A new : Grown(doc, new, {id}) => Known(new, val)
  BY PushSound
<1>. HIDE DEF val
<1>4. \A new : Grown(doc, new, {id}) => IsSound(new, val)
  BY <1>2, <1>3 DEF IsSound
<1>5. IsRewrite(doc, Queue(holder.ref, val), {id})
  BY <1>1, <1>2, <1>4, QueueRewrite DEF Containers
<1>6. QED
  BY <1>5 DEF val

\* The same, written in place.
LEMMA PushInline ==
  ASSUME NEW doc, IsDocument(doc), NEW holder \in Holders(Arrays), ArrayIn(doc, holder),
         NEW id \in Nat
  PROVE  LET new == Inline(Push(doc, holder, id))
         IN  /\ new \in Holders(Arrays)
             /\ \A other : Grown(doc, other, {id}) => ArrayIn(other, new)
<1>. DEFINE val == Push(doc, holder, id)
<1>1. val \in Arrays
  BY PushFacts
<1>2. \A other : Grown(doc, other, {id}) => Known(other, val)
  BY PushSound
<1>. HIDE DEF val
<1>3. Inline(val) \in Holders(Arrays) /\ Inline(val).at = "inline" /\ Inline(val).v = val
  BY <1>1, InlineIn
<1>4. \A other : Grown(doc, other, {id}) => ArrayIn(other, Inline(val))
  BY <1>2, <1>3 DEF ArrayIn, LeadsTo
<1>5. QED
  BY <1>3, <1>4 DEF val

\* apply_widget_to_page
LEMMA PageUpdateIs ==
  ASSUME NEW f, IsSeq(f), Readable(f), IsDocument(Load(f)), NEW page \in DOMAIN Load(f).objects,
         Load(f).objects[page].t = "page", NEW widget \in Nat
  PROVE  IsRewrite(Load(f), PageUpdate(Load(f), page, widget), {widget})
<1>. DEFINE doc == Load(f)
            old == doc.objects[page]
<1>1. old \in Pages /\ ArrayIn(doc, old.annots) /\ IsDocument(doc)
  <2>1. \/ IsValue(old) \/ old = XrefObj \/ old.t = "sig"
    BY DocFacts
  <2>2. IsValue(old)
    BY <2>1 DEF XrefObj
  <2>3. QED
    BY <2>2, KindByName DEF IsDocument, IsSound
<1>. DEFINE annots == old.annots
            inl == Inline(Push(doc, annots, widget))
            val == [old EXCEPT !.annots = inl]
<1>2. annots \in Holders(Arrays)
  BY <1>1 DEF Pages
<1>3. CASE annots.at = "ref"
  <2>1. PageUpdate(doc, page, widget) = Queue(annots.ref, Push(doc, annots, widget))
    BY <1>3 DEF PageUpdate
  <2>. HIDE DEF doc, annots
  <2>2. IsRewrite(doc, Queue(annots.ref, Push(doc, annots, widget)), {widget})
    BY <1>1, <1>2, <1>3, PushRewrite DEF annots
  <2>3. QED
    BY <2>1, <2>2 DEF doc
<1>4. CASE annots.at # "ref"
  <2>1. PageUpdate(doc, page, widget) = Queue(page, val)
    BY <1>4 DEF PageUpdate
  <2>2. inl \in Holders(Arrays) /\ \A other : Grown(doc, other, {widget}) => ArrayIn(other, inl)
    BY <1>1, <1>2, PushInline
  <2>. HIDE DEF inl
  <2>3. val \in Pages /\ val.annots = inl /\ val.t = "page"
    BY <1>1, <2>2 DEF Pages
  <2>. HIDE DEF val
  <2>4. IsValue(val) /\ \A other : Grown(doc, other, {widget}) => IsSound(other, val)
    BY <2>2, <2>3 DEF IsValue, IsSound
  <2>5. IsRewrite(doc, Queue(page, val), {widget})
    BY <2>3, <2>4, QueueRewrite DEF Containers
  <2>6. QED
    BY <2>1, <2>5
<1>5. QED
  BY <1>3, <1>4

LEMMA AbsentIn ==
  ASSUME NEW V
  PROVE  Absent \in Holders(V) /\ Absent.at = "none"
BY DEF Absent, Holders

LEMMA HolderCases ==
  ASSUME NEW V, NEW holder \in Holders(V)
  PROVE  \/ holder.at = "none" /\ holder = Absent
         \/ holder.at = "inline" /\ holder.v \in V
         \/ holder.at = "ref"
BY DEF Absent, Holders

\* The form of a document, or the one a first signature brings.
LEMMA FormIs ==
  ASSUME NEW f, IsSeq(f), Readable(f), IsDocument(Load(f))
  PROVE  LET doc    == Load(f)
             holder == Catalog(doc).form
             form   == IF holder.at = "none" THEN EmptyForm ELSE Resolve(doc, holder)
         IN  /\ holder \in Holders(Forms) /\ form \in Forms /\ FormIn(doc, form)
             /\ holder.at = "ref" => holder.ref \in DOMAIN doc.objects
                                     /\ doc.objects[holder.ref].t = "form"
<1>. DEFINE doc    == Load(f)
            holder == Catalog(doc).form
            form   == IF holder.at = "none" THEN EmptyForm ELSE Resolve(doc, holder)
<1>1. /\ Catalog(doc) \in Catalogs /\ IsSound(doc, Catalog(doc))
      /\ \A id \in DOMAIN doc.objects : IsSound(doc, doc.objects[id])
  BY DocFacts
<1>. HIDE DEF doc
<1>2. Catalog(doc).t = "catalog" /\ holder \in Holders(Forms)
  BY <1>1 DEF Catalogs
<1>3. LeadsTo(doc, holder, Forms) /\ (holder.at = "inline" => FormIn(doc, holder.v))
  BY <1>1, <1>2 DEF IsSound
<1>4. holder.at = "ref" => holder.ref \in DOMAIN doc.objects /\ doc.objects[holder.ref] \in Forms
  BY <1>3 DEF LeadsTo
<1>. HIDE DEF holder
<1>5. form \in Forms /\ FormIn(doc, form)
  <2>1. CASE holder.at = "none"
    <3>1. EmptyForm \in Forms /\ EmptyForm.fields = Absent
      BY AbsentIn DEF EmptyForm, Forms
    <3>2. FormIn(doc, EmptyForm)
      BY <3>1 DEF FormIn, ArrayIn, LeadsTo, Absent
    <3>3. QED
      BY <2>1, <3>1, <3>2
  <2>2. CASE holder.at = "inline"
    <3>1. holder.v \in Forms
      BY <1>2, <2>2, HolderCases
    <3>2. QED
      BY <1>3, <2>2, <3>1 DEF Resolve
  <2>3. CASE holder.at = "ref"
    <3>1. form = doc.objects[holder.ref]
      BY <2>3 DEF Resolve
    <3>2. doc.objects[holder.ref].t = "form" /\ IsSound(doc, doc.objects[holder.ref])
      BY <1>1, <1>4, <2>3 DEF Forms
    <3>3. QED
      BY <1>4, <2>3, <3>1, <3>2 DEF IsSound
  <2>4. QED
    BY <1>2, <2>1, <2>2, <2>3, HolderCases
<1>6. holder.at = "ref" => doc.objects[holder.ref].t = "form"
  BY <1>4 DEF Forms
<1>7. QED
  BY <1>2, <1>4, <1>5, <1>6 DEF doc, holder

\* add_field_to_form
LEMMA FormWithIs ==
  ASSUME NEW doc, IsDocument(doc), NEW form \in Forms, FormIn(doc, form), NEW widget \in Nat
  PROVE  LET new == FormWith(doc, form, widget)
         IN  /\ new \in Forms /\ IsValue(new) /\ new.t = "form"
             /\ \A other : Grown(doc, other, {widget}) => FormIn(other, new) /\ IsSound(other, new)
<1>. DEFINE fields == IF form.fields.at = "ref" THEN form.fields
                      ELSE Inline(Push(doc, form.fields, widget))
            new == FormWith(doc, form, widget)
<1>1. form.fields \in Holders(Arrays) /\ ArrayIn(doc, form.fields)
  BY DEF Forms, FormIn
<1>2. fields \in Holders(Arrays)
      /\ \A other : Grown(doc, other, {widget}) => ArrayIn(other, fields)
  <2>1. CASE form.fields.at = "ref"
    BY <1>1, <2>1, ArrayStill DEF Grown
  <2>2. CASE form.fields.at # "ref"
    <3>1. fields = Inline(Push(doc, form.fields, widget))
      BY <2>2
    <3>2. QED
      BY <1>1, <3>1, PushInline
  <2>3. QED
    BY <2>1, <2>2
<1>3. new = [form EXCEPT !.fields = fields, !.sigFlags = TRUE, !.needAppearances = FALSE]
  BY DEF FormWith
<1>. HIDE DEF fields, new
<1>4. new \in Forms /\ new.t = "form" /\ new.fields = fields
  BY <1>2, <1>3 DEF Forms
<1>5. \A other : Grown(doc, other, {widget}) => FormIn(other, new)
  BY <1>2, <1>4 DEF FormIn
<1>6. \A other : Grown(doc, other, {widget}) => IsSound(other, new)
  BY <1>4, <1>5 DEF IsSound
<1>7. IsValue(new)
  BY <1>4 DEF IsValue
<1>8. QED
  BY <1>4, <1>5, <1>6, <1>7 DEF new

\* apply_field_to_acroform
LEMMA FormUpdateIs ==
  ASSUME NEW f, IsSeq(f), Readable(f), IsDocument(Load(f)), NEW widget \in Nat
  PROVE  IsRewrite(Load(f), FormUpdate(Load(f), widget), {widget})
<1>. DEFINE doc    == Load(f)
            holder == Catalog(doc).form
            form   == IF holder.at = "none" THEN EmptyForm ELSE Resolve(doc, holder)
            new    == FormWith(doc, form, widget)
            val    == [Catalog(doc) EXCEPT !.form = Inline(new)]
            first  == FieldsUpdate(doc, form, widget)
            second == IF holder.at = "ref" THEN Queue(holder.ref, new) ELSE Queue(doc.root, val)
<1>1. /\ IsDocument(doc) /\ doc.root \in DOMAIN doc.objects /\ Catalog(doc) \in Catalogs
      /\ IsSound(doc, Catalog(doc))
  BY DocFacts
<1>2. /\ form \in Forms /\ FormIn(doc, form)
      /\ holder.at = "ref" => holder.ref \in DOMAIN doc.objects /\ doc.objects[holder.ref].t = "form"
  BY FormIs
<1>3. FormUpdate(doc, widget) = first ++ second
  BY DEF FormUpdate
<1>. HIDE DEF doc, form, holder
<1>4. /\ new \in Forms /\ IsValue(new) /\ new.t = "form"
      /\ \A other : Grown(doc, other, {widget}) => FormIn(other, new) /\ IsSound(other, new)
  BY <1>1, <1>2, FormWithIs
<1>. HIDE DEF new
<1>5. IsRewrite(doc, first, {widget})
  <2>1. CASE form.fields.at = "ref"
    <3>1. form.fields \in Holders(Arrays) /\ ArrayIn(doc, form.fields)
      BY <1>2 DEF Forms, FormIn
    <3>2. IsRewrite(doc, Queue(form.fields.ref, Push(doc, form.fields, widget)), {widget})
      BY <1>1, <2>1, <3>1, PushRewrite
    <3>3. QED
      BY <2>1, <3>2 DEF FieldsUpdate
  <2>2. CASE form.fields.at # "ref"
    BY <2>2, NoRewrite DEF FieldsUpdate
  <2>3. QED
    BY <2>1, <2>2
<1>6. IsRewrite(doc, second, {widget})
  <2>1. CASE holder.at = "ref"
    <3>1. IsRewrite(doc, Queue(holder.ref, new), {widget})
      BY <1>2, <1>4, <2>1, QueueRewrite DEF Containers
    <3>2. QED
      BY <2>1, <3>1
  <2>2. CASE holder.at # "ref"
    <3>1. Inline(new) \in Holders(Forms) /\ Inline(new).at = "inline" /\ Inline(new).v = new
      BY <1>4, InlineIn
    <3>2. /\ val \in Catalogs /\ val.t = "catalog" /\ val.form = Inline(new)
          /\ val.dss = Catalog(doc).dss
      BY <1>1, <3>1 DEF Catalogs
    <3>. HIDE DEF val
    <3>3. IsValue(val) /\ doc.objects[doc.root].t = "catalog"
      BY <1>1, <3>2 DEF IsValue, Catalog, Catalogs
    <3>4. ASSUME NEW other, Grown(doc, other, {widget}) PROVE IsSound(other, val)
      <4>1. IsSound(other, Catalog(doc)) /\ Catalog(doc).t = "catalog"
        BY <1>1, <3>4, SoundStill DEF Grown, Catalogs
      <4>2. LeadsTo(other, val.dss, Dsses) /\ (val.dss.at = "inline" => DssIn(other, val.dss.v))
        BY <3>2, <4>1 DEF IsSound
      <4>3. LeadsTo(other, val.form, Forms) /\ (val.form.at = "inline" => FormIn(other, val.form.v))
        BY <1>4, <3>1, <3>2, <3>4 DEF LeadsTo
      <4>4. QED
        BY <3>2, <4>2, <4>3 DEF IsSound
    <3>5. IsRewrite(doc, Queue(doc.root, val), {widget})
      BY <1>1, <3>2, <3>3, <3>4, QueueRewrite DEF Containers
    <3>6. QED
      BY <2>2, <3>5
  <2>3. QED
    BY <2>1, <2>2
<1>. HIDE DEF first, second
<1>7. IsRewrite(doc, first ++ second, {widget})
  BY <1>5, <1>6, MergeRewrites
<1>8. QED
  BY <1>3, <1>7 DEF doc

-----------------------------------------------------------------------------
(* The objects of a field and of its page.                                 *)

LEMMA MergeIs ==
  ASSUME NEW u, NEW v
  PROVE  /\ DOMAIN (u ++ v) = DOMAIN u \cup DOMAIN v
         /\ \A id \in DOMAIN u : (u ++ v)[id] = u[id]
         /\ \A id \in DOMAIN v \ DOMAIN u : (u ++ v)[id] = v[id]
BY DEF ++

LEMMA MergeAssociates ==
  ASSUME NEW a, NEW b, NEW c
  PROVE  (a ++ b) ++ c = a ++ (b ++ c)
<1>. DEFINE ab == a ++ b
            bc == b ++ c
<1>1. /\ DOMAIN ab = DOMAIN a \cup DOMAIN b
      /\ \A id \in DOMAIN a : ab[id] = a[id]
      /\ \A id \in DOMAIN b \ DOMAIN a : ab[id] = b[id]
  BY MergeIs
<1>2. /\ DOMAIN bc = DOMAIN b \cup DOMAIN c
      /\ \A id \in DOMAIN b : bc[id] = b[id]
      /\ \A id \in DOMAIN c \ DOMAIN b : bc[id] = c[id]
  BY MergeIs
<1>. HIDE DEF ab, bc
<1>. DEFINE D == (DOMAIN a \cup DOMAIN b) \cup DOMAIN c
<1>3. DOMAIN ab \cup DOMAIN c = D /\ DOMAIN a \cup DOMAIN bc = D
  BY <1>1, <1>2
<1>4. \A id \in D : (IF id \in DOMAIN ab THEN ab[id] ELSE c[id])
                     = IF id \in DOMAIN a THEN a[id] ELSE bc[id]
  BY <1>1, <1>2
<1>5. ab ++ c = [x \in D |-> IF x \in DOMAIN ab THEN ab[x] ELSE c[x]]
  BY <1>3 DEF ++
<1>6. a ++ bc = [x \in D |-> IF x \in DOMAIN a THEN a[x] ELSE bc[x]]
  BY <1>3 DEF ++
<1>. HIDE DEF D
<1>7. ab ++ c = a ++ bc
  BY <1>4, <1>5, <1>6
<1>8. QED
  BY <1>7 DEF ab, bc

\* New objects, numbered after those of the document: the next n numbers.
NextIds(doc, n) == (doc.maxId + 1)..(doc.maxId + n)
IsNew(doc, u, S, n) ==
  /\ DOMAIN u \subseteq NextIds(doc, n)
  /\ \A id \in DOMAIN u \ S :
       /\ IsValue(u[id])
       /\ \A new : Grown(doc, new, DOMAIN u) => IsSound(new, u[id])

\* What an update writes: new objects and containers that refer to them.
IsFine(f, objs, S, size) ==
  LET doc == Load(f)
  IN  /\ Fits(f, objs, S, size, doc.root) /\ IsChange(doc, objs, S, size)
      /\ IsFiniteSet(DOMAIN objs) /\ DOMAIN objs \subseteq Nat
      /\ \A id \in S : id \notin DOMAIN doc.objects
      /\ \A new : Grown(doc, new, DOMAIN objs) =>
           \A id \in DOMAIN objs \ S : IsSound(new, objs[id])

LEMMA NewAndRewritten ==
  ASSUME NEW f, IsSeq(f), Readable(f), IsDocument(Load(f)), NEW n \in Nat,
         NEW a, NEW b, NEW S, NEW fresh, NEW size,
         IsNew(Load(f), a, S, n), S \subseteq DOMAIN a, IsRewrite(Load(f), b, fresh),
         fresh \subseteq DOMAIN a, DOMAIN a \cup DOMAIN b # {}, size = Load(f).maxId + n + 1
  PROVE  IsFine(f, a ++ b, S, size)
<1>. DEFINE doc  == Load(f)
            objs == a ++ b
<1>1. /\ DOMAIN doc.objects \subseteq Nat /\ doc.maxId \in Nat
      /\ \A id \in DOMAIN doc.objects : id <= doc.maxId
      /\ doc.root \in DOMAIN doc.objects
  BY DocFacts
<1>2. /\ DOMAIN objs = DOMAIN a \cup DOMAIN b
      /\ \A id \in DOMAIN a : objs[id] = a[id]
      /\ \A id \in DOMAIN b \ DOMAIN a : objs[id] = b[id]
  BY MergeIs
<1>3. IsNew(doc, a, S, n) /\ IsRewrite(doc, b, fresh)
  OBVIOUS
<1>4. size = doc.maxId + n + 1
  OBVIOUS
<1>. HIDE DEF doc, objs
<1>5. DOMAIN b \subseteq DOMAIN doc.objects /\ DOMAIN a \subseteq NextIds(doc, n)
  BY <1>3 DEF IsNew, IsRewrite
<1>6. /\ size \in Nat
      /\ \A id \in DOMAIN a : id \in Nat /\ id < size /\ id > doc.maxId /\ id \notin DOMAIN doc.objects
      /\ \A id \in DOMAIN doc.objects : id \in Nat /\ id < size
  BY <1>1, <1>4, <1>5 DEF NextIds
<1>7. DOMAIN objs \subseteq 0..(size - 1) /\ DOMAIN objs \subseteq Nat /\ DOMAIN objs # {}
  BY <1>2, <1>5, <1>6
<1>8. IsFiniteSet(DOMAIN objs)
  <2>1. IsFiniteSet(0..(size - 1))
    <3>1. size \in Nat
      BY <1>6
    <3>2. 0 \in Int /\ size - 1 \in Int
      BY <3>1
    <3>3. QED
      BY <3>2, FS_Interval
  <2>2. QED
    BY <1>7, <2>1, FS_Subset
<1>9. ASSUME NEW id \in DOMAIN objs \ S
      PROVE  /\ IsValue(objs[id])
             /\ \A new : Grown(doc, new, DOMAIN objs) => IsSound(new, objs[id])
  <2>1. CASE id \in DOMAIN a
    <3>1. objs[id] = a[id]
      BY <1>2, <2>1
    <3>2. IsValue(a[id]) /\ \A new : Grown(doc, new, DOMAIN a) => IsSound(new, a[id])
      BY <1>3, <1>9, <2>1 DEF IsNew
    <3>3. \A new : Grown(doc, new, DOMAIN objs) => Grown(doc, new, DOMAIN a)
      BY <1>2 DEF Grown
    <3>4. QED
      BY <3>1, <3>2, <3>3
  <2>2. CASE id \notin DOMAIN a
    <3>1. objs[id] = b[id] /\ id \in DOMAIN b
      BY <1>2, <1>9, <2>2
    <3>2. IsValue(b[id]) /\ \A new : Grown(doc, new, fresh) => IsSound(new, b[id])
      BY <1>3, <3>1 DEF IsRewrite
    <3>3. \A new : Grown(doc, new, DOMAIN objs) => Grown(doc, new, fresh)
      BY <1>2 DEF Grown
    <3>4. QED
      BY <3>1, <3>2, <3>3
  <2>3. QED
    BY <2>1, <2>2
<1>10. ASSUME NEW id \in DOMAIN objs \cap DOMAIN doc.objects
       PROVE  id \notin S /\ objs[id].t = doc.objects[id].t /\ doc.objects[id].t \in Containers
  <2>1. id \notin DOMAIN a
    BY <1>6
  <2>2. id \in DOMAIN b /\ objs[id] = b[id]
    BY <1>2, <2>1
  <2>3. QED
    BY <1>3, <2>1, <2>2 DEF IsRewrite
<1>11. \A id \in S : id \notin DOMAIN doc.objects
  BY <1>6
<1>12. Fits(f, objs, S, size, doc.root)
  BY <1>1, <1>6, <1>7, <1>9 DEF Fits
<1>13. IsChange(doc, objs, S, size)
  BY <1>6, <1>10 DEF IsChange
<1>14. \A new : Grown(doc, new, DOMAIN objs) => \A id \in DOMAIN objs \ S : IsSound(new, objs[id])
  BY <1>9
<1>15. QED
  BY <1>7, <1>8, <1>11, <1>12, <1>13, <1>14, Zenon DEF IsFine, doc, objs

\* What such an update makes of the document.
LEMMA FineUpdate ==
  ASSUME NEW f, NEW objs, NEW S, NEW size, NEW body, IsFine(f, objs, S, size),
         IsDocument(Load(f)), IsBody(body, objs, S)
  PROVE  LET g == Render(f, body, size, Load(f).root)
         IN  /\ IsUpdate(f, g, body, objs, S, size, Load(f).root)
             /\ IsSeq(g) /\ Readable(g) /\ IsDocument(Load(g)) /\ StartOf(f, g)
             /\ Keeps(Load(f), Load(g))
<1>. DEFINE doc == Load(f)
            g   == Render(f, body, size, doc.root)
<1>1. /\ Fits(f, objs, S, size, doc.root) /\ IsChange(doc, objs, S, size)
      /\ \A new : Grown(doc, new, DOMAIN objs) => \A id \in DOMAIN objs \ S : IsSound(new, objs[id])
  BY DEF IsFine
<1>2. IsSeq(f) /\ IsSeq(body)
  BY <1>1 DEF Fits, IsBody
<1>3. IsRendered(f, g, body, size, doc.root)
  BY <1>2, RenderCells
<1>. HIDE DEF g
<1>4. IsUpdate(f, g, body, objs, S, size, doc.root)
  BY <1>1, <1>3 DEF IsUpdate
<1>5. IsSeq(g) /\ StartOf(f, g) /\ Readable(g)
  BY <1>4, UpdateNumbers, UpdateReadable
<1>6. Keeps(doc, Load(g)) /\ Refines(Load(g), doc)
  BY <1>1, <1>4, NothingLost
<1>7. DOMAIN objs \subseteq DOMAIN Load(g).objects
  <2>1. UpdateLoads(f, g, body, objs, S, size, doc.root)
    BY <1>4, UpdateLoad
  <2>2. DOMAIN Load(g).objects = NewIds(f, objs, size) \cup DOMAIN doc.objects
    BY <2>1, Zenon DEF UpdateLoads
  <2>3. QED
    BY <2>2 DEF NewIds
<1>8. \A id \in DOMAIN objs \ S : IsSound(Load(g), objs[id])
  BY <1>1, <1>6, <1>7 DEF Grown
<1>9. IsDocument(Load(g))
  BY <1>1, <1>4, <1>8, DocumentStill
<1>10. QED
  BY <1>4, <1>5, <1>6, <1>9 DEF g

LEMMA QueueIs ==
  ASSUME NEW id, NEW val
  PROVE  DOMAIN Queue(id, val) = {id} /\ Queue(id, val)[id] = val
BY DEF Queue

LEMMA MergeNothing ==
  ASSUME NEW id, NEW val
  PROVE  << >> ++ Queue(id, val) = Queue(id, val) /\ Queue(id, val) ++ << >> = Queue(id, val)
<1>1. DOMAIN << >> = {}
  BY EmptyTable
<1>2. DOMAIN << >> \cup {id} = {id} /\ {id} \cup DOMAIN << >> = {id}
  BY <1>1
<1>3. << >> ++ Queue(id, val) = [x \in {id} |-> IF x \in DOMAIN << >> THEN << >>[x] ELSE Queue(id, val)[x]]
  BY <1>2, QueueIs DEF ++
<1>4. Queue(id, val) ++ << >> = [x \in {id} |-> IF x \in {id} THEN Queue(id, val)[x] ELSE << >>[x]]
  BY <1>2, QueueIs DEF ++
<1>5. [x \in {id} |-> IF x \in DOMAIN << >> THEN << >>[x] ELSE Queue(id, val)[x]] = [x \in {id} |-> val]
  BY <1>1, QueueIs
<1>6. [x \in {id} |-> IF x \in {id} THEN Queue(id, val)[x] ELSE << >>[x]] = [x \in {id} |-> val]
  BY QueueIs
<1>7. QED
  BY <1>3, <1>4, <1>5, <1>6 DEF Queue

LEMMA NewObjectsAre ==
  ASSUME NEW doc, doc.maxId \in Nat, NEW sub, NEW cap, NEW nap \in Nat
  PROVE  LET a == NewObjects(doc, sub, cap, nap)
         IN  /\ IsNew(doc, a, {FreshId(doc, 1)}, nap + 2)
             /\ FreshId(doc, 1) \in DOMAIN a /\ FreshId(doc, nap + 2) \in DOMAIN a
             /\ a[FreshId(doc, 1)] = [t |-> "newsig", sub |-> sub, cap |-> cap]
             /\ a[FreshId(doc, nap + 2)] = [t |-> "widget", sig |-> FreshId(doc, 1)]
             /\ \A id \in DOMAIN a :
                  id = FreshId(doc, 1) \/ id = FreshId(doc, nap + 2) \/ a[id] = ApObj
<1>. DEFINE sig    == FreshId(doc, 1)
            widget == FreshId(doc, nap + 2)
            u      == Queue(sig, [t |-> "newsig", sub |-> sub, cap |-> cap])
            v      == [id \in FreshIds(doc, 1, nap) |-> ApObj]
            w      == Queue(widget, [t |-> "widget", sig |-> sig])
            uv     == u ++ v
            a      == uv ++ w
<1>1. /\ DOMAIN u = {sig} /\ u[sig] = [t |-> "newsig", sub |-> sub, cap |-> cap]
      /\ DOMAIN w = {widget} /\ w[widget] = [t |-> "widget", sig |-> sig]
  BY QueueIs
<1>2. DOMAIN v = FreshIds(doc, 1, nap) /\ \A id \in DOMAIN v : v[id] = ApObj
  OBVIOUS
<1>. HIDE DEF u, v, w
<1>3. /\ DOMAIN uv = DOMAIN u \cup DOMAIN v
      /\ \A id \in DOMAIN u : uv[id] = u[id]
      /\ \A id \in DOMAIN v \ DOMAIN u : uv[id] = v[id]
  BY MergeIs
<1>. HIDE DEF uv
<1>4. /\ DOMAIN a = DOMAIN uv \cup DOMAIN w
      /\ \A id \in DOMAIN uv : a[id] = uv[id]
      /\ \A id \in DOMAIN w \ DOMAIN uv : a[id] = w[id]
  BY MergeIs
<1>. HIDE DEF a
<1>5. sig \in Nat /\ sig \in NextIds(doc, nap + 2) /\ widget \in NextIds(doc, nap + 2)
      /\ FreshIds(doc, 1, nap) \subseteq NextIds(doc, nap + 2)
      /\ widget \notin FreshIds(doc, 1, nap) /\ widget # sig
  BY DEF FreshId, FreshIds, NextIds
<1>6. DOMAIN a \subseteq NextIds(doc, nap + 2) /\ sig \in DOMAIN a /\ widget \in DOMAIN a
  BY <1>1, <1>2, <1>3, <1>4, <1>5
<1>7. a[sig] = [t |-> "newsig", sub |-> sub, cap |-> cap]
  BY <1>1, <1>3, <1>4
<1>8. ASSUME NEW id \in DOMAIN a \ {sig}
      PROVE  a[id] = ApObj \/ (id = widget /\ a[id] = [t |-> "widget", sig |-> sig])
  <2>1. CASE id \in DOMAIN v
    BY <1>1, <1>2, <1>3, <1>4, <1>8, <2>1
  <2>2. CASE id \notin DOMAIN v
    <3>1. id \in DOMAIN w /\ id \notin DOMAIN uv
      BY <1>1, <1>3, <1>4, <1>8, <2>2
    <3>2. QED
      BY <1>1, <1>4, <3>1
  <2>3. QED
    BY <2>1, <2>2
<1>9. ASSUME NEW id \in DOMAIN a \ {sig}
      PROVE  IsValue(a[id]) /\ \A new : IsSound(new, a[id])
  <2>1. CASE a[id] = ApObj
    BY <2>1 DEF IsValue, IsSound, ApObj
  <2>2. CASE a[id] = [t |-> "widget", sig |-> sig]
    BY <1>5, <2>2 DEF IsValue, IsSound, Widgets
  <2>3. QED
    BY <1>8, <2>1, <2>2
<1>10. a[widget] = [t |-> "widget", sig |-> sig]
  BY <1>1, <1>2, <1>3, <1>4, <1>5
<1>. HIDE DEF sig, widget
<1>11. IsNew(doc, a, {sig}, nap + 2)
  BY <1>6, <1>9 DEF IsNew
<1>12. a = NewObjects(doc, sub, cap, nap)
  BY DEF a, uv, u, v, w, sig, widget, NewObjects
<1>13. QED
  BY <1>6, <1>7, <1>8, <1>10, <1>11, <1>12 DEF sig, widget

LEMMA CellsAreNew ==
  ASSUME NEW doc, doc.maxId \in Nat, NEW sub, NEW cap, NEW nap \in Nat
  PROVE  LET a == NewObjects(doc, sub, cap, nap)
         IN  /\ FreshId(doc, 1) \in DOMAIN a
             /\ a[FreshId(doc, 1)] = [t |-> "newsig", sub |-> sub, cap |-> cap]
             /\ FreshId(doc, nap + 2) \in DOMAIN a
<1>. DEFINE s == FreshId(doc, 1)
            w == FreshId(doc, nap + 2)
            a == NewObjects(doc, sub, cap, nap)
<1>1. /\ IsNew(doc, a, {s}, nap + 2) /\ s \in DOMAIN a /\ w \in DOMAIN a
      /\ a[s] = [t |-> "newsig", sub |-> sub, cap |-> cap]
      /\ a[w] = [t |-> "widget", sig |-> s]
      /\ \A id \in DOMAIN a : id = s \/ id = w \/ a[id] = ApObj
  BY NewObjectsAre
<1>2. QED
  BY <1>1

LEMMA FieldUpdateIs ==
  ASSUME NEW doc, NEW page, NEW sub, NEW cap, NEW nap
  PROVE  FieldUpdate(doc, page, sub, cap, nap)
           = NewObjects(doc, sub, cap, nap)
               ++ (PageUpdate(doc, page, FreshId(doc, nap + 2)) ++ FormUpdate(doc, FreshId(doc, nap + 2)))
<1>. DEFINE a == NewObjects(doc, sub, cap, nap)
            b == PageUpdate(doc, page, FreshId(doc, nap + 2))
            c == FormUpdate(doc, FreshId(doc, nap + 2))
<1>1. FieldUpdate(doc, page, sub, cap, nap) = (a ++ b) ++ c
  BY DEF FieldUpdate, NewObjects
<1>. HIDE DEF a, b, c
<1>2. (a ++ b) ++ c = a ++ (b ++ c)
  BY MergeAssociates
<1>3. QED
  BY <1>1, <1>2 DEF a, b, c

\* build_incremental_update, build_doctimestamp_update
LEMMA FieldUpdateFine ==
  ASSUME NEW f, IsSeq(f), Readable(f), IsDocument(Load(f)), NEW page \in DOMAIN Load(f).objects,
         Load(f).objects[page].t = "page", NEW sub, NEW cap, NEW nap \in Nat
  PROVE  LET doc  == Load(f)
             objs == FieldUpdate(doc, page, sub, cap, nap)
             sig  == FreshId(doc, 1)
         IN  /\ IsFine(f, objs, {sig}, FreshId(doc, nap + 3))
             /\ sig \in DOMAIN objs /\ objs[sig].sub = sub /\ objs[sig].cap = cap
<1>. DEFINE doc    == Load(f)
            sig    == FreshId(doc, 1)
            widget == FreshId(doc, nap + 2)
            a      == NewObjects(doc, sub, cap, nap)
            b      == PageUpdate(doc, page, widget)
            c      == FormUpdate(doc, widget)
            bc     == b ++ c
<1>1. doc.maxId \in Nat
  BY DocFacts
<1>2. widget \in Nat /\ nap + 2 \in Nat /\ FreshId(doc, nap + 3) = doc.maxId + (nap + 2) + 1
  BY <1>1 DEF FreshId
<1>3. /\ IsNew(doc, a, {sig}, nap + 2) /\ sig \in DOMAIN a /\ widget \in DOMAIN a
      /\ a[sig].sub = sub /\ a[sig].cap = cap
  <2>. HIDE DEF doc, bc
  <2>1. IsNew(doc, a, {sig}, nap + 2)
    BY <1>1, NewObjectsAre
  <2>2. /\ sig \in DOMAIN a
        /\ a[sig] = [t |-> "newsig", sub |-> sub, cap |-> cap]
        /\ widget \in DOMAIN a
    BY <1>1, CellsAreNew
  <2>3. QED
    BY <2>1, <2>2
<1>4. IsRewrite(doc, b, {widget}) /\ IsRewrite(doc, c, {widget})
  BY <1>2, PageUpdateIs, FormUpdateIs
<1>5. FieldUpdate(doc, page, sub, cap, nap) = a ++ bc
  BY FieldUpdateIs
<1>. HIDE DEF a, b, c
<1>6. IsRewrite(doc, bc, {widget})
  BY <1>4, MergeRewrites
<1>. HIDE DEF bc, sig, widget
<1>7. IsFine(f, a ++ bc, {sig}, FreshId(doc, nap + 3))
  BY <1>1, <1>2, <1>3, <1>6, NewAndRewritten
<1>8. sig \in DOMAIN (a ++ bc) /\ (a ++ bc)[sig] = a[sig]
  BY <1>3, MergeIs
<1>9. QED
  BY <1>3, <1>5, <1>7, <1>8 DEF sig

-----------------------------------------------------------------------------
(* The validation material of a document and of its update.                *)

Materialized(material) == \A key \in DssKeys : IsFiniteSet(material[key])

\* The validation material of a document, or none yet.
LEMMA DssIs ==
  ASSUME NEW f, IsSeq(f), Readable(f), IsDocument(Load(f))
  PROVE  LET doc    == Load(f)
             holder == Catalog(doc).dss
             dss    == ExistingDss(doc)
         IN  /\ holder \in Holders(Dsses) /\ dss \in Dsses /\ DssIn(doc, dss)
             /\ holder.at = "ref" => holder.ref \in DOMAIN doc.objects
                                     /\ doc.objects[holder.ref].t = "dss"
<1>. DEFINE doc    == Load(f)
            holder == Catalog(doc).dss
            dss    == ExistingDss(doc)
<1>1. /\ Catalog(doc) \in Catalogs /\ IsSound(doc, Catalog(doc))
      /\ \A id \in DOMAIN doc.objects : IsSound(doc, doc.objects[id])
  BY DocFacts
<1>. HIDE DEF doc
<1>2. Catalog(doc).t = "catalog" /\ holder \in Holders(Dsses)
  BY <1>1 DEF Catalogs
<1>3. LeadsTo(doc, holder, Dsses) /\ (holder.at = "inline" => DssIn(doc, holder.v))
  BY <1>1, <1>2 DEF IsSound
<1>4. holder.at = "ref" => holder.ref \in DOMAIN doc.objects /\ doc.objects[holder.ref] \in Dsses
  BY <1>3 DEF LeadsTo
<1>5. dss = IF holder.at = "none" THEN EmptyDss ELSE Resolve(doc, holder)
  BY DEF ExistingDss
<1>. HIDE DEF holder, dss
<1>6. dss \in Dsses /\ DssIn(doc, dss)
  <2>1. CASE holder.at = "none"
    <3>1. /\ EmptyDss \in Dsses /\ \A key \in DssKeys : EmptyDss.arr[key] = Absent
      BY AbsentIn DEF EmptyDss, Dsses
    <3>2. DssIn(doc, EmptyDss)
      BY <3>1 DEF DssIn, ArrayIn, LeadsTo, Absent
    <3>3. QED
      BY <1>5, <2>1, <3>1, <3>2
  <2>2. CASE holder.at = "inline"
    <3>1. holder.v \in Dsses
      BY <1>2, <2>2, HolderCases
    <3>2. QED
      BY <1>3, <1>5, <2>2, <3>1 DEF Resolve
  <2>3. CASE holder.at = "ref"
    <3>1. dss = doc.objects[holder.ref]
      BY <1>5, <2>3 DEF Resolve
    <3>2. doc.objects[holder.ref].t = "dss" /\ IsSound(doc, doc.objects[holder.ref])
      BY <1>1, <1>4, <2>3 DEF Dsses
    <3>3. QED
      BY <1>4, <2>3, <3>1, <3>2 DEF IsSound
  <2>4. QED
    BY <1>2, <2>1, <2>2, <2>3, HolderCases
<1>7. holder.at = "ref" => doc.objects[holder.ref].t = "dss"
  BY <1>4 DEF Dsses
<1>8. QED
  BY <1>2, <1>4, <1>6, <1>7 DEF doc, holder, dss

\* How many blobs are new, and which numbers they get.
Lack(doc, material, key) == Cardinality(Missing(doc, ExistingDss(doc), material, key))
FirstOf(doc, material, key) == FirstNew(doc, ExistingDss(doc), material, key)

LEMMA LackFacts ==
  ASSUME NEW doc, NEW material, Materialized(material), doc.maxId \in Nat
  PROVE  /\ \A key \in DssKeys : Lack(doc, material, key) \in Nat
         /\ FirstOf(doc, material, "Certs") = 0
         /\ FirstOf(doc, material, "CRLs") = Lack(doc, material, "Certs")
         /\ FirstOf(doc, material, "OCSPs") = Lack(doc, material, "Certs") + Lack(doc, material, "CRLs")
         /\ NewBlobs(doc, material) = (Lack(doc, material, "Certs") + Lack(doc, material, "CRLs"))
                                        + Lack(doc, material, "OCSPs")
         /\ NewBlobs(doc, material) \in Nat
<1>1. ASSUME NEW key \in DssKeys PROVE Lack(doc, material, key) \in Nat
  <2>1. Missing(doc, ExistingDss(doc), material, key) \subseteq material[key]
    BY DEF Missing
  <2>2. IsFiniteSet(Missing(doc, ExistingDss(doc), material, key))
    BY <2>1, FS_Subset DEF Materialized
  <2>3. QED
    BY <2>2, FS_CardinalityType DEF Lack
<1>2. /\ FirstOf(doc, material, "Certs") = 0
      /\ FirstOf(doc, material, "CRLs") = Lack(doc, material, "Certs")
      /\ FirstOf(doc, material, "OCSPs") = Lack(doc, material, "Certs") + Lack(doc, material, "CRLs")
  BY DEF FirstOf, FirstNew, Lack
<1>3. NewBlobs(doc, material) = Lack(doc, material, "Certs") + Lack(doc, material, "CRLs")
                                        + Lack(doc, material, "OCSPs")
  BY DEF NewBlobs, Lack
<1>4. /\ Lack(doc, material, "Certs") \in Nat /\ Lack(doc, material, "CRLs") \in Nat
      /\ Lack(doc, material, "OCSPs") \in Nat
  BY <1>1 DEF DssKeys
<1>5. QED
  BY <1>1, <1>2, <1>3, <1>4

\* The numbers of the new blobs of a key.
BlobIds(doc, material, key) == FreshIds(doc, FirstOf(doc, material, key), Lack(doc, material, key))

LEMMA BlobIdsFacts ==
  ASSUME NEW doc, NEW material, Materialized(material), doc.maxId \in Nat, NEW key \in DssKeys
  PROVE  /\ BlobIds(doc, material, key) \subseteq NextIds(doc, NewBlobs(doc, material))
         /\ FirstOf(doc, material, key) \in Nat
<1>1. /\ Lack(doc, material, "Certs") \in Nat /\ Lack(doc, material, "CRLs") \in Nat
      /\ Lack(doc, material, "OCSPs") \in Nat
      /\ FirstOf(doc, material, "Certs") = 0
      /\ FirstOf(doc, material, "CRLs") = Lack(doc, material, "Certs")
      /\ FirstOf(doc, material, "OCSPs") = Lack(doc, material, "Certs") + Lack(doc, material, "CRLs")
      /\ NewBlobs(doc, material) = (Lack(doc, material, "Certs") + Lack(doc, material, "CRLs"))
                                        + Lack(doc, material, "OCSPs")
  BY LackFacts DEF DssKeys
<1>2. /\ FirstOf(doc, material, key) \in Nat /\ Lack(doc, material, key) \in Nat
      /\ FirstOf(doc, material, key) + Lack(doc, material, key) <= NewBlobs(doc, material)
      /\ NewBlobs(doc, material) \in Nat
  <2>1. CASE key = "Certs"
    BY <1>1, <2>1
  <2>2. CASE key = "CRLs"
    BY <1>1, <2>2
  <2>3. CASE key = "OCSPs"
    BY <1>1, <2>3
  <2>4. QED
    BY <2>1, <2>2, <2>3 DEF DssKeys
<1>3. QED
  BY <1>2 DEF BlobIds, FreshIds, FreshId, NextIds

\* merge
LEMMA MergedArrayIs ==
  ASSUME NEW doc, IsDocument(doc), doc.maxId \in Nat, NEW material, Materialized(material),
         ExistingDss(doc) \in Dsses, DssIn(doc, ExistingDss(doc)), NEW key \in DssKeys
  PROVE  LET new == MergedArray(doc, ExistingDss(doc), material, key)
         IN  /\ new \in Holders(Arrays)
             /\ \A other : Grown(doc, other, BlobIds(doc, material, key)) => ArrayIn(other, new)
<1>. DEFINE dss   == ExistingDss(doc)
            old   == DssArray(doc, dss, key)
            n     == Lack(doc, material, key)
            first == FirstOf(doc, material, key)
            added == [i \in 1..n |-> FreshId(doc, first + i)]
            refs  == old \o added
            new   == MergedArray(doc, dss, material, key)
<1>1. dss.arr[key] \in Holders(Arrays) /\ ArrayIn(doc, dss.arr[key])
  BY DEF Dsses, DssIn
<1>2. old = Elements(doc, dss.arr[key])
  BY DEF DssArray, Elements
<1>3. old \in Seq(Nat) /\ Range(old) \subseteq DOMAIN doc.objects
  BY <1>1, <1>2, ElementsKnown
<1>4. n \in Nat /\ first \in Nat
  BY LackFacts, BlobIdsFacts
<1>5. new = IF refs = << >> THEN dss.arr[key] ELSE Inline(Arr(refs))
  BY DEF MergedArray, Lack, FirstOf
<1>. HIDE DEF dss, old, n, first, new
<1>6. added \in Seq(Nat) /\ Len(added) = n /\ \A i \in 1..n : added[i] = FreshId(doc, first + i)
  BY <1>4 DEF FreshId
<1>. HIDE DEF added
<1>7. /\ refs \in Seq(Nat) /\ Len(refs) = Len(old) + n /\ Len(old) \in Nat
      /\ \A i \in 1..Len(old) : refs[i] = old[i]
      /\ \A i \in 1..n : refs[Len(old) + i] = added[i]
  <2>1. IsSeq(old) /\ IsSeq(added) /\ Len(old) \in Nat
    BY <1>3, <1>6, SeqOver
  <2>2. \A i \in 1..Len(old) : refs[i] = old[i]
    BY <2>1, ConcatFacts
  <2>3. \A i \in 1..Len(added) : refs[Len(old) + i] = added[i]
    BY <2>1, ConcatFacts
  <2>4. refs \in Seq(Nat) /\ Len(refs) = Len(old) + n
    <3>1. refs \in Seq(Nat)
      BY <1>3, <1>6
    <3>2. Len(refs) = Len(old) + Len(added)
      BY <2>1, ConcatFacts
    <3>3. QED
      BY <1>6, <3>1, <3>2
  <2>5. QED
    BY <1>6, <2>1, <2>2, <2>3, <2>4
<1>. HIDE DEF refs
<1>8. Range(refs) \subseteq Range(old) \cup BlobIds(doc, material, key)
  <2>1. ASSUME NEW i \in 1..Len(refs) PROVE refs[i] \in Range(old) \cup BlobIds(doc, material, key)
    <3>1. CASE i <= Len(old)
      <4>1. i \in 1..Len(old) /\ DOMAIN old = 1..Len(old)
        BY <1>3, <1>7, <3>1
      <4>2. QED
        BY <1>7, <4>1 DEF Range
    <3>2. CASE i > Len(old)
      <4>1. PICK j \in 1..n : i = Len(old) + j
        <5>1. i - Len(old) \in 1..n /\ i = Len(old) + (i - Len(old))
          BY <1>4, <1>7, <3>2
        <5>2. QED
          BY <5>1
      <4>2. refs[i] = FreshId(doc, first + j)
        BY <1>6, <1>7, <4>1
      <4>3. QED
        BY <4>2 DEF BlobIds, FreshIds, n, first
    <3>3. QED
      BY <1>7, <3>1, <3>2
  <2>2. DOMAIN refs = 1..Len(refs)
    BY <1>7
  <2>3. QED
    BY <2>1, <2>2 DEF Range
<1>9. new \in Holders(Arrays)
  <2>1. Arr(refs) \in Arrays
    BY <1>7 DEF Arr, Arrays
  <2>2. Inline(Arr(refs)) \in Holders(Arrays)
    BY <2>1, InlineIn
  <2>3. QED
    BY <1>1, <1>5, <2>2
<1>10. ASSUME NEW other, Grown(doc, other, BlobIds(doc, material, key)) PROVE ArrayIn(other, new)
  <2>1. ArrayIn(other, dss.arr[key])
    BY <1>1, <1>10, ArrayStill DEF Grown
  <2>2. DOMAIN doc.objects \subseteq DOMAIN other.objects
        /\ BlobIds(doc, material, key) \subseteq DOMAIN other.objects
    BY <1>10 DEF Grown, Refines
  <2>3. Known(other, Arr(refs))
    BY <1>3, <1>8, <2>2 DEF Known, Arr
  <2>4. ArrayIn(other, Inline(Arr(refs)))
    BY <2>3 DEF ArrayIn, Inline, LeadsTo
  <2>5. QED
    BY <1>5, <2>1, <2>4
<1>11. QED
  BY <1>9, <1>10 DEF new, dss

LEMMA DerIsFine ==
  ASSUME NEW d
  PROVE  IsValue(Der(d)) /\ \A new : IsSound(new, Der(d))
<1>1. Der(d).t = "der" /\ Der(d).der = d
  BY DEF Der
<1>2. QED
  BY <1>1 DEF IsValue, IsSound

LEMMA StreamsAre ==
  ASSUME NEW doc, NEW material, NEW key
  PROVE  /\ DOMAIN Streams(doc, material, key) = BlobIds(doc, material, key)
         /\ \A id \in BlobIds(doc, material, key) : \E d : Streams(doc, material, key)[id] = Der(d)
BY DEF Streams, NewStreams, BlobIds, FirstOf, Lack

LEMMA NewMaterialIs ==
  ASSUME NEW doc, doc.maxId \in Nat, NEW material, Materialized(material)
  PROVE  /\ IsNew(doc, NewMaterial(doc, material), {}, NewBlobs(doc, material))
         /\ \A key \in DssKeys : BlobIds(doc, material, key) \subseteq DOMAIN NewMaterial(doc, material)
<1>. DEFINE u == Streams(doc, material, "Certs")
            v == Streams(doc, material, "CRLs")
            w == Streams(doc, material, "OCSPs")
            uv == u ++ v
            a  == uv ++ w
<1>1. /\ DOMAIN u = BlobIds(doc, material, "Certs") /\ \A id \in DOMAIN u : \E d : u[id] = Der(d)
      /\ DOMAIN v = BlobIds(doc, material, "CRLs") /\ \A id \in DOMAIN v : \E d : v[id] = Der(d)
      /\ DOMAIN w = BlobIds(doc, material, "OCSPs") /\ \A id \in DOMAIN w : \E d : w[id] = Der(d)
  BY StreamsAre
<1>. HIDE DEF u, v, w
<1>2. /\ DOMAIN uv = DOMAIN u \cup DOMAIN v
      /\ \A id \in DOMAIN u : uv[id] = u[id]
      /\ \A id \in DOMAIN v \ DOMAIN u : uv[id] = v[id]
  BY MergeIs
<1>. HIDE DEF uv
<1>3. /\ DOMAIN a = DOMAIN uv \cup DOMAIN w
      /\ \A id \in DOMAIN uv : a[id] = uv[id]
      /\ \A id \in DOMAIN w \ DOMAIN uv : a[id] = w[id]
  BY MergeIs
<1>. HIDE DEF a
<1>4. ASSUME NEW id \in DOMAIN a PROVE \E d : a[id] = Der(d)
  <2>1. CASE id \in DOMAIN u
    BY <1>1, <1>2, <1>3, <2>1
  <2>2. CASE id \in DOMAIN v \ DOMAIN u
    BY <1>1, <1>2, <1>3, <2>2
  <2>3. CASE id \in DOMAIN w \ DOMAIN uv
    BY <1>1, <1>3, <2>3
  <2>4. QED
    BY <1>2, <1>3, <2>1, <2>2, <2>3
<1>5. ASSUME NEW id \in DOMAIN a
      PROVE  IsValue(a[id]) /\ \A new : Grown(doc, new, DOMAIN a) => IsSound(new, a[id])
  <2>1. PICK d : a[id] = Der(d)
    BY <1>4
  <2>2. QED
    BY <2>1, DerIsFine
<1>6. \A key \in DssKeys : BlobIds(doc, material, key) \subseteq DOMAIN a
  BY <1>1, <1>2, <1>3 DEF DssKeys
<1>7. DOMAIN a \subseteq NextIds(doc, NewBlobs(doc, material))
  <2>1. \A key \in DssKeys : BlobIds(doc, material, key) \subseteq NextIds(doc, NewBlobs(doc, material))
    BY BlobIdsFacts
  <2>2. QED
    BY <1>1, <1>2, <1>3, <2>1 DEF DssKeys
<1>8. IsNew(doc, a, {}, NewBlobs(doc, material))
  BY <1>5, <1>7 DEF IsNew
<1>9. a = NewMaterial(doc, material)
  BY DEF a, uv, u, v, w, NewMaterial
<1>10. QED
  BY <1>6, <1>8, <1>9

LEMMA DssUpdateIs ==
  ASSUME NEW doc, NEW material
  PROVE  DssUpdate(doc, material) = NewMaterial(doc, material) ++ DssRewrite(doc, material)
BY DEF DssUpdate, NewMaterial, DssRewrite, NewDss, Streams

LEMMA NewDssIs ==
  ASSUME NEW doc, IsDocument(doc), doc.maxId \in Nat, NEW material, Materialized(material),
         ExistingDss(doc) \in Dsses, DssIn(doc, ExistingDss(doc))
  PROVE  LET new   == NewDss(doc, material)
             fresh == DOMAIN NewMaterial(doc, material)
         IN  /\ new \in Dsses /\ IsValue(new) /\ new.t = "dss"
             /\ \A other : Grown(doc, other, fresh) => DssIn(other, new) /\ IsSound(other, new)
<1>. DEFINE arr   == [key \in DssKeys |-> MergedArray(doc, ExistingDss(doc), material, key)]
            new   == NewDss(doc, material)
            fresh == DOMAIN NewMaterial(doc, material)
<1>1. \A key \in DssKeys :
         /\ arr[key] \in Holders(Arrays)
         /\ \A other : Grown(doc, other, BlobIds(doc, material, key)) => ArrayIn(other, arr[key])
  BY MergedArrayIs
<1>2. arr \in [DssKeys -> Holders(Arrays)]
  BY <1>1
<1>3. new = [ExistingDss(doc) EXCEPT !.arr = arr]
  BY DEF NewDss
<1>4. \A key \in DssKeys : BlobIds(doc, material, key) \subseteq fresh
  BY NewMaterialIs
<1>. HIDE DEF arr, new, fresh
<1>5. new \in Dsses /\ new.t = "dss" /\ new.arr = arr
  BY <1>2, <1>3 DEF Dsses
<1>6. ASSUME NEW other, Grown(doc, other, fresh) PROVE DssIn(other, new)
  <2>1. \A key \in DssKeys : Grown(doc, other, BlobIds(doc, material, key))
    BY <1>4, <1>6 DEF Grown
  <2>2. QED
    BY <1>1, <1>5, <2>1 DEF DssIn
<1>7. \A other : Grown(doc, other, fresh) => IsSound(other, new)
  BY <1>5, <1>6 DEF IsSound
<1>8. IsValue(new)
  BY <1>5 DEF IsValue
<1>9. QED
  BY <1>5, <1>6, <1>7, <1>8 DEF new, fresh

LEMMA DssRewriteIs ==
  ASSUME NEW f, IsSeq(f), Readable(f), IsDocument(Load(f)), NEW material, Materialized(material)
  PROVE  /\ IsRewrite(Load(f), DssRewrite(Load(f), material), DOMAIN NewMaterial(Load(f), material))
         /\ DOMAIN DssRewrite(Load(f), material) # {}
<1>. DEFINE doc    == Load(f)
            holder == Catalog(doc).dss
            new    == NewDss(doc, material)
            fresh  == DOMAIN NewMaterial(doc, material)
            val    == [Catalog(doc) EXCEPT !.dss = Inline(new)]
            u      == DssRewrite(doc, material)
<1>1. /\ IsDocument(doc) /\ doc.root \in DOMAIN doc.objects /\ Catalog(doc) \in Catalogs
      /\ IsSound(doc, Catalog(doc)) /\ doc.maxId \in Nat
  BY DocFacts
<1>2. /\ ExistingDss(doc) \in Dsses /\ DssIn(doc, ExistingDss(doc))
      /\ holder.at = "ref" => holder.ref \in DOMAIN doc.objects /\ doc.objects[holder.ref].t = "dss"
  BY DssIs
<1>3. u = IF holder.at = "ref" THEN Queue(holder.ref, new) ELSE Queue(doc.root, val)
  BY DEF DssRewrite
<1>. HIDE DEF doc, u
<1>4. /\ new \in Dsses /\ IsValue(new) /\ new.t = "dss"
      /\ \A other : Grown(doc, other, fresh) => DssIn(other, new) /\ IsSound(other, new)
  BY <1>1, <1>2, NewDssIs
<1>. HIDE DEF new, fresh
<1>5. IsRewrite(doc, u, fresh) /\ DOMAIN u # {}
  <2>1. CASE holder.at = "ref"
    <3>1. IsRewrite(doc, Queue(holder.ref, new), fresh)
      BY <1>2, <1>4, <2>1, QueueRewrite DEF Containers
    <3>2. QED
      BY <1>3, <2>1, <3>1, QueueIs
  <2>2. CASE holder.at # "ref"
    <3>1. Inline(new) \in Holders(Dsses) /\ Inline(new).at = "inline" /\ Inline(new).v = new
      BY <1>4, InlineIn
    <3>2. /\ val \in Catalogs /\ val.t = "catalog" /\ val.dss = Inline(new)
          /\ val.form = Catalog(doc).form
      BY <1>1, <3>1 DEF Catalogs
    <3>. HIDE DEF val
    <3>3. IsValue(val) /\ doc.objects[doc.root].t = "catalog"
      BY <1>1, <3>2 DEF IsValue, Catalog, Catalogs
    <3>4. ASSUME NEW other, Grown(doc, other, fresh) PROVE IsSound(other, val)
      <4>1. IsSound(other, Catalog(doc)) /\ Catalog(doc).t = "catalog"
        BY <1>1, <3>4, SoundStill DEF Grown, Catalogs
      <4>2. LeadsTo(other, val.form, Forms) /\ (val.form.at = "inline" => FormIn(other, val.form.v))
        BY <3>2, <4>1 DEF IsSound
      <4>3. LeadsTo(other, val.dss, Dsses) /\ (val.dss.at = "inline" => DssIn(other, val.dss.v))
        BY <1>4, <3>1, <3>2, <3>4 DEF LeadsTo
      <4>4. QED
        BY <3>2, <4>2, <4>3 DEF IsSound
    <3>5. IsRewrite(doc, Queue(doc.root, val), fresh)
      BY <1>1, <3>2, <3>3, <3>4, QueueRewrite DEF Containers
    <3>6. u = Queue(doc.root, val)
      BY <1>3, <2>2
    <3>7. DOMAIN Queue(doc.root, val) # {}
      BY QueueIs
    <3>8. QED
      BY <3>5, <3>6, <3>7
  <2>3. QED
    BY <2>1, <2>2
<1>6. QED
  BY <1>5 DEF u, doc, fresh

\* add_dss
LEMMA DssUpdateFine ==
  ASSUME NEW f, IsSeq(f), Readable(f), IsDocument(Load(f)), NEW material, Materialized(material)
  PROVE  LET doc == Load(f)
         IN  IsFine(f, DssUpdate(doc, material), {}, FreshId(doc, NewBlobs(doc, material) + 1))
<1>. DEFINE doc == Load(f)
            a   == NewMaterial(doc, material)
            b   == DssRewrite(doc, material)
            n   == NewBlobs(doc, material)
<1>1. doc.maxId \in Nat
  BY DocFacts
<1>2. n \in Nat
  BY <1>1, LackFacts
<1>3. IsNew(doc, a, {}, n)
  BY <1>1, NewMaterialIs
<1>4. IsRewrite(doc, b, DOMAIN a) /\ DOMAIN b # {}
  BY DssRewriteIs
<1>5. DssUpdate(doc, material) = a ++ b
  BY DssUpdateIs
<1>6. FreshId(doc, n + 1) = doc.maxId + n + 1
  BY <1>1, <1>2 DEF FreshId
<1>. HIDE DEF a, b, n
<1>7. IsFine(f, a ++ b, {}, FreshId(doc, n + 1))
  BY <1>2, <1>3, <1>4, <1>6, NewAndRewritten
<1>8. QED
  BY <1>5, <1>7 DEF n

-----------------------------------------------------------------------------
(* The pages of a document, and the updates of other programs.             *)

LEMMA PagesAre ==
  ASSUME NEW f, IsSeq(f), Readable(f), IsDocument(Load(f))
  PROVE  LET doc == Load(f)
         IN  /\ Len(PageIds(doc)) \in Nat /\ 1 <= Len(PageIds(doc))
             /\ DOMAIN PageIds(doc) = 1..Len(PageIds(doc))
             /\ \A n \in 1..Len(PageIds(doc)) : PageIds(doc)[n] \in PageObjects(doc)
<1>. DEFINE doc == Load(f)
            S   == PageObjects(doc)
<1>1. DOMAIN doc.objects \subseteq Nat
  BY DocFacts
<1>2. IsFiniteSet(DOMAIN doc.objects)
  BY LoadFacts, TableFacts
<1>3. \E id \in DOMAIN doc.objects : doc.objects[id].t = "page"
  BY DEF IsDocument
<1>4. PageIds(doc) = Ascending(S)
  BY DEF PageIds, PageObjects
<1>5. S \subseteq DOMAIN doc.objects /\ S # {}
  BY <1>3 DEF PageObjects
<1>. HIDE DEF doc, S
<1>6. IsFiniteSet(S) /\ S \subseteq Nat
  BY <1>1, <1>2, <1>5, FS_Subset
<1>7. Cardinality(S) \in Nat /\ Cardinality(S) # 0
  BY <1>5, <1>6, FS_CardinalityType, FS_EmptySet
<1>8. \A i \in 1..Cardinality(S) : Nth(S, i) \in S
  BY <1>6, NthFacts
<1>9. /\ Ascending(S) \in Seq(S) /\ Len(Ascending(S)) = Cardinality(S)
      /\ DOMAIN Ascending(S) = 1..Cardinality(S)
      /\ \A i \in 1..Cardinality(S) : Ascending(S)[i] \in S
  BY <1>7, <1>8 DEF Ascending
<1>10. QED
  BY <1>4, <1>7, <1>9 DEF doc, S

\* New content on a page.
LEMMA EditPageFine ==
  ASSUME NEW f, IsSeq(f), Readable(f), IsDocument(Load(f))
  PROVE  LET doc == Load(f)
             p   == PageIds(doc)[1]
         IN  IsFine(f, Queue(p, [doc.objects[p] EXCEPT !.body = @ + 1]), {}, doc.maxId + 1)
<1>. DEFINE doc == Load(f)
            p   == PageIds(doc)[1]
            old == doc.objects[p]
            val == [old EXCEPT !.body = @ + 1]
<1>1. p \in DOMAIN doc.objects /\ old.t = "page"
  BY PagesAre DEF PageObjects
<1>2. IsSound(doc, old) /\ doc.maxId \in Nat
        /\ \/ IsValue(old) \/ old = XrefObj \/ old.t = "sig"
  BY <1>1, DocFacts
<1>. HIDE DEF doc, p, old
<1>3. old \in Pages
  BY <1>1, <1>2, KindByName DEF XrefObj
<1>4. val \in Pages /\ val.annots = old.annots /\ val.t = "page"
  BY <1>3 DEF Pages
<1>5. ArrayIn(doc, old.annots)
  BY <1>1, <1>2 DEF IsSound
<1>. HIDE DEF val
<1>6. IsValue(val) /\ \A other : Grown(doc, other, {}) => IsSound(other, val)
  BY <1>4, <1>5, ArrayStill DEF IsValue, IsSound, Grown
<1>7. IsRewrite(doc, Queue(p, val), {})
  BY <1>1, <1>4, <1>6, QueueRewrite DEF Containers, old
<1>8. IsNew(doc, << >>, {}, 0) /\ DOMAIN << >> = {}
  BY EmptyTable DEF IsNew
<1>9. doc.maxId + 1 = doc.maxId + 0 + 1
  BY <1>2
<1>10. IsFine(f, << >> ++ Queue(p, val), {}, doc.maxId + 1)
  <2>1. DOMAIN << >> \cup DOMAIN Queue(p, val) # {} /\ {} \subseteq DOMAIN << >> /\ 0 \in Nat
    BY QueueIs
  <2>2. QED
    BY <1>7, <1>8, <1>9, <2>1, NewAndRewritten DEF doc
<1>11. IsFine(f, Queue(p, val), {}, doc.maxId + 1)
  BY <1>10, MergeNothing
<1>12. QED
  BY <1>11 DEF doc, p, val, old

\* A new object nothing refers to.
LEMMA EditObjectFine ==
  ASSUME NEW f, IsSeq(f), Readable(f), IsDocument(Load(f))
  PROVE  LET doc == Load(f)
         IN  IsFine(f, Queue(FreshId(doc, 1), ApObj), {}, FreshId(doc, 2))
<1>. DEFINE doc == Load(f)
            a   == Queue(FreshId(doc, 1), ApObj)
<1>1. doc.maxId \in Nat
  BY DocFacts
<1>2. DOMAIN a = {FreshId(doc, 1)} /\ a[FreshId(doc, 1)] = ApObj
  BY QueueIs
<1>3. IsValue(ApObj) /\ \A new : IsSound(new, ApObj)
  BY DEF IsValue, IsSound, ApObj
<1>4. FreshId(doc, 1) \in NextIds(doc, 1) /\ FreshId(doc, 2) = doc.maxId + 1 + 1
  BY <1>1 DEF FreshId, NextIds
<1>. HIDE DEF doc
<1>5. a ++ << >> = a
  BY MergeNothing
<1>. HIDE DEF a
<1>6. IsNew(doc, a, {}, 1)
  BY <1>2, <1>3, <1>4 DEF IsNew
<1>7. IsRewrite(doc, << >>, {})
  BY NoRewrite
<1>8. IsFine(f, a ++ << >>, {}, FreshId(doc, 2))
  BY <1>2, <1>4, <1>6, <1>7, NewAndRewritten DEF doc
<1>9. QED
  BY <1>5, <1>8 DEF a, doc

-----------------------------------------------------------------------------
(* A document that goes on from another one.                               *)

LEMMA FollowsItself ==
  ASSUME NEW f, IsSeq(f)
  PROVE  Follows(f, f)
<1>1. Len(f) \in Nat
  BY SeqFacts
<1>2. QED
  BY <1>1, KeepsItself DEF Follows, StartOf, OldPlaces

LEMMA FollowsTransitive ==
  ASSUME NEW f, NEW g, NEW h, IsSeq(f), IsSeq(g), IsSeq(h), Readable(h),
         Follows(f, g), Follows(g, h)
  PROVE  Follows(f, h)
<1>1. Len(f) \in Nat /\ Len(g) \in Nat /\ Len(h) \in Nat
  BY SeqFacts
<1>2. StartOf(f, h)
  BY <1>1 DEF Follows, StartOf
<1>3. Keeps(Load(f), Load(h))
  BY KeepsTransitive DEF Follows
<1>4. ASSUME NEW id \in Ids(h)
      PROVE  \/ Len(f) < PlaceIn(h, id)
             \/ id \in Ids(f) /\ PlaceIn(h, id) = PlaceIn(f, id)
  <2>1. CASE id \in Ids(g) /\ PlaceIn(h, id) = PlaceIn(g, id)
    BY <2>1 DEF Follows, OldPlaces
  <2>2. CASE Len(g) < PlaceIn(h, id)
    <3>1. Len(f) <= Len(g)
      BY DEF Follows, StartOf
    <3>2. PlaceIn(h, id) \in 1..Len(h)
      BY TableFacts
    <3>3. QED
      BY <1>1, <2>2, <3>1, <3>2
  <2>3. QED
    BY <2>1, <2>2 DEF Follows, OldPlaces
<1>5. QED
  BY <1>2, <1>3, <1>4 DEF Follows, OldPlaces

\* A signature keeps its place and, if it does, verifying, whatever is appended.
LEMMA SignedKept ==
  ASSUME NEW f, NEW g, IsSeq(f), IsSeq(g), Readable(f), StartOf(f, g),
         NEW p \in 1..Len(f), SignedAt(f, p)
  PROVE  SignedAt(g, p)
<1>. DEFINE sig == ObjectAt(f, p)
<1>1. sig.br \in [1..4 -> Int] /\ GapStart(sig) = p /\ (SignedBefore => Valid(f, sig))
  BY DEF SignedAt, PlacedAt
<1>2. ObjectAt(g, p) = sig
  BY ObjectKept
<1>3. IsPrefix(f, g)
  BY PrefixFacts DEF StartOf
<1>. HIDE DEF sig
<1>4. SignedBefore => Valid(g, sig)
  BY <1>1, <1>3, ValidSurvivesExtension
<1>5. QED
  BY <1>1, <1>2, <1>4 DEF SignedAt, PlacedAt

\* Which signatures an update adds.
LEMMA SignaturesOfUpdate ==
  ASSUME NEW f, NEW g, NEW body, NEW objs, NEW S, NEW size, NEW root,
         IsUpdate(f, g, body, objs, S, size, root), NEW p \in 1..Len(g), g[p].k = "sig"
  PROVE  \/ p \in 1..Len(f) /\ f[p].k = "sig"
         \/ \E id \in S \cap DOMAIN objs : p = NewPlace(f, body, objs, id)
<1>1. IsRendered(f, g, body, size, root) /\ IsBody(body, objs, S)
  BY DEF IsUpdate
<1>2. IsSeq(f) /\ IsSeq(body)
  BY UpdateNumbers
<1>3. \/ p \in 1..Len(f) /\ g[p] = f[p]
      \/ g[p] = Nl
      \/ \E i \in 1..Len(body) : p = End(f) + i /\ g[p] = body[i]
      \/ p = End(f) + Len(body) + 1
      \/ p = Len(g)
  BY <1>1, <1>2, RenderedCases
<1>4. CASE p \in 1..Len(f) /\ g[p] = f[p]
  BY <1>4
<1>5. CASE g[p] = Nl
  BY <1>5 DEF Nl
<1>6. CASE \E i \in 1..Len(body) : p = End(f) + i /\ g[p] = body[i]
  <2>1. PICK i \in 1..Len(body) : p = End(f) + i /\ g[p] = body[i]
    BY <1>6
  <2>2. IsStart(body[i]) /\ ~Inert(body[i])
    BY <2>1 DEF IsStart, Inert
  <2>3. PICK id \in DOMAIN objs : ObjectOf(body, i, objs, S, id)
    BY <1>1, <2>2 DEF IsBody
  <2>4. body[i].id = id /\ id \in S
    BY <2>1, <2>3, ObjectOfFacts
  <2>5. PlaceOf(body, id) = i
    BY <1>1, <2>2, <2>4, BodyPlaces
  <2>6. p = NewPlace(f, body, objs, id)
    BY <2>1, <2>3, <2>5 DEF NewPlace
  <2>7. QED
    BY <2>3, <2>4, <2>6
<1>7. CASE p = End(f) + Len(body) + 1
  <2>1. g[p] = Section(f, body, size, root, XOff(f, body))
    BY <1>1, <1>7 DEF IsRendered
  <2>2. QED
    BY <2>1, SectionIsXref
<1>8. CASE p = Len(g)
  <2>1. g[p] = StartXref(XOff(f, body), TRUE)
    BY <1>1, <1>8 DEF IsRendered
  <2>2. QED
    BY <2>1 DEF StartXref
<1>9. QED
  BY <1>3, <1>4, <1>5, <1>6, <1>7, <1>8

\* An update goes on from what it updates.
LEMMA UpdateFollows ==
  ASSUME NEW f, NEW g, NEW body, NEW objs, NEW S, NEW size, NEW root,
         IsUpdate(f, g, body, objs, S, size, root), Keeps(Load(f), Load(g))
  PROVE  Follows(f, g)
<1>1. StartOf(f, g)
  BY UpdateNumbers
<1>2. ASSUME NEW id \in Ids(g)
      PROVE  \/ Len(f) < PlaceIn(g, id)
             \/ id \in Ids(f) /\ PlaceIn(g, id) = PlaceIn(f, id)
  <2>1. CASE id \in NewIds(f, objs, size)
    <3>1. PlaceIn(g, id) = NewPlace(f, body, objs, id)
      BY <2>1, UpdateTable
    <3>2. Len(f) < NewPlace(f, body, objs, id)
      BY <2>1, NewPlaces
    <3>3. QED
      BY <3>1, <3>2
  <2>2. CASE id \notin NewIds(f, objs, size)
    BY <2>2, UpdateTable
  <2>3. QED
    BY <2>1, <2>2
<1>3. QED
  BY <1>1, <1>2 DEF Follows, OldPlaces

\* An update without a new signature.
LEMMA PlainUpdateGood ==
  ASSUME NEW f, NEW objs, NEW size, Good(f), IsFine(f, objs, {}, size)
  PROVE  LET g == Render(f, PlainBody(objs), size, Load(f).root)
         IN  /\ Good(g) /\ Follows(f, g)
             /\ \A p \in 1..Len(g) : g[p].k = "sig" => p <= Len(f)
             /\ Len(f) < Top(g)
<1>. DEFINE body == PlainBody(objs)
            g    == Render(f, body, size, Load(f).root)
<1>1. IsSeq(f) /\ Readable(f) /\ SignedWell(f) /\ IsDocument(Load(f))
  BY DEF Good
<1>2. IsBody(body, objs, {})
  BY PlainBodyIsBody DEF IsFine
<1>. HIDE DEF body
<1>3. /\ IsUpdate(f, g, body, objs, {}, size, Load(f).root)
      /\ IsSeq(g) /\ Readable(g) /\ IsDocument(Load(g)) /\ StartOf(f, g)
      /\ Keeps(Load(f), Load(g))
  BY <1>1, <1>2, FineUpdate
<1>. HIDE DEF g
<1>4. Follows(f, g)
  BY <1>3, UpdateFollows
<1>5. \A p \in 1..Len(g) : g[p].k = "sig" => p \in 1..Len(f) /\ f[p].k = "sig"
  BY <1>3, SignaturesOfUpdate
<1>6. SignedWell(g)
  <2>1. DOMAIN g = 1..Len(g) /\ DOMAIN f = 1..Len(f)
    BY <1>1, <1>3, SeqFacts
  <2>2. ASSUME NEW p \in 1..Len(g), g[p].k = "sig" PROVE SignedAt(g, p)
    <3>1. p \in 1..Len(f) /\ SignedAt(f, p)
      BY <1>1, <1>5, <2>1, <2>2 DEF SignedWell
    <3>2. QED
      BY <1>1, <1>3, <3>1, SignedKept
  <2>3. QED
    BY <2>1, <2>2 DEF SignedWell
<1>7. Len(f) \in Nat /\ \A p \in 1..Len(g) : g[p].k = "sig" => p <= Len(f)
  BY <1>1, <1>5, SeqFacts
<1>8. Len(f) < Top(g)
  BY <1>3, NewTop
<1>9. QED
  BY <1>3, <1>4, <1>6, <1>7, <1>8 DEF Good, g, body

-----------------------------------------------------------------------------
(* An update with a new signature, not yet filled in.                      *)

LEMMA SignedUpdatePending ==
  ASSUME NEW f, NEW objs, NEW s, NEW size, NEW cap \in Nat, Good(f), IsFine(f, objs, {s}, size),
         s \in DOMAIN objs, objs[s].cap = cap
  PROVE  LET body == SignedBody(objs, s)
             g    == Render(f, body, size, Load(f).root)
             h    == SigPosition(f, body)
         IN  Pending(f, g, h, cap) /\ g[h].id = s /\ g[h].sub = objs[s].sub
<1>. DEFINE body == SignedBody(objs, s)
            g    == Render(f, body, size, Load(f).root)
            h    == SigPosition(f, body)
            n    == PlaceOf(body, s)
<1>1. IsSeq(f) /\ Readable(f) /\ IsDocument(Load(f)) /\ Len(f) \in Nat
  BY SeqFacts DEF Good
<1>2. IsBody(body, objs, {s})
  BY SignedBodyIsBody DEF IsFine
<1>. HIDE DEF body
<1>3. /\ IsUpdate(f, g, body, objs, {s}, size, Load(f).root)
      /\ IsSeq(g) /\ Readable(g) /\ IsDocument(Load(g)) /\ StartOf(f, g)
      /\ Keeps(Load(f), Load(g))
  BY <1>1, <1>2, FineUpdate
<1>. HIDE DEF g
<1>4. Follows(f, g)
  BY <1>3, UpdateFollows
<1>5. n \in 1..Len(body) /\ FreshAt(body, n, objs, s)
  <2>1. n \in 1..Len(body) /\ ObjectOf(body, n, objs, {s}, s)
    BY <1>2, BodyPlaces
  <2>2. QED
    BY <2>1 DEF ObjectOf
<1>6. \A i \in 1..Len(body) : body[i].k = "sig" => i = n
  <2>1. ASSUME NEW i \in 1..Len(body), body[i].k = "sig" PROVE i = n
    <3>1. IsStart(body[i]) /\ ~Inert(body[i])
      BY <2>1 DEF IsStart, Inert
    <3>2. PICK id \in DOMAIN objs : ObjectOf(body, i, objs, {s}, id)
      BY <1>2, <3>1 DEF IsBody
    <3>3. id = s /\ body[i].id = s
      BY <2>1, <3>2, ObjectOfFacts
    <3>4. QED
      BY <1>2, <3>1, <3>3, BodyPlaces
  <2>2. QED
    BY <2>1
<1>. HIDE DEF n
<1>7. body[n] = SigHead(s, objs[s].sub, ByteRangePlaceholder)
  BY <1>5 DEF FreshAt
<1>8. h = End(f) + n
  <2>1. DOMAIN body = 1..Len(body) /\ body[n].k = "sig"
    BY <1>2, <1>7, SeqFacts DEF IsBody, SigHead
  <2>2. (CHOOSE i \in DOMAIN body : body[i].k = "sig") = n
    BY <1>5, <1>6, <2>1
  <2>3. QED
    BY <2>2 DEF SigPosition, End
<1>. HIDE DEF h
<1>9. /\ End(f) \in Nat /\ Len(body) \in Nat /\ Len(f) <= End(f)
      /\ Len(g) = End(f) + Len(body) + 2
  BY <1>3, UpdateNumbers
<1>10. h \in 1..Len(g) /\ Len(f) < h
  BY <1>1, <1>5, <1>8, <1>9
<1>11. \A i \in 1..Len(body) : g[End(f) + i] = body[i]
  BY <1>3 DEF IsUpdate, IsRendered
<1>12. g[h] = SigHead(s, objs[s].sub, ByteRangePlaceholder) /\ g[h].k = "sig" /\ g[h].id = s
         /\ g[h].sub = objs[s].sub
  BY <1>5, <1>7, <1>8, <1>11 DEF SigHead
<1>13. WholeAt(g, h, cap)
  BY <1>3, <1>5, <1>8, FreshIsWhole
<1>14. ASSUME NEW i \in Hole(h, cap) PROVE g[i] = Zero
  <2>1. /\ n + cap + 3 <= Len(body)
        /\ \A j \in (n + 2)..(n + 1 + cap) : body[j] = Zero
    BY <1>5 DEF FreshAt
  <2>2. PICK j \in (n + 2)..(n + 1 + cap) : i = End(f) + j
    <3>1. i \in ((End(f) + n) + 2)..((End(f) + n) + 1 + cap)
      BY <1>8 DEF Hole
    <3>2. n \in Nat
      BY <1>5
    <3>3. End(f) \in Nat /\ cap \in Nat
      BY <1>9
    <3>4. PICK e \in Nat : e = End(f)
      BY <3>3
    <3>5. i \in ((e + n) + 2)..((e + n) + 1 + cap)
      BY <3>1, <3>4
    <3>6. \E j \in (n + 2)..(n + 1 + cap) : i = e + j
      BY <3>2, <3>5, Shifted
    <3>7. QED
      BY <3>4, <3>6
  <2>3. j \in 1..Len(body)
    BY <1>5, <1>9, <2>1, <2>2
  <2>4. QED
    BY <1>11, <2>1, <2>2, <2>3
<1>15. ASSUME NEW p \in 1..Len(g), g[p].k = "sig" PROVE p <= Len(f) \/ p = h
  <2>1. \/ p \in 1..Len(f)
        \/ \E id \in {s} \cap DOMAIN objs : p = NewPlace(f, body, objs, id)
    BY <1>3, <1>15, SignaturesOfUpdate
  <2>2. NewPlace(f, body, objs, s) = h
    BY <1>8 DEF NewPlace, n
  <2>3. QED
    BY <1>1, <2>1, <2>2
<1>16. s \in Ids(g) /\ s \notin Ids(f) /\ PlaceIn(g, s) = h
  <2>1. s \in NewIds(f, objs, size)
    BY DEF NewIds
  <2>2. s \in Ids(g) /\ PlaceIn(g, s) = NewPlace(f, body, objs, s)
    BY <1>3, <2>1, UpdateTable
  <2>3. NewPlace(f, body, objs, s) = h
    BY <1>8 DEF NewPlace, n
  <2>4. s \notin Ids(f)
    BY LoadFacts DEF IsFine
  <2>5. QED
    BY <2>2, <2>3, <2>4
<1>17. Pending(f, g, h, cap)
  BY <1>3, <1>4, <1>10, <1>12, <1>13, <1>14, <1>15, <1>16 DEF Pending
<1>18. QED
  BY <1>12, <1>17 DEF g, h, body

-----------------------------------------------------------------------------
(* What filling in a signature in place leaves as it is.                   *)

Filler(cell) == cell.k \in {"zero", "der", "cont"}

\* c is b with the signature at h written in place: its range, and what its hole holds.
InPlace(b, c, h, cap) ==
  /\ IsSeq(c) /\ Len(c) = Len(b)
  /\ \A p \in 1..Len(b) : p # h /\ p \notin Hole(h, cap) => c[p] = b[p]
  /\ c[h] = SigHead(b[h].id, b[h].sub, c[h].br)
  /\ \A p \in Hole(h, cap) : Filler(c[p])

\* Cells that are something else than before are so in the same way.
Aligned(b, c, h) ==
  /\ IsSeq(b) /\ IsSeq(c) /\ Len(c) = Len(b)
  /\ \A p \in 1..Len(b) :
       \/ c[p] = b[p]
       \/ p = h /\ b[p].k = "sig" /\ c[p].k = "sig" /\ c[p].id = b[p].id
       \/ Filler(b[p]) /\ Filler(c[p])

LEMMA InPlaceAligned ==
  ASSUME NEW f, NEW b, NEW c, NEW h, NEW cap, Pending(f, b, h, cap), InPlace(b, c, h, cap)
  PROVE  Aligned(b, c, h)
<1>1. IsSeq(b) /\ b[h].k = "sig" /\ \A i \in Hole(h, cap) : b[i] = Zero
  BY DEF Pending
<1>2. IsSeq(c) /\ Len(c) = Len(b) /\ c[h] = SigHead(b[h].id, b[h].sub, c[h].br)
  BY DEF InPlace
<1>3. c[h].k = "sig" /\ c[h].id = b[h].id
  BY <1>2 DEF SigHead
<1>4. ASSUME NEW p \in 1..Len(b)
      PROVE  \/ c[p] = b[p]
             \/ p = h /\ b[p].k = "sig" /\ c[p].k = "sig" /\ c[p].id = b[p].id
             \/ Filler(b[p]) /\ Filler(c[p])
  <2>1. CASE p = h
    BY <1>1, <1>3, <2>1
  <2>2. CASE p \in Hole(h, cap)
    <3>1. Filler(b[p])
      BY <1>1, <2>2 DEF Filler, Zero
    <3>2. Filler(c[p])
      BY <2>2 DEF InPlace
    <3>3. QED
      BY <3>1, <3>2
  <2>3. CASE p # h /\ p \notin Hole(h, cap)
    BY <2>3 DEF InPlace
  <2>4. QED
    BY <2>1, <2>2, <2>3
<1>5. QED
  BY <1>1, <1>2, <1>4 DEF Aligned

LEMMA AlignedKinds ==
  ASSUME NEW b, NEW c, NEW h, Aligned(b, c, h), NEW p \in 1..Len(b)
  PROVE  /\ \A k \in {"hdr", "xref", "startxref", "obj", "gt", "lt"} :
              /\ c[p].k = k <=> b[p].k = k
              /\ b[p].k = k => c[p] = b[p]
         /\ c[p].k = "sig" <=> b[p].k = "sig"
         /\ b[p].k = "sig" /\ p # h => c[p] = b[p]
         /\ b[p].k = "sig" => c[p].id = b[p].id
<1>1. CASE c[p] = b[p]
  BY <1>1
<1>2. CASE p = h /\ b[p].k = "sig" /\ c[p].k = "sig" /\ c[p].id = b[p].id
  BY <1>2
<1>3. CASE Filler(b[p]) /\ Filler(c[p])
  BY <1>3 DEF Filler
<1>4. QED
  BY <1>1, <1>2, <1>3 DEF Aligned

LEMMA AlignedHeader ==
  ASSUME NEW b, NEW c, NEW h, Aligned(b, c, h), Readable(b)
  PROVE  /\ HeaderOffset(c) = HeaderOffset(b) /\ LastStartXref(c) = LastStartXref(b)
         /\ Top(c) = Top(b) /\ Alike(b, c) /\ StartXrefs(c) # {}
         /\ \E i \in DOMAIN c : c[i].k = "hdr"
<1>1. IsSeq(b) /\ IsSeq(c) /\ Len(c) = Len(b) /\ Len(b) \in Nat
  BY SeqFacts DEF Aligned
<1>2. DOMAIN b = 1..Len(b) /\ DOMAIN c = 1..Len(b)
  BY <1>1, SeqFacts
<1>3. \A p \in 1..Len(b) : /\ c[p].k = "hdr" <=> b[p].k = "hdr"
                           /\ c[p].k = "xref" <=> b[p].k = "xref"
                           /\ c[p].k = "startxref" <=> b[p].k = "startxref"
                           /\ b[p].k = "xref" => c[p] = b[p]
                           /\ b[p].k = "startxref" => c[p] = b[p]
  BY AlignedKinds
<1>4. {i \in DOMAIN c : c[i].k = "hdr"} = {i \in DOMAIN b : b[i].k = "hdr"}
  BY <1>2, <1>3
<1>5. HeaderOffset(c) = HeaderOffset(b)
  BY <1>2, <1>3, <1>4 DEF HeaderOffset
<1>6. StartXrefs(c) = StartXrefs(b) /\ StartXrefs(b) # {} /\ StartXrefs(b) \subseteq 1..Len(b)
  BY <1>2, <1>3 DEF StartXrefs, Readable, Loadable
<1>7. Max(StartXrefs(b)) \in StartXrefs(b)
  <2>1. StartXrefs(b) \subseteq 0..Len(b)
    BY <1>1, <1>6
  <2>2. QED
    BY <1>1, <1>6, <2>1, GreatestOf
<1>8. c[Max(StartXrefs(b))] = b[Max(StartXrefs(b))]
  BY <1>2, <1>3, <1>7 DEF StartXrefs
<1>9. LastStartXref(c) = LastStartXref(b)
  BY <1>6, <1>8 DEF LastStartXref
<1>10. \E i \in DOMAIN c : c[i].k = "hdr"
  BY <1>2, <1>3 DEF Readable
<1>11. Alike(b, c)
  BY <1>1, <1>3, <1>5 DEF Alike
<1>12. QED
  BY <1>5, <1>6, <1>9, <1>10, <1>11 DEF Top

LEMMA AlignedSection ==
  ASSUME NEW b, NEW c, NEW h, Aligned(b, c, h), Readable(b), NEW p \in 1..Len(b), b[p].k = "xref"
  PROVE  IsSection(c, p)
<1>1. IsSeq(b) /\ Len(b) \in Nat /\ DOMAIN b = 1..Len(b)
  BY SeqFacts DEF Aligned
<1>2. IsSection(b, p)
  BY <1>1 DEF Readable
<1>3. c[p] = b[p] /\ HeaderOffset(c) = HeaderOffset(b)
  BY AlignedKinds, AlignedHeader
<1>4. \A q \in 1..Len(b) : /\ c[q].k = "xref" <=> b[q].k = "xref"
                           /\ c[q].k \in {"obj", "sig"} <=> b[q].k \in {"obj", "sig"}
                           /\ b[q].k \in {"obj", "sig"} => c[q].id = b[q].id
  BY AlignedKinds
<1>5. 1..p \subseteq 1..Len(b) /\ 1..(p - 1) \subseteq 1..Len(b)
  BY <1>1
<1>. DEFINE x    == b[p]
            base == HeaderOffset(b)
<1>6. \A id \in DOMAIN x.entries :
        LET q == x.entries[id] + base + 1
        IN  /\ q \in 1..p
            /\ \/ c[q].k = "xref"
               \/ c[q].k \in {"obj", "sig"} /\ c[q].id = id
  <2>1. ASSUME NEW id \in DOMAIN x.entries
        PROVE  LET q == x.entries[id] + base + 1
               IN  /\ q \in 1..p
                   /\ \/ c[q].k = "xref"
                      \/ c[q].k \in {"obj", "sig"} /\ c[q].id = id
    <3>1. PICK q : q = x.entries[id] + base + 1
      OBVIOUS
    <3>2. /\ q \in 1..p
          /\ b[q].k = "xref" \/ (b[q].k \in {"obj", "sig"} /\ b[q].id = id)
      BY <1>2, <3>1 DEF IsSection
    <3>3. q \in 1..Len(b)
      BY <1>5, <3>2
    <3>4. QED
      BY <1>4, <3>1, <3>2, <3>3
  <2>2. QED
    BY <2>1
<1>7. x.prev # 0 => /\ x.prev + base + 1 \in 1..(p - 1)
                    /\ c[x.prev + base + 1].k = "xref"
  BY <1>2, <1>4, <1>5 DEF IsSection
<1>8. /\ x.size \in Nat /\ x.prev \in Nat /\ x.root \in Nat
      /\ DOMAIN x.entries # {} /\ DOMAIN x.entries \subseteq 0..(x.size - 1)
      /\ x.entries \in [DOMAIN x.entries -> Int]
  BY <1>2 DEF IsSection
<1>. HIDE DEF x, base
<1>9. QED
  BY <1>3, <1>6, <1>7, <1>8, Zenon DEF IsSection, x, base

\* The signature that is written stays whole.
LEMMA WrittenWhole ==
  ASSUME NEW f, NEW b, NEW c, NEW h, NEW cap \in Nat, Pending(f, b, h, cap),
         InPlace(b, c, h, cap)
  PROVE  WholeAt(c, h, cap) /\ StartOf(f, c)
<1>1. /\ h \in 1..Len(b) /\ Len(f) < h /\ WholeAt(b, h, cap) /\ StartOf(f, b)
      /\ IsSeq(f) /\ IsSeq(b)
  BY DEF Pending, Follows, Good
<1>2. Len(b) \in Nat /\ Len(f) \in Nat /\ Len(c) = Len(b)
  BY <1>1, SeqFacts DEF InPlace
<1>3. /\ h + cap + 2 < Len(b) /\ b[h + 1] = Lt /\ b[h + 2 + cap] = Gt
  BY <1>1 DEF WholeAt
<1>4. \A p \in 1..Len(b) : p # h /\ p \notin Hole(h, cap) => c[p] = b[p]
  BY DEF InPlace
<1>5. /\ h + 1 \in 1..Len(b) /\ h + 1 # h /\ h + 1 \notin Hole(h, cap)
      /\ h + 2 + cap \in 1..Len(b) /\ h + 2 + cap # h /\ h + 2 + cap \notin Hole(h, cap)
  BY <1>1, <1>2, <1>3 DEF Hole
<1>6. c[h + 1] = Lt /\ c[h + 2 + cap] = Gt
  BY <1>3, <1>4, <1>5
<1>7. c[h] = SigHead(c[h].id, c[h].sub, c[h].br)
  <2>1. c[h] = SigHead(b[h].id, b[h].sub, c[h].br)
    BY DEF InPlace
  <2>2. c[h].id = b[h].id /\ c[h].sub = b[h].sub
    BY <2>1 DEF SigHead
  <2>3. QED
    BY <2>1, <2>2
<1>8. ASSUME NEW i \in (h + 1)..(h + 1 + cap) PROVE c[i].k # "gt"
  <2>1. i = h + 1 \/ i \in Hole(h, cap)
    BY <1>1, <1>2 DEF Hole
  <2>2. CASE i = h + 1
    BY <1>6, <2>2 DEF Lt
  <2>3. CASE i \in Hole(h, cap)
    BY <2>3 DEF InPlace, Filler
  <2>4. QED
    BY <2>1, <2>2, <2>3
<1>9. WholeAt(c, h, cap)
  BY <1>2, <1>3, <1>6, <1>7, <1>8 DEF WholeAt
<1>10. \A i \in 1..Len(f) : i \in 1..Len(b) /\ i # h /\ i \notin Hole(h, cap)
  BY <1>1, <1>2 DEF Hole
<1>11. StartOf(f, c)
  BY <1>1, <1>2, <1>4, <1>10 DEF StartOf
<1>12. QED
  BY <1>9, <1>11

LEMMA WrittenReadable ==
  ASSUME NEW f, NEW b, NEW c, NEW h, NEW cap \in Nat, Pending(f, b, h, cap),
         InPlace(b, c, h, cap)
  PROVE  Readable(c)
<1>1. /\ IsSeq(f) /\ Readable(f) /\ IsSeq(b) /\ Readable(b) /\ IsSeq(c) /\ Len(c) = Len(b)
      /\ \A p \in 1..Len(b) : b[p].k = "sig" => p <= Len(f) \/ p = h
      /\ Len(f) \in Nat /\ Len(b) \in Nat /\ h \in 1..Len(b)
  BY SeqFacts DEF Pending, Good, InPlace
<1>2. Aligned(b, c, h)
  BY InPlaceAligned
<1>3. WholeAt(c, h, cap) /\ StartOf(f, c)
  BY WrittenWhole
<1>4. DOMAIN b = 1..Len(b) /\ DOMAIN c = 1..Len(b)
  BY <1>1, SeqFacts
<1>5. ASSUME NEW p \in 1..Len(c) PROVE CellReadable(c, p)
  <2>1. CASE b[p].k = "xref"
    <3>1. c[p].k = "xref"
      BY <1>1, <1>2, <2>1, AlignedKinds
    <3>2. IsSection(c, p)
      BY <1>1, <1>2, <2>1, AlignedSection
    <3>3. QED
      BY <3>1, <3>2 DEF CellReadable
  <2>2. CASE b[p].k \in {"startxref", "obj"}
    <3>1. c[p] = b[p]
      BY <1>1, <1>2, <2>2, AlignedKinds
    <3>2. /\ b[p].k = "startxref" => b[p].at \in Nat
          /\ b[p].k = "obj" => b[p].id \in Nat /\ IsValue(b[p].val)
      BY <1>1, <1>4 DEF Readable
    <3>3. QED
      BY <2>2, <3>1, <3>2 DEF CellReadable
  <2>3. CASE b[p].k = "sig"
    <3>1. c[p].k = "sig" /\ c[p].id = b[p].id /\ b[p].id \in Nat
      BY <1>1, <1>2, <1>4, <2>3, AlignedKinds DEF Readable
    <3>2. IsWhole(c, p)
      <4>1. CASE p = h
        BY <1>1, <1>3, <4>1, WholeIsWhole
      <4>2. CASE p # h
        <5>1. p \in 1..Len(f)
          BY <1>1, <2>3, <4>2
        <5>2. CellReadable(c, p)
          BY <1>1, <1>3, <5>1, CellKept
        <5>3. QED
          BY <3>1, <5>2 DEF CellReadable
      <4>3. QED
        BY <4>1, <4>2
    <3>3. QED
      BY <3>1, <3>2 DEF CellReadable
  <2>4. CASE b[p].k \notin {"xref", "startxref", "obj", "sig"}
    <3>1. c[p].k \notin {"xref", "startxref", "obj", "sig"}
      BY <1>1, <1>2, <2>4, AlignedKinds
    <3>2. QED
      BY <3>1 DEF CellReadable
  <2>5. QED
    BY <2>1, <2>2, <2>3, <2>4
<1>6. /\ HeaderOffset(c) = HeaderOffset(b) /\ LastStartXref(c) = LastStartXref(b)
      /\ StartXrefs(c) # {} /\ \E i \in DOMAIN c : c[i].k = "hdr"
  BY <1>1, <1>2, AlignedHeader
<1>7. Top(b) \in 1..Len(b) /\ b[Top(b)].k = "xref"
  BY <1>1, TopFacts
<1>8. c[Top(b)].k = "xref"
  BY <1>2, <1>7, AlignedKinds
<1>9. Loadable(c)
  BY <1>4, <1>6, <1>7, <1>8 DEF Loadable, Top
<1>10. QED
  BY <1>1, <1>4, <1>5, <1>6, <1>9 DEF Readable, CellReadable

-----------------------------------------------------------------------------
(* A document in which a signature is filled in.                           *)

\* Two documents that differ in signatures at most.
AlikeDocs(old, new) ==
  /\ DOMAIN new.objects = DOMAIN old.objects /\ new.root = old.root
  /\ \A id \in DOMAIN old.objects :
       \/ new.objects[id] = old.objects[id]
       \/ old.objects[id].t = "sig" /\ new.objects[id].t = "sig"

LEMMA AlikeDocument ==
  ASSUME NEW old, NEW new, AlikeDocs(old, new), IsDocument(old)
  PROVE  IsDocument(new)
<1>1. Refines(new, old)
  BY DEF AlikeDocs, Refines, Kinds, Catalogs, Pages, Forms, Dsses, Arrays
<1>2. ASSUME NEW id \in DOMAIN new.objects PROVE IsSound(new, new.objects[id])
  <2>1. id \in DOMAIN old.objects /\ IsSound(old, old.objects[id])
    BY <1>2 DEF AlikeDocs, IsDocument
  <2>2. CASE new.objects[id] = old.objects[id]
    BY <1>1, <2>1, <2>2, SoundStill
  <2>3. CASE new.objects[id].t = "sig"
    BY <2>3 DEF IsSound
  <2>4. QED
    BY <2>1, <2>2, <2>3 DEF AlikeDocs
<1>3. new.root \in DOMAIN new.objects /\ Catalog(new) \in Catalogs
  <2>1. old.root \in DOMAIN old.objects /\ old.objects[old.root] \in Catalogs
    BY DEF IsDocument, Catalog
  <2>2. old.objects[old.root] \in Catalogs => new.objects[old.root] \in Catalogs
    BY <1>1, <2>1 DEF Refines, Kinds
  <2>3. QED
    BY <2>1, <2>2 DEF AlikeDocs, Catalog
<1>4. \E id \in DOMAIN new.objects : new.objects[id].t = "page"
  <2>1. PICK id \in DOMAIN old.objects : old.objects[id].t = "page"
    BY DEF IsDocument
  <2>2. QED
    BY <2>1 DEF AlikeDocs
<1>5. QED
  BY <1>2, <1>3, <1>4 DEF IsDocument

LEMMA WrittenTable ==
  ASSUME NEW f, NEW b, NEW c, NEW h, NEW cap \in Nat, Pending(f, b, h, cap),
         InPlace(b, c, h, cap)
  PROVE  /\ Ids(c) = Ids(b) /\ \A id \in Ids(b) : PlaceIn(c, id) = PlaceIn(b, id)
         /\ Load(c).root = Load(b).root
<1>1. IsSeq(b) /\ Readable(b) /\ IsSeq(c) /\ Readable(c) /\ Aligned(b, c, h)
  BY WrittenReadable, InPlaceAligned DEF Pending, InPlace
<1>2. HeaderOffset(c) = HeaderOffset(b) /\ Top(c) = Top(b) /\ Alike(b, c)
  BY <1>1, AlignedHeader
<1>3. Top(b) \in 1..Len(b) /\ b[Top(b)].k = "xref"
  BY <1>1, TopFacts
<1>4. Table(c) = Table(b)
  BY <1>1, <1>2, <1>3, EntriesAlike DEF Table
<1>5. c[Top(b)] = b[Top(b)]
  BY <1>1, <1>3, AlignedKinds
<1>6. Load(c).root = Load(b).root
  BY <1>2, <1>5, LoadFacts
<1>7. QED
  BY <1>2, <1>4, <1>6 DEF Ids, PlaceIn

\* Only the signature itself reads back differently.
LEMMA WrittenObjects ==
  ASSUME NEW f, NEW b, NEW c, NEW h, NEW cap \in Nat, Pending(f, b, h, cap),
         InPlace(b, c, h, cap)
  PROVE  /\ AlikeDocs(Load(b), Load(c))
         /\ \A id \in Ids(b) : id # b[h].id => Load(c).objects[id] = Load(b).objects[id]
<1>1. /\ IsSeq(f) /\ Readable(f) /\ StartOf(f, b) /\ IsSeq(b) /\ Readable(b) /\ Aligned(b, c, h)
      /\ IsSeq(c) /\ Readable(c) /\ StartOf(f, c) /\ Len(c) = Len(b)
      /\ \A p \in 1..Len(b) : b[p].k = "sig" => p <= Len(f) \/ p = h
      /\ Len(f) \in Nat /\ Len(b) \in Nat
  BY WrittenReadable, WrittenWhole, InPlaceAligned, SeqFacts DEF Pending, Good, Follows, InPlace
<1>2. /\ Ids(c) = Ids(b) /\ \A id \in Ids(b) : PlaceIn(c, id) = PlaceIn(b, id)
      /\ Load(c).root = Load(b).root
  BY WrittenTable
<1>3. /\ DOMAIN Load(b).objects = Ids(b) /\ DOMAIN Load(c).objects = Ids(b)
      /\ \A id \in Ids(b) : /\ Load(b).objects[id] = ObjectAt(b, PlaceIn(b, id))
                            /\ Load(c).objects[id] = ObjectAt(c, PlaceIn(b, id))
  BY <1>2, LoadFacts
<1>4. ASSUME NEW id \in Ids(b)
      PROVE  /\ \/ Load(c).objects[id] = Load(b).objects[id]
                \/ Load(b).objects[id].t = "sig" /\ Load(c).objects[id].t = "sig"
             /\ id # b[h].id => Load(c).objects[id] = Load(b).objects[id]
  <2>1. PICK p : p = PlaceIn(b, id)
    OBVIOUS
  <2>2. p \in 1..Len(b) /\ IsPlace(b, p, id)
    BY <1>1, <2>1, TableFacts
  <2>3. CASE b[p].k = "xref"
    <3>1. c[p].k = "xref"
      BY <1>1, <2>2, <2>3, AlignedKinds
    <3>2. ObjectAt(b, p) = XrefObj /\ ObjectAt(c, p) = XrefObj
      BY <2>3, <3>1, XrefObject
    <3>3. QED
      BY <1>3, <2>1, <3>2
  <2>4. CASE b[p].k = "obj"
    <3>1. c[p] = b[p]
      BY <1>1, <2>2, <2>4, AlignedKinds
    <3>2. ObjectAt(c, p) = ObjectAt(b, p)
      BY <2>4, <3>1 DEF ObjectAt
    <3>3. QED
      BY <1>3, <2>1, <3>2
  <2>5. CASE b[p].k = "sig" /\ p = h
    <3>1. c[p].k = "sig" /\ b[p].id = id
      BY <1>1, <2>2, <2>5, AlignedKinds DEF IsPlace
    <3>2. ObjectAt(b, p).t = "sig" /\ ObjectAt(c, p).t = "sig"
      BY <1>1, <2>2, <2>5, <3>1, SigObject
    <3>3. QED
      BY <1>3, <2>1, <2>5, <3>1, <3>2
  <2>6. CASE b[p].k = "sig" /\ p # h
    <3>1. p \in 1..Len(f)
      BY <1>1, <2>2, <2>6
    <3>2. ObjectAt(b, p) = ObjectAt(f, p) /\ ObjectAt(c, p) = ObjectAt(f, p)
      BY <1>1, <3>1, ObjectKept
    <3>3. QED
      BY <1>3, <2>1, <3>2
  <2>7. QED
    BY <2>2, <2>3, <2>4, <2>5, <2>6 DEF IsPlace
<1>5. AlikeDocs(Load(b), Load(c))
  BY <1>2, <1>3, <1>4 DEF AlikeDocs
<1>6. QED
  BY <1>4, <1>5

LEMMA WrittenFollows ==
  ASSUME NEW f, NEW b, NEW c, NEW h, NEW cap \in Nat, Pending(f, b, h, cap),
         InPlace(b, c, h, cap)
  PROVE  Follows(f, c) /\ IsDocument(Load(c))
<1>1. Follows(f, b) /\ IsDocument(Load(b)) /\ b[h].id \notin Ids(f)
  BY DEF Pending
<1>2. StartOf(f, c)
  BY WrittenWhole
<1>3. Ids(c) = Ids(b) /\ \A id \in Ids(b) : PlaceIn(c, id) = PlaceIn(b, id)
  BY WrittenTable
<1>4. AlikeDocs(Load(b), Load(c))
      /\ \A id \in Ids(b) : id # b[h].id => Load(c).objects[id] = Load(b).objects[id]
  BY WrittenObjects
<1>5. DOMAIN Load(f).objects = Ids(f) /\ DOMAIN Load(b).objects = Ids(b)
        /\ DOMAIN Load(c).objects = Ids(b)
  BY <1>3, LoadFacts
<1>6. IsDocument(Load(c))
  BY <1>1, <1>4, AlikeDocument
<1>7. Keeps(Load(f), Load(b)) /\ OldPlaces(f, b)
  BY <1>1 DEF Follows
<1>8. \A id \in Ids(f) : id \in Ids(b) /\ Load(c).objects[id] = Load(b).objects[id]
  BY <1>1, <1>4, <1>5, <1>7 DEF Keeps
<1>9. Keeps(Load(f), Load(c))
  BY <1>5, <1>7, <1>8 DEF Keeps
<1>10. OldPlaces(f, c)
  BY <1>3, <1>7 DEF OldPlaces
<1>11. QED
  BY <1>2, <1>6, <1>9, <1>10 DEF Follows

LEMMA WrittenSignatures ==
  ASSUME NEW f, NEW b, NEW c, NEW h, NEW cap \in Nat, Pending(f, b, h, cap),
         InPlace(b, c, h, cap)
  PROVE  /\ \A p \in 1..Len(c) : c[p].k = "sig" => p <= Len(f) \/ p = h
         /\ c[h].k = "sig" /\ c[h].id = b[h].id /\ c[h].sub = b[h].sub
         /\ c[h].id \in Ids(c) \ Ids(f) /\ PlaceIn(c, c[h].id) = h
<1>1. /\ \A p \in 1..Len(b) : b[p].k = "sig" => p <= Len(f) \/ p = h
      /\ b[h].id \in Ids(b) \ Ids(f) /\ PlaceIn(b, b[h].id) = h
  BY DEF Pending
<1>2. Aligned(b, c, h) /\ Len(c) = Len(b)
  BY InPlaceAligned DEF InPlace
<1>3. c[h] = SigHead(b[h].id, b[h].sub, c[h].br)
  BY DEF InPlace
<1>4. c[h].k = "sig" /\ c[h].id = b[h].id /\ c[h].sub = b[h].sub
  BY <1>3 DEF SigHead
<1>5. Ids(c) = Ids(b) /\ \A id \in Ids(b) : PlaceIn(c, id) = PlaceIn(b, id)
  BY WrittenTable
<1>6. \A p \in 1..Len(c) : c[p].k = "sig" => b[p].k = "sig"
  BY <1>2, AlignedKinds
<1>7. QED
  BY <1>1, <1>2, <1>4, <1>5, <1>6

\* patch_byte_range
LEMMA PatchPending ==
  ASSUME NEW f, NEW b, NEW h, NEW cap \in Nat, Pending(f, b, h, cap), NEW r
  PROVE  LET c == [b EXCEPT ![h].br = r]
         IN  /\ Pending(f, c, h, cap) /\ c[h].id = b[h].id /\ c[h].sub = b[h].sub
             /\ AlikeDocs(Load(b), Load(c))
<1>. DEFINE c == [b EXCEPT ![h].br = r]
<1>1. /\ IsSeq(b) /\ h \in 1..Len(b) /\ WholeAt(b, h, cap) /\ Len(b) \in Nat
      /\ \A i \in Hole(h, cap) : b[i] = Zero
      /\ Good(f) /\ Len(f) < h
  BY SeqFacts DEF Pending
<1>2. b = [i \in 1..Len(b) |-> b[i]] /\ DOMAIN b = 1..Len(b)
  BY <1>1, SeqFacts
<1>3. b[h] = SigHead(b[h].id, b[h].sub, b[h].br)
  BY <1>1 DEF WholeAt
<1>4. c = [i \in 1..Len(b) |-> IF i = h THEN [b[h] EXCEPT !.br = r] ELSE b[i]]
  BY <1>1, <1>2
<1>5. [b[h] EXCEPT !.br = r] = SigHead(b[h].id, b[h].sub, r)
  BY <1>3 DEF SigHead
<1>. HIDE DEF c
<1>6. IsSeq(c) /\ Len(c) = Len(b)
  BY <1>1, <1>4, SeqPointwise
<1>7. c[h] = SigHead(b[h].id, b[h].sub, r) /\ \A p \in 1..Len(b) : p # h => c[p] = b[p]
  BY <1>1, <1>4, <1>5
<1>8. c[h] = SigHead(b[h].id, b[h].sub, c[h].br)
  BY <1>7 DEF SigHead
<1>9. \A p \in Hole(h, cap) : p \in 1..Len(b) /\ p # h
  <2>1. h + cap + 2 < Len(b)
    BY <1>1 DEF WholeAt
  <2>2. QED
    BY <1>1, <2>1 DEF Hole
<1>10. \A p \in Hole(h, cap) : c[p] = Zero
  BY <1>1, <1>7, <1>9
<1>11. InPlace(b, c, h, cap)
  BY <1>6, <1>7, <1>8, <1>10 DEF InPlace, Filler, Zero
<1>12. Readable(c)
  BY <1>11, WrittenReadable
<1>13. WholeAt(c, h, cap)
  BY <1>11, WrittenWhole
<1>14. Follows(f, c) /\ IsDocument(Load(c))
  BY <1>11, WrittenFollows
<1>15. /\ \A p \in 1..Len(c) : c[p].k = "sig" => p <= Len(f) \/ p = h
       /\ c[h].k = "sig" /\ c[h].id = b[h].id /\ c[h].sub = b[h].sub
       /\ c[h].id \in Ids(c) \ Ids(f) /\ PlaceIn(c, c[h].id) = h
  BY <1>11, WrittenSignatures
<1>16. Pending(f, c, h, cap)
  BY <1>1, <1>6, <1>10, <1>12, <1>13, <1>14, <1>15 DEF Pending
<1>17. AlikeDocs(Load(b), Load(c))
  BY <1>11, WrittenObjects
<1>18. QED
  BY <1>15, <1>16, <1>17 DEF c

-----------------------------------------------------------------------------
(* The newest signature of a document.                                     *)

\* g is f with one signature more, the one at h.
OneMore(f, g, h) ==
  /\ Follows(f, g) /\ Len(f) < h /\ Newest(g, h) /\ g[h].id \notin Ids(f)
  /\ \A p \in 1..Len(g) : g[p].k = "sig" => p <= Len(f) \/ p = h

LEMMA DerBytesFill ==
  ASSUME NEW d, d.size \in Nat, NEW i \in 1..d.size
  PROVE  Filler(DerBytes(d)[i])
BY DEF DerBytes, DerCell, Cont, Filler

LEMMA FilledInPlace ==
  ASSUME NEW f, NEW b, NEW h, NEW cap \in Nat, NEW d, Pending(f, b, h, cap),
         d.size \in Nat
  PROVE  InPlace(b, Filled(b, h, cap, d), h, cap)
<1>. DEFINE c == Filled(b, h, cap, d)
            cell(i) == IF i \in (LtPos(h) + 1)..(LtPos(h) + cap)
                       THEN IF i - LtPos(h) <= d.size THEN DerBytes(d)[i - LtPos(h)] ELSE Zero
                       ELSE b[i]
<1>1. /\ IsSeq(b) /\ h \in 1..Len(b) /\ WholeAt(b, h, cap) /\ Len(b) \in Nat
      /\ DOMAIN b = 1..Len(b)
  BY SeqFacts DEF Pending
<1>2. /\ b[h] = SigHead(b[h].id, b[h].sub, b[h].br) /\ h + cap + 2 < Len(b)
  BY <1>1 DEF WholeAt
<1>3. c = [i \in 1..Len(b) |-> cell(i)]
  BY <1>1 DEF Filled
<1>4. (LtPos(h) + 1)..(LtPos(h) + cap) = Hole(h, cap)
  BY <1>1 DEF LtPos, Hole
<1>5. ASSUME NEW i \in Hole(h, cap) PROVE i \in 1..Len(b) /\ i # h /\ Filler(cell(i))
  <2>1. i \in 1..Len(b) /\ i # h
    BY <1>1, <1>2, <1>5 DEF Hole
  <2>2. CASE i - LtPos(h) <= d.size
    <3>1. i - LtPos(h) \in 1..d.size
      BY <1>1, <1>5, <2>2 DEF Hole, LtPos
    <3>2. Filler(DerBytes(d)[i - LtPos(h)])
      BY <3>1, DerBytesFill
    <3>3. QED
      BY <1>4, <2>1, <2>2, <3>2
  <2>3. CASE ~(i - LtPos(h) <= d.size)
    BY <1>4, <2>1, <2>3 DEF Filler, Zero
  <2>4. QED
    BY <2>2, <2>3
<1>6. \A i \in 1..Len(b) : i \notin Hole(h, cap) => cell(i) = b[i]
  BY <1>4
<1>. HIDE DEF c, cell
<1>7. IsSeq(c) /\ Len(c) = Len(b) /\ \A i \in 1..Len(b) : c[i] = cell(i)
  BY <1>1, <1>3, SeqPointwise
<1>8. h \notin Hole(h, cap)
  BY <1>1 DEF Hole
<1>9. c[h] = b[h]
  BY <1>1, <1>6, <1>7, <1>8
<1>10. c[h] = SigHead(b[h].id, b[h].sub, c[h].br)
  BY <1>2, <1>9
<1>11. InPlace(b, c, h, cap)
  BY <1>5, <1>6, <1>7, <1>10 DEF InPlace
<1>12. QED
  BY <1>11 DEF c

\* fill_placeholder: the document is whole again, with one signature more.
LEMMA FillGood ==
  ASSUME NEW f, NEW b, NEW c, NEW h, NEW cap \in Nat, Pending(f, b, h, cap),
         InPlace(b, c, h, cap), c[h].br = ByteRange(c, h, cap),
         RangeTyped(SignatureAt(c, h, cap)), Valid(c, SignatureAt(c, h, cap))
  PROVE  /\ Good(c) /\ OneMore(f, c, h) /\ ObjectAt(c, h) = SignatureAt(c, h, cap)
         /\ c[h].sub = b[h].sub
<1>. DEFINE sig == SignatureAt(c, h, cap)
<1>1. /\ Good(f) /\ IsSeq(f) /\ Readable(f) /\ SignedWell(f) /\ Len(f) \in Nat
      /\ h \in 1..Len(b) /\ Len(f) < h /\ Len(c) = Len(b) /\ IsSeq(c)
  BY SeqFacts DEF Pending, Good, InPlace
<1>2. Readable(c) /\ WholeAt(c, h, cap) /\ StartOf(f, c) /\ Follows(f, c) /\ IsDocument(Load(c))
  BY WrittenReadable, WrittenWhole, WrittenFollows
<1>3. /\ \A p \in 1..Len(c) : c[p].k = "sig" => p <= Len(f) \/ p = h
      /\ c[h].k = "sig" /\ c[h].sub = b[h].sub
      /\ c[h].id \in Ids(c) \ Ids(f) /\ PlaceIn(c, c[h].id) = h
  BY WrittenSignatures
<1>4. ObjectAt(c, h) = sig
  <2>1. ObjectAt(c, h) = [t |-> "sig", sub |-> c[h].sub, br |-> c[h].br,
                          contents |-> SubSeq(c, h + 2, h + 1 + cap)]
    BY <1>1, <1>2, WholeObject
  <2>2. LtPos(h) + 1 = h + 2 /\ LtPos(h) + cap = h + 1 + cap
    BY <1>1 DEF LtPos
  <2>3. QED
    BY <2>1, <2>2 DEF SignatureAt
<1>5. GapStart(sig) = h
  <2>1. sig.br = ByteRange(c, h, cap)
    BY DEF SignatureAt
  <2>2. sig.br[1] = 0 /\ sig.br[2] = LtPos(h) - 1
    BY <2>1 DEF ByteRange
  <2>3. QED
    BY <1>1, <2>2 DEF GapStart, LtPos
<1>6. RangeTyped(sig) /\ Valid(c, sig)
  OBVIOUS
<1>. HIDE DEF sig
<1>7. SignedAt(c, h)
  BY <1>4, <1>5, <1>6 DEF SignedAt, PlacedAt, RangeTyped
<1>8. ASSUME NEW p \in 1..Len(c), c[p].k = "sig" PROVE SignedAt(c, p)
  <2>1. CASE p = h
    BY <1>7, <2>1
  <2>2. CASE p # h
    <3>1. p \in 1..Len(f)
      BY <1>1, <1>3, <1>8, <2>2
    <3>2. f[p].k = "sig" /\ DOMAIN f = 1..Len(f)
      BY <1>1, <1>2, <1>8, <3>1, SeqFacts DEF StartOf
    <3>3. SignedAt(f, p)
      BY <1>1, <3>1, <3>2 DEF SignedWell
    <3>4. QED
      BY <1>1, <1>2, <3>1, <3>3, SignedKept
  <2>3. QED
    BY <2>1, <2>2
<1>9. SignedWell(c)
  <2>1. DOMAIN c = 1..Len(c)
    BY <1>1, SeqFacts
  <2>2. QED
    BY <1>8, <2>1 DEF SignedWell
<1>10. \A p \in 1..Len(c) : c[p].k = "sig" => p <= h
  BY <1>1, <1>3
<1>11. Newest(c, h)
  BY <1>1, <1>3, <1>10 DEF Newest
<1>12. OneMore(f, c, h)
  BY <1>1, <1>2, <1>3, <1>11 DEF OneMore
<1>13. QED
  BY <1>1, <1>2, <1>3, <1>4, <1>9, <1>12 DEF Good, sig

\* Bytes that are no update.
LEMMA GarbageGood ==
  ASSUME NEW f, Good(f)
  PROVE  LET g == Append(f, Junk)
         IN  /\ Good(g) /\ Follows(f, g) /\ AlikeDocs(Load(f), Load(g))
             /\ \A p \in 1..Len(g) : g[p].k = "sig" => p <= Len(f)
             /\ Len(f) < Len(g) /\ Top(g) = Top(f)
<1>. DEFINE g == Append(f, Junk)
<1>1. /\ IsSeq(f) /\ Readable(f) /\ SignedWell(f) /\ IsDocument(Load(f))
      /\ Len(f) \in Nat /\ DOMAIN f = 1..Len(f)
  BY SeqFacts DEF Good
<1>2. g = f \o <<Junk>> /\ IsSeq(<<Junk>>) /\ Len(<<Junk>>) = 1 /\ <<Junk>>[1] = Junk
  <2>1. f \in Seq(Range(f) \cup {Junk}) /\ <<Junk>> \in Seq({Junk})
    BY <1>1 DEF IsSeq, Range
  <2>2. g = f \o <<Junk>>
    BY <2>1
  <2>3. QED
    BY <2>1, <2>2, SeqOver
<1>. HIDE DEF g
<1>3. IsSeq(g) /\ Len(g) = Len(f) + 1 /\ \A i \in 1..Len(f) : g[i] = f[i]
  BY <1>1, <1>2, ConcatFacts
<1>4. g[Len(f) + 1] = Junk
  BY <1>1, <1>2, ConcatFacts
<1>5. StartOf(f, g) /\ DOMAIN g = 1..(Len(f) + 1)
  BY <1>1, <1>3, SeqFacts DEF StartOf
<1>6. HeaderOffset(g) = HeaderOffset(f)
  BY <1>1, <1>3, <1>5, HeaderKept
<1>7. \A p \in 1..Len(g) : p \notin 1..Len(f) => p = Len(f) + 1 /\ g[p].k = "junk"
  BY <1>1, <1>3, <1>4 DEF Junk
<1>8. StartXrefs(g) = StartXrefs(f)
  BY <1>1, <1>3, <1>5, <1>7 DEF StartXrefs
<1>9. LastStartXref(g) = LastStartXref(f) /\ Top(g) = Top(f)
  <2>1. StartXrefs(f) # {} /\ StartXrefs(f) \subseteq 1..Len(f)
    BY <1>1 DEF Readable, Loadable, StartXrefs
  <2>2. StartXrefs(f) \subseteq 0..Len(f)
    BY <1>1, <2>1
  <2>3. Max(StartXrefs(f)) \in 1..Len(f)
    BY <1>1, <2>1, <2>2, GreatestOf
  <2>4. g[Max(StartXrefs(f))] = f[Max(StartXrefs(f))]
    BY <1>3, <2>3
  <2>5. QED
    BY <1>6, <1>8, <2>4 DEF LastStartXref, Top
<1>10. Top(f) \in 1..Len(f) /\ f[Top(f)].k = "xref"
  BY <1>1, TopFacts
<1>11. Loadable(g)
  <2>1. StartXrefs(g) # {}
    BY <1>1, <1>8 DEF Readable, Loadable
  <2>2. Top(f) \in DOMAIN g /\ g[Top(f)].k = "xref"
    BY <1>1, <1>3, <1>5, <1>10
  <2>3. QED
    BY <1>9, <2>1, <2>2 DEF Loadable, Top
<1>12. Readable(g)
  BY <1>1, <1>3, <1>5, <1>7, <1>11, ReadableKept DEF CellReadable
<1>13. Alike(f, g)
  BY <1>1, <1>3, <1>6 DEF Alike
<1>14. Table(g) = Table(f)
  BY <1>1, <1>3, <1>9, <1>10, <1>12, <1>13, EntriesAlike DEF Table
<1>15. Ids(g) = Ids(f) /\ \A id \in Ids(f) : PlaceIn(g, id) = PlaceIn(f, id)
  BY <1>6, <1>14 DEF Ids, PlaceIn
<1>16. g[Top(g)] = f[Top(f)]
  BY <1>3, <1>9, <1>10
<1>17. \A id \in Ids(f) : ObjectAt(g, PlaceIn(g, id)) = ObjectAt(f, PlaceIn(f, id))
  <2>1. ASSUME NEW id \in Ids(f)
        PROVE  ObjectAt(g, PlaceIn(g, id)) = ObjectAt(f, PlaceIn(f, id))
    <3>1. PlaceIn(f, id) \in 1..Len(f) /\ PlaceIn(g, id) = PlaceIn(f, id)
      BY <1>1, <1>15, TableFacts
    <3>2. QED
      BY <1>1, <1>3, <1>5, <3>1, ObjectKept
  <2>2. QED
    BY <2>1
<1>18. AlikeDocs(Load(f), Load(g)) /\ \A id \in Ids(f) : Load(g).objects[id] = Load(f).objects[id]
  <2>1. /\ DOMAIN Load(f).objects = Ids(f) /\ DOMAIN Load(g).objects = Ids(f)
        /\ \A id \in Ids(f) : Load(f).objects[id] = ObjectAt(f, PlaceIn(f, id))
        /\ \A id \in Ids(f) : Load(g).objects[id] = ObjectAt(g, PlaceIn(g, id))
        /\ Load(f).root = f[Top(f)].root /\ Load(g).root = g[Top(g)].root
    BY <1>15, LoadFacts
  <2>2. QED
    BY <1>16, <1>17, <2>1 DEF AlikeDocs
<1>19. IsDocument(Load(g))
  BY <1>1, <1>18, AlikeDocument
<1>20. SignedWell(g)
  <2>1. ASSUME NEW p \in 1..Len(g), g[p].k = "sig" PROVE SignedAt(g, p)
    <3>1. p \in 1..Len(f) /\ f[p].k = "sig"
      BY <1>3, <1>7, <2>1
    <3>2. SignedAt(f, p)
      BY <1>1, <3>1 DEF SignedWell
    <3>3. QED
      BY <1>1, <1>3, <1>5, <3>1, <3>2, SignedKept
  <2>2. QED
    BY <1>3, <1>5, <2>1 DEF SignedWell
<1>21. Follows(f, g)
  <2>1. Keeps(Load(f), Load(g))
    BY <1>15, <1>18, LoadFacts DEF Keeps
  <2>2. OldPlaces(f, g)
    BY <1>15 DEF OldPlaces
  <2>3. QED
    BY <1>5, <2>1, <2>2 DEF Follows
<1>22. \A p \in 1..Len(g) : g[p].k = "sig" => p <= Len(f)
  BY <1>1, <1>7
<1>23. Len(f) < Len(g)
  BY <1>1, <1>3
<1>24. QED
  BY <1>3, <1>9, <1>12, <1>18, <1>19, <1>20, <1>21, <1>22, <1>23 DEF Good, g

-----------------------------------------------------------------------------
(* The entries of a report (CollectSignatures).                            *)

SigIds(f) == SignatureIds(Load(f))
Place(f)  == [id \in SigIds(f) |-> PlaceIn(f, id)]

\* The signatures of a document are the signature dictionaries its numbers lead to.
LEMMA SigIdsAre ==
  ASSUME NEW f, IsSeq(f), Readable(f), NEW id \in Ids(f)
  PROVE  id \in SigIds(f) <=> f[PlaceIn(f, id)].k = "sig"
<1>1. /\ DOMAIN Load(f).objects = Ids(f)
      /\ Load(f).objects[id] = ObjectAt(f, PlaceIn(f, id))
  BY LoadFacts
<1>2. id \in SigIds(f) <=> Load(f).objects[id].t = "sig"
  BY <1>1 DEF SigIds, SignatureIds
<1>3. LET o == Load(f).objects[id]
          c == f[PlaceIn(f, id)]
      IN  \/ c.k = "xref" /\ o = XrefObj
          \/ c.k = "sig" /\ c.id = id /\ o.t = "sig"
          \/ c.k = "obj" /\ c.id = id /\ IsValue(o)
  BY <1>1, ObjectKinds
<1>4. XrefObj.t # "sig"
  BY DEF XrefObj
<1>5. QED
  BY <1>2, <1>3, <1>4, ValueIsNoSig

LEMMA SignatureFacts ==
  ASSUME NEW f, Good(f), NEW id \in SigIds(f)
  PROVE  LET p == PlaceIn(f, id)
         IN  /\ id \in Ids(f) /\ p \in 1..Len(f) /\ f[p].k = "sig" /\ f[p].id = id
             /\ Load(f).objects[id] = ObjectAt(f, p)
             /\ SignedAt(f, p) /\ GapStart(ObjectAt(f, p)) = p
<1>1. IsSeq(f) /\ Readable(f) /\ SignedWell(f) /\ DOMAIN f = 1..Len(f)
  BY SeqFacts DEF Good
<1>2. id \in Ids(f) /\ Load(f).objects[id] = ObjectAt(f, PlaceIn(f, id))
  BY LoadFacts DEF SigIds, SignatureIds
<1>3. f[PlaceIn(f, id)].k = "sig"
  BY <1>1, <1>2, SigIdsAre
<1>4. PlaceIn(f, id) \in 1..Len(f) /\ f[PlaceIn(f, id)].id = id
  BY <1>1, <1>2, <1>3, TableFacts DEF IsPlace
<1>5. SignedAt(f, PlaceIn(f, id))
  BY <1>1, <1>3, <1>4 DEF SignedWell
<1>6. QED
  BY <1>2, <1>3, <1>4, <1>5 DEF SignedAt, PlacedAt

LEMMA PlacesAreKeys ==
  ASSUME NEW f, Good(f)
  PROVE  /\ Keys(SigIds(f), Place(f)) /\ IsFiniteSet(SigIds(f)) /\ Cardinality(SigIds(f)) \in Nat
<1>1. \A id \in SigIds(f) : PlaceIn(f, id) \in 1..Len(f) /\ f[PlaceIn(f, id)].id = id
  BY SignatureFacts
<1>2. Place(f) \in [SigIds(f) -> Int]
  BY <1>1 DEF Place
<1>3. \A x, y \in SigIds(f) : Place(f)[x] = Place(f)[y] => x = y
  BY <1>1 DEF Place
<1>4. IsFiniteSet(Ids(f)) /\ SigIds(f) \subseteq Ids(f)
  BY TableFacts, LoadFacts DEF Good, SigIds, SignatureIds
<1>5. IsFiniteSet(SigIds(f))
  BY <1>4, FS_Subset
<1>6. QED
  BY <1>2, <1>3, <1>5, FS_CardinalityType DEF Keys

\* The i-th entry is the signature of rank i, by place.
RankIn(f, id) == Rank(SigIds(f), Place(f), id)
NoLater(f, id) ==
  {j \in SigIds(f) : GapStart(Load(f).objects[j]) <= GapStart(Load(f).objects[id])}

LEMMA RankIs ==
  ASSUME NEW f, Good(f), NEW id \in SigIds(f)
  PROVE  Cardinality(NoLater(f, id)) = RankIn(f, id)
<1>1. \A j \in SigIds(f) : GapStart(Load(f).objects[j]) = Place(f)[j]
  BY SignatureFacts DEF Place
<1>2. NoLater(f, id) = Upto(SigIds(f), Place(f), id)
  BY <1>1 DEF NoLater, Upto
<1>3. QED
  BY <1>2 DEF RankIn, Rank

Entry(f, i) == Load(f).objects[CHOOSE id \in SigIds(f) : Cardinality(NoLater(f, id)) = i]

LEMMA CollectIs ==
  ASSUME NEW f
  PROVE  CollectSignatures(f) = << >> \o [i \in 1..Cardinality(SigIds(f)) |-> Entry(f, i)]
BY DEF CollectSignatures, Entry, NoLater, SigIds

LEMMA EntryIs ==
  ASSUME NEW f, Good(f), NEW id \in SigIds(f)
  PROVE  Entry(f, RankIn(f, id)) = Load(f).objects[id]
<1>. DEFINE x == CHOOSE y \in SigIds(f) : Cardinality(NoLater(f, y)) = RankIn(f, id)
<1>1. Cardinality(NoLater(f, id)) = RankIn(f, id)
  BY RankIs
<1>2. x \in SigIds(f) /\ Cardinality(NoLater(f, x)) = RankIn(f, id)
  BY <1>1, Zenon
<1>3. RankIn(f, x) = RankIn(f, id)
  BY <1>2, RankIs
<1>4. x = id
  BY <1>2, <1>3, PlacesAreKeys, RankFacts DEF RankIn
<1>5. QED
  BY <1>4 DEF Entry

LEMMA Collected ==
  ASSUME NEW f, Good(f)
  PROVE  LET sigs == CollectSignatures(f)
             n    == Cardinality(SigIds(f))
         IN  /\ IsSeq(sigs) /\ Len(sigs) = n /\ n \in Nat /\ DOMAIN sigs = 1..n
             /\ \A id \in SigIds(f) : /\ RankIn(f, id) \in 1..n
                                      /\ sigs[RankIn(f, id)] = Load(f).objects[id]
             /\ \A i \in 1..n : \E id \in SigIds(f) : RankIn(f, id) = i
<1>. DEFINE sigs == CollectSignatures(f)
            n    == Cardinality(SigIds(f))
            e    == [i \in 1..n |-> Entry(f, i)]
<1>1. Keys(SigIds(f), Place(f)) /\ IsFiniteSet(SigIds(f)) /\ n \in Nat
  BY PlacesAreKeys
<1>2. \A i \in 1..n : \E id \in SigIds(f) : RankIn(f, id) = i
  BY <1>1, EveryRank DEF RankIn
<1>3. \A id \in SigIds(f) : RankIn(f, id) \in 1..n
  BY <1>1, RankFacts DEF RankIn
<1>4. IsSeq(e) /\ Len(e) = n
  <2>1. DOMAIN e = 1..n /\ e = [i \in 1..n |-> e[i]]
    OBVIOUS
  <2>. HIDE DEF e, n
  <2>2. QED
    BY <1>1, <2>1, SeqPointwise
<1>5. sigs = e
  <2>1. sigs = << >> \o e
    BY CollectIs
  <2>. HIDE DEF e
  <2>2. e \in Seq(Range(e))
    BY <1>4 DEF IsSeq
  <2>3. << >> \o e = e
    BY <2>2
  <2>4. QED
    BY <2>1, <2>3
<1>6. \A id \in SigIds(f) : e[RankIn(f, id)] = Load(f).objects[id]
  BY <1>3, EntryIs
<1>. HIDE DEF e, n, sigs
<1>7. DOMAIN sigs = 1..n
  BY <1>4, <1>5, SeqFacts
<1>8. QED
  BY <1>1, <1>2, <1>3, <1>4, <1>5, <1>6, <1>7 DEF sigs, n

\* Every entry of a good document verifies, if the entries of the first one did.
LEMMA EntriesVerify ==
  ASSUME NEW f, Good(f), NEW i \in DOMAIN CollectSignatures(f)
  PROVE  /\ RangeTyped(CollectSignatures(f)[i])
         /\ SignedBefore => Valid(f, CollectSignatures(f)[i])
<1>1. PICK id \in SigIds(f) : RankIn(f, id) = i
  BY Collected
<1>2. CollectSignatures(f)[i] = Load(f).objects[id]
  BY <1>1, Collected
<1>3. Load(f).objects[id] = ObjectAt(f, PlaceIn(f, id)) /\ SignedAt(f, PlaceIn(f, id))
  BY <1>1, SignatureFacts
<1>4. QED
  BY <1>2, <1>3 DEF SignedAt, PlacedAt, RangeTyped

\* The last entry is the last signature of the file.
LEMMA LastEntry ==
  ASSUME NEW f, Good(f), NEW h, Newest(f, h)
  PROVE  /\ Last(CollectSignatures(f)) = ObjectAt(f, h) /\ CollectSignatures(f) # << >>
         /\ f[h].id \in SigIds(f) /\ RankIn(f, f[h].id) = Cardinality(SigIds(f))
<1>. DEFINE id == f[h].id
            S  == SigIds(f)
            sigs == CollectSignatures(f)
<1>1. id \in Ids(f) /\ PlaceIn(f, id) = h /\ f[h].k = "sig" /\ IsSeq(f) /\ Readable(f)
  BY DEF Newest, Good
<1>2. id \in S
  BY <1>1, SigIdsAre
<1>3. \A y \in S : Place(f)[y] <= Place(f)[id]
  <2>1. \A y \in S : PlaceIn(f, y) \in 1..Len(f) /\ f[PlaceIn(f, y)].k = "sig"
    BY SignatureFacts
  <2>2. \A y \in S : PlaceIn(f, y) <= h
    BY <2>1 DEF Newest
  <2>3. QED
    BY <1>1, <1>2, <2>2 DEF Place
<1>4. Keys(S, Place(f)) /\ IsFiniteSet(S)
  BY PlacesAreKeys
<1>. HIDE DEF S, id
<1>5. RankIn(f, id) = Cardinality(S)
  BY <1>2, <1>3, <1>4, LastRank DEF RankIn, S
<1>6. /\ IsSeq(sigs) /\ Len(sigs) = Cardinality(S) /\ Cardinality(S) \in Nat
      /\ RankIn(f, id) \in 1..Cardinality(S) /\ sigs[RankIn(f, id)] = Load(f).objects[id]
  BY <1>2, Collected DEF S
<1>7. Load(f).objects[id] = ObjectAt(f, h)
  BY <1>1, <1>2, SignatureFacts DEF S
<1>. HIDE DEF sigs
<1>8. sigs # << >>
  BY <1>5, <1>6
<1>9. Last(sigs) = ObjectAt(f, h)
  BY <1>5, <1>6, <1>7 DEF Last
<1>10. QED
  BY <1>2, <1>5, <1>8, <1>9 DEF sigs, S, id

-----------------------------------------------------------------------------
(* The report of a document that goes on from another one (ReportedLog).   *)

Kind(sig) == IF IsTimestamp(sig) THEN "timestamp" ELSE "signature"

\* The report on a document, the first of which had no broken signature.
LEMMA ReportIs ==
  ASSUME NEW f, Good(f)
  PROVE  LET n == Cardinality(SigIds(f))
         IN  /\ IsSeq(ReportedLog(f)) /\ Len(ReportedLog(f)) = n /\ n \in Nat
             /\ DOMAIN ReportedLog(f) = 1..n /\ DOMAIN CollectSignatures(f) = 1..n
             /\ SignedBefore =>
                  \A i \in 1..n : /\ ReportedLog(f)[i] = Kind(CollectSignatures(f)[i])
                                  /\ ReportedLog(f)[i] \in {"signature", "timestamp"}
<1>. DEFINE n    == Cardinality(SigIds(f))
            sigs == CollectSignatures(f)
            log  == ReportedLog(f)
            verdict(i) == CASE ~Valid(f, sigs[i])   -> "broken"
                            [] IsTimestamp(sigs[i]) -> "timestamp"
                            [] OTHER                -> "signature"
<1>1. n \in Nat /\ DOMAIN sigs = 1..n
  BY Collected
<1>2. SignedBefore => \A i \in DOMAIN sigs : Valid(f, sigs[i])
  BY EntriesVerify
<1>3. log = [i \in DOMAIN sigs |-> verdict(i)]
  BY DEF ReportedLog
<1>4. ASSUME SignedBefore PROVE \A i \in DOMAIN sigs : verdict(i) = Kind(sigs[i])
  BY <1>2, <1>4, Zenon DEF Kind
<1>. HIDE DEF verdict, sigs, n
<1>5. DOMAIN log = 1..n /\ (SignedBefore => \A i \in 1..n : log[i] = Kind(sigs[i]))
  BY <1>1, <1>3, <1>4
<1>6. log = [i \in 1..n |-> log[i]]
  BY <1>1, <1>3
<1>. HIDE DEF log
<1>7. IsSeq(log) /\ Len(log) = n
  BY <1>1, <1>5, <1>6, SeqPointwise
<1>8. SignedBefore => \A i \in 1..n : log[i] \in {"signature", "timestamp"}
  BY <1>5 DEF Kind
<1>9. QED
  BY <1>1, <1>5, <1>7, <1>8 DEF log, sigs, n

\* The signatures a document had are the first ones of what goes on from it.
LEMMA SignatureStays ==
  ASSUME NEW f, NEW g, Good(f), Good(g), Follows(f, g), NEW id \in SigIds(f)
  PROVE  /\ id \in SigIds(g) /\ Load(g).objects[id] = Load(f).objects[id]
         /\ PlaceIn(g, id) = PlaceIn(f, id) /\ PlaceIn(f, id) \in 1..Len(f)
<1>1. id \in DOMAIN Load(f).objects /\ Load(f).objects[id].t = "sig"
  BY DEF SigIds, SignatureIds
<1>2. "sig" \notin Containers
  BY DEF Containers
<1>3. id \in DOMAIN Load(g).objects /\ Load(g).objects[id] = Load(f).objects[id]
  BY <1>1, <1>2 DEF Follows, Keeps
<1>4. id \in SigIds(g)
  BY <1>1, <1>3 DEF SigIds, SignatureIds
<1>5. Load(f).objects[id] = ObjectAt(f, PlaceIn(f, id)) /\ GapStart(ObjectAt(f, PlaceIn(f, id))) = PlaceIn(f, id)
      /\ PlaceIn(f, id) \in 1..Len(f)
  BY SignatureFacts
<1>6. Load(g).objects[id] = ObjectAt(g, PlaceIn(g, id)) /\ GapStart(ObjectAt(g, PlaceIn(g, id))) = PlaceIn(g, id)
  BY <1>4, SignatureFacts
<1>7. QED
  BY <1>3, <1>4, <1>5, <1>6

LEMMA SignatureIsNew ==
  ASSUME NEW f, NEW g, Good(f), Good(g), Follows(f, g), NEW id \in SigIds(g), id \notin SigIds(f)
  PROVE  Len(f) < PlaceIn(g, id)
<1>1. /\ id \in Ids(g) /\ PlaceIn(g, id) \in 1..Len(g) /\ g[PlaceIn(g, id)].k = "sig"
  BY SignatureFacts
<1>2. IsSeq(f) /\ Readable(f)
  BY DEF Good
<1>3. ASSUME id \in Ids(f), PlaceIn(g, id) = PlaceIn(f, id) PROVE FALSE
  <2>1. PlaceIn(f, id) \in 1..Len(f)
    BY <1>2, <1>3, TableFacts
  <2>2. f[PlaceIn(f, id)].k = "sig"
    BY <1>1, <1>3, <2>1 DEF Follows, StartOf
  <2>3. QED
    BY <1>2, <1>3, <2>2, SigIdsAre
<1>4. QED
  BY <1>1, <1>3 DEF Follows, OldPlaces

LEMMA RankStays ==
  ASSUME NEW f, NEW g, Good(f), Good(g), Follows(f, g), NEW id \in SigIds(f)
  PROVE  RankIn(g, id) = RankIn(f, id)
<1>1. Len(f) \in Nat
  BY SeqFacts DEF Good
<1>2. /\ id \in SigIds(g) /\ PlaceIn(g, id) = PlaceIn(f, id) /\ PlaceIn(f, id) \in 1..Len(f)
  BY SignatureStays
<1>3. Upto(SigIds(g), Place(g), id) = Upto(SigIds(f), Place(f), id)
  <2>1. ASSUME NEW j \in SigIds(g), Place(g)[j] <= Place(g)[id]
        PROVE  j \in SigIds(f) /\ Place(f)[j] <= Place(f)[id]
    <3>1. PlaceIn(g, j) <= PlaceIn(f, id) /\ PlaceIn(g, j) \in 1..Len(g)
      BY <1>2, <2>1, SignatureFacts DEF Place
    <3>2. ~(Len(f) < PlaceIn(g, j))
      BY <1>1, <1>2, <3>1
    <3>3. j \in SigIds(f)
      BY <3>2, SignatureIsNew
    <3>4. PlaceIn(g, j) = PlaceIn(f, j)
      BY <3>3, SignatureStays
    <3>5. QED
      BY <3>1, <3>3, <3>4 DEF Place
  <2>2. ASSUME NEW j \in SigIds(f), Place(f)[j] <= Place(f)[id]
        PROVE  j \in SigIds(g) /\ Place(g)[j] <= Place(g)[id]
    <3>1. j \in SigIds(g) /\ PlaceIn(g, j) = PlaceIn(f, j)
      BY SignatureStays
    <3>2. QED
      BY <1>2, <2>2, <3>1 DEF Place
  <2>3. QED
    BY <2>1, <2>2 DEF Upto
<1>4. QED
  BY <1>3 DEF RankIn, Rank

LEMMA FewerSignatures ==
  ASSUME NEW f, NEW g, Good(f), Good(g), Follows(f, g)
  PROVE  /\ Cardinality(SigIds(f)) <= Cardinality(SigIds(g))
         /\ \A i \in 1..Cardinality(SigIds(f)) :
              /\ i \in 1..Cardinality(SigIds(g))
              /\ CollectSignatures(g)[i] = CollectSignatures(f)[i]
<1>1. SigIds(f) \subseteq SigIds(g)
  BY SignatureStays
<1>2. Cardinality(SigIds(f)) <= Cardinality(SigIds(g))
  BY <1>1, PlacesAreKeys, FS_Subset
<1>3. Cardinality(SigIds(f)) \in Nat /\ Cardinality(SigIds(g)) \in Nat
  BY PlacesAreKeys
<1>4. ASSUME NEW i \in 1..Cardinality(SigIds(f))
      PROVE  CollectSignatures(g)[i] = CollectSignatures(f)[i]
  <2>1. PICK id \in SigIds(f) : RankIn(f, id) = i
    BY Collected
  <2>2. CollectSignatures(f)[i] = Load(f).objects[id]
    BY <2>1, Collected
  <2>3. id \in SigIds(g) /\ Load(g).objects[id] = Load(f).objects[id]
    BY SignatureStays
  <2>4. RankIn(g, id) = i
    BY <2>1, RankStays
  <2>5. CollectSignatures(g)[i] = Load(g).objects[id]
    BY <2>3, <2>4, Collected
  <2>6. QED
    BY <2>2, <2>3, <2>5
<1>5. QED
  BY <1>2, <1>3, <1>4

\* The signatures are the same if no signature dictionary was appended.
LEMMA SameSignatures ==
  ASSUME NEW f, NEW g, Good(f), Good(g), Follows(f, g),
         \A p \in 1..Len(g) : g[p].k = "sig" => p <= Len(f)
  PROVE  SigIds(g) = SigIds(f) /\ CollectSignatures(g) = CollectSignatures(f)
<1>1. SigIds(g) = SigIds(f)
  <2>1. SigIds(f) \subseteq SigIds(g)
    BY SignatureStays
  <2>2. ASSUME NEW id \in SigIds(g) PROVE id \in SigIds(f)
    <3>1. PlaceIn(g, id) \in 1..Len(g) /\ g[PlaceIn(g, id)].k = "sig"
      BY SignatureFacts
    <3>2. PlaceIn(g, id) <= Len(f) /\ Len(f) \in Nat
      BY <3>1, SeqFacts DEF Good
    <3>3. ~(Len(f) < PlaceIn(g, id))
      BY <3>1, <3>2
    <3>4. QED
      BY <3>3, SignatureIsNew
  <2>3. QED
    BY <2>1, <2>2
<1>. DEFINE n == Cardinality(SigIds(f))
<1>2. \A i \in 1..n : CollectSignatures(g)[i] = CollectSignatures(f)[i]
  BY FewerSignatures
<1>3. IsSeq(CollectSignatures(f)) /\ Len(CollectSignatures(f)) = n
  BY Collected
<1>4. IsSeq(CollectSignatures(g)) /\ Len(CollectSignatures(g)) = n
  BY <1>1, Collected
<1>. HIDE DEF n
<1>5. CollectSignatures(f) = [i \in 1..n |-> CollectSignatures(f)[i]]
  BY <1>3, SeqFacts
<1>6. CollectSignatures(g) = [i \in 1..n |-> CollectSignatures(g)[i]]
  BY <1>4, SeqFacts
<1>7. CollectSignatures(g) = CollectSignatures(f)
  BY <1>2, <1>5, <1>6
<1>8. QED
  BY <1>1, <1>7
\* Without a new signature the report stays what it was.
LEMMA SameReport ==
  ASSUME SignedBefore, NEW f, NEW g, Good(f), Good(g), Follows(f, g),
         \A p \in 1..Len(g) : g[p].k = "sig" => p <= Len(f)
  PROVE  ReportedLog(g) = ReportedLog(f)
<1>1. SigIds(g) = SigIds(f) /\ CollectSignatures(g) = CollectSignatures(f)
  BY SameSignatures
<1>. DEFINE n == Cardinality(SigIds(f))
<1>2. \A i \in 1..n : ReportedLog(f)[i] = Kind(CollectSignatures(f)[i])
  BY ReportIs
<1>3. \A i \in 1..n : ReportedLog(g)[i] = Kind(CollectSignatures(g)[i])
  BY <1>1, ReportIs
<1>4. IsSeq(ReportedLog(f)) /\ Len(ReportedLog(f)) = n
  BY ReportIs
<1>5. IsSeq(ReportedLog(g)) /\ Len(ReportedLog(g)) = n
  BY <1>1, ReportIs
<1>. HIDE DEF n
<1>6. ReportedLog(f) = [i \in 1..n |-> ReportedLog(f)[i]]
  BY <1>4, SeqFacts
<1>7. ReportedLog(g) = [i \in 1..n |-> ReportedLog(g)[i]]
  BY <1>5, SeqFacts
<1>8. \A i \in 1..n : ReportedLog(g)[i] = ReportedLog(f)[i]
  BY <1>1, <1>2, <1>3
<1>9. QED
  BY <1>6, <1>7, <1>8

\* With one signature more the report has one entry more, at its end.
LEMMA LongerReport ==
  ASSUME SignedBefore, NEW f, NEW g, NEW h, Good(f), Good(g), OneMore(f, g, h)
  PROVE  ReportedLog(g) = Append(ReportedLog(f), Kind(ObjectAt(g, h)))
<1>. DEFINE n  == Cardinality(SigIds(f))
            id == g[h].id
<1>1. Follows(f, g) /\ Newest(g, h) /\ id \notin Ids(f) /\ PlaceIn(g, id) = h
      /\ \A p \in 1..Len(g) : g[p].k = "sig" => p <= Len(f) \/ p = h
  BY DEF OneMore, Newest
<1>2. id \in SigIds(g) /\ RankIn(g, id) = Cardinality(SigIds(g))
      /\ CollectSignatures(g)[RankIn(g, id)] = Load(g).objects[id]
      /\ Load(g).objects[id] = ObjectAt(g, h)
  BY <1>1, LastEntry, Collected, SignatureFacts
<1>3. SigIds(g) = SigIds(f) \cup {id}
  <2>1. SigIds(f) \subseteq SigIds(g)
    BY <1>1, SignatureStays
  <2>2. ASSUME NEW j \in SigIds(g), j # id PROVE j \in SigIds(f)
    <3>1. /\ j \in Ids(g) /\ PlaceIn(g, j) \in 1..Len(g) /\ g[PlaceIn(g, j)].k = "sig"
          /\ g[PlaceIn(g, j)].id = j
      BY SignatureFacts
    <3>2. PlaceIn(g, j) # h
      BY <2>2, <3>1
    <3>3. PlaceIn(g, j) <= Len(f) /\ Len(f) \in Nat
      BY <1>1, <3>1, <3>2, SeqFacts DEF Good
    <3>4. ~(Len(f) < PlaceIn(g, j))
      BY <3>1, <3>3
    <3>5. QED
      BY <1>1, <3>4, SignatureIsNew
  <2>3. QED
    BY <1>2, <2>1, <2>2
<1>4. id \notin SigIds(f)
  BY <1>1, LoadFacts DEF SigIds, SignatureIds, Good
<1>. HIDE DEF id
<1>5. Cardinality(SigIds(g)) = n + 1 /\ n \in Nat
  <2>1. IsFiniteSet(SigIds(f)) /\ n \in Nat
    BY PlacesAreKeys
  <2>2. Cardinality(SigIds(f) \cup {id}) = Cardinality(SigIds(f)) + 1
    BY <1>4, <2>1, FS_AddElement
  <2>3. QED
    BY <1>3, <2>1, <2>2
<1>6. CollectSignatures(g)[n + 1] = ObjectAt(g, h)
  BY <1>2, <1>5
<1>7. \A i \in 1..n : CollectSignatures(g)[i] = CollectSignatures(f)[i]
  BY <1>1, FewerSignatures
<1>8. /\ IsSeq(ReportedLog(f)) /\ Len(ReportedLog(f)) = n
      /\ \A i \in 1..n : ReportedLog(f)[i] = Kind(CollectSignatures(f)[i])
  BY ReportIs
<1>9. /\ IsSeq(ReportedLog(g)) /\ Len(ReportedLog(g)) = n + 1
      /\ \A i \in 1..(n + 1) : ReportedLog(g)[i] = Kind(CollectSignatures(g)[i])
  BY <1>5, ReportIs
<1>. HIDE DEF n
<1>10. \A i \in 1..n : i \in 1..(n + 1)
  BY <1>5
<1>11. \A i \in 1..n : ReportedLog(g)[i] = ReportedLog(f)[i]
  BY <1>7, <1>8, <1>9, <1>10
<1>12. ReportedLog(g)[n + 1] = Kind(ObjectAt(g, h))
  BY <1>5, <1>6, <1>9
<1>13. ReportedLog(g) = Append(ReportedLog(f), ReportedLog(g)[n + 1])
  BY <1>5, <1>8, <1>9, <1>11, AppendFacts
<1>14. QED
  BY <1>12, <1>13

-----------------------------------------------------------------------------
(* The buffer of a call that has not yet finished (Waiting, Finished).     *)

LEMMA WaitingIs ==
  ASSUME NEW input, NEW f, NEW b, NEW h, NEW cap, NEW log,
         Pending(f, b, h, cap), Follows(input, f), Reports(f, log)
  PROVE  Waiting(input, b, h, cap, log)
<1>1. IsSeq(f) /\ IsSeq(b) /\ StartOf(f, b)
  BY DEF Pending, Good, Follows
<1>2. Len(f) \in 0..Len(b) /\ SubSeq(b, 1, Len(f)) = f
  BY <1>1, PrefixIs
<1>3. QED
  BY <1>2, Zenon DEF Waiting

LEMMA WaitingHas ==
  ASSUME NEW input, NEW b, NEW h, NEW cap, NEW log, Waiting(input, b, h, cap, log)
  PROVE  \E f : Pending(f, b, h, cap) /\ Follows(input, f) /\ Reports(f, log)
BY DEF Waiting

\* patch_byte_range
LEMMA WaitingPatched ==
  ASSUME NEW input, NEW b, NEW h, NEW cap \in Nat, NEW log, Waiting(input, b, h, cap, log), NEW r
  PROVE  Waiting(input, [b EXCEPT ![h].br = r], h, cap, log)
<1>1. PICK f : Pending(f, b, h, cap) /\ Follows(input, f) /\ Reports(f, log)
  BY WaitingHas
<1>. DEFINE c == [b EXCEPT ![h].br = r]
<1>2. Pending(f, c, h, cap)
  BY <1>1, PatchPending
<1>. HIDE DEF c
<1>3. Waiting(input, c, h, cap, log)
  BY <1>1, <1>2, WaitingIs
<1>4. QED
  BY <1>3 DEF c

\* fill_placeholder
LEMMA WaitingFilled ==
  ASSUME NEW input, IsSeq(input), NEW b, NEW h, NEW cap \in Nat, NEW log,
         Waiting(input, b, h, cap, log), NEW d, d.size \in Nat,
         b[h].br = ByteRange(b, h, cap),
         RangeTyped(SignatureAt(Filled(b, h, cap, d), h, cap)),
         Valid(Filled(b, h, cap, d), SignatureAt(Filled(b, h, cap, d), h, cap))
  PROVE  LET c == Filled(b, h, cap, d)
         IN  /\ Finished(input, c, Append(log, Kind(b[h])))
             /\ Newest(c, h) /\ ObjectAt(c, h) = SignatureAt(c, h, cap)
<1>. DEFINE c   == Filled(b, h, cap, d)
            sig == SignatureAt(c, h, cap)
<1>1. PICK f : Pending(f, b, h, cap) /\ Follows(input, f) /\ Reports(f, log)
  BY WaitingHas
<1>2. InPlace(b, c, h, cap)
  BY <1>1, FilledInPlace
<1>3. RangeTyped(sig) /\ Valid(c, sig)
  OBVIOUS
<1>4. h \notin (LtPos(h) + 1)..(LtPos(h) + cap) /\ h \in 1..Len(b) /\ DOMAIN b = 1..Len(b)
  BY <1>1, SeqFacts DEF Pending, LtPos
<1>5. c[h] = b[h]
  BY <1>4 DEF Filled
<1>6. ByteRange(c, h, cap) = ByteRange(b, h, cap)
  <2>1. Len(c) = Len(b)
    BY <1>2 DEF InPlace
  <2>2. QED
    BY <2>1, Zenon DEF ByteRange
<1>7. c[h].br = ByteRange(c, h, cap)
  BY <1>5, <1>6
<1>. HIDE DEF c
<1>8. /\ Good(c) /\ OneMore(f, c, h) /\ ObjectAt(c, h) = sig
  BY <1>1, <1>2, <1>3, <1>7, FillGood
<1>9. Reports(c, Append(log, Kind(sig)))
  BY <1>1, <1>8, LongerReport DEF Pending, Reports
<1>10. Kind(sig) = Kind(b[h])
  BY <1>5 DEF Kind, IsTimestamp, SignatureAt
<1>11. Follows(input, c)
  BY <1>1, <1>8, FollowsTransitive DEF OneMore, Good, Pending
<1>12. Newest(c, h)
  BY <1>8 DEF OneMore
<1>13. QED
  BY <1>8, <1>9, <1>10, <1>11, <1>12 DEF Finished, c

\* build_incremental_update, build_doctimestamp_update
LEMMA FieldUpdateWaits ==
  ASSUME NEW input, NEW f, NEW log, Finished(input, f, log),
         NEW page, NEW i \in 1..Len(PageIds(Load(f))), page = PageIds(Load(f))[i],
         NEW sub, NEW cap \in Nat, NEW nap \in Nat
  PROVE  LET doc  == Load(f)
             body == SignedBody(FieldUpdate(doc, page, sub, cap, nap), FreshId(doc, 1))
             b    == Render(f, body, FreshId(doc, nap + 3), doc.root)
         IN  Waiting(input, b, SigPosition(f, body), cap, log)
<1>. DEFINE doc  == Load(f)
            objs == FieldUpdate(doc, page, sub, cap, nap)
            s    == FreshId(doc, 1)
            size == FreshId(doc, nap + 3)
            body == SignedBody(objs, s)
            b    == Render(f, body, size, doc.root)
            h    == SigPosition(f, body)
<1>1. /\ Good(f) /\ IsSeq(f) /\ Readable(f) /\ IsDocument(doc)
      /\ Follows(input, f) /\ Reports(f, log)
  BY DEF Finished, Good
<1>2. page \in DOMAIN doc.objects /\ doc.objects[page].t = "page"
  BY <1>1, PagesAre DEF PageObjects
<1>3. IsFine(f, objs, {s}, size) /\ s \in DOMAIN objs /\ objs[s].cap = cap
  <2>1. IsFine(f, objs, {s}, size)
    BY <1>1, <1>2, FieldUpdateFine
  <2>2. s \in DOMAIN objs
    BY <1>1, <1>2, FieldUpdateFine
  <2>3. objs[s] = [t |-> "newsig", sub |-> sub, cap |-> cap]
    BY FieldUpdateFacts
  <2>4. objs[s].cap = cap
    BY <2>3
  <2>5. QED
    BY <2>1, <2>2, <2>4
<1>. HIDE DEF objs, s, size
<1>4. Pending(f, b, h, cap)
  BY <1>1, <1>3, SignedUpdatePending
<1>. HIDE DEF b, h
<1>5. Waiting(input, b, h, cap, log)
  BY <1>1, <1>4, WaitingIs
<1>6. QED
  BY <1>5 DEF b, h, objs, s, size

\* An update without a signature.
LEMMA PlainUpdateFinished ==
  ASSUME NEW input, IsSeq(input), NEW f, NEW log, Finished(input, f, log), NEW objs, NEW size,
         IsFine(f, objs, {}, size)
  PROVE  Finished(input, Render(f, PlainBody(objs), size, Load(f).root), log)
<1>. DEFINE g == Render(f, PlainBody(objs), size, Load(f).root)
<1>1. Good(f) /\ Follows(input, f) /\ Reports(f, log)
  BY DEF Finished
<1>2. Good(g) /\ Follows(f, g) /\ \A p \in 1..Len(g) : g[p].k = "sig" => p <= Len(f)
  BY <1>1, PlainUpdateGood
<1>. HIDE DEF g
<1>3. Reports(g, log)
  BY <1>1, <1>2, SameReport DEF Reports
<1>4. Follows(input, g)
  BY <1>1, <1>2, FollowsTransitive DEF Good
<1>5. QED
  BY <1>2, <1>3, <1>4 DEF Finished, g

\* add_dss
LEMMA DssUpdateFinished ==
  ASSUME NEW input, IsSeq(input), NEW f, NEW log, Finished(input, f, log), NEW material \in Materials
  PROVE  LET doc == Load(f)
         IN  Finished(input, Render(f, PlainBody(DssUpdate(doc, material)),
                                    FreshId(doc, NewBlobs(doc, material) + 1), doc.root), log)
<1>. DEFINE doc  == Load(f)
            objs == DssUpdate(doc, material)
            size == FreshId(doc, NewBlobs(doc, material) + 1)
<1>1. Materialized(material)
  BY SizesAssumption DEF Materialized
<1>2. IsFine(f, objs, {}, size)
  BY <1>1, DssUpdateFine DEF Finished, Good
<1>. HIDE DEF objs, size
<1>3. Finished(input, Render(f, PlainBody(objs), size, doc.root), log)
  BY <1>2, PlainUpdateFinished
<1>4. QED
  BY <1>3 DEF objs, size

-----------------------------------------------------------------------------
(* Every step keeps the second invariant.                                  *)

\* Between calls, and before the first update of one, only the document matters.
LEMMA OutsideGood ==
  ASSUME Good(file'), report' = ReportedLog(file'), pc' \in {"idle", "check"}, EndsSealed'
  PROVE  LInv'
BY DEF LInv, GoodFile, SignWaits, StampWaits, Stamps, GoodBuffer, WasLast, SignsNow, StampsNow

LEMMA InitGood == Init => LInv
<1>. SUFFICES ASSUME Init PROVE LInv
  OBVIOUS
<1>1. Good(file)
  BY InitialFilesAssumption
  DEF Init, Good, IsSeq, SignedWell, SignedAt, WellPlaced, SignedBefore, AllVerify
<1>2. QED
  BY <1>1 DEF Init, LInv, GoodFile, SignWaits, StampWaits, Stamps, GoodBuffer, WasLast,
              SignsNow, StampsNow, EndsSealed

LEMMA CallGood ==
  ASSUME LInv, NEW o \in Options, Call(o)
  PROVE  LInv'
<1>1. /\ file' = file /\ report' = report /\ pc' = "check" /\ res' = "none"
  BY DEF Call
<1>2. EndsSealed'
  BY <1>1 DEF EndsSealed
<1>3. QED
  BY <1>1, <1>2, OutsideGood DEF LInv, GoodFile

LEMMA FailGood ==
  ASSUME LInv, Fail
  PROVE  LInv'
<1>1. file' = file /\ report' = report /\ pc' = "idle" /\ res' = "error"
  BY DEF Fail
<1>2. EndsSealed'
  BY <1>1 DEF EndsSealed
<1>3. QED
  BY <1>1, <1>2, OutsideGood DEF LInv, GoodFile

\* Ok(buf)
LEMMA ReturnGood ==
  ASSUME IInv, LInv, Return
  PROVE  LInv'
<1>1. /\ pc = "return" /\ file' = buf /\ pc' = "idle" /\ report' = ReportedLog(file')
      /\ since' = IF opts.level = Blt THEN {"dss"} ELSE {}
  BY DEF Return
<1>2. Good(file')
  BY <1>1 DEF LInv, GoodBuffer, Finished
<1>3. EndsSealed'
  <2>1. CASE opts.level = Blt
    BY <1>1, <2>1 DEF EndsSealed
  <2>2. CASE opts.level # Blt
    <3>1. Newest(buf, head) /\ ObjectAt(buf, head) = SignatureAt(buf, head, opts.cap)
      BY <1>1, <2>2 DEF LInv, WasLast
    <3>2. CoversWholeDocument(buf, SignatureAt(buf, head, opts.cap))
      BY <1>1, <2>2 DEF IInv, WrittenVerifies
    <3>3. head \in 1..Len(buf)
      BY <3>1 DEF Newest
    <3>4. Sealed(buf)
      BY <3>1, <3>2, <3>3 DEF Sealed
    <3>5. QED
      BY <1>1, <3>4 DEF EndsSealed
  <2>3. QED
    BY <2>1, <2>2
<1>4. QED
  BY <1>1, <1>2, <1>3, OutsideGood

\* What another program appends leaves the report as it is.
LEMMA EditFinished ==
  ASSUME LInv, EditPage \/ EditObject \/ EditDss \/ EditGarbage
  PROVE  Finished(file, file', report)
<1>1. /\ Good(file) /\ IsSeq(file) /\ Readable(file) /\ IsDocument(Load(file))
      /\ report = ReportedLog(file)
  BY DEF LInv, GoodFile, Good
<1>2. Finished(file, file, report)
  BY <1>1, FollowsItself DEF Finished, Reports
<1>3. CASE EditPage
  <2>. DEFINE doc  == Load(file)
              p    == PageIds(doc)[1]
              objs == Queue(p, [doc.objects[p] EXCEPT !.body = @ + 1])
  <2>1. file' = Render(file, PlainBody(objs), doc.maxId + 1, doc.root)
    BY <1>3 DEF EditPage, Edit
  <2>2. IsFine(file, objs, {}, doc.maxId + 1)
    BY <1>1, EditPageFine
  <2>. HIDE DEF objs
  <2>3. QED
    BY <1>1, <1>2, <2>1, <2>2, PlainUpdateFinished
<1>4. CASE EditObject
  <2>. DEFINE doc  == Load(file)
              objs == Queue(FreshId(doc, 1), ApObj)
              size == FreshId(doc, 2)
  <2>1. file' = Render(file, PlainBody(objs), size, doc.root)
    BY <1>4 DEF EditObject, Edit
  <2>2. IsFine(file, objs, {}, size)
    BY <1>1, EditObjectFine
  <2>. HIDE DEF objs, size
  <2>3. QED
    BY <1>1, <1>2, <2>1, <2>2, PlainUpdateFinished
<1>5. CASE EditDss
  <2>. DEFINE doc  == Load(file)
              g(m) == Render(file, PlainBody(DssUpdate(doc, m)),
                             FreshId(doc, NewBlobs(doc, m) + 1), doc.root)
  <2>1. PICK m \in Materials : file' = g(m)
    BY <1>5 DEF EditDss, Edit
  <2>2. Finished(file, g(m), report)
    BY <1>1, <1>2, DssUpdateFinished
  <2>3. QED
    BY <2>1, <2>2
<1>6. CASE EditGarbage
  <2>. DEFINE g == Append(file, Junk)
  <2>1. file' = g
    BY <1>6 DEF EditGarbage
  <2>2. Good(g) /\ Follows(file, g) /\ \A p \in 1..Len(g) : g[p].k = "sig" => p <= Len(file)
    BY <1>1, GarbageGood
  <2>. HIDE DEF g
  <2>3. Reports(g, report)
    BY <1>1, <2>2, SameReport DEF Reports
  <2>4. QED
    BY <2>1, <2>2, <2>3 DEF Finished
<1>7. QED
  BY <1>3, <1>4, <1>5, <1>6

LEMMA EditGood ==
  ASSUME LInv, EditPage \/ EditObject \/ EditDss \/ EditGarbage
  PROVE  LInv'
<1>1. /\ pc = "idle" /\ pc' = pc /\ report' = ReportedLog(file')
      /\ \E kind : since' = since \cup {kind}
  BY DEF EditPage, EditObject, EditDss, EditGarbage, Edit
<1>2. Good(file')
  BY EditFinished DEF Finished
<1>3. since' # {}
  BY <1>1
<1>4. QED
  BY <1>1, <1>2, <1>3, OutsideGood DEF EndsSealed

\* In a call the document is what it was.
LEMMA WorkingGood ==
  ASSUME LInv, pc' \in Working, UNCHANGED <<file, opts, res, report, since>>,
         SignWaits', StampWaits', Stamps', GoodBuffer', WasLast'
  PROVE  LInv'
BY DEF LInv, GoodFile, EndsSealed

\* build_incremental_update
LEMMA BuildGood ==
  ASSUME IInv, LInv, Build
  PROVE  LInv'
<1>. DEFINE doc  == Load(file)
            nap  == ApObjects(opts.ap)
            page == PageIds(doc)[PageNumber(opts)]
            body == SignedBody(FieldUpdate(doc, page, "ETSI.CAdES.detached", opts.cap, nap),
                               FreshId(doc, 1))
            b    == Render(file, body, FreshId(doc, nap + 3), doc.root)
            h    == SigPosition(file, body)
<1>1. /\ buf' = b /\ head' = h /\ pc' = "patch" /\ Acceptable(file, opts)
      /\ UNCHANGED <<file, opts, der, res, report, since, calls, edits>>
  BY DEF Build
<1>2. nap \in Nat
  BY DEF ApObjects
<1>3. opts.cap \in Nat /\ opts.page \in Nat
  BY OptionsAssumption DEF IInv, TypeOK
<1>4. Good(file) /\ IsSeq(file) /\ Readable(file) /\ IsDocument(doc) /\ report = ReportedLog(file)
  BY DEF LInv, GoodFile, Good
<1>5. Finished(file, file, report)
  BY <1>4, FollowsItself DEF Finished, Reports
<1>6. PageNumber(opts) \in 1..Len(PageIds(doc))
  <2>1. Len(PageIds(doc)) \in Nat
    BY <1>4, PagesAre
  <2>2. PageNumber(opts) <= Len(PageIds(doc))
    BY <1>1 DEF Acceptable
  <2>3. PageNumber(opts) \in Nat /\ PageNumber(opts) > 0
    BY <1>1, <1>3 DEF PageNumber, Acceptable, ValidOptions
  <2>4. QED
    BY <2>1, <2>2, <2>3
<1>7. Waiting(file, b, h, opts.cap, report)
  BY <1>2, <1>3, <1>5, <1>6, FieldUpdateWaits
<1>. HIDE DEF b, h
<1>8. SignWaits'
  BY <1>1, <1>7 DEF SignWaits
<1>9. StampWaits' /\ Stamps' /\ GoodBuffer' /\ WasLast'
  BY <1>1 DEF StampWaits, Stamps, GoodBuffer, WasLast, StampsNow
<1>10. QED
  BY <1>1, <1>8, <1>9, WorkingGood DEF Working, Steps

\* build_doctimestamp_update
LEMMA StampGood ==
  ASSUME IInv, LInv, Stamp
  PROVE  LInv'
<1>. DEFINE doc  == Load(buf)
            page == PageIds(doc)[1]
            body == SignedBody(FieldUpdate(doc, page, "ETSI.RFC3161", opts.cap, 0),
                               FreshId(doc, 1))
            b    == Render(buf, body, FreshId(doc, 3), doc.root)
            h    == SigPosition(buf, body)
<1>1. /\ buf' = b /\ head' = h /\ pc = "stamp" /\ pc' = "tspatch"
      /\ UNCHANGED <<file, opts, der, res, report, since, calls, edits>>
  BY DEF Stamp
<1>2. opts.cap \in Nat
  BY OptionsAssumption DEF IInv, TypeOK
<1>3. Finished(file, buf, Append(report, "signature"))
  BY <1>1 DEF LInv, GoodBuffer, OutputLog
<1>4. Good(buf) /\ IsSeq(buf) /\ Readable(buf) /\ IsDocument(doc)
  BY <1>3 DEF Finished, Good
<1>5. 1 \in 1..Len(PageIds(doc))
  BY <1>4, PagesAre
<1>6. Waiting(file, b, h, opts.cap, Append(report, "signature"))
  <2>1. 0 \in Nat /\ 0 + 3 = 3
    OBVIOUS
  <2>2. QED
    BY <1>2, <1>3, <1>5, <2>1, FieldUpdateWaits
<1>. HIDE DEF b, h
<1>7. StampWaits'
  BY <1>1, <1>6 DEF StampWaits
<1>8. SignWaits' /\ Stamps' /\ GoodBuffer' /\ WasLast'
  BY <1>1 DEF LInv, SignWaits, Stamps, GoodBuffer, WasLast, SignsNow, StampsNow
<1>9. QED
  BY <1>1, <1>7, <1>8, WorkingGood DEF Working, Steps

\* patch_byte_range
LEMMA PatchGood ==
  ASSUME IInv, LInv, NEW from, NEW to, Patch(from, to),
         <<from, to>> \in {<<"patch", "cms">>, <<"tspatch", "token">>}
  PROVE  LInv'
<1>. DEFINE r == ByteRange(buf, head, opts.cap)
            b == [buf EXCEPT ![head].br = r]
<1>1. /\ pc = from /\ pc' = to /\ buf' = b
      /\ UNCHANGED <<file, opts, head, der, res, report, since, calls, edits>>
  BY DEF Patch
<1>2. opts.cap \in Nat
  BY OptionsAssumption DEF IInv, TypeOK
<1>3. ASSUME NEW log, Waiting(file, buf, head, opts.cap, log)
      PROVE  Waiting(file, b, head, opts.cap, log)
  <2>. HIDE DEF r
  <2>1. QED
    BY <1>2, <1>3, WaitingPatched
<1>. HIDE DEF b
<1>4. SignWaits' /\ StampWaits'
  BY <1>1, <1>3 DEF LInv, SignWaits, StampWaits, SignsNow, StampsNow
<1>5. Stamps' /\ GoodBuffer' /\ WasLast'
  BY <1>1 DEF LInv, Stamps, GoodBuffer, WasLast, StampsNow
<1>6. QED
  BY <1>1, <1>4, <1>5, WorkingGood DEF Working, Steps

\* cms_sign, request_timestamp
LEMMA DerGood ==
  ASSUME LInv, CmsSign \/ Token
  PROVE  LInv'
<1>1. /\ \/ pc = "cms" /\ pc' = "fill"
         \/ pc = "token" /\ pc' = "tsfill"
      /\ UNCHANGED <<file, opts, buf, head, res, report, since, calls, edits>>
  BY DEF CmsSign, Token
<1>2. SignWaits' /\ StampWaits' /\ Stamps' /\ GoodBuffer' /\ WasLast'
  BY <1>1 DEF LInv, SignWaits, StampWaits, Stamps, GoodBuffer, WasLast, SignsNow, StampsNow
<1>3. QED
  BY <1>1, <1>2, WorkingGood DEF Working, Steps

\* fill_placeholder
LEMMA FillGoodBuffer ==
  ASSUME IInv, LInv, IInv', NEW log, pc \in {"fill", "tsfill"}, pc' \in {"dss", "return"},
         Waiting(file, buf, head, opts.cap, log), buf' = Filled(buf, head, opts.cap, der),
         UNCHANGED <<file, opts, head, der>>
  PROVE  /\ Finished(file, buf', Append(log, Kind(buf[head])))
         /\ Newest(buf', head) /\ ObjectAt(buf', head) = SignatureAt(buf', head, opts.cap)
<1>1. opts.cap \in Nat /\ der.size \in Nat
  BY OptionsAssumption DEF IInv, TypeOK
<1>2. IsSeq(file)
  BY DEF LInv, GoodFile, Good
<1>3. buf[head].br = ByteRange(buf, head, opts.cap)
  BY DEF IInv, RangePatched
<1>4. RangeTyped(SignatureAt(buf', head, opts.cap)) /\ Valid(buf', SignatureAt(buf', head, opts.cap))
  BY Zenon DEF IInv, Written, WrittenVerifies
<1>. DEFINE b == Filled(buf, head, opts.cap, der)
<1>5. RangeTyped(SignatureAt(b, head, opts.cap)) /\ Valid(b, SignatureAt(b, head, opts.cap))
  BY <1>4
<1>6. /\ Finished(file, b, Append(log, Kind(buf[head])))
      /\ Newest(b, head) /\ ObjectAt(b, head) = SignatureAt(b, head, opts.cap)
  BY <1>1, <1>2, <1>3, <1>5, WaitingFilled
<1>7. QED
  BY <1>6

\* A signature and its timestamp, reported one after the other.
LEMMA TwoMore ==
  ASSUME NEW s, IsSeq(s)
  PROVE  Append(Append(s, "signature"), "timestamp") = s \o <<"signature", "timestamp">>
<1>1. s \in Seq(Range(s) \cup {"signature", "timestamp"})
  BY DEF IsSeq, Range
<1>2. QED
  BY <1>1

LEMMA FillStepGood ==
  ASSUME IInv, LInv, IInv', Fill \/ FillStep("tsfill", "return")
  PROVE  LInv'
<1>1. /\ \/ pc = "fill" /\ pc' = IF opts.level >= Blt THEN "dss" ELSE "return"
         \/ pc = "tsfill" /\ pc' = "return"
      /\ buf' = Filled(buf, head, opts.cap, der)
      /\ UNCHANGED <<file, opts, head, der, res, report, since, calls, edits>>
  BY DEF Fill, FillStep
<1>2. opts.level \in 0..3
  BY OptionsAssumption DEF IInv, TypeOK
<1>3. pc \in {"fill", "tsfill"} /\ pc' \in {"dss", "return"}
  BY <1>1
<1>. DEFINE log == IF pc = "fill" THEN report ELSE Append(report, "signature")
<1>4. Waiting(file, buf, head, opts.cap, log)
  BY <1>3 DEF LInv, SignWaits, StampWaits, SignsNow, StampsNow
<1>5. /\ Finished(file, buf', Append(log, Kind(buf[head])))
      /\ Newest(buf', head) /\ ObjectAt(buf', head) = SignatureAt(buf', head, opts.cap)
  <2>. HIDE DEF log
  <2>1. QED
    BY <1>1, <1>3, <1>4, FillGoodBuffer
<1>6. Kind(buf[head]) = IF pc = "fill" THEN "signature" ELSE "timestamp"
  BY <1>3 DEF IInv, RightKind, Kind, IsTimestamp
<1>7. pc = "tsfill" => opts.level = Blta
  BY DEF LInv, Stamps, StampsNow
<1>8. Append(log, Kind(buf[head])) = OutputLog'
  <2>1. CASE pc = "fill"
    <3>1. ~(pc' = "return" /\ opts.level = Blta)
      BY <1>1, <1>2, <2>1 DEF Blt, Blta
    <3>2. OutputLog' = Append(report, "signature")
      BY <1>1, <3>1 DEF OutputLog
    <3>3. QED
      BY <1>6, <2>1, <3>2
  <2>2. CASE pc = "tsfill"
    <3>1. OutputLog' = report \o <<"signature", "timestamp">>
      BY <1>1, <1>7, <2>2 DEF OutputLog
    <3>2. IsSeq(report)
      BY ReportIs DEF LInv, GoodFile
    <3>3. Append(Append(report, "signature"), "timestamp") = report \o <<"signature", "timestamp">>
      BY <3>2, TwoMore
    <3>4. QED
      BY <1>6, <2>2, <3>1, <3>3
  <2>3. QED
    BY <1>3, <2>1, <2>2
<1>. HIDE DEF log
<1>9. GoodBuffer'
  BY <1>1, <1>5, <1>8 DEF GoodBuffer
<1>10. WasLast'
  BY <1>1, <1>5 DEF WasLast
<1>11. SignWaits' /\ StampWaits' /\ Stamps'
  BY <1>3 DEF SignWaits, StampWaits, Stamps, SignsNow, StampsNow
<1>12. QED
  BY <1>1, <1>3, <1>9, <1>10, <1>11, WorkingGood DEF Working, Steps

\* add_dss
LEMMA AddDssGood ==
  ASSUME IInv, LInv, AddDss
  PROVE  LInv'
<1>. DEFINE doc  == Load(buf)
            b(m) == Render(buf, PlainBody(DssUpdate(doc, m)),
                           FreshId(doc, NewBlobs(doc, m) + 1), doc.root)
<1>1. PICK m \in Materials : buf' = b(m)
  BY DEF AddDss
<1>2. /\ pc = "dss" /\ pc' = IF opts.level >= Blta THEN "stamp" ELSE "return"
      /\ UNCHANGED <<file, opts, head, der, res, report, since, calls, edits>>
  BY DEF AddDss
<1>3. opts.level \in 0..3 /\ opts.level >= Blt
  BY <1>2, OptionsAssumption DEF IInv, TypeOK, AtDss
<1>4. Finished(file, buf, Append(report, "signature")) /\ IsSeq(file)
  BY <1>2 DEF LInv, GoodBuffer, OutputLog, GoodFile, Good
<1>5. Finished(file, b(m), Append(report, "signature"))
  BY <1>4, DssUpdateFinished
<1>. HIDE DEF b
<1>6. /\ pc' \in {"stamp", "return"} /\ (pc' = "stamp" => opts.level = Blta)
      /\ (pc' = "return" => opts.level = Blt)
  BY <1>2, <1>3 DEF Blt, Blta
<1>7. OutputLog' = Append(report, "signature")
  BY <1>2, <1>6 DEF OutputLog, Blt, Blta
<1>8. GoodBuffer'
  BY <1>1, <1>2, <1>5, <1>7 DEF GoodBuffer
<1>9. SignWaits' /\ StampWaits' /\ Stamps' /\ WasLast'
  BY <1>2, <1>6 DEF SignWaits, StampWaits, Stamps, SignsNow, StampsNow, WasLast
<1>10. QED
  BY <1>2, <1>6, <1>8, <1>9, WorkingGood DEF Working, Steps

LEMMA StepGood == IInv /\ LInv /\ [Next]_vars => LInv'
<1>. SUFFICES ASSUME IInv, LInv, [Next]_vars PROVE LInv'
  OBVIOUS
<1>0. IInv'
  BY StepInv
<1>1. CASE \E o \in Options : Call(o)
  BY <1>1, CallGood
<1>2. CASE Reject \/ PatchFails \/ CryptoFails \/ FillFails
  BY <1>2, FailGood DEF Reject, PatchFails, CryptoFails, FillFails
<1>3. CASE Build
  BY <1>3, BuildGood
<1>4. CASE Patch("patch", "cms") \/ Patch("tspatch", "token")
  BY <1>4, PatchGood
<1>5. CASE CmsSign \/ Token
  BY <1>5, DerGood
<1>6. CASE Fill \/ FillStep("tsfill", "return")
  BY <1>0, <1>6, FillStepGood
<1>7. CASE AddDss
  BY <1>7, AddDssGood
<1>8. CASE Stamp
  BY <1>8, StampGood
<1>9. CASE Return
  BY <1>9, ReturnGood
<1>10. CASE EditPage \/ EditObject \/ EditDss \/ EditGarbage
  BY <1>10, EditGood
<1>11. CASE UNCHANGED vars
  BY <1>11, Zenon
     DEF vars, LInv, GoodFile, SignWaits, StampWaits, Stamps, GoodBuffer, OutputLog, WasLast,
         EndsSealed, SignsNow, StampsNow
<1>. QED
  BY <1>1, <1>2, <1>3, <1>4, <1>5, <1>6, <1>7, <1>8, <1>9, <1>10, <1>11, Zenon
  DEF Next, Step

\* Every reachable state satisfies it.
LEMMA SpecGood == Spec => []LInv
BY InitGood, StepGood, SpecInv, PTL DEF Spec

-----------------------------------------------------------------------------
(* Theorems about the document.                                            *)

\* What becomes of the document and its report in a step.
LEMMA StepFinished ==
  ASSUME IInv, LInv, [Next]_vars
  PROVE  /\ Good(file) /\ Good(file') /\ Follows(file, file')
         /\ SignedBefore => \/ report' = report
                            \/ report' = Append(report, "signature")
                            \/ report' = report \o <<"signature", "timestamp">>
<1>1. Good(file) /\ IsSeq(file) /\ report = ReportedLog(file)
  BY DEF LInv, GoodFile, Good
<1>2. CASE EditPage \/ EditObject \/ EditDss \/ EditGarbage
  <2>1. Finished(file, file', report)
    BY <1>2, EditFinished
  <2>2. report' = ReportedLog(file')
    BY <1>2 DEF EditPage, EditObject, EditDss, EditGarbage, Edit
  <2>3. QED
    BY <1>1, <2>1, <2>2 DEF Finished, Reports
<1>3. CASE Return
  <2>1. pc = "return" /\ file' = buf /\ report' = ReportedLog(file')
    BY <1>3 DEF Return
  <2>2. Finished(file, buf, OutputLog)
    BY <2>1 DEF LInv, GoodBuffer
  <2>3. QED
    BY <1>1, <2>1, <2>2 DEF Finished, OutputLog, Reports
<1>4. CASE file' = file /\ report' = report
  BY <1>1, <1>4, FollowsItself
<1>5. \/ EditPage \/ EditObject \/ EditDss \/ EditGarbage \/ Return
      \/ file' = file /\ report' = report
  BY Zenon
  DEF Next, Step, vars, Call, Reject, Build, Patch, PatchFails, CmsSign, Token,
      CryptoFails, Fail, Fill, FillStep, FillFails, AddDss, Stamp
<1>6. QED
  BY <1>2, <1>3, <1>4, <1>5

\* If every signature of the first document verified, a call of sign_pdf_bytes that
\* succeeded leaves a document in which every entry verifies, whose last entry leaves
\* out nothing but its own /Contents.
THEOREM EveryOutputVerifies == ASSUME SignedBefore PROVE Spec => []OutputVerifies
<1>1. LInv => OutputVerifies
  <2>. SUFFICES ASSUME LInv, res = "ok" PROVE OutputVerifies
    BY DEF OutputVerifies
  <2>. DEFINE sigs == CollectSignatures(file)
  <2>1. Good(file)
    BY DEF LInv, GoodFile
  <2>2. \A i \in DOMAIN sigs : Valid(file, sigs[i])
    BY <2>1, EntriesVerify
  <2>3. ASSUME since = {} PROVE CoversWholeDocument(file, Last(sigs))
    <3>1. PICK h \in 1..Len(file) : Newest(file, h) /\ CoversWholeDocument(file, ObjectAt(file, h))
      BY <2>3 DEF LInv, EndsSealed, Sealed
    <3>2. Last(sigs) = ObjectAt(file, h)
      BY <2>1, <3>1, LastEntry
    <3>3. QED
      BY <3>1, <3>2
  <2>. HIDE DEF sigs
  <2>4. QED
    BY <2>2, <2>3 DEF OutputVerifies, sigs
<1>2. QED
  BY <1>1, SpecGood, PTL

\* The objects of an update get numbers no object has, so that a call of
\* sign_pdf_bytes rewrites nothing but the containers it extends.
THEOREM NothingIsOverwritten == Spec => NoObjectLost
<1>. DEFINE A == pc = "return" =>
                   LET old == Load(file)
                       new == Load(file')
                   IN  \A id \in DOMAIN old.objects :
                         /\ id \in DOMAIN new.objects
                         /\ \/ new.objects[id] = old.objects[id]
                            \/ /\ old.objects[id].t \in {"catalog", "page", "array", "form", "dss"}
                               /\ new.objects[id].t = old.objects[id].t
<1>1. IInv /\ LInv /\ [Next]_vars => A
  <2>. SUFFICES ASSUME IInv, LInv, [Next]_vars PROVE A
    OBVIOUS
  <2>1. Keeps(Load(file), Load(file'))
    BY StepFinished DEF Follows
  <2>2. QED
    BY <2>1, Zenon DEF Keeps, Containers
<1>2. IInv /\ LInv /\ [Next]_vars => [A]_vars
  BY <1>1
<1>. HIDE DEF A
<1>3. Spec => [][A]_vars
  BY <1>2, SpecInv, SpecGood, PTL DEF Spec
<1>4. QED
  BY <1>3 DEF NoObjectLost, A

\* Whatever is appended to a document, by sign_pdf_bytes or by another program, a
\* verifier goes on to report every entry that verified: in its place, with its
\* range and its /Contents, and as one that verifies.
THEOREM SignaturesKeepVerifying == Spec => SignaturesSurvive
<1>. DEFINE A == LET old == CollectSignatures(file)
                     new == CollectSignatures(file')
                 IN  \A i \in DOMAIN old :
                       Valid(file, old[i]) =>
                         i \in DOMAIN new /\ new[i] = old[i] /\ Valid(file', new[i])
<1>1. IInv /\ LInv /\ [Next]_vars => A
  <2>. SUFFICES ASSUME IInv, LInv, [Next]_vars PROVE A
    OBVIOUS
  <2>. DEFINE old == CollectSignatures(file)
              new == CollectSignatures(file')
  <2>1. Good(file) /\ Good(file') /\ Follows(file, file')
    BY StepFinished
  <2>2. \A i \in DOMAIN old : i \in DOMAIN new /\ new[i] = old[i]
    BY <2>1, FewerSignatures, Collected
  <2>. HIDE DEF old, new
  <2>3. ASSUME NEW i \in DOMAIN old, Valid(file, old[i]) PROVE Valid(file', old[i])
    <3>1. IsPrefix(file, file') /\ IsSeq(file) /\ IsSeq(file')
      BY <2>1, PrefixFacts DEF Follows, StartOf, Good
    <3>2. RangeTyped(old[i])
      BY <2>1, EntriesVerify DEF old
    <3>3. QED
      BY <2>3, <3>1, <3>2, ValidSurvivesExtension DEF RangeTyped
  <2>4. QED
    BY <2>2, <2>3 DEF old, new
<1>2. IInv /\ LInv /\ [Next]_vars => [A]_file
  BY <1>1
<1>. HIDE DEF A
<1>3. Spec => [][A]_file
  BY <1>2, SpecInv, SpecGood, PTL DEF Spec
<1>4. QED
  BY <1>3 DEF SignaturesSurvive, A

\* If every signature of the first document verified, sign_pdf_bytes, read through
\* verify.rs, implements the log of SignatureLog: a call adds a signature, a B-LTA call
\* a signature and its timestamp at once, an error or another program nothing.
THEOREM SigningImplementsTheLog == ASSUME SignedBefore PROVE Spec => ReportIsALog
<1>1. Init => Log!Init
  <2>. SUFFICES ASSUME Init PROVE report \in Seq({"signature", "timestamp"})
    BY DEF Log!Init
  <2>1. Good(file) /\ report = ReportedLog(file)
    BY InitGood DEF LInv, GoodFile
  <2>2. PICK n \in Nat : /\ IsSeq(report) /\ Len(report) = n /\ DOMAIN report = 1..n
                         /\ \A i \in 1..n : report[i] \in {"signature", "timestamp"}
    BY <2>1, ReportIs
  <2>3. report = [i \in 1..n |-> report[i]]
    BY <2>2, SeqFacts
  <2>4. QED
    BY <2>2, <2>3
<1>2. IInv /\ LInv /\ [Next]_vars => [Log!Next]_report
  BY StepFinished DEF Log!Next, Log!Sign, Log!SignAndStamp
<1>3. QED
  BY <1>1, <1>2, SpecInv, SpecGood, PTL DEF Spec, ReportIsALog, Log!Spec

LEMMA UpdatedIs ==
  ASSUME NEW f, NEW a, NEW u, NEW S, NEW size, NEW body, IsFine(f, a ++ u, S, size),
         IsDocument(Load(f)), IsBody(body, a ++ u, S), S \subseteq DOMAIN a,
         DOMAIN a \cap DOMAIN Load(f).objects = {}, DOMAIN u \subseteq DOMAIN Load(f).objects
  PROVE  Updated(Load(f), Load(Render(f, body, size, Load(f).root)), a, S, u)
<1>. DEFINE g    == Render(f, body, size, Load(f).root)
            objs == a ++ u
            doc  == Load(f)
            new  == Load(g)
<1>1. /\ DOMAIN objs = DOMAIN a \cup DOMAIN u /\ \A id \in DOMAIN a : objs[id] = a[id]
      /\ \A id \in DOMAIN u \ DOMAIN a : objs[id] = u[id]
  BY MergeIs, ZenonT(40)
<1>. HIDE DEF objs
<1>2. IsUpdate(f, g, body, objs, S, size, Load(f).root)
  BY FineUpdate DEF objs
<1>. HIDE DEF g
<1>3. UpdateLoads(f, g, body, objs, S, size, doc.root)
  BY <1>2, UpdateLoad
<1>4. IsChange(doc, objs, S, size)
  BY DEF IsFine, objs
<1>. HIDE DEF doc, new
<1>5. /\ DOMAIN new.objects = NewIds(f, objs, size) \cup DOMAIN doc.objects /\ new.root = doc.root
      /\ \A id \in DOMAIN objs \ S : new.objects[id] = Serialized(objs[id])
      /\ \A id \in DOMAIN objs \cap S : new.objects[id].t = "sig"
      /\ \A id \in NewIds(f, objs, size) \ DOMAIN objs : id = size /\ new.objects[id] = XrefObj
      /\ \A id \in DOMAIN doc.objects \ NewIds(f, objs, size) : new.objects[id] = doc.objects[id]
  BY <1>3 DEF UpdateLoads, doc, new
<1>6. DOMAIN objs \subseteq NewIds(f, objs, size) /\ NewIds(f, objs, size) \subseteq DOMAIN objs \cup {size}
  BY DEF NewIds
<1>7. size \notin DOMAIN doc.objects
  BY <1>4, <1>2 DEF IsChange, IsUpdate, Fits
<1>8. DOMAIN a \cap DOMAIN doc.objects = {} /\ DOMAIN u \subseteq DOMAIN doc.objects
  BY DEF doc
<1>9. \A id \in DOMAIN doc.objects :
        new.objects[id] = IF id \in DOMAIN u THEN Serialized(u[id]) ELSE doc.objects[id]
  BY <1>1, <1>5, <1>6, <1>7, <1>8
<1>10. \A id \in DOMAIN new.objects \ DOMAIN doc.objects :
         IF id \notin DOMAIN a THEN new.objects[id] = XrefObj
         ELSE IF id \in S THEN new.objects[id].t = "sig"
         ELSE new.objects[id] = Serialized(a[id])
  BY <1>1, <1>5, <1>6, <1>7, <1>8
<1>11. \A id \in DOMAIN a : id \in DOMAIN new.objects /\ id \notin DOMAIN doc.objects
  BY <1>1, <1>5, <1>6, <1>8
<1>12. DOMAIN doc.objects \subseteq DOMAIN new.objects
  BY <1>5
<1>13. Updated(doc, new, a, S, u)
  BY <1>5, <1>9, <1>10, <1>11, <1>12 DEF Updated
<1>14. QED
  BY <1>13 DEF doc, new, g

-----------------------------------------------------------------------------
(* The fields and annotations of a document.                               *)

\* The form of a document, or the one a first signature brings.
FormOf(doc) == IF Catalog(doc).form.at = "none" THEN EmptyForm ELSE Resolve(doc, Catalog(doc).form)

LEMMA FormOfIs ==
  ASSUME NEW f, IsDoc(f)
  PROVE  LET doc == Load(f)
         IN  /\ FormOf(doc) \in Forms /\ FormIn(doc, FormOf(doc))
             /\ FormOf(doc).fields \in Holders(Arrays) /\ ArrayIn(doc, FormOf(doc).fields)
             /\ FieldIds(doc) = Elements(doc, FormOf(doc).fields)
             /\ FieldIds(doc) \in Seq(Nat) /\ Range(FieldIds(doc)) \subseteq DOMAIN doc.objects
<1>. DEFINE doc == Load(f)
<1>1. FormOf(doc) \in Forms /\ FormIn(doc, FormOf(doc)) /\ IsDocument(doc)
  BY FormIs DEF FormOf, IsDoc
<1>. HIDE DEF doc
<1>2. FormOf(doc).fields \in Holders(Arrays) /\ ArrayIn(doc, FormOf(doc).fields)
  BY <1>1 DEF Forms, FormIn
<1>3. FieldIds(doc) = Elements(doc, FormOf(doc).fields)
  <2>1. EmptyForm.fields.at = "none"
    BY DEF EmptyForm, Absent
  <2>2. Elements(doc, EmptyForm.fields) = << >>
    BY <2>1 DEF Elements
  <2>3. QED
    BY <2>2 DEF FieldIds, FormOf
<1>4. FieldIds(doc) \in Seq(Nat) /\ Range(FieldIds(doc)) \subseteq DOMAIN doc.objects
  BY <1>1, <1>2, <1>3, ElementsKnown
<1>5. QED
  BY <1>1, <1>2, <1>3, <1>4 DEF doc

LEMMA PageIs ==
  ASSUME NEW f, IsDoc(f), NEW p \in PageObjects(Load(f))
  PROVE  LET page == Load(f).objects[p]
         IN  /\ page \in Pages /\ page.annots \in Holders(Arrays) /\ ArrayIn(Load(f), page.annots)
             /\ Elements(Load(f), page.annots) \in Seq(Nat)
<1>. DEFINE doc == Load(f)
            page == doc.objects[p]
<1>1. p \in DOMAIN doc.objects /\ page.t = "page"
  BY DEF PageObjects
<1>2. IsSound(doc, page) /\ (IsValue(page) \/ page = XrefObj \/ page.t = "sig")
  BY <1>1, DocFacts DEF IsDoc
<1>3. IsDocument(doc)
  BY DEF IsDoc
<1>. HIDE DEF doc, page
<1>4. page \in Pages
  BY <1>1, <1>2, KindByName DEF XrefObj
<1>5. page.annots \in Holders(Arrays) /\ ArrayIn(doc, page.annots)
  BY <1>1, <1>2, <1>4 DEF Pages, IsSound
<1>6. QED
  BY <1>3, <1>4, <1>5, ElementsKnown DEF doc, page

LEMMA AnnotsAre ==
  ASSUME NEW f, IsDoc(f), NEW x
  PROVE  LET doc == Load(f)
         IN  x \in AnnotIds(doc) <=>
               \E p \in PageObjects(doc) : x \in Range(Elements(doc, doc.objects[p].annots))
<1>. DEFINE doc == Load(f)
            S   == PageObjects(doc)
<1>1. DOMAIN doc.objects \subseteq Nat /\ IsFiniteSet(DOMAIN doc.objects)
  BY DocFacts, LoadFacts, TableFacts DEF IsDoc
<1>2. PageIds(doc) = Ascending(S)
  BY DEF PageIds, PageObjects
<1>3. S \subseteq DOMAIN doc.objects
  BY DEF PageObjects
<1>. HIDE DEF doc, S
<1>4. IsFiniteSet(S) /\ S \subseteq Nat
  BY <1>1, <1>3, FS_Subset
<1>5. Range(Ascending(S)) = S
  <2>1. DOMAIN Ascending(S) = 1..Cardinality(S)
        /\ \A i \in 1..Cardinality(S) : Ascending(S)[i] = Nth(S, i)
    BY DEF Ascending
  <2>2. /\ \A i \in 1..Cardinality(S) : Nth(S, i) \in S
        /\ \A y \in S : \E i \in 1..Cardinality(S) : Nth(S, i) = y
    BY <1>4, NthFacts
  <2>3. QED
    BY <2>1, <2>2, Zenon DEF Range
<1>6. AnnotIds(doc) = UNION {Range(Elements(doc, doc.objects[p].annots)) : p \in S}
  BY <1>2, <1>5 DEF AnnotIds
<1>7. QED
  BY <1>6, Zenon DEF doc, S

\* An array whose object is the same has the same elements.
LEMMA SameElements ==
  ASSUME NEW old, NEW new, NEW holder \in Holders(Arrays), ArrayIn(old, holder),
         holder.at = "ref" => new.objects[holder.ref] = old.objects[holder.ref]
  PROVE  Elements(new, holder) = Elements(old, holder)
BY DEF Elements, Resolve

-----------------------------------------------------------------------------
(* Updates that leave the fields alone.                                    *)

\* The form is the same object, or the same value in the catalog.
LEMMA SameForm ==
  ASSUME NEW f, IsDoc(f), NEW new, SameFields(Load(f), new)
  PROVE  LET old == Load(f)
         IN  /\ Catalog(new).form = Catalog(old).form /\ FormOf(new) = FormOf(old)
             /\ Resolve(new, Catalog(new).form) = Resolve(old, Catalog(old).form)
<1>. DEFINE old == Load(f)
            holder == Catalog(old).form
<1>1. old.root \in DOMAIN old.objects /\ Catalog(old) \in Catalogs
  BY DocFacts DEF IsDoc
<1>2. holder.at = "ref" => holder.ref \in DOMAIN old.objects
                           /\ old.objects[holder.ref].t = "form"
  BY FormIs DEF IsDoc
<1>. HIDE DEF old
<1>3. Catalog(old).t = "catalog" /\ Catalog(new) = new.objects[old.root]
      /\ SameParts(Catalog(old), Catalog(new))
  BY <1>1 DEF SameFields, Catalog, Catalogs, old
<1>4. Catalog(new).form = holder
  BY <1>3 DEF SameParts
<1>. HIDE DEF holder
<1>5. holder.at = "ref" => new.objects[holder.ref] = old.objects[holder.ref]
  BY <1>2 DEF SameFields, SameParts, old
<1>6. Resolve(new, holder) = Resolve(old, holder)
  BY <1>5 DEF Resolve
<1>7. QED
  BY <1>4, <1>6 DEF FormOf, holder, old

LEMMA SameFieldIds ==
  ASSUME NEW f, IsDoc(f), NEW g, IsDoc(g), SameFields(Load(f), Load(g))
  PROVE  /\ FieldIds(Load(g)) = FieldIds(Load(f))
         /\ AnnotIds(Load(f)) \subseteq AnnotIds(Load(g))
<1>. DEFINE old == Load(f)
            new == Load(g)
<1>1. /\ FormOf(old).fields \in Holders(Arrays) /\ ArrayIn(old, FormOf(old).fields)
      /\ FieldIds(old) = Elements(old, FormOf(old).fields)
      /\ FieldIds(new) = Elements(new, FormOf(new).fields)
  BY FormOfIs
<1>2. FormOf(new) = FormOf(old)
  BY SameForm
<1>3. \A p \in PageObjects(old) :
        old.objects[p].annots \in Holders(Arrays) /\ ArrayIn(old, old.objects[p].annots)
  BY PageIs
<1>4. \A x : /\ x \in AnnotIds(old) <=>
                  \E p \in PageObjects(old) : x \in Range(Elements(old, old.objects[p].annots))
             /\ x \in AnnotIds(new) <=>
                  \E p \in PageObjects(new) : x \in Range(Elements(new, new.objects[p].annots))
  BY AnnotsAre
<1>5. SameFields(old, new)
  OBVIOUS
<1>. HIDE DEF old, new
<1>6. ASSUME NEW holder \in Holders(Arrays), ArrayIn(old, holder)
      PROVE  Elements(new, holder) = Elements(old, holder)
  <2>1. ASSUME holder.at = "ref" PROVE new.objects[holder.ref] = old.objects[holder.ref]
    <3>1. holder.ref \in DOMAIN old.objects /\ old.objects[holder.ref].t = "array"
      BY <1>6, <2>1 DEF ArrayIn, LeadsTo, Arrays
    <3>2. QED
      BY <1>5, <3>1 DEF SameFields, SameParts
  <2>2. QED
    BY <1>6, <2>1, SameElements
<1>7. FieldIds(new) = FieldIds(old)
  BY <1>1, <1>2, <1>6
<1>8. ASSUME NEW p \in PageObjects(old)
      PROVE  p \in PageObjects(new) /\ new.objects[p].annots = old.objects[p].annots
  <2>1. p \in DOMAIN old.objects /\ old.objects[p].t = "page"
    BY DEF PageObjects
  <2>2. QED
    BY <1>5, <2>1 DEF SameFields, SameParts, PageObjects
<1>9. \A p \in PageObjects(old) :
        Elements(new, new.objects[p].annots) = Elements(old, old.objects[p].annots)
  BY <1>3, <1>6, <1>8
<1>10. AnnotIds(old) \subseteq AnnotIds(new)
  <2>1. SUFFICES ASSUME NEW x \in AnnotIds(old) PROVE x \in AnnotIds(new)
    OBVIOUS
  <2>2. PICK p \in PageObjects(old) : x \in Range(Elements(old, old.objects[p].annots))
    BY <1>4
  <2>3. p \in PageObjects(new) /\ x \in Range(Elements(new, new.objects[p].annots))
    BY <1>8, <1>9, <2>2
  <2>4. QED
    BY <1>4, <2>3
<1>11. QED
  BY <1>7, <1>10 DEF old, new

\* The index of the field of a signature.
Mine(doc, s, i) ==
  /\ FieldIds(doc)[i] \in DOMAIN doc.objects
  /\ doc.objects[FieldIds(doc)[i]] = [t |-> "widget", sig |-> s]
LEMMA HasItsFieldIs ==
  ASSUME NEW doc, NEW s
  PROVE  HasItsField(doc, s) <=>
           \E i \in DOMAIN FieldIds(doc) :
             /\ Mine(doc, s, i) /\ \A j \in DOMAIN FieldIds(doc) : Mine(doc, s, j) => j = i
             /\ FieldIds(doc)[i] \in AnnotIds(doc)
             /\ ~Resolve(doc, Catalog(doc).form).needAppearances
BY Zenon DEF HasItsField, Mine

LEMMA SameFieldsKept ==
  ASSUME NEW f, IsDoc(f), NEW g, IsDoc(g), SameFields(Load(f), Load(g)), Settled(Load(f))
  PROVE  Settled(Load(g))
<1>. DEFINE old == Load(f)
            new == Load(g)
<1>1. /\ FieldIds(new) = FieldIds(old) /\ AnnotIds(old) \subseteq AnnotIds(new)
  BY SameFieldIds
<1>2. Resolve(new, Catalog(new).form) = Resolve(old, Catalog(old).form)
  BY SameForm
<1>3. Range(FieldIds(old)) \subseteq DOMAIN old.objects
  BY FormOfIs
<1>4. SameFields(old, new) /\ Settled(old)
  OBVIOUS
<1>. HIDE DEF old, new
<1>5. \A i \in DOMAIN FieldIds(old) : FieldIds(old)[i] \in DOMAIN old.objects
  BY <1>3 DEF Range
<1>6. ASSUME NEW id \in DOMAIN old.objects, NEW s
      PROVE  id \in DOMAIN new.objects
             /\ (new.objects[id] = [t |-> "widget", sig |-> s]
                   <=> old.objects[id] = [t |-> "widget", sig |-> s])
  BY <1>4 DEF SameFields, SameParts
<1>7. \A s : \A i \in DOMAIN FieldIds(old) : Mine(new, s, i) <=> Mine(old, s, i)
  BY <1>1, <1>5, <1>6 DEF Mine
<1>8. SignatureIds(new) \subseteq SignatureIds(old)
  BY <1>4 DEF SignatureIds, SameFields, SameParts
<1>9. ASSUME NEW s \in SignatureIds(new) PROVE HasItsField(new, s)
  <2>1. HasItsField(old, s)
    BY <1>4, <1>8 DEF Settled, Fielded
  <2>2. PICK i \in DOMAIN FieldIds(old) :
             /\ Mine(old, s, i) /\ \A j \in DOMAIN FieldIds(old) : Mine(old, s, j) => j = i
             /\ FieldIds(old)[i] \in AnnotIds(old)
             /\ ~Resolve(old, Catalog(old).form).needAppearances
    BY <2>1, HasItsFieldIs
  <2>3. /\ Mine(new, s, i) /\ \A j \in DOMAIN FieldIds(new) : Mine(new, s, j) => j = i
        /\ FieldIds(new)[i] \in AnnotIds(new)
        /\ ~Resolve(new, Catalog(new).form).needAppearances
    BY <1>1, <1>2, <1>7, <2>2
  <2>4. QED
    BY <1>1, <2>3, HasItsFieldIs
<1>10. Linked(new)
  <2>1. SUFFICES ASSUME NEW id \in DOMAIN new.objects, new.objects[id].t = "widget"
                 PROVE  new.objects[id].sig \in DOMAIN new.objects
    BY DEF Linked
  <2>2. id \in DOMAIN old.objects /\ new.objects[id] = old.objects[id]
    BY <1>4, <2>1 DEF SameFields, SameParts
  <2>3. QED
    BY <1>4, <2>1, <2>2 DEF Settled, Linked, SameFields
<1>11. QED
  BY <1>9, <1>10 DEF Settled, Fielded, new

-----------------------------------------------------------------------------
(* An update with a field.                                                 *)

\* What FieldUpdate writes for the object id of the document.
NewForm(doc, w)       == FormWith(doc, FormOf(doc), w)
NewCatalog(doc, w)    == [Catalog(doc) EXCEPT !.form = Inline(NewForm(doc, w))]
NewPage(doc, page, w) == [doc.objects[page] EXCEPT !.annots = Inline(Push(doc, @, w))]
Pushes(doc, page, w, id, v) ==
  LET old == doc.objects[id]
  IN  \/ old.t = "array" /\ id \in FieldArrays(doc) /\ v = Arr(Append(old.a, w))
      \/ /\ old.t = "page" /\ id = page /\ old.annots.at # "ref" /\ v = NewPage(doc, page, w)
      \/ /\ old.t = "form" /\ Catalog(doc).form.at = "ref" /\ id = Catalog(doc).form.ref
         /\ v = NewForm(doc, w)
      \/ /\ old.t = "catalog" /\ id = doc.root /\ Catalog(doc).form.at # "ref"
         /\ v = NewCatalog(doc, w)
AllPush(doc, page, w, u) ==
  /\ DOMAIN u \subseteq DOMAIN doc.objects
  /\ \A id \in DOMAIN u : Pushes(doc, page, w, id, u[id])

\* The arrays the fields and the annotations are in.
LEMMA FieldArraysAre ==
  ASSUME NEW doc, NEW x
  PROVE  x \in FieldArrays(doc) <=>
           \/ \E p \in DOMAIN doc.objects : LET h == doc.objects[p].annots
                                           IN  doc.objects[p].t = "page" /\ h.at = "ref" /\ x = h.ref
           \/ FormOf(doc).fields.at = "ref" /\ x = FormOf(doc).fields.ref
<1>. DEFINE form  == Catalog(doc).form
            pages == {id \in DOMAIN doc.objects : doc.objects[id].t = "page"}
            here  == {doc.objects[p].annots : p \in pages}
            there == IF form.at = "none" THEN {} ELSE {Resolve(doc, form).fields}
            all   == here \cup there
<1>1. \A h : h \in here <=> \E p \in DOMAIN doc.objects : doc.objects[p].t = "page" /\ h = doc.objects[p].annots
  OBVIOUS
<1>2. EmptyForm.fields.at = "none"
  BY DEF EmptyForm, Absent
<1>3. \A h : h.at = "ref" => (h \in there <=> h = FormOf(doc).fields)
  BY <1>2 DEF FormOf
<1>4. FormOf(doc).fields.at = "ref" => FormOf(doc).fields \in there
  BY <1>3
<1>5. FieldArrays(doc) = {h.ref : h \in {y \in all : y.at = "ref"}}
  BY Zenon DEF FieldArrays
<1>. HIDE DEF here, there
<1>6. x \in FieldArrays(doc) <=> \E h \in here \cup there : h.at = "ref" /\ x = h.ref
  BY <1>5
<1>7. ASSUME NEW h \in here \cup there, h.at = "ref", x = h.ref
      PROVE  \/ \E p \in DOMAIN doc.objects : /\ doc.objects[p].t = "page"
                                              /\ doc.objects[p].annots.at = "ref"
                                              /\ x = doc.objects[p].annots.ref
             \/ FormOf(doc).fields.at = "ref" /\ x = FormOf(doc).fields.ref
  BY <1>1, <1>3, <1>7
<1>8. QED
  BY <1>1, <1>4, <1>6, <1>7

LEMMA QueuePushes ==
  ASSUME NEW doc, NEW page, NEW w, NEW id \in DOMAIN doc.objects, NEW v,
         Pushes(doc, page, w, id, v)
  PROVE  AllPush(doc, page, w, Queue(id, v)) /\ id \in DOMAIN Queue(id, v)
<1>. DEFINE q == Queue(id, v)
<1>1. DOMAIN q = {id} /\ q[id] = v
  BY QueueIs
<1>. HIDE DEF q
<1>2. AllPush(doc, page, w, q) /\ id \in DOMAIN q
  BY <1>1 DEF AllPush
<1>3. QED
  BY <1>2 DEF q

LEMMA ArrayPushes ==
  ASSUME NEW doc, NEW page, NEW w, NEW holder, ArrayIn(doc, holder), holder.at = "ref",
         holder.ref \in FieldArrays(doc)
  PROVE  LET q == Queue(holder.ref, Push(doc, holder, w))
         IN  AllPush(doc, page, w, q) /\ holder.ref \in DOMAIN q
<1>1. holder.ref \in DOMAIN doc.objects /\ doc.objects[holder.ref].t = "array"
  BY DEF ArrayIn, LeadsTo, Arrays
<1>2. Push(doc, holder, w) = Arr(Append(doc.objects[holder.ref].a, w))
  BY DEF Push, Resolve
<1>. HIDE DEF Arr
<1>3. Pushes(doc, page, w, holder.ref, Push(doc, holder, w))
  BY <1>1, <1>2 DEF Pushes
<1>4. QED
  BY <1>1, <1>3, QueuePushes

LEMMA MergePushes ==
  ASSUME NEW doc, NEW page, NEW w, NEW a, NEW b, AllPush(doc, page, w, a), AllPush(doc, page, w, b)
  PROVE  AllPush(doc, page, w, a ++ b)
<1>. DEFINE c == a ++ b
<1>1. /\ DOMAIN c = DOMAIN a \cup DOMAIN b /\ \A id \in DOMAIN a : c[id] = a[id]
      /\ \A id \in DOMAIN b \ DOMAIN a : c[id] = b[id]
  BY MergeIs
<1>. HIDE DEF c
<1>2. AllPush(doc, page, w, c)
  BY <1>1 DEF AllPush
<1>3. QED
  BY <1>1, <1>2 DEF c

LEMMA RewritesAre ==
  ASSUME NEW f, IsDoc(f), NEW page \in PageObjects(Load(f)), NEW w
  PROVE  LET doc    == Load(f)
             u      == Rewrites(doc, page, w)
             annots == doc.objects[page].annots
             fields == FormOf(doc).fields
             form   == Catalog(doc).form
         IN  /\ AllPush(doc, page, w, u)
             /\ (IF annots.at = "ref" THEN annots.ref ELSE page) \in DOMAIN u
             /\ (IF form.at = "ref" THEN form.ref ELSE doc.root) \in DOMAIN u
             /\ fields.at = "ref" => fields.ref \in DOMAIN u
<1>. DEFINE doc    == Load(f)
            annots == doc.objects[page].annots
            fields == FormOf(doc).fields
            form   == Catalog(doc).form
            P == PageUpdate(doc, page, w)
            F == FieldsUpdate(doc, FormOf(doc), w)
            G == IF form.at = "ref" THEN Queue(form.ref, NewForm(doc, w))
                 ELSE Queue(doc.root, NewCatalog(doc, w))
<1>1. /\ annots \in Holders(Arrays) /\ ArrayIn(doc, annots)
      /\ page \in DOMAIN doc.objects /\ doc.objects[page].t = "page"
  BY PageIs DEF PageObjects
<1>2. fields \in Holders(Arrays) /\ ArrayIn(doc, fields)
  BY FormOfIs
<1>3. /\ form.at = "ref" => form.ref \in DOMAIN doc.objects /\ doc.objects[form.ref].t = "form"
      /\ doc.root \in DOMAIN doc.objects /\ Catalog(doc) \in Catalogs
  BY FormIs, DocFacts DEF IsDoc
<1>. HIDE DEF doc
<1>4. Catalog(doc) = doc.objects[doc.root] /\ Catalog(doc).t = "catalog"
  BY <1>3 DEF Catalog, Catalogs
<1>16. annots.at = "ref" => annots.ref \in FieldArrays(doc)
  BY <1>1, FieldArraysAre
<1>17. fields.at = "ref" => fields.ref \in FieldArrays(doc)
  BY FieldArraysAre
<1>5. AllPush(doc, page, w, P) /\ (IF annots.at = "ref" THEN annots.ref ELSE page) \in DOMAIN P
  <2>1. CASE annots.at = "ref"
    <3>1. P = Queue(annots.ref, Push(doc, annots, w))
      BY <2>1 DEF PageUpdate
    <3>2. QED
      BY <1>1, <1>16, <2>1, <3>1, ArrayPushes
  <2>2. CASE annots.at # "ref"
    <3>1. P = Queue(page, NewPage(doc, page, w))
      BY <2>2, Zenon DEF PageUpdate, NewPage
    <3>2. Pushes(doc, page, w, page, NewPage(doc, page, w))
      BY <1>1, <2>2 DEF Pushes
    <3>3. QED
      BY <1>1, <2>2, <3>1, <3>2, QueuePushes
  <2>3. QED
    BY <2>1, <2>2
<1>6. AllPush(doc, page, w, F) /\ (fields.at = "ref" => fields.ref \in DOMAIN F)
  <2>1. CASE fields.at = "ref"
    <3>1. F = Queue(fields.ref, Push(doc, fields, w))
      BY <2>1 DEF FieldsUpdate
    <3>2. QED
      BY <1>2, <1>17, <2>1, <3>1, ArrayPushes
  <2>2. CASE fields.at # "ref"
    <3>1. DOMAIN F = {}
      BY <2>2, EmptyTable DEF FieldsUpdate
    <3>2. QED
      BY <2>2, <3>1 DEF AllPush
  <2>3. QED
    BY <2>1, <2>2
<1>7. AllPush(doc, page, w, G) /\ (IF form.at = "ref" THEN form.ref ELSE doc.root) \in DOMAIN G
  <2>1. CASE form.at = "ref"
    <3>1. Pushes(doc, page, w, form.ref, NewForm(doc, w))
      BY <1>3, <2>1 DEF Pushes
    <3>2. QED
      BY <1>3, <2>1, <3>1, QueuePushes
  <2>2. CASE form.at # "ref"
    <3>1. Pushes(doc, page, w, doc.root, NewCatalog(doc, w))
      BY <1>4, <2>2 DEF Pushes
    <3>2. QED
      BY <1>3, <2>2, <3>1, QueuePushes
  <2>3. QED
    BY <2>1, <2>2
<1>8. FormUpdate(doc, w) = F ++ G
  BY Zenon DEF FormUpdate, FormOf, NewForm, NewCatalog
<1>9. Rewrites(doc, page, w) = P ++ (F ++ G)
  BY <1>8 DEF Rewrites
<1>. HIDE DEF P, F, G
<1>. DEFINE H == F ++ G
<1>10. AllPush(doc, page, w, H)
  BY <1>6, <1>7, MergePushes
<1>11. DOMAIN H = DOMAIN F \cup DOMAIN G
  BY MergeIs
<1>. HIDE DEF H
<1>. DEFINE I == P ++ H
<1>12. AllPush(doc, page, w, I)
  BY <1>5, <1>10, MergePushes
<1>15. DOMAIN I = DOMAIN P \cup DOMAIN H
  BY MergeIs
<1>13. Rewrites(doc, page, w) = I
  BY <1>9 DEF H
<1>. HIDE DEF I
<1>14. QED
  BY <1>5, <1>6, <1>7, <1>11, <1>12, <1>13, <1>15 DEF doc

\* The document has the field w for the signature s, and all it had before.
FieldAdded(old, new, w, s) ==
  /\ FieldIds(new) = Append(FieldIds(old), w)
  /\ AnnotIds(old) \cup {w} \subseteq AnnotIds(new)
  /\ ~Resolve(new, Catalog(new).form).needAppearances
  /\ Keeps(old, new)
  /\ w \in DOMAIN new.objects \ DOMAIN old.objects /\ s \in DOMAIN new.objects \ DOMAIN old.objects
  /\ new.objects[w] = [t |-> "widget", sig |-> s]
  /\ \A id \in DOMAIN new.objects \ DOMAIN old.objects :
       /\ new.objects[id].t = "widget" => id = w
       /\ new.objects[id].t = "sig" => id = s

LEMMA FieldAddedKept ==
  ASSUME NEW f, IsDoc(f), NEW new, NEW w, NEW s, FieldAdded(Load(f), new, w, s), Settled(Load(f))
  PROVE  Settled(new)
<1>. DEFINE old    == Load(f)
            fields == FieldIds(old)
            n      == Len(fields)
<1>1. fields \in Seq(Nat) /\ Range(fields) \subseteq DOMAIN old.objects
  BY FormOfIs
<1>2. FieldAdded(old, new, w, s) /\ Settled(old)
  OBVIOUS
<1>. HIDE DEF old, fields
<1>3. /\ FieldIds(new) = Append(fields, w) /\ n \in Nat /\ DOMAIN fields = 1..n
      /\ DOMAIN FieldIds(new) = 1..(n + 1) /\ FieldIds(new)[n + 1] = w
      /\ \A i \in 1..n : FieldIds(new)[i] = fields[i] /\ fields[i] \in DOMAIN old.objects
  <2>1. FieldIds(new) = Append(fields, w)
    BY <1>2 DEF FieldAdded, fields
  <2>2. /\ n \in Nat /\ DOMAIN fields = 1..n /\ Len(Append(fields, w)) = n + 1
        /\ Append(fields, w)[n + 1] = w /\ DOMAIN Append(fields, w) = 1..(n + 1)
        /\ \A i \in 1..n : Append(fields, w)[i] = fields[i]
    BY <1>1
  <2>3. QED
    BY <1>1, <2>1, <2>2 DEF Range
<1>. HIDE DEF n
<1>4. ASSUME NEW id \in DOMAIN old.objects, NEW x
      PROVE  id \in DOMAIN new.objects
             /\ (new.objects[id] = [t |-> "widget", sig |-> x]
                   <=> old.objects[id] = [t |-> "widget", sig |-> x])
  BY <1>2 DEF FieldAdded, Keeps, Containers
<1>5. \A x : \A i \in 1..n : Mine(new, x, i) <=> Mine(old, x, i)
  BY <1>3, <1>4 DEF Mine, fields
<1>6. \A x : Mine(new, x, n + 1) <=> x = s
  BY <1>2, <1>3 DEF Mine, FieldAdded
<1>7. s \notin DOMAIN old.objects /\ ~Resolve(new, Catalog(new).form).needAppearances
  BY <1>2 DEF FieldAdded
<1>8. ASSUME NEW i \in 1..n PROVE ~Mine(old, s, i)
  <2>1. SUFFICES ASSUME Mine(old, s, i) PROVE FALSE
    OBVIOUS
  <2>2. fields[i] \in DOMAIN old.objects /\ old.objects[fields[i]] = [t |-> "widget", sig |-> s]
    BY <2>1 DEF Mine, fields
  <2>3. s \in DOMAIN old.objects
    BY <1>2, <2>2 DEF Settled, Linked
  <2>4. QED
    BY <1>7, <2>3
<1>9. ASSUME NEW x \in SignatureIds(new) PROVE HasItsField(new, x)
  <2>1. CASE x = s
    <3>1. n + 1 \in DOMAIN FieldIds(new) /\ Mine(new, x, n + 1)
      BY <1>3, <1>6, <2>1
    <3>2. \A j \in DOMAIN FieldIds(new) : Mine(new, x, j) => j = n + 1
      BY <1>3, <1>5, <1>8, <2>1
    <3>3. FieldIds(new)[n + 1] \in AnnotIds(new)
      BY <1>2, <1>3 DEF FieldAdded
    <3>4. QED
      BY <1>7, <3>1, <3>2, <3>3, HasItsFieldIs
  <2>2. CASE x # s
    <3>1. x \in SignatureIds(old)
      BY <1>2, <2>2 DEF SignatureIds, FieldAdded, Keeps, Containers
    <3>2. HasItsField(old, x)
      BY <1>2, <3>1 DEF Settled, Fielded
    <3>3. PICK i \in 1..n :
               /\ Mine(old, x, i) /\ \A j \in 1..n : Mine(old, x, j) => j = i
               /\ fields[i] \in AnnotIds(old)
      BY <1>3, <3>2, HasItsFieldIs DEF fields
    <3>4. i \in DOMAIN FieldIds(new) /\ Mine(new, x, i)
      BY <1>3, <1>5, <3>3
    <3>5. \A j \in DOMAIN FieldIds(new) : Mine(new, x, j) => j = i
      BY <1>3, <1>5, <1>6, <2>2, <3>3
    <3>6. FieldIds(new)[i] \in AnnotIds(new)
      BY <1>2, <1>3, <3>3 DEF FieldAdded
    <3>7. QED
      BY <1>7, <3>4, <3>5, <3>6, HasItsFieldIs
  <2>3. QED
    BY <2>1, <2>2
<1>10. Linked(new)
  <2>1. SUFFICES ASSUME NEW id \in DOMAIN new.objects, new.objects[id].t = "widget"
                 PROVE  new.objects[id].sig \in DOMAIN new.objects
    BY DEF Linked
  <2>2. CASE id \in DOMAIN old.objects
    <3>1. new.objects[id] = old.objects[id]
      BY <1>2, <2>1, <2>2 DEF FieldAdded, Keeps, Containers
    <3>2. old.objects[id].sig \in DOMAIN old.objects
      BY <1>2, <2>1, <2>2, <3>1 DEF Settled, Linked
    <3>3. QED
      BY <1>2, <3>1, <3>2 DEF FieldAdded, Keeps
  <2>3. CASE id \notin DOMAIN old.objects
    BY <1>2, <2>1, <2>3 DEF FieldAdded
  <2>4. QED
    BY <2>2, <2>3
<1>11. QED
  BY <1>9, <1>10 DEF Settled, Fielded

\* The parts of what an update with a field writes.
LEMMA SerializedParts ==
  ASSUME NEW val
  PROVE  /\ val.t # "catalog" => Serialized(val) = val
         /\ val \in Catalogs => /\ Serialized(val).t = "catalog" /\ Serialized(val).form = val.form
                                /\ Serialized(val).dss = val.dss
BY DEF Serialized, Catalogs

LEMMA NewParts ==
  ASSUME NEW f, IsDoc(f), NEW page \in PageObjects(Load(f)), NEW w \in Nat
  PROVE  LET doc    == Load(f)
             annots == doc.objects[page].annots
             fields == FormOf(doc).fields
         IN  /\ NewPage(doc, page, w).t = "page"
             /\ NewPage(doc, page, w).annots = Inline(Push(doc, annots, w))
             /\ NewForm(doc, w).t = "form" /\ ~NewForm(doc, w).needAppearances
             /\ NewForm(doc, w).fields
                  = IF fields.at = "ref" THEN fields ELSE Inline(Push(doc, fields, w))
             /\ NewCatalog(doc, w) \in Catalogs
             /\ NewCatalog(doc, w).form = Inline(NewForm(doc, w))
             /\ NewCatalog(doc, w).dss = Catalog(doc).dss
<1>. DEFINE doc    == Load(f)
            annots == doc.objects[page].annots
            fields == FormOf(doc).fields
<1>1. doc.objects[page] \in Pages
  BY PageIs
<1>2. FormOf(doc) \in Forms /\ FormIn(doc, FormOf(doc))
  BY FormOfIs
<1>3. Catalog(doc) \in Catalogs /\ IsDocument(doc)
  BY DocFacts DEF IsDoc
<1>. HIDE DEF doc
<1>4. NewPage(doc, page, w).t = "page" /\ NewPage(doc, page, w).annots = Inline(Push(doc, annots, w))
  <2>. DEFINE i == Inline(Push(doc, annots, w))
  <2>1. NewPage(doc, page, w) = [doc.objects[page] EXCEPT !.annots = i]
    BY Zenon DEF NewPage
  <2>. HIDE DEF i
  <2>2. QED
    BY <1>1, <2>1 DEF Pages, i
<1>5. /\ NewForm(doc, w).t = "form" /\ ~NewForm(doc, w).needAppearances
      /\ NewForm(doc, w).fields = IF fields.at = "ref" THEN fields ELSE Inline(Push(doc, fields, w))
  <2>. DEFINE form == FormOf(doc)
              x    == IF form.fields.at = "ref" THEN form.fields ELSE Inline(Push(doc, form.fields, w))
  <2>1. NewForm(doc, w)
          = [form EXCEPT !.fields = x, !.sigFlags = TRUE, !.needAppearances = FALSE]
    BY Zenon DEF NewForm, FormWith
  <2>. HIDE DEF x, form
  <2>2. form \in Forms
    BY <1>2 DEF form
  <2>3. QED
    BY <2>1, <2>2 DEF Forms, x, form
<1>6. NewForm(doc, w) \in Forms
  BY <1>2, <1>3, FormWithIs DEF NewForm
<1>7. /\ NewCatalog(doc, w) \in Catalogs /\ NewCatalog(doc, w).form = Inline(NewForm(doc, w))
      /\ NewCatalog(doc, w).dss = Catalog(doc).dss
  <2>. DEFINE i == Inline(NewForm(doc, w))
  <2>1. i \in Holders(Forms)
    BY <1>6, InlineIn
  <2>2. NewCatalog(doc, w) = [Catalog(doc) EXCEPT !.form = i]
    BY Zenon DEF NewCatalog
  <2>. HIDE DEF i
  <2>3. QED
    BY <1>3, <2>1, <2>2 DEF Catalogs, i
<1>8. QED
  BY <1>4, <1>5, <1>7 DEF doc

\* What an array is after the update.
LEMMA PushedElements ==
  ASSUME NEW doc, NEW new, NEW a, NEW S, NEW u, NEW page, NEW w,
         Updated(doc, new, a, S, u), AllPush(doc, page, w, u),
         NEW holder \in Holders(Arrays), ArrayIn(doc, holder)
  PROVE  Elements(new, holder) = IF holder.at = "ref" /\ holder.ref \in DOMAIN u
                                 THEN Append(Elements(doc, holder), w) ELSE Elements(doc, holder)
<1>1. CASE holder.at = "ref" /\ holder.ref \in DOMAIN u
  <2>1. holder.ref \in DOMAIN doc.objects /\ doc.objects[holder.ref].t = "array"
    BY <1>1 DEF ArrayIn, LeadsTo, Arrays
  <2>2. u[holder.ref] = Arr(Append(doc.objects[holder.ref].a, w))
    BY <1>1, <2>1 DEF AllPush, Pushes
  <2>3. Arr(Append(doc.objects[holder.ref].a, w)).t = "array"
        /\ Arr(Append(doc.objects[holder.ref].a, w)).a = Append(doc.objects[holder.ref].a, w)
    BY DEF Arr
  <2>4. new.objects[holder.ref] = u[holder.ref]
    BY <1>1, <2>1, <2>2, <2>3, SerializedParts DEF Updated
  <2>5. QED
    BY <1>1, <2>2, <2>3, <2>4 DEF Elements, Resolve
<1>2. CASE holder.at = "ref" /\ holder.ref \notin DOMAIN u
  <2>1. holder.ref \in DOMAIN doc.objects
    BY <1>2 DEF ArrayIn, LeadsTo
  <2>2. new.objects[holder.ref] = doc.objects[holder.ref]
    BY <1>2, <2>1 DEF Updated
  <2>3. QED
    BY <1>2, <2>2, SameElements
<1>3. CASE holder.at # "ref"
  BY <1>3, SameElements
<1>4. QED
  BY <1>1, <1>2, <1>3

LEMMA InlineArray ==
  ASSUME NEW new, NEW s
  PROVE  Elements(new, Inline(Arr(s))) = s
<1>1. Arr(s).a = s
  BY DEF Arr
<1>2. Inline(Arr(s)).at = "inline" /\ Inline(Arr(s)).v = Arr(s)
  BY DEF Inline
<1>3. QED
  BY <1>1, <1>2 DEF Elements, Resolve

LEMMA InlineElements ==
  ASSUME NEW doc, NEW new, NEW holder \in Holders(Arrays), NEW w
  PROVE  Elements(new, Inline(Push(doc, holder, w))) = Append(Elements(doc, holder), w)
<1>1. CASE holder.at = "none"
  <2>1. Append(<< >>, w) = <<w>>
    OBVIOUS
  <2>2. Elements(doc, holder) = << >> /\ Push(doc, holder, w) = Arr(<<w>>)
    BY <1>1 DEF Elements, Push
  <2>3. QED
    BY <2>1, <2>2, InlineArray
<1>2. CASE holder.at # "none"
  <2>1. Push(doc, holder, w) = Arr(Append(Elements(doc, holder), w))
    BY <1>2 DEF Push, Elements
  <2>2. QED
    BY <2>1, InlineArray
<1>3. QED
  BY <1>1, <1>2

\* The form of the updated document.
LEMMA PushedForm ==
  ASSUME NEW f, IsDoc(f), NEW page \in PageObjects(Load(f)), NEW w \in Nat, NEW new, NEW a, NEW S,
         Updated(Load(f), new, a, S, Rewrites(Load(f), page, w))
  PROVE  LET doc == Load(f)
         IN  /\ Catalog(new).form.at # "none"
             /\ Resolve(new, Catalog(new).form) = NewForm(doc, w) /\ FormOf(new) = NewForm(doc, w)
             /\ Catalog(new).dss = Catalog(doc).dss /\ Catalog(new).t = "catalog"
<1>. DEFINE doc  == Load(f)
            u    == Rewrites(doc, page, w)
            form == Catalog(doc).form
<1>1. /\ AllPush(doc, page, w, u)
      /\ (IF form.at = "ref" THEN form.ref ELSE doc.root) \in DOMAIN u
  BY RewritesAre
<1>2. /\ NewForm(doc, w).t = "form" /\ NewCatalog(doc, w) \in Catalogs
      /\ NewCatalog(doc, w).form = Inline(NewForm(doc, w))
      /\ NewCatalog(doc, w).dss = Catalog(doc).dss
  BY NewParts
<1>3. /\ form.at = "ref" => form.ref \in DOMAIN doc.objects /\ doc.objects[form.ref].t = "form"
      /\ doc.root \in DOMAIN doc.objects /\ Catalog(doc) \in Catalogs
  BY FormIs, DocFacts DEF IsDoc
<1>4. Updated(doc, new, a, S, u)
  OBVIOUS
<1>. HIDE DEF doc, u
<1>5. Catalog(doc) = doc.objects[doc.root] /\ Catalog(doc).t = "catalog"
      /\ Catalog(new) = new.objects[doc.root]
  BY <1>3, <1>4 DEF Catalog, Catalogs, Updated
<1>6. CASE form.at = "ref"
  <2>1. doc.root \notin DOMAIN u
    BY <1>1, <1>5, <1>6 DEF AllPush, Pushes
  <2>2. Catalog(new) = Catalog(doc)
    BY <1>3, <1>4, <1>5, <2>1 DEF Updated
  <2>3. u[form.ref] = NewForm(doc, w)
    BY <1>1, <1>3, <1>6 DEF AllPush, Pushes
  <2>4. new.objects[form.ref] = NewForm(doc, w)
    BY <1>1, <1>2, <1>3, <1>4, <1>6, <2>3, SerializedParts DEF Updated
  <2>5. QED
    BY <1>5, <1>6, <2>2, <2>4 DEF Resolve, FormOf, doc
<1>7. CASE form.at # "ref"
  <2>1. u[doc.root] = NewCatalog(doc, w)
    BY <1>1, <1>5, <1>7 DEF AllPush, Pushes
  <2>2. Catalog(new) = Serialized(NewCatalog(doc, w))
    BY <1>1, <1>3, <1>4, <1>5, <1>7, <2>1 DEF Updated
  <2>3. /\ Catalog(new).form = Inline(NewForm(doc, w)) /\ Catalog(new).dss = Catalog(doc).dss
        /\ Catalog(new).t = "catalog"
    BY <1>2, <2>2, SerializedParts
  <2>4. Inline(NewForm(doc, w)).at = "inline" /\ Inline(NewForm(doc, w)).v = NewForm(doc, w)
    BY DEF Inline
  <2>5. QED
    BY <2>3, <2>4 DEF Resolve, FormOf, doc
<1>8. QED
  BY <1>6, <1>7

\* A page of the updated document.
LEMMA PushedPage ==
  ASSUME NEW f, IsDoc(f), NEW page \in PageObjects(Load(f)), NEW w \in Nat, NEW new, NEW a, NEW S,
         Updated(Load(f), new, a, S, Rewrites(Load(f), page, w)), NEW p \in PageObjects(Load(f))
  PROVE  LET doc  == Load(f)
             here == Elements(doc, doc.objects[p].annots)
             next == Elements(new, new.objects[p].annots)
         IN  /\ p \in PageObjects(new)
             /\ (next = here \/ next = Append(here, w))
             /\ (p = page => next = Append(here, w))
             /\ \/ new.objects[p].annots = doc.objects[p].annots
                \/ new.objects[p].annots.at # "ref"
<1>. DEFINE doc == Load(f)
            u   == Rewrites(doc, page, w)
            annots(q) == doc.objects[q].annots
<1>1. /\ AllPush(doc, page, w, u)
      /\ (IF annots(page).at = "ref" THEN annots(page).ref ELSE page) \in DOMAIN u
  BY RewritesAre
<1>2. /\ NewPage(doc, page, w).t = "page"
      /\ NewPage(doc, page, w).annots = Inline(Push(doc, annots(page), w))
  BY NewParts
<1>3. annots(p) \in Holders(Arrays) /\ ArrayIn(doc, annots(p))
  BY PageIs
<1>4. Updated(doc, new, a, S, u)
  OBVIOUS
<1>5. p \in DOMAIN doc.objects /\ doc.objects[p].t = "page"
  BY DEF PageObjects
<1>. HIDE DEF doc, u
<1>6. CASE p \in DOMAIN u
  <2>1. p = page /\ annots(p).at # "ref" /\ u[p] = NewPage(doc, page, w)
    BY <1>1, <1>5, <1>6 DEF AllPush, Pushes
  <2>2. new.objects[p] = NewPage(doc, page, w)
    BY <1>2, <1>4, <1>5, <1>6, <2>1, SerializedParts DEF Updated
  <2>3. new.objects[p].annots = Inline(Push(doc, annots(p), w))
    BY <1>2, <2>1, <2>2
  <2>4. Elements(new, new.objects[p].annots) = Append(Elements(doc, annots(p)), w)
    BY <1>3, <2>3, InlineElements
  <2>5. p \in PageObjects(new)
    BY <1>2, <1>4, <1>5, <2>2 DEF PageObjects, Updated
  <2>6. new.objects[p].annots.at # "ref"
    BY <2>3 DEF Inline
  <2>7. QED
    BY <2>4, <2>5, <2>6 DEF doc
<1>7. CASE p \notin DOMAIN u
  <2>1. new.objects[p] = doc.objects[p] /\ p \in PageObjects(new)
    BY <1>4, <1>5, <1>7 DEF Updated, PageObjects
  <2>. DEFINE h == annots(p)
  <2>2. Elements(new, h) = IF h.at = "ref" /\ h.ref \in DOMAIN u
                           THEN Append(Elements(doc, h), w) ELSE Elements(doc, h)
    <3>1. h \in Holders(Arrays) /\ ArrayIn(doc, h)
      BY <1>3
    <3>. HIDE DEF h
    <3>2. QED
      BY <1>1, <1>4, <3>1, PushedElements
  <2>3. p = page => annots(p).at = "ref" /\ annots(p).ref \in DOMAIN u
    BY <1>1, <1>7
  <2>4. QED
    BY <2>1, <2>2, <2>3 DEF doc
<1>8. QED
  BY <1>6, <1>7

LEMMA NewObjectsHave ==
  ASSUME NEW doc, doc.maxId \in Nat, NEW sub, NEW cap, NEW nap \in Nat
  PROVE  LET s == FreshId(doc, 1)
             w == FreshId(doc, nap + 2)
             a == NewObjects(doc, sub, cap, nap)
         IN  /\ s \in DOMAIN a /\ w \in DOMAIN a /\ a[w] = [t |-> "widget", sig |-> s] /\ w # s
             /\ \A id \in DOMAIN a : id = s \/ id = w \/ a[id] = ApObj
<1>. DEFINE s == FreshId(doc, 1)
            w == FreshId(doc, nap + 2)
            a == NewObjects(doc, sub, cap, nap)
<1>1. w # s
  BY DEF FreshId
<1>2. /\ IsNew(doc, a, {s}, nap + 2) /\ s \in DOMAIN a /\ w \in DOMAIN a
      /\ a[s] = [t |-> "newsig", sub |-> sub, cap |-> cap]
      /\ a[w] = [t |-> "widget", sig |-> s]
      /\ \A id \in DOMAIN a : id = s \/ id = w \/ a[id] = ApObj
  BY NewObjectsAre
<1>. HIDE DEF s, w, a
<1>3. /\ s \in DOMAIN a /\ w \in DOMAIN a /\ a[w] = [t |-> "widget", sig |-> s] /\ w # s
      /\ \A id \in DOMAIN a : id = s \/ id = w \/ a[id] = ApObj
  BY <1>1, <1>2
<1>4. QED
  BY <1>3 DEF s, w, a

\* build_incremental_update, build_doctimestamp_update: the document has a field more.
LEMMA FieldIsAdded ==
  ASSUME NEW f, IsDoc(f), NEW g, IsDoc(g), NEW page \in PageObjects(Load(f)),
         NEW sub, NEW cap, NEW nap \in Nat, NEW s, s = FreshId(Load(f), 1),
         NEW w, w = FreshId(Load(f), nap + 2), NEW a, a = NewObjects(Load(f), sub, cap, nap),
         Updated(Load(f), Load(g), a, {s}, Rewrites(Load(f), page, w)), Keeps(Load(f), Load(g))
  PROVE  FieldAdded(Load(f), Load(g), w, s)
<1>. DEFINE doc    == Load(f)
            new    == Load(g)
            u      == Rewrites(doc, page, w)
            fields == FormOf(doc).fields
<1>1. doc.maxId \in Nat
  BY DocFacts DEF IsDoc
<1>2. /\ s \in DOMAIN a /\ w \in DOMAIN a /\ a[w] = [t |-> "widget", sig |-> s] /\ w # s /\ w \in Nat
      /\ \A id \in DOMAIN a : id = s \/ id = w \/ a[id] = ApObj
  <2>1. w # s /\ w \in Nat
    BY <1>1 DEF FreshId
  <2>2. a = NewObjects(doc, sub, cap, nap) /\ s = FreshId(doc, 1) /\ w = FreshId(doc, nap + 2)
    OBVIOUS
  <2>. HIDE DEF doc
  <2>3. LET i == FreshId(doc, 1)
            j == FreshId(doc, nap + 2)
            t == NewObjects(doc, sub, cap, nap)
        IN  /\ i \in DOMAIN t /\ j \in DOMAIN t /\ t[j] = [t |-> "widget", sig |-> i] /\ j # i
            /\ \A id \in DOMAIN t : id = i \/ id = j \/ t[id] = ApObj
    BY <1>1, NewObjectsHave
  <2>4. QED
    BY <2>1, <2>2, <2>3
<1>3. AllPush(doc, page, w, u) /\ (fields.at = "ref" => fields.ref \in DOMAIN u)
  BY RewritesAre
<1>4. /\ NewForm(doc, w).fields = IF fields.at = "ref" THEN fields ELSE Inline(Push(doc, fields, w))
      /\ ~NewForm(doc, w).needAppearances
  BY <1>2, NewParts
<1>5. /\ fields \in Holders(Arrays) /\ ArrayIn(doc, fields) /\ FieldIds(doc) = Elements(doc, fields)
      /\ FieldIds(new) = Elements(new, FormOf(new).fields)
  BY FormOfIs
<1>6. Updated(doc, new, a, {s}, u) /\ Keeps(doc, new)
  OBVIOUS
<1>7. Resolve(new, Catalog(new).form) = NewForm(doc, w) /\ FormOf(new) = NewForm(doc, w)
  BY <1>2, PushedForm
<1>. DEFINE here(p) == Elements(doc, doc.objects[p].annots)
            next(p) == Elements(new, new.objects[p].annots)
<1>8. \A p \in PageObjects(doc) :
        /\ p \in PageObjects(new)
        /\ (next(p) = here(p) \/ next(p) = Append(here(p), w))
        /\ (p = page => next(p) = Append(here(p), w))
        /\ here(p) \in Seq(Nat)
  <2>1. SUFFICES ASSUME NEW p \in PageObjects(doc)
                 PROVE  /\ p \in PageObjects(new)
                        /\ (next(p) = here(p) \/ next(p) = Append(here(p), w))
                        /\ (p = page => next(p) = Append(here(p), w))
                        /\ here(p) \in Seq(Nat)
    OBVIOUS
  <2>2. here(p) \in Seq(Nat)
    BY PageIs
  <2>3. QED
    BY <1>2, <2>2, PushedPage
<1>9. \A x : /\ (x \in AnnotIds(doc) <=> \E p \in PageObjects(doc) : x \in Range(here(p)))
             /\ (x \in AnnotIds(new) <=> \E p \in PageObjects(new) : x \in Range(next(p)))
  BY AnnotsAre
<1>10. page \in PageObjects(doc)
  OBVIOUS
<1>. HIDE DEF doc, new, u, fields
<1>11. FieldIds(new) = Append(FieldIds(doc), w)
  <2>1. CASE fields.at = "ref"
    <3>1. Elements(new, fields) = Append(Elements(doc, fields), w)
      BY <1>3, <1>5, <1>6, <2>1, PushedElements
    <3>2. QED
      BY <1>4, <1>5, <1>7, <2>1, <3>1
  <2>2. CASE fields.at # "ref"
    <3>1. Elements(new, Inline(Push(doc, fields, w))) = Append(Elements(doc, fields), w)
      BY <1>5, InlineElements
    <3>2. QED
      BY <1>4, <1>5, <1>7, <2>2, <3>1
  <2>3. QED
    BY <2>1, <2>2
<1>12. ASSUME NEW e \in Seq(Nat)
       PROVE  Range(e) \subseteq Range(Append(e, w)) /\ w \in Range(Append(e, w))
  <2>1. /\ DOMAIN e = 1..Len(e) /\ Len(e) \in Nat /\ DOMAIN Append(e, w) = 1..(Len(e) + 1)
        /\ Append(e, w)[Len(e) + 1] = w /\ \A i \in 1..Len(e) : Append(e, w)[i] = e[i]
    OBVIOUS
  <2>2. QED
    BY <2>1 DEF Range
<1>. HIDE DEF here, next
<1>13. AnnotIds(doc) \cup {w} \subseteq AnnotIds(new)
  <2>1. ASSUME NEW x \in AnnotIds(doc) PROVE x \in AnnotIds(new)
    <3>1. PICK p \in PageObjects(doc) : x \in Range(here(p))
      BY <1>9
    <3>2. p \in PageObjects(new) /\ here(p) \in Seq(Nat)
          /\ (next(p) = here(p) \/ next(p) = Append(here(p), w))
      BY <1>8
    <3>3. x \in Range(next(p))
      BY <1>12, <3>1, <3>2
    <3>4. QED
      BY <1>9, <3>2, <3>3
  <2>2. w \in AnnotIds(new)
    <3>1. page \in PageObjects(new) /\ here(page) \in Seq(Nat) /\ next(page) = Append(here(page), w)
      BY <1>8, <1>10
    <3>2. w \in Range(next(page))
      BY <1>12, <3>1
    <3>3. QED
      BY <1>9, <3>1, <3>2
  <2>3. QED
    BY <2>1, <2>2
<1>14. /\ w \in DOMAIN new.objects \ DOMAIN doc.objects /\ s \in DOMAIN new.objects \ DOMAIN doc.objects
       /\ new.objects[w] = [t |-> "widget", sig |-> s]
  BY <1>2, <1>6, SerializedParts DEF Updated
<1>15. ASSUME NEW id \in DOMAIN new.objects \ DOMAIN doc.objects, id # w
       PROVE  new.objects[id].t # "widget" /\ (new.objects[id].t = "sig" => id = s)
  <2>1. CASE id \notin DOMAIN a
    BY <1>6, <2>1 DEF Updated, XrefObj
  <2>2. CASE id = s
    BY <1>2, <1>6, <2>2 DEF Updated
  <2>3. CASE id \in DOMAIN a /\ id # s
    <3>1. a[id] = ApObj
      BY <1>2, <1>15, <2>3
    <3>2. ApObj.t = "ap"
      BY DEF ApObj
    <3>3. new.objects[id] = ApObj
      BY <1>6, <2>3, <3>1, <3>2, SerializedParts DEF Updated
    <3>4. QED
      BY <3>2, <3>3
  <2>4. QED
    BY <2>1, <2>2, <2>3
<1>16. new.objects[w].t # "sig"
  BY <1>14
<1>17. QED
  BY <1>4, <1>6, <1>7, <1>11, <1>13, <1>14, <1>15, <1>16 DEF FieldAdded, doc, new

-----------------------------------------------------------------------------
(* How a document becomes another one.                                     *)

LEMMA IsMoved ==
  ASSUME NEW f, IsDoc(f), NEW a, NEW u, NEW S, NEW n \in Nat, NEW fresh, NEW size, NEW body,
         IsFine(f, a ++ u, S, size), IsBody(body, a ++ u, S), S \subseteq DOMAIN a,
         IsNew(Load(f), a, S, n), DOMAIN u \subseteq DOMAIN Load(f).objects
  PROVE  LET g == Render(f, body, size, Load(f).root)
         IN  IsDoc(g) /\ Updated(Load(f), Load(g), a, S, u) /\ Keeps(Load(f), Load(g))
<1>. DEFINE g == Render(f, body, size, Load(f).root)
<1>1. IsDocument(Load(f))
  BY DEF IsDoc
<1>2. DOMAIN a \cap DOMAIN Load(f).objects = {}
  <2>1. Load(f).maxId \in Nat /\ \A id \in DOMAIN Load(f).objects : id <= Load(f).maxId
        /\ DOMAIN Load(f).objects \subseteq Nat
    BY DocFacts DEF IsDoc
  <2>2. \A id \in DOMAIN a : id \in (Load(f).maxId + 1)..(Load(f).maxId + n)
    BY DEF IsNew, NextIds
  <2>3. QED
    BY <2>1, <2>2
<1>3. Updated(Load(f), Load(g), a, S, u)
  BY <1>1, <1>2, UpdatedIs
<1>4. IsSeq(g) /\ Readable(g) /\ IsDocument(Load(g)) /\ Keeps(Load(f), Load(g))
  BY <1>1, FineUpdate
<1>5. QED
  BY <1>3, <1>4 DEF IsDoc

LEMMA FieldMoved ==
  ASSUME NEW f, IsDoc(f), NEW page \in PageObjects(Load(f)), NEW sub, NEW cap \in Nat, NEW nap \in Nat
  PROVE  LET doc  == Load(f)
             body == SignedBody(FieldUpdate(doc, page, sub, cap, nap), FreshId(doc, 1))
             g    == Render(f, body, FreshId(doc, nap + 3), doc.root)
         IN  IsDoc(g) /\ FieldMove(f, g) /\ Keeps(Load(f), Load(g))
<1>. DEFINE doc  == Load(f)
            objs == FieldUpdate(doc, page, sub, cap, nap)
            s    == FreshId(doc, 1)
            size == FreshId(doc, nap + 3)
            body == SignedBody(objs, s)
            a    == NewObjects(doc, sub, cap, nap)
            u    == Rewrites(doc, page, FreshId(doc, nap + 2))
            g    == Render(f, body, size, doc.root)
<1>1. IsSeq(f) /\ Readable(f) /\ IsDocument(doc) /\ doc.maxId \in Nat
  BY DocFacts DEF IsDoc
<1>2. page \in DOMAIN doc.objects /\ doc.objects[page].t = "page"
  BY DEF PageObjects
<1>3. IsFine(f, objs, {s}, size)
  BY <1>1, <1>2, FieldUpdateFine
<1>4. s \in DOMAIN objs
  BY <1>1, <1>2, FieldUpdateFine
<1>5. objs[s].cap = cap
  <2>1. objs[s] = [t |-> "newsig", sub |-> sub, cap |-> cap]
    BY FieldUpdateFacts
  <2>2. QED
    BY <2>1
<1>6. objs = a ++ u
  BY FieldUpdateIs DEF Rewrites
<1>7. IsNew(doc, a, {s}, nap + 2) /\ s \in DOMAIN a
  <2>. HIDE DEF doc
  <2>1. QED
    BY <1>1, NewObjectsAre
<1>8. DOMAIN u \subseteq DOMAIN doc.objects
  BY RewritesAre DEF AllPush
<1>. HIDE DEF objs, s, size, a, u
<1>9. IsBody(body, objs, {s})
  BY <1>3, <1>4, <1>5, SignedBodyIsBody DEF IsFine
<1>. HIDE DEF body
<1>10. IsDoc(g) /\ Updated(doc, Load(g), a, {s}, u) /\ Keeps(doc, Load(g))
  <2>1. nap + 2 \in Nat /\ {s} \subseteq DOMAIN a
    BY <1>7
  <2>2. IsFine(f, a ++ u, {s}, size) /\ IsBody(body, a ++ u, {s})
    BY <1>3, <1>6, <1>9
  <2>3. QED
    BY <1>7, <1>8, <2>1, <2>2, IsMoved
<1>. HIDE DEF g
<1>11. FieldMove(f, g)
  BY <1>10 DEF FieldMove, a, s, u
<1>12. QED
  BY <1>10, <1>11 DEF g, body, objs, s, size

LEMMA DssMoved ==
  ASSUME NEW f, IsDoc(f), NEW m \in Materials
  PROVE  LET doc == Load(f)
             g   == Render(f, PlainBody(DssUpdate(doc, m)), FreshId(doc, NewBlobs(doc, m) + 1),
                           doc.root)
         IN  IsDoc(g) /\ DssMove(f, g)
<1>. DEFINE doc  == Load(f)
            objs == DssUpdate(doc, m)
            n    == NewBlobs(doc, m)
            size == FreshId(doc, n + 1)
            body == PlainBody(objs)
            a    == NewMaterial(doc, m)
            u    == DssRewrite(doc, m)
            g    == Render(f, body, size, doc.root)
<1>1. IsSeq(f) /\ Readable(f) /\ IsDocument(doc) /\ doc.maxId \in Nat /\ Materialized(m)
  BY DocFacts, SizesAssumption DEF IsDoc, Materialized
<1>2. IsFine(f, objs, {}, size)
  BY <1>1, DssUpdateFine
<1>3. objs = a ++ u
  BY DssUpdateIs
<1>4. IsNew(doc, a, {}, n) /\ n \in Nat
  BY <1>1, NewMaterialIs, LackFacts
<1>5. DOMAIN u \subseteq DOMAIN doc.objects
  BY <1>1, DssRewriteIs DEF IsRewrite
<1>. HIDE DEF objs, n, size, a, u
<1>6. IsBody(body, objs, {})
  BY <1>2, PlainBodyIsBody DEF IsFine
<1>. HIDE DEF body
<1>7. IsDoc(g) /\ Updated(doc, Load(g), a, {}, u)
  <2>1. IsFine(f, a ++ u, {}, size) /\ IsBody(body, a ++ u, {}) /\ {} \subseteq DOMAIN a
    BY <1>2, <1>3, <1>6
  <2>2. QED
    BY <1>4, <1>5, <2>1, IsMoved
<1>. HIDE DEF g
<1>8. DssMove(f, g)
  BY <1>7 DEF DssMove, a, u
<1>9. QED
  BY <1>7, <1>8 DEF g, body, objs, size, n

-----------------------------------------------------------------------------
(* The content of the pages.                                               *)

LEMMA BodiesAre ==
  ASSUME NEW f, IsDoc(f), NEW p \in PageObjects(Load(f))
  PROVE  Load(f).objects[p].body \in Nat
BY PageIs DEF Pages

LEMMA PagesKept ==
  ASSUME NEW old, NEW new, Keeps(old, new), NEW id \in DOMAIN old.objects
  PROVE  /\ id \in DOMAIN new.objects /\ new.objects[id].t = old.objects[id].t
         /\ old.objects[id].t = "ap" => new.objects[id] = old.objects[id]
BY DEF Keeps, Containers

LEMMA PagesGrewTransitive ==
  ASSUME NEW f, NEW g, NEW h, IsDoc(f), IsDoc(g), IsDoc(h),
         Keeps(Load(f), Load(g)), Keeps(Load(g), Load(h)),
         PagesGrew(Load(f), Load(g)), PagesGrew(Load(g), Load(h))
  PROVE  PagesGrew(Load(f), Load(h))
<1>1. SUFFICES ASSUME NEW p \in PageObjects(Load(f))
               PROVE  Load(f).objects[p].body <= Load(h).objects[p].body
  BY DEF PagesGrew
<1>2. p \in PageObjects(Load(g))
  BY PagesKept DEF PageObjects
<1>3. p \in PageObjects(Load(h))
  BY <1>2, PagesKept DEF PageObjects
<1>4. PICK i \in Nat, j \in Nat, k \in Nat :
        i = Load(f).objects[p].body /\ j = Load(g).objects[p].body /\ k = Load(h).objects[p].body
  BY <1>2, <1>3, BodiesAre
<1>5. i <= j /\ j <= k
  BY <1>2, <1>4 DEF PagesGrew
<1>6. i <= k
  BY <1>5
<1>7. QED
  BY <1>4, <1>6

\* An edit stays one, whatever comes before and after it.
LEMMA EditedBefore ==
  ASSUME NEW e, NEW f, NEW g, IsDoc(e), IsDoc(f), IsDoc(g),
         Keeps(Load(e), Load(f)), Keeps(Load(f), Load(g)), PagesGrew(Load(e), Load(f)),
         Edited(Load(f), Load(g))
  PROVE  Edited(Load(e), Load(g))
<1>1. PICK id \in DOMAIN Load(g).objects : IsEdit(Load(f), Load(g), id)
  BY DEF Edited
<1>2. ASSUME id \in DOMAIN Load(e).objects
      PROVE  /\ Load(g).objects[id].t = "page"
             /\ Load(e).objects[id].body < Load(g).objects[id].body
  <2>1. /\ id \in DOMAIN Load(f).objects /\ Load(f).objects[id].t = Load(e).objects[id].t
        /\ Load(g).objects[id].t = Load(f).objects[id].t
    BY <1>2, PagesKept
  <2>2. Load(g).objects[id].t = "page" /\ Load(f).objects[id].body < Load(g).objects[id].body
    BY <1>1, <2>1 DEF IsEdit
  <2>3. /\ id \in PageObjects(Load(e)) /\ id \in PageObjects(Load(f))
        /\ id \in PageObjects(Load(g))
    BY <1>1, <1>2, <2>1, <2>2 DEF PageObjects
  <2>4. PICK i \in Nat, j \in Nat, k \in Nat :
          /\ i = Load(e).objects[id].body /\ j = Load(f).objects[id].body
          /\ k = Load(g).objects[id].body
    BY <2>3, BodiesAre
  <2>5. i <= j /\ j < k
    BY <2>2, <2>3, <2>4 DEF PagesGrew
  <2>6. i < k
    BY <2>5
  <2>7. QED
    BY <2>2, <2>4, <2>6
<1>3. Load(g).objects[id].t \in {"page", "ap"}
  BY <1>1 DEF IsEdit
<1>4. QED
  BY <1>2, <1>3 DEF Edited, IsEdit

LEMMA EditedAfter ==
  ASSUME NEW e, NEW f, NEW g, IsDoc(e), IsDoc(f), IsDoc(g),
         Keeps(Load(e), Load(f)), Keeps(Load(f), Load(g)), PagesGrew(Load(f), Load(g)),
         Edited(Load(e), Load(f))
  PROVE  Edited(Load(e), Load(g))
<1>1. PICK id \in DOMAIN Load(f).objects : IsEdit(Load(e), Load(f), id)
  BY DEF Edited
<1>2. id \in DOMAIN Load(g).objects /\ Load(g).objects[id].t = Load(f).objects[id].t
  BY PagesKept
<1>3. ASSUME id \in DOMAIN Load(e).objects
      PROVE  /\ Load(g).objects[id].t = "page"
             /\ Load(e).objects[id].body < Load(g).objects[id].body
  <2>1. Load(f).objects[id].t = "page" /\ Load(e).objects[id].body < Load(f).objects[id].body
    BY <1>1, <1>3 DEF IsEdit
  <2>2. Load(e).objects[id].t = "page"
    BY <1>3, <2>1, PagesKept
  <2>3. /\ id \in PageObjects(Load(e)) /\ id \in PageObjects(Load(f))
        /\ id \in PageObjects(Load(g))
    BY <1>1, <1>2, <1>3, <2>1, <2>2 DEF PageObjects
  <2>4. PICK i \in Nat, j \in Nat, k \in Nat :
          /\ i = Load(e).objects[id].body /\ j = Load(f).objects[id].body
          /\ k = Load(g).objects[id].body
    BY <2>3, BodiesAre
  <2>5. i < j /\ j <= k
    BY <2>1, <2>3, <2>4 DEF PagesGrew
  <2>6. i < k
    BY <2>5
  <2>7. QED
    BY <1>2, <2>1, <2>4, <2>6
<1>4. Load(g).objects[id].t \in {"page", "ap"}
  BY <1>1, <1>2 DEF IsEdit
<1>5. QED
  BY <1>2, <1>3, <1>4 DEF Edited, IsEdit

-----------------------------------------------------------------------------
(* Updates by other programs.                                              *)

LEMMA AlikeMoved ==
  ASSUME NEW f, IsDoc(f), NEW g, AlikeDocs(Load(f), Load(g))
  PROVE  QuietMove(f, g)
<1>1. Load(f).root \in DOMAIN Load(f).objects /\ Catalog(Load(f)) \in Catalogs
  BY DocFacts DEF IsDoc
<1>2. Catalog(Load(g)) = Catalog(Load(f))
  BY <1>1 DEF Catalog, Catalogs, AlikeDocs
<1>3. QED
  BY <1>2 DEF QuietMove, SameFields, SameParts, AlikeDocs

LEMMA PageMoved ==
  ASSUME NEW f, IsDoc(f)
  PROVE  LET doc == Load(f)
             p   == PageIds(doc)[1]
             g   == Render(f, PlainBody(Queue(p, [doc.objects[p] EXCEPT !.body = @ + 1])),
                           doc.maxId + 1, doc.root)
         IN  /\ IsDoc(g) /\ QuietMove(f, g)
             /\ PagesGrew(Load(f), Load(g)) /\ Edited(Load(f), Load(g))
<1>. DEFINE doc  == Load(f)
            p    == PageIds(doc)[1]
            v    == [doc.objects[p] EXCEPT !.body = @ + 1]
            u    == Queue(p, v)
            size == doc.maxId + 1
            g    == Render(f, PlainBody(u), size, doc.root)
<1>1. IsSeq(f) /\ Readable(f) /\ IsDocument(doc) /\ doc.maxId \in Nat
      /\ doc.root \in DOMAIN doc.objects /\ Catalog(doc) \in Catalogs
  BY DocFacts DEF IsDoc
<1>2. p \in PageObjects(doc)
  BY <1>1, PagesAre
<1>3. doc.objects[p] \in Pages /\ p \in DOMAIN doc.objects
  BY <1>2, PageIs DEF PageObjects
<1>4. IsFine(f, u, {}, size)
  BY <1>1, EditPageFine
<1>. HIDE DEF doc
<1>5. /\ v.t = "page" /\ v.annots = doc.objects[p].annots /\ doc.objects[p].t = "page"
      /\ v.body = doc.objects[p].body + 1
  BY <1>3 DEF Pages
<1>. HIDE DEF v
<1>6. DOMAIN u = {p} /\ u[p] = v /\ << >> ++ u = u
  BY QueueIs, MergeNothing
<1>. HIDE DEF u, p, size
<1>7. IsNew(doc, << >>, {}, 0) /\ {} \subseteq DOMAIN << >>
  BY EmptyTable DEF IsNew
<1>8. IsBody(PlainBody(u), u, {})
  BY <1>4, PlainBodyIsBody DEF IsFine
<1>9. IsDoc(g) /\ Updated(doc, Load(g), << >>, {}, u)
  BY <1>3, <1>4, <1>6, <1>7, <1>8, IsMoved DEF doc
<1>. HIDE DEF g
<1>10. \A id \in DOMAIN doc.objects : Load(g).objects[id] = IF id = p THEN v ELSE doc.objects[id]
  BY <1>5, <1>6, <1>9, SerializedParts DEF Updated
<1>11. \A id \in DOMAIN Load(g).objects \ DOMAIN doc.objects : Load(g).objects[id] = XrefObj
  BY <1>9, EmptyTable DEF Updated
<1>12. SameFields(doc, Load(g))
  BY <1>3, <1>5, <1>9, <1>10, <1>11 DEF SameFields, SameParts, Updated, XrefObj
<1>13. Catalog(Load(g)) = Catalog(doc)
  BY <1>1, <1>5, <1>9, <1>10 DEF Catalog, Catalogs, Updated
<1>14. QuietMove(f, g)
  BY <1>5, <1>10, <1>12, <1>13 DEF QuietMove, doc
<1>15. doc.objects[p].body \in Nat /\ \A id \in PageObjects(doc) : doc.objects[id].body \in Nat
  BY <1>3, BodiesAre DEF doc, Pages
<1>16. PagesGrew(doc, Load(g))
  BY <1>5, <1>10, <1>15 DEF PagesGrew, PageObjects
<1>17. Edited(doc, Load(g))
  <2>1. p \in DOMAIN Load(g).objects /\ Load(g).objects[p] = v
    BY <1>3, <1>9, <1>10 DEF Updated
  <2>2. IsEdit(doc, Load(g), p)
    BY <1>5, <1>15, <2>1 DEF IsEdit
  <2>3. QED
    BY <2>1, <2>2 DEF Edited
<1>18. QED
  BY <1>9, <1>14, <1>16, <1>17 DEF g, u, v, p, size, doc

LEMMA ObjectMoved ==
  ASSUME NEW f, IsDoc(f)
  PROVE  LET doc == Load(f)
             g   == Render(f, PlainBody(Queue(FreshId(doc, 1), ApObj)), FreshId(doc, 2), doc.root)
         IN  /\ IsDoc(g) /\ QuietMove(f, g)
             /\ PagesGrew(Load(f), Load(g)) /\ Edited(Load(f), Load(g))
<1>. DEFINE doc  == Load(f)
            i    == FreshId(doc, 1)
            a    == Queue(i, ApObj)
            size == FreshId(doc, 2)
            g    == Render(f, PlainBody(a), size, doc.root)
<1>1. IsSeq(f) /\ Readable(f) /\ IsDocument(doc) /\ doc.maxId \in Nat
      /\ doc.root \in DOMAIN doc.objects
  BY DocFacts DEF IsDoc
<1>2. IsFine(f, a, {}, size)
  BY <1>1, EditObjectFine
<1>3. DOMAIN a = {i} /\ a[i] = ApObj /\ a ++ << >> = a
  BY QueueIs, MergeNothing
<1>4. i \in NextIds(doc, 1)
  BY <1>1 DEF FreshId, NextIds
<1>5. IsValue(ApObj) /\ \A new : IsSound(new, ApObj)
  BY DEF IsValue, IsSound, ApObj
<1>. HIDE DEF a, i, size
<1>6. IsNew(doc, a, {}, 1) /\ {} \subseteq DOMAIN a
  BY <1>3, <1>4, <1>5 DEF IsNew
<1>7. IsBody(PlainBody(a), a, {})
  BY <1>2, PlainBodyIsBody DEF IsFine
<1>8. IsDoc(g) /\ Updated(doc, Load(g), a, {}, << >>)
  <2>1. DOMAIN << >> \subseteq DOMAIN doc.objects
    BY EmptyTable
  <2>2. QED
    BY <1>2, <1>3, <1>6, <1>7, <2>1, IsMoved
<1>. HIDE DEF g
<1>9. \A id \in DOMAIN doc.objects : Load(g).objects[id] = doc.objects[id]
  BY <1>8, EmptyTable DEF Updated
<1>10. \A id \in DOMAIN Load(g).objects \ DOMAIN doc.objects :
         Load(g).objects[id] = XrefObj \/ Load(g).objects[id] = ApObj
  <2>1. Serialized(ApObj) = ApObj
    BY DEF Serialized, ApObj
  <2>2. QED
    BY <1>3, <1>8, <2>1 DEF Updated
<1>11. SameFields(doc, Load(g))
  BY <1>8, <1>9, <1>10 DEF SameFields, SameParts, Updated, XrefObj, ApObj
<1>12. Catalog(Load(g)) = Catalog(doc)
  BY <1>1, <1>8, <1>9 DEF Catalog, Updated
<1>13. QuietMove(f, g)
  BY <1>9, <1>11, <1>12 DEF QuietMove
<1>14. PagesGrew(doc, Load(g))
  <2>1. \A id \in PageObjects(doc) : doc.objects[id].body \in Nat
    BY BodiesAre DEF doc
  <2>2. QED
    BY <1>9, <2>1 DEF PagesGrew, PageObjects
<1>15. Edited(doc, Load(g))
  <2>1. i \in DOMAIN Load(g).objects /\ i \notin DOMAIN doc.objects
    BY <1>3, <1>8 DEF Updated
  <2>2. Load(g).objects[i] = ApObj
    BY <1>3, <1>8, <2>1 DEF Updated, Serialized, ApObj
  <2>3. IsEdit(doc, Load(g), i)
    BY <2>1, <2>2 DEF IsEdit, ApObj
  <2>4. QED
    BY <2>1, <2>3 DEF Edited
<1>16. QED
  BY <1>8, <1>13, <1>14, <1>15 DEF g, a, i, size

-----------------------------------------------------------------------------
(* Fields after each of them.                                              *)

LEMMA FieldMoveSettled ==
  ASSUME NEW f, IsDoc(f), NEW g, IsDoc(g), FieldMove(f, g), Keeps(Load(f), Load(g)), Settled(Load(f))
  PROVE  Settled(Load(g))
<1>. DEFINE doc == Load(f)
            s   == FreshId(doc, 1)
<1>1. PICK sub, cap : \E page \in PageObjects(doc) : \E nap \in Nat :
        Updated(doc, Load(g), NewObjects(doc, sub, cap, nap), {s},
                Rewrites(doc, page, FreshId(doc, nap + 2)))
  BY DEF FieldMove
<1>2. PICK page \in PageObjects(doc), nap \in Nat :
        Updated(doc, Load(g), NewObjects(doc, sub, cap, nap), {s},
                Rewrites(doc, page, FreshId(doc, nap + 2)))
  BY <1>1
<1>. DEFINE w == FreshId(doc, nap + 2)
            a == NewObjects(doc, sub, cap, nap)
<1>3. s = FreshId(doc, 1) /\ w = FreshId(doc, nap + 2) /\ a = NewObjects(doc, sub, cap, nap)
  OBVIOUS
<1>4. Updated(doc, Load(g), a, {s}, Rewrites(doc, page, w))
  BY <1>2
<1>. HIDE DEF s, w, a
<1>5. FieldAdded(doc, Load(g), w, s)
  BY <1>3, <1>4, FieldIsAdded
<1>6. QED
  BY <1>5, FieldAddedKept

\* The new streams, by their keys.
LEMMA BlobsApart ==
  ASSUME NEW doc, doc.maxId \in Nat, NEW m, Materialized(m), NEW j \in DssKeys, NEW k \in DssKeys,
         j # k
  PROVE  BlobIds(doc, m, j) \cap BlobIds(doc, m, k) = {}
<1>1. /\ \A key \in DssKeys : Lack(doc, m, key) \in Nat
      /\ FirstOf(doc, m, "Certs") = 0
      /\ FirstOf(doc, m, "CRLs") = Lack(doc, m, "Certs")
      /\ FirstOf(doc, m, "OCSPs") = Lack(doc, m, "Certs") + Lack(doc, m, "CRLs")
  BY LackFacts
<1>2. ASSUME NEW key \in DssKeys, NEW id \in BlobIds(doc, m, key)
      PROVE  \E i \in 1..Lack(doc, m, key) : id = doc.maxId + (FirstOf(doc, m, key) + i)
  BY <1>2 DEF BlobIds, FreshIds, FreshId
<1>3. DssKeys = {"Certs", "CRLs", "OCSPs"}
  BY DEF DssKeys
<1>. DEFINE c == Lack(doc, m, "Certs")
            r == Lack(doc, m, "CRLs")
            o == Lack(doc, m, "OCSPs")
<1>4. c \in Nat /\ r \in Nat /\ o \in Nat
  BY <1>1, <1>3
<1>5. ASSUME NEW x
      PROVE  /\ x \in BlobIds(doc, m, "Certs") => x \in Int /\ x <= doc.maxId + c
             /\ x \in BlobIds(doc, m, "CRLs") =>
                  x \in Int /\ doc.maxId + c < x /\ x <= doc.maxId + c + r
             /\ x \in BlobIds(doc, m, "OCSPs") => x \in Int /\ doc.maxId + c + r < x
  BY <1>1, <1>2, <1>3, <1>4
<1>6. QED
  BY <1>3, <1>4, <1>5

LEMMA MaterialIs ==
  ASSUME NEW doc, doc.maxId \in Nat, NEW m, Materialized(m)
  PROVE  LET a == NewMaterial(doc, m)
         IN  /\ \A id \in DOMAIN a : a[id].t = "der"
             /\ \A key \in DssKeys : \A id \in BlobIds(doc, m, key) :
                  id \in DOMAIN a /\ a[id] = Streams(doc, m, key)[id]
<1>. DEFINE u == Streams(doc, m, "Certs")
            v == Streams(doc, m, "CRLs")
            w == Streams(doc, m, "OCSPs")
            uv == u ++ v
            a  == uv ++ w
<1>1. /\ DOMAIN u = BlobIds(doc, m, "Certs") /\ \A id \in DOMAIN u : \E d : u[id] = Der(d)
      /\ DOMAIN v = BlobIds(doc, m, "CRLs") /\ \A id \in DOMAIN v : \E d : v[id] = Der(d)
      /\ DOMAIN w = BlobIds(doc, m, "OCSPs") /\ \A id \in DOMAIN w : \E d : w[id] = Der(d)
  BY StreamsAre
<1>2. a = NewMaterial(doc, m)
  BY Zenon DEF NewMaterial
<1>3. \A d : Der(d).t = "der"
  BY DEF Der
<1>4. /\ BlobIds(doc, m, "Certs") \cap BlobIds(doc, m, "CRLs") = {}
      /\ BlobIds(doc, m, "Certs") \cap BlobIds(doc, m, "OCSPs") = {}
      /\ BlobIds(doc, m, "CRLs") \cap BlobIds(doc, m, "OCSPs") = {}
  <2>1. "Certs" \in DssKeys /\ "CRLs" \in DssKeys /\ "OCSPs" \in DssKeys
        /\ "Certs" # "CRLs" /\ "Certs" # "OCSPs" /\ "CRLs" # "OCSPs"
    BY DEF DssKeys
  <2>2. QED
    BY <2>1, BlobsApart
<1>. HIDE DEF u, v, w
<1>5. /\ DOMAIN uv = DOMAIN u \cup DOMAIN v
      /\ \A id \in DOMAIN u : uv[id] = u[id]
      /\ \A id \in DOMAIN v \ DOMAIN u : uv[id] = v[id]
  BY MergeIs
<1>. HIDE DEF uv
<1>6. /\ DOMAIN a = DOMAIN uv \cup DOMAIN w
      /\ \A id \in DOMAIN uv : a[id] = uv[id]
      /\ \A id \in DOMAIN w \ DOMAIN uv : a[id] = w[id]
  BY MergeIs
<1>. HIDE DEF a
<1>7. /\ \A id \in DOMAIN u : id \in DOMAIN a /\ a[id] = u[id]
      /\ \A id \in DOMAIN v : id \in DOMAIN a /\ a[id] = v[id]
      /\ \A id \in DOMAIN w : id \in DOMAIN a /\ a[id] = w[id]
      /\ \A id \in DOMAIN a : id \in DOMAIN u \/ id \in DOMAIN v \/ id \in DOMAIN w
  BY <1>1, <1>4, <1>5, <1>6
<1>8. \A id \in DOMAIN a : \E d : a[id] = Der(d)
  BY <1>1, <1>7
<1>9. \A id \in DOMAIN a : a[id].t = "der"
  BY <1>3, <1>8
<1>10. \A key \in DssKeys : \A id \in BlobIds(doc, m, key) :
         id \in DOMAIN a /\ a[id] = Streams(doc, m, key)[id]
  <2>1. SUFFICES ASSUME NEW key \in DssKeys, NEW id \in BlobIds(doc, m, key)
                 PROVE  id \in DOMAIN a /\ a[id] = Streams(doc, m, key)[id]
    OBVIOUS
  <2>2. key = "Certs" \/ key = "CRLs" \/ key = "OCSPs"
    BY DEF DssKeys
  <2>3. QED
    BY <1>1, <1>7, <2>2 DEF u, v, w
<1>11. QED
  BY <1>2, <1>9, <1>10

\* What is written again.
DssCatalog(doc, m) == [Catalog(doc) EXCEPT !.dss = Inline(NewDss(doc, m))]
LEMMA DssRewrites ==
  ASSUME NEW f, IsDoc(f), NEW m, Materialized(m)
  PROVE  LET doc    == Load(f)
             u      == DssRewrite(doc, m)
             holder == Catalog(doc).dss
         IN  /\ NewDss(doc, m) \in Dsses /\ NewDss(doc, m).t = "dss"
             /\ DssCatalog(doc, m) \in Catalogs /\ DssCatalog(doc, m).t = "catalog"
             /\ DssCatalog(doc, m).form = Catalog(doc).form
             /\ DssCatalog(doc, m).dss = Inline(NewDss(doc, m))
             /\ holder.at = "ref" => /\ holder.ref \in DOMAIN doc.objects
                                     /\ doc.objects[holder.ref].t = "dss"
                                     /\ DOMAIN u = {holder.ref} /\ u[holder.ref] = NewDss(doc, m)
             /\ holder.at # "ref" => DOMAIN u = {doc.root} /\ u[doc.root] = DssCatalog(doc, m)
<1>. DEFINE doc    == Load(f)
            u      == DssRewrite(doc, m)
            holder == Catalog(doc).dss
            new    == NewDss(doc, m)
            cat    == DssCatalog(doc, m)
<1>1. IsDocument(doc) /\ Catalog(doc) \in Catalogs /\ doc.maxId \in Nat
  BY DocFacts DEF IsDoc
<1>2. /\ ExistingDss(doc) \in Dsses /\ DssIn(doc, ExistingDss(doc))
      /\ (holder.at = "ref" => holder.ref \in DOMAIN doc.objects /\ doc.objects[holder.ref].t = "dss")
  BY DssIs DEF IsDoc
<1>3. u = IF holder.at = "ref" THEN Queue(holder.ref, new) ELSE Queue(doc.root, cat)
  BY Zenon DEF DssRewrite, DssCatalog
<1>. HIDE DEF doc, u
<1>4. new \in Dsses /\ new.t = "dss"
  BY <1>1, <1>2, NewDssIs
<1>5. cat \in Catalogs /\ cat.form = Catalog(doc).form /\ cat.dss = Inline(new) /\ cat.t = "catalog"
  <2>. DEFINE i == Inline(new)
  <2>1. i \in Holders(Dsses)
    BY <1>4, InlineIn
  <2>2. cat = [Catalog(doc) EXCEPT !.dss = i]
    BY Zenon DEF DssCatalog
  <2>. HIDE DEF i, cat
  <2>3. cat \in Catalogs /\ cat.form = Catalog(doc).form /\ cat.dss = i /\ cat.t = "catalog"
    BY <1>1, <2>1, <2>2 DEF Catalogs
  <2>4. QED
    BY <2>3 DEF i
<1>. HIDE DEF new, cat
<1>6. /\ (holder.at = "ref" => DOMAIN u = {holder.ref} /\ u[holder.ref] = new)
      /\ (holder.at # "ref" => DOMAIN u = {doc.root} /\ u[doc.root] = cat)
  BY <1>3, QueueIs, ZenonT(40)
<1>7. QED
  BY <1>2, <1>4, <1>5, <1>6 DEF doc, u, new, cat

LEMMA DssMoveSame ==
  ASSUME NEW f, IsDoc(f), NEW g, DssMove(f, g)
  PROVE  SameFields(Load(f), Load(g))
<1>. DEFINE doc == Load(f)
            new == Load(g)
<1>1. PICK m \in Materials : Updated(doc, new, NewMaterial(doc, m), {}, DssRewrite(doc, m))
  BY DEF DssMove
<1>. DEFINE a == NewMaterial(doc, m)
            u == DssRewrite(doc, m)
<1>2. /\ IsSeq(f) /\ Readable(f) /\ IsDocument(doc) /\ doc.maxId \in Nat
      /\ doc.root \in DOMAIN doc.objects /\ Catalog(doc) \in Catalogs /\ Materialized(m)
  BY DocFacts, SizesAssumption DEF IsDoc, Materialized
<1>3. IsRewrite(doc, u, DOMAIN a)
  BY <1>2, DssRewriteIs
<1>4. Updated(doc, new, a, {}, u)
  BY <1>1
<1>5. \A id \in DOMAIN a : a[id].t = "der"
  BY <1>2, MaterialIs
<1>6. \A id \in DOMAIN u :
        \/ doc.objects[id].t = "dss"
        \/ doc.objects[id].t = "catalog" /\ u[id] \in Catalogs /\ u[id].form = doc.objects[id].form
  <2>1. Catalog(doc).t = "catalog" /\ Catalog(doc) = doc.objects[doc.root]
    BY <1>2 DEF Catalogs, Catalog
  <2>2. LET holder == Catalog(doc).dss
            cat    == DssCatalog(doc, m)
        IN  /\ cat \in Catalogs /\ cat.form = Catalog(doc).form
            /\ (holder.at = "ref" => doc.objects[holder.ref].t = "dss" /\ DOMAIN u = {holder.ref})
            /\ (holder.at # "ref" => DOMAIN u = {doc.root} /\ u[doc.root] = cat)
    BY <1>2, DssRewrites
  <2>. HIDE DEF doc, u
  <2>3. QED
    BY <2>1, <2>2
<1>. HIDE DEF doc, new, a, u
<1>7. ASSUME NEW id \in DOMAIN doc.objects
      PROVE  SameParts(doc.objects[id], new.objects[id])
  <2>1. CASE id \notin DOMAIN u
    BY <1>4, <2>1 DEF Updated, SameParts
  <2>2. CASE id \in DOMAIN u /\ doc.objects[id].t = "dss"
    <3>1. u[id].t = "dss"
      BY <1>3, <2>2 DEF IsRewrite
    <3>2. new.objects[id].t = "dss"
      BY <1>4, <2>2, <3>1, SerializedParts DEF Updated
    <3>3. QED
      BY <2>2, <3>2 DEF SameParts
  <2>3. CASE id \in DOMAIN u /\ doc.objects[id].t = "catalog"
    <3>1. u[id] \in Catalogs /\ u[id].form = doc.objects[id].form
      BY <1>6, <2>3
    <3>2. new.objects[id].t = "catalog" /\ new.objects[id].form = doc.objects[id].form
      BY <1>4, <2>3, <3>1, SerializedParts DEF Updated
    <3>3. QED
      BY <2>3, <3>2 DEF SameParts
  <2>4. QED
    BY <1>6, <2>1, <2>2, <2>3
<1>8. ASSUME NEW id \in DOMAIN new.objects \ DOMAIN doc.objects
      PROVE  new.objects[id].t \in {"der", "xref"}
  <2>1. CASE id \notin DOMAIN a
    BY <1>4, <2>1 DEF Updated, XrefObj
  <2>2. CASE id \in DOMAIN a
    BY <1>4, <1>5, <2>2, SerializedParts DEF Updated
  <2>3. QED
    BY <2>1, <2>2
<1>9. SameFields(doc, new)
  BY <1>4, <1>7, <1>8 DEF SameFields, Updated
<1>10. QED
  BY <1>9 DEF doc, new

LEMMA DssMoveSettled ==
  ASSUME NEW f, IsDoc(f), NEW g, IsDoc(g), DssMove(f, g), Settled(Load(f))
  PROVE  Settled(Load(g))
BY DssMoveSame, SameFieldsKept

-----------------------------------------------------------------------------
(* The validation material of a document.                                  *)

\* What is an array of the /DSS: the objects it refers to.
Refs(doc, key) == DssArray(doc, ExistingDss(doc), key)

LEMMA RefsAre ==
  ASSUME NEW f, IsDoc(f), NEW key \in DssKeys
  PROVE  LET doc == Load(f)
             h   == ExistingDss(doc).arr[key]
         IN  /\ h \in Holders(Arrays) /\ ArrayIn(doc, h)
             /\ (h.at = "ref" => h.ref \in DssArrays(doc) /\ h.ref \in DOMAIN doc.objects
                                 /\ doc.objects[h.ref].t = "array")
             /\ Refs(doc, key) = Elements(doc, h) /\ Refs(doc, key) \in Seq(Nat)
             /\ Range(Refs(doc, key)) \subseteq DOMAIN doc.objects
<1>. DEFINE doc == Load(f)
            dss == ExistingDss(doc)
            h   == dss.arr[key]
<1>1. dss \in Dsses /\ DssIn(doc, dss) /\ IsDocument(doc)
  BY DssIs DEF IsDoc
<1>. HIDE DEF doc, dss
<1>2. h \in Holders(Arrays) /\ ArrayIn(doc, h)
  BY <1>1 DEF Dsses, DssIn
<1>3. Refs(doc, key) = Elements(doc, h)
  BY DEF Refs, DssArray, Elements, dss
<1>4. h.at = "ref" => h.ref \in DssArrays(doc)
  BY DEF DssArrays, dss
<1>5. h.at = "ref" => h.ref \in DOMAIN doc.objects /\ doc.objects[h.ref].t = "array"
  BY <1>2 DEF ArrayIn, LeadsTo, Arrays
<1>. HIDE DEF h
<1>6. Elements(doc, h) \in Seq(Nat) /\ Range(Elements(doc, h)) \subseteq DOMAIN doc.objects
  BY <1>1, <1>2, ElementsKnown
<1>7. QED
  BY <1>2, <1>3, <1>4, <1>5, <1>6 DEF h, dss, doc

LEMMA BlobsAre ==
  ASSUME NEW f, IsDoc(f), NEW key \in DssKeys
  PROVE  LET refs  == Refs(Load(f), key)
             blobs == DssBlobs(f, key)
         IN  /\ IsSeq(refs) /\ IsSeq(blobs) /\ Len(blobs) = Len(refs) /\ DOMAIN blobs = DOMAIN refs
             /\ Len(refs) \in Nat /\ DOMAIN refs = 1..Len(refs)
             /\ \A i \in 1..Len(refs) :
                  blobs[i] = Load(f).objects[refs[i]].der /\ refs[i] \in DOMAIN Load(f).objects
<1>. DEFINE doc  == Load(f)
            refs == Refs(doc, key)
            blob == [i \in DOMAIN refs |-> doc.objects[refs[i]].der]
<1>1. refs \in Seq(Nat) /\ Range(refs) \subseteq DOMAIN doc.objects
  BY RefsAre
<1>2. DssBlobs(f, key) = blob
  BY DEF DssBlobs, Refs
<1>. HIDE DEF refs
<1>3. Len(refs) \in Nat /\ DOMAIN refs = 1..Len(refs)
  BY <1>1
<1>4. IsSeq(refs)
  BY <1>1, SeqOver
<1>5. blob = [i \in 1..Len(refs) |-> doc.objects[refs[i]].der]
  BY <1>3
<1>6. IsSeq(blob) /\ Len(blob) = Len(refs)
  <2>. DEFINE b == blob
              n == Len(refs)
  <2>1. DOMAIN b = 1..n /\ b = [i \in 1..n |-> b[i]] /\ n \in Nat
    BY <1>3
  <2>. HIDE DEF b, n
  <2>2. IsSeq(b) /\ Len(b) = n
    BY <2>1, SeqPointwise
  <2>3. QED
    BY <2>2 DEF b, n
<1>7. IsSeq(blob) /\ Len(blob) = Len(refs) /\ DOMAIN blob = DOMAIN refs
  BY <1>6
<1>8. \A i \in 1..Len(refs) : refs[i] \in DOMAIN doc.objects
  BY <1>1, <1>3 DEF Range
<1>9. QED
  BY <1>2, <1>3, <1>4, <1>7, <1>8 DEF refs

\* What Stocked says.
StockedKey(f, key) ==
  /\ \A id \in Range(Refs(Load(f), key)) : Load(f).objects[id].t = "der"
  /\ IsInjective(DssBlobs(f, key))
LEMMA StockedIs ==
  ASSUME NEW f
  PROVE  Stocked(f) <=> /\ \A key \in DssKeys : StockedKey(f, key)
                        /\ DssArrays(Load(f)) \cap FieldArrays(Load(f)) = {}
BY Zenon DEF Stocked, StockedKey, Refs

-----------------------------------------------------------------------------
(* What leaves it alone.                                                   *)

SameMaterial(old, new) ==
  /\ Catalog(new).dss = Catalog(old).dss
  /\ \A id \in DOMAIN old.objects :
       old.objects[id].t \in {"dss", "der"} \/ id \in DssArrays(old)
         => new.objects[id] = old.objects[id]
  /\ FieldArrays(new) \subseteq FieldArrays(old)

LEMMA SameMaterialKept ==
  ASSUME NEW f, IsDoc(f), NEW g, IsDoc(g), Stocked(f), SameMaterial(Load(f), Load(g))
  PROVE  Stocked(g) /\ \A key \in DssKeys : DssBlobs(g, key) = DssBlobs(f, key)
<1>. DEFINE old == Load(f)
            new == Load(g)
            holder == Catalog(old).dss
<1>1. holder.at = "ref" => holder.ref \in DOMAIN old.objects /\ old.objects[holder.ref].t = "dss"
  BY DssIs DEF IsDoc
<1>2. SameMaterial(old, new)
  OBVIOUS
<1>3. /\ \A key \in DssKeys : StockedKey(f, key)
      /\ DssArrays(old) \cap FieldArrays(old) = {}
  BY StockedIs
<1>4. \A key \in DssKeys :
        LET h == ExistingDss(old).arr[key]
        IN  /\ h \in Holders(Arrays) /\ ArrayIn(old, h)
            /\ (h.at = "ref" => h.ref \in DssArrays(old) /\ h.ref \in DOMAIN old.objects)
            /\ Refs(old, key) = Elements(old, h)
            /\ Range(Refs(old, key)) \subseteq DOMAIN old.objects
  BY RefsAre
<1>5. \A key \in DssKeys : Refs(new, key) = Elements(new, ExistingDss(new).arr[key])
  BY RefsAre
<1>6. \A key \in DssKeys :
        /\ DOMAIN DssBlobs(f, key) = DOMAIN Refs(old, key) /\ IsSeq(DssBlobs(f, key))
        /\ DOMAIN DssBlobs(g, key) = DOMAIN Refs(new, key) /\ IsSeq(DssBlobs(g, key))
        /\ DOMAIN Refs(old, key) = 1..Len(Refs(old, key))
        /\ Len(DssBlobs(f, key)) = Len(Refs(old, key)) /\ Len(DssBlobs(g, key)) = Len(Refs(new, key))
        /\ \A i \in 1..Len(Refs(old, key)) : DssBlobs(f, key)[i] = old.objects[Refs(old, key)[i]].der
        /\ \A i \in 1..Len(Refs(new, key)) : DssBlobs(g, key)[i] = new.objects[Refs(new, key)[i]].der
  BY BlobsAre
<1>. HIDE DEF old, new
<1>7. ExistingDss(new) = ExistingDss(old)
  BY <1>1, <1>2 DEF ExistingDss, Resolve, SameMaterial
<1>. HIDE DEF holder
<1>8. ASSUME NEW key \in DssKeys PROVE Refs(new, key) = Refs(old, key)
  <2>. DEFINE h == ExistingDss(old).arr[key]
  <2>1. /\ h \in Holders(Arrays) /\ ArrayIn(old, h)
        /\ (h.at = "ref" => h.ref \in DssArrays(old) /\ h.ref \in DOMAIN old.objects)
        /\ Refs(old, key) = Elements(old, h) /\ Refs(new, key) = Elements(new, h)
    BY <1>4, <1>5, <1>7
  <2>. HIDE DEF h
  <2>2. h.at = "ref" => new.objects[h.ref] = old.objects[h.ref]
    BY <1>2, <2>1 DEF SameMaterial
  <2>3. QED
    BY <2>1, <2>2, SameElements
<1>9. ASSUME NEW key \in DssKeys, NEW id \in Range(Refs(old, key))
      PROVE  new.objects[id] = old.objects[id]
  <2>1. old.objects[id].t = "der"
    BY <1>3 DEF StockedKey, old
  <2>2. id \in DOMAIN old.objects
    BY <1>4
  <2>3. QED
    BY <1>2, <2>1, <2>2 DEF SameMaterial
<1>10. ASSUME NEW key \in DssKeys PROVE DssBlobs(g, key) = DssBlobs(f, key)
  <2>. DEFINE a == DssBlobs(f, key)
              b == DssBlobs(g, key)
              n == Len(Refs(old, key))
  <2>1. IsSeq(a) /\ IsSeq(b) /\ Len(a) = n /\ Len(b) = n
    BY <1>6, <1>8
  <2>2. ASSUME NEW i \in 1..n PROVE b[i] = a[i]
    <3>1. Refs(old, key)[i] \in Range(Refs(old, key))
      BY <1>6 DEF Range
    <3>2. QED
      BY <1>6, <1>8, <1>9, <3>1
  <2>. HIDE DEF a, b, n
  <2>3. a = [i \in 1..Len(a) |-> a[i]] /\ b = [i \in 1..Len(b) |-> b[i]]
    BY <2>1, SeqFacts
  <2>4. a = b
    BY <2>1, <2>2, <2>3
  <2>5. QED
    BY <2>4 DEF a, b
<1>11. ASSUME NEW key \in DssKeys PROVE StockedKey(g, key)
  <2>1. StockedKey(f, key)
    BY <1>3
  <2>2. \A id \in Range(Refs(new, key)) : new.objects[id].t = "der"
    BY <1>8, <1>9, <2>1 DEF StockedKey, old
  <2>3. QED
    BY <1>10, <2>1, <2>2 DEF StockedKey, new
<1>12. DssArrays(new) = DssArrays(old)
  BY <1>7, Zenon DEF DssArrays
<1>13. DssArrays(new) \cap FieldArrays(new) = {}
  BY <1>2, <1>3, <1>12 DEF SameMaterial
<1>14. Stocked(g)
  BY <1>11, <1>13, StockedIs DEF new
<1>15. QED
  BY <1>10, <1>14

\* The arrays of fields and annotations.
LEMMA SameFieldArrays ==
  ASSUME NEW f, IsDoc(f), NEW new, SameFields(Load(f), new)
  PROVE  FieldArrays(new) \subseteq FieldArrays(Load(f))
<1>. DEFINE old == Load(f)
<1>1. FormOf(new) = FormOf(old)
  BY SameForm
<1>2. SameFields(old, new)
  OBVIOUS
<1>. HIDE DEF old
<1>3. SUFFICES ASSUME NEW x \in FieldArrays(new) PROVE x \in FieldArrays(old)
  BY DEF old
<1>4. CASE FormOf(new).fields.at = "ref" /\ x = FormOf(new).fields.ref
  BY <1>1, <1>4, FieldArraysAre
<1>5. CASE \E p \in DOMAIN new.objects : /\ new.objects[p].t = "page"
                                         /\ new.objects[p].annots.at = "ref"
                                         /\ x = new.objects[p].annots.ref
  <2>1. PICK p \in DOMAIN new.objects : /\ new.objects[p].t = "page"
                                        /\ new.objects[p].annots.at = "ref"
                                        /\ x = new.objects[p].annots.ref
    BY <1>5
  <2>2. p \in DOMAIN old.objects /\ old.objects[p].t = "page"
        /\ old.objects[p].annots = new.objects[p].annots
    BY <1>2, <2>1 DEF SameFields, SameParts
  <2>3. QED
    BY <2>1, <2>2, FieldArraysAre
<1>6. QED
  BY <1>4, <1>5, FieldArraysAre

\* The arrays of the /DSS are arrays.
LEMMA DssArraysAre ==
  ASSUME NEW f, IsDoc(f), NEW x \in DssArrays(Load(f))
  PROVE  x \in DOMAIN Load(f).objects /\ Load(f).objects[x].t = "array"
<1>1. PICK key \in DssKeys : /\ ExistingDss(Load(f)).arr[key].at = "ref"
                             /\ x = ExistingDss(Load(f)).arr[key].ref
  BY DEF DssArrays
<1>2. QED
  BY <1>1, RefsAre

LEMMA QuietMoveKept ==
  ASSUME NEW f, IsDoc(f), NEW g, QuietMove(f, g)
  PROVE  SameMaterial(Load(f), Load(g))
<1>1. FieldArrays(Load(g)) \subseteq FieldArrays(Load(f))
  BY SameFieldArrays DEF QuietMove
<1>2. \A id \in DssArrays(Load(f)) : Load(f).objects[id].t = "array"
  BY DssArraysAre
<1>3. QED
  BY <1>1, <1>2 DEF QuietMove, SameMaterial, SameFields, SameParts

LEMMA FieldMoveKept ==
  ASSUME NEW f, IsDoc(f), NEW g, IsDoc(g), FieldMove(f, g), Stocked(f),
         Keeps(Load(f), Load(g))
  PROVE  SameMaterial(Load(f), Load(g))
<1>. DEFINE doc == Load(f)
            new == Load(g)
            s   == FreshId(doc, 1)
<1>1. PICK sub, cap : \E page \in PageObjects(doc) : \E nap \in Nat :
        Updated(doc, new, NewObjects(doc, sub, cap, nap), {s},
                Rewrites(doc, page, FreshId(doc, nap + 2)))
  BY DEF FieldMove
<1>2. PICK page \in PageObjects(doc), nap \in Nat :
        Updated(doc, new, NewObjects(doc, sub, cap, nap), {s},
                Rewrites(doc, page, FreshId(doc, nap + 2)))
  BY <1>1
<1>. DEFINE w == FreshId(doc, nap + 2)
            a == NewObjects(doc, sub, cap, nap)
            u == Rewrites(doc, page, w)
<1>3. doc.maxId \in Nat
  BY DocFacts DEF IsDoc
<1>4. w \in Nat
  BY <1>3 DEF FreshId
<1>5. Updated(doc, new, a, {s}, u)
  BY <1>2
<1>6. /\ a[w] = [t |-> "widget", sig |-> s]
      /\ \A id \in DOMAIN a : id = s \/ id = w \/ a[id] = ApObj
  <2>. HIDE DEF doc
  <2>1. LET b == NewObjects(doc, sub, cap, nap)
        IN  /\ b[w] = [t |-> "widget", sig |-> s]
            /\ \A id \in DOMAIN b : id = s \/ id = w \/ b[id] = ApObj
    <3>1. LET b == NewObjects(doc, sub, cap, nap)
          IN  /\ s \in DOMAIN b /\ w \in DOMAIN b /\ b[w] = [t |-> "widget", sig |-> s] /\ w # s
              /\ \A id \in DOMAIN b : id = s \/ id = w \/ b[id] = ApObj
      BY <1>3, NewObjectsHave
    <3>2. QED
      BY <3>1
  <2>2. QED
    BY <2>1
<1>8. AllPush(doc, page, w, u)
  BY RewritesAre
<1>9. Catalog(new).dss = Catalog(doc).dss /\ FormOf(new) = NewForm(doc, w)
  BY <1>4, <1>5, PushedForm
<1>10. \A p \in PageObjects(doc) :
         \/ new.objects[p].annots = doc.objects[p].annots
         \/ new.objects[p].annots.at # "ref"
  BY <1>4, <1>5, PushedPage
<1>11. NewForm(doc, w).fields = IF FormOf(doc).fields.at = "ref" THEN FormOf(doc).fields
                                ELSE Inline(Push(doc, FormOf(doc).fields, w))
  BY <1>4, NewParts
<1>12. DssArrays(doc) \cap FieldArrays(doc) = {}
  BY StockedIs
<1>13. \A id \in DssArrays(doc) : doc.objects[id].t = "array"
  BY DssArraysAre
<1>a. Keeps(doc, new)
  OBVIOUS
<1>. HIDE DEF doc, new, a, u, w, s
<1>14. \A id \in DOMAIN u : doc.objects[id].t \notin {"dss", "der"} /\ id \notin DssArrays(doc)
  BY <1>8, <1>12, <1>13 DEF AllPush, Pushes
<1>15. \A id \in DOMAIN doc.objects :
         doc.objects[id].t \in {"dss", "der"} \/ id \in DssArrays(doc)
           => new.objects[id] = doc.objects[id]
  BY <1>5, <1>14 DEF Updated
<1>16. ASSUME NEW id \in DOMAIN new.objects \ DOMAIN doc.objects PROVE new.objects[id].t # "page"
  <2>1. CASE id \notin DOMAIN a
    BY <1>5, <2>1 DEF Updated, XrefObj
  <2>2. CASE id = s /\ id \in DOMAIN a
    BY <1>5, <2>2 DEF Updated
  <2>3. CASE id \in DOMAIN a /\ id # s
    <3>1. a[id].t = "widget" \/ a[id].t = "ap"
      BY <1>6, <2>3 DEF ApObj
    <3>2. new.objects[id] = a[id]
      BY <1>5, <2>3, <3>1, SerializedParts DEF Updated
    <3>3. QED
      BY <3>1, <3>2
  <2>4. QED
    BY <2>1, <2>2, <2>3
<1>17. ASSUME NEW p \in DOMAIN doc.objects, new.objects[p].t = "page" PROVE p \in PageObjects(doc)
  BY <1>17, <1>a DEF Keeps, PageObjects
<1>18. FieldArrays(new) \subseteq FieldArrays(doc)
  <2>1. SUFFICES ASSUME NEW x \in FieldArrays(new) PROVE x \in FieldArrays(doc)
    OBVIOUS
  <2>2. CASE FormOf(new).fields.at = "ref" /\ x = FormOf(new).fields.ref
    <3>1. FormOf(doc).fields.at = "ref" /\ x = FormOf(doc).fields.ref
      BY <1>9, <1>11, <2>2 DEF Inline
    <3>2. QED
      BY <3>1, FieldArraysAre
  <2>3. CASE \E p \in DOMAIN new.objects : /\ new.objects[p].t = "page"
                                           /\ new.objects[p].annots.at = "ref"
                                           /\ x = new.objects[p].annots.ref
    <3>1. PICK p \in DOMAIN new.objects : /\ new.objects[p].t = "page"
                                          /\ new.objects[p].annots.at = "ref"
                                          /\ x = new.objects[p].annots.ref
      BY <2>3
    <3>2. p \in PageObjects(doc)
      BY <1>16, <1>17, <3>1
    <3>3. p \in DOMAIN doc.objects /\ doc.objects[p].t = "page"
          /\ doc.objects[p].annots = new.objects[p].annots
      BY <1>10, <3>1, <3>2 DEF PageObjects
    <3>4. QED
      BY <3>1, <3>3, FieldArraysAre
  <2>4. QED
    BY <2>2, <2>3, FieldArraysAre
<1>19. QED
  BY <1>9, <1>15, <1>18 DEF SameMaterial, doc, new

-----------------------------------------------------------------------------
(* What an update of the validation material does to it.                   *)

\* What is missing, and its streams.
Lacking(doc, m, key) == SetToSeq(Missing(doc, ExistingDss(doc), m, key))

LEMMA LackingIs ==
  ASSUME NEW doc, doc.maxId \in Nat, NEW m, Materialized(m), NEW key \in DssKeys
  PROVE  LET n == Lack(doc, m, key)
             b == Lacking(doc, m, key)
         IN  /\ n \in Nat /\ DOMAIN b = 1..n /\ IsInjective(b)
             /\ \A i \in 1..n : \A id \in Range(Refs(doc, key)) : b[i] # doc.objects[id].der
             /\ \A i \in 1..n :
                  LET id == doc.maxId + (FirstOf(doc, m, key) + i)
                  IN  id \in BlobIds(doc, m, key) /\ Streams(doc, m, key)[id] = Der(b[i])
<1>. DEFINE M     == Missing(doc, ExistingDss(doc), m, key)
            n     == Lack(doc, m, key)
            b     == Lacking(doc, m, key)
            first == FirstOf(doc, m, key)
<1>1. M = m[key] \ {doc.objects[id].der : id \in Range(Refs(doc, key))}
  BY Zenon DEF Missing, Refs
<1>2. IsFiniteSet(M)
  <2>1. IsFiniteSet(m[key]) /\ M \subseteq m[key]
    BY <1>1 DEF Materialized
  <2>. HIDE DEF M
  <2>2. QED
    BY <2>1, FS_Subset
<1>3. n \in Nat /\ b \in [1..n -> M] /\ IsInjective(b)
  <2>. HIDE DEF M
  <2>1. Cardinality(M) \in Nat /\ SetToSeq(M) \in [1..Cardinality(M) -> M]
        /\ IsInjective(SetToSeq(M))
    BY <1>2, EachOnce
  <2>2. QED
    BY <2>1, Zenon DEF Lacking, Lack, M
<1>4. first \in Nat
  BY BlobIdsFacts
<1>5. Streams(doc, m, key) = [id \in BlobIds(doc, m, key) |-> Der(b[id - FreshId(doc, first)])]
  BY Zenon DEF Streams, NewStreams, BlobIds, FirstOf, Lack, Lacking
<1>6. \A i \in 1..n : doc.maxId + (first + i) \in BlobIds(doc, m, key)
  BY DEF BlobIds, FreshIds, FreshId
<1>7. \A i \in 1..n : b[i] \in M
  BY <1>3
<1>8. \A i \in 1..n : \A id \in Range(Refs(doc, key)) : b[i] # doc.objects[id].der
  BY <1>1, <1>7
<1>. HIDE DEF M, n, b, first
<1>9. ASSUME NEW i \in 1..n
      PROVE  Streams(doc, m, key)[doc.maxId + (first + i)] = Der(b[i])
  <2>1. (doc.maxId + (first + i)) - FreshId(doc, first) = i
    BY <1>3, <1>4 DEF FreshId
  <2>2. QED
    BY <1>5, <1>6, <2>1
<1>10. QED
  BY <1>3, <1>6, <1>8, <1>9 DEF n, b, first

\* The references an array gains.
Gained(old, new, n, base) ==
  /\ IsSeq(new) /\ Len(new) = Len(old) + n
  /\ \A i \in 1..Len(old) : new[i] = old[i]
  /\ \A i \in 1..n : new[Len(old) + i] = base + i

LEMMA MergedIs ==
  ASSUME NEW f, IsDoc(f), NEW m, Materialized(m), NEW key \in DssKeys
  PROVE  LET doc  == Load(f)
             old  == Refs(doc, key)
             n    == Lack(doc, m, key)
             h    == MergedArray(doc, ExistingDss(doc), m, key)
             base == doc.maxId + FirstOf(doc, m, key)
         IN  \/ n = 0 /\ old = << >> /\ h = ExistingDss(doc).arr[key]
             \/ \E r : h = Inline(Arr(r)) /\ Gained(old, r, n, base)
<1>. DEFINE doc   == Load(f)
            old   == Refs(doc, key)
            n     == Lack(doc, m, key)
            first == FirstOf(doc, m, key)
            base  == doc.maxId + first
            added == [i \in 1..n |-> FreshId(doc, first + i)]
            r     == old \o added
            h     == MergedArray(doc, ExistingDss(doc), m, key)
<1>1. doc.maxId \in Nat
  BY DocFacts DEF IsDoc
<1>2. IsSeq(old) /\ Len(old) \in Nat
  <2>1. old \in Seq(Nat)
    BY RefsAre
  <2>. HIDE DEF old
  <2>2. QED
    BY <2>1, SeqOver, SeqFacts
<1>. HIDE DEF doc
<1>3. n \in Nat /\ first \in Nat
  BY <1>1, LackFacts, BlobIdsFacts
<1>4. h = IF r = << >> THEN ExistingDss(doc).arr[key] ELSE Inline(Arr(r))
  BY DEF MergedArray, Lack, FirstOf, Refs
<1>. HIDE DEF old, n, first, h
<1>5. IsSeq(added) /\ Len(added) = n /\ \A i \in 1..n : added[i] = base + i
  <2>1. DOMAIN added = 1..n /\ added = [i \in 1..n |-> added[i]]
    OBVIOUS
  <2>2. \A i \in 1..n : added[i] = base + i
    BY <1>1, <1>3 DEF FreshId
  <2>. HIDE DEF added
  <2>3. QED
    BY <1>3, <2>1, <2>2, SeqPointwise
<1>. HIDE DEF added
<1>6. Gained(old, r, n, base)
  BY <1>2, <1>5, ConcatFacts DEF Gained
<1>. HIDE DEF r
<1>7. r = << >> => n = 0 /\ old = << >>
  <2>1. SUFFICES ASSUME r = << >> PROVE n = 0 /\ old = << >>
    OBVIOUS
  <2>2. Len(r) = 0
    BY <2>1
  <2>3. n = 0 /\ Len(old) = 0
    BY <1>2, <1>3, <1>6, <2>2 DEF Gained
  <2>4. old = << >>
    BY <1>2, <2>3, SeqFacts
  <2>5. QED
    BY <2>3, <2>4
<1>8. CASE r = << >>
  BY <1>4, <1>7, <1>8 DEF doc, old, n, first, h
<1>9. CASE r # << >>
  <2>1. h = Inline(Arr(r)) /\ Gained(old, r, n, base)
    BY <1>4, <1>6, <1>9
  <2>2. QED
    BY <2>1 DEF doc, old, n, first, h
<1>10. QED
  BY <1>8, <1>9

\* The validation material of the update.
LEMMA DssWritten ==
  ASSUME NEW f, IsDoc(f), NEW new, NEW m, Materialized(m),
         Updated(Load(f), new, NewMaterial(Load(f), m), {}, DssRewrite(Load(f), m))
  PROVE  LET doc == Load(f)
         IN  /\ ExistingDss(new) = NewDss(doc, m)
             /\ \A key \in DssKeys :
                  ExistingDss(new).arr[key] = MergedArray(doc, ExistingDss(doc), m, key)
             /\ \A id \in DOMAIN doc.objects :
                  doc.objects[id].t \in {"array", "der"} => new.objects[id] = doc.objects[id]
<1>. DEFINE doc    == Load(f)
            u      == DssRewrite(doc, m)
            a      == NewMaterial(doc, m)
            holder == Catalog(doc).dss
            dss    == NewDss(doc, m)
            cat    == DssCatalog(doc, m)
<1>1. /\ dss \in Dsses /\ dss.t = "dss"
      /\ cat \in Catalogs /\ cat.t = "catalog" /\ cat.dss = Inline(dss)
      /\ (holder.at = "ref" => /\ holder.ref \in DOMAIN doc.objects
                               /\ doc.objects[holder.ref].t = "dss"
                               /\ DOMAIN u = {holder.ref} /\ u[holder.ref] = dss)
      /\ (holder.at # "ref" => DOMAIN u = {doc.root} /\ u[doc.root] = cat)
  BY DssRewrites
<1>2. doc.root \in DOMAIN doc.objects /\ Catalog(doc) \in Catalogs
  BY DocFacts DEF IsDoc
<1>3. ExistingDss(doc) \in Dsses
  BY DssIs DEF IsDoc
<1>4. Updated(doc, new, a, {}, u)
  OBVIOUS
<1>. HIDE DEF doc, u, a, cat
<1>5. dss = [ExistingDss(doc) EXCEPT !.arr =
               [key \in DssKeys |-> MergedArray(doc, ExistingDss(doc), m, key)]]
  BY Zenon DEF NewDss
<1>6. \A key \in DssKeys : dss.arr[key] = MergedArray(doc, ExistingDss(doc), m, key)
  BY <1>3, <1>5 DEF Dsses
<1>. HIDE DEF dss
<1>7. doc.objects[doc.root].t = "catalog"
  BY <1>2 DEF Catalog, Catalogs
<1>8. \A id \in DOMAIN u : doc.objects[id].t \in {"dss", "catalog"}
  BY <1>1, <1>7
<1>9. \A id \in DOMAIN doc.objects :
        doc.objects[id].t \in {"array", "der"} => new.objects[id] = doc.objects[id]
  BY <1>4, <1>8 DEF Updated
<1>10. ExistingDss(new) = dss
  <2>1. CASE holder.at = "ref"
    <3>1. doc.root \notin DOMAIN u
      BY <1>1, <1>7, <2>1
    <3>2. Catalog(new) = Catalog(doc)
      BY <1>2, <1>4, <3>1 DEF Updated, Catalog
    <3>3. new.objects[holder.ref] = dss
      BY <1>1, <1>4, <2>1, SerializedParts DEF Updated
    <3>4. QED
      BY <2>1, <3>2, <3>3 DEF ExistingDss, Resolve
  <2>2. CASE holder.at # "ref"
    <3>1. new.objects[doc.root] = Serialized(cat) /\ new.root = doc.root
      BY <1>1, <1>2, <1>4, <2>2 DEF Updated
    <3>2. Catalog(new).dss = Inline(dss)
      BY <1>1, <3>1, SerializedParts DEF Catalog
    <3>3. QED
      BY <3>2 DEF ExistingDss, Resolve, Inline
  <2>3. QED
    BY <2>1, <2>2
<1>11. QED
  BY <1>6, <1>9, <1>10 DEF dss, doc

\* The references of a key after the update.
LEMMA RefsGained ==
  ASSUME NEW f, IsDoc(f), NEW g, IsDoc(g), NEW m, Materialized(m), NEW key \in DssKeys,
         Updated(Load(f), Load(g), NewMaterial(Load(f), m), {}, DssRewrite(Load(f), m))
  PROVE  LET doc == Load(f)
             h   == ExistingDss(Load(g)).arr[key]
         IN  /\ Gained(Refs(doc, key), Refs(Load(g), key), Lack(doc, m, key),
                       doc.maxId + FirstOf(doc, m, key))
             /\ h = ExistingDss(doc).arr[key] \/ h.at # "ref"
<1>. DEFINE doc  == Load(f)
            new  == Load(g)
            old  == Refs(doc, key)
            refs == Refs(new, key)
            n    == Lack(doc, m, key)
            base == doc.maxId + FirstOf(doc, m, key)
            was  == ExistingDss(doc).arr[key]
            h    == ExistingDss(new).arr[key]
<1>1. /\ was \in Holders(Arrays) /\ ArrayIn(doc, was) /\ old = Elements(doc, was)
      /\ was.at = "ref" => was.ref \in DOMAIN doc.objects /\ doc.objects[was.ref].t = "array"
  BY RefsAre
<1>2. refs = Elements(new, h)
  BY RefsAre
<1>3. \/ n = 0 /\ old = << >> /\ h = was
      \/ \E r : h = Inline(Arr(r)) /\ Gained(old, r, n, base)
  <2>1. h = MergedArray(doc, ExistingDss(doc), m, key)
    BY DssWritten
  <2>2. LET x == MergedArray(doc, ExistingDss(doc), m, key)
        IN  \/ n = 0 /\ old = << >> /\ x = was
            \/ \E r : x = Inline(Arr(r)) /\ Gained(old, r, n, base)
    BY MergedIs
  <2>. HIDE DEF h, n, old, was, base
  <2>3. QED
    BY <2>1, <2>2
<1>4. \A id \in DOMAIN doc.objects :
         doc.objects[id].t \in {"array", "der"} => new.objects[id] = doc.objects[id]
  BY DssWritten
<1>. HIDE DEF doc, new, old, refs, n, base, was, h
<1>5. CASE n = 0 /\ old = << >> /\ h = was
  <2>1. was.at = "ref" => new.objects[was.ref] = doc.objects[was.ref]
    BY <1>1, <1>4
  <2>2. Elements(new, was) = Elements(doc, was)
    BY <1>1, <2>1, SameElements
  <2>3. refs = << >>
    BY <1>1, <1>2, <1>5, <2>2
  <2>4. Gained(<< >>, << >>, 0, base)
    BY DEF Gained, IsSeq, Range
  <2>5. Gained(old, refs, n, base) /\ h = was
    BY <1>5, <2>3, <2>4
  <2>6. QED
    BY <2>5 DEF doc, new, old, refs, n, base, was, h
<1>6. CASE \E r : h = Inline(Arr(r)) /\ Gained(old, r, n, base)
  <2>1. PICK r : h = Inline(Arr(r)) /\ Gained(old, r, n, base)
    BY <1>6
  <2>2. Elements(new, h) = r /\ h.at = "inline"
    BY <2>1 DEF Elements, Resolve, Inline, Arr
  <2>3. Gained(old, refs, n, base) /\ h.at # "ref"
    BY <1>2, <2>1, <2>2
  <2>4. QED
    BY <2>3 DEF doc, new, old, refs, n, base, was, h
<1>7. QED
  BY <1>3, <1>5, <1>6

\* The old material stays, and what was missing follows it.
LEMMA BlobsGained ==
  ASSUME NEW f, IsDoc(f), NEW g, IsDoc(g), NEW m, Materialized(m), NEW key \in DssKeys,
         Updated(Load(f), Load(g), NewMaterial(Load(f), m), {}, DssRewrite(Load(f), m)),
         StockedKey(f, key)
  PROVE  StockedKey(g, key) /\ IsPrefix(DssBlobs(f, key), DssBlobs(g, key))
<1>. DEFINE doc  == Load(f)
            new  == Load(g)
            old  == Refs(doc, key)
            refs == Refs(new, key)
            a    == DssBlobs(f, key)
            b    == DssBlobs(g, key)
            n    == Lack(doc, m, key)
            l    == Len(old)
            base == doc.maxId + FirstOf(doc, m, key)
            more == Lacking(doc, m, key)
            mat  == NewMaterial(doc, m)
<1>1. doc.maxId \in Nat
  BY DocFacts DEF IsDoc
<1>2. Gained(old, refs, n, base)
  BY RefsGained
<1>3. /\ IsSeq(a) /\ Len(a) = l /\ l \in Nat /\ DOMAIN old = 1..l
      /\ \A i \in 1..l : a[i] = doc.objects[old[i]].der /\ old[i] \in DOMAIN doc.objects
  BY BlobsAre
<1>4. /\ IsSeq(b) /\ Len(b) = Len(refs) /\ DOMAIN refs = 1..Len(refs) /\ DOMAIN b = DOMAIN refs
      /\ \A i \in 1..Len(refs) : b[i] = new.objects[refs[i]].der
  BY BlobsAre
<1>5. \A id \in DOMAIN doc.objects :
         doc.objects[id].t \in {"array", "der"} => new.objects[id] = doc.objects[id]
  BY DssWritten
<1>6. Updated(doc, new, mat, {}, DssRewrite(doc, m))
  OBVIOUS
<1>7. (\A id \in Range(old) : doc.objects[id].t = "der") /\ IsInjective(a)
  BY DEF StockedKey
<1>. HIDE DEF new, a, b, old, refs
<1>8. /\ n \in Nat /\ DOMAIN more = 1..n /\ IsInjective(more)
      /\ \A i \in 1..n : \A id \in Range(old) : more[i] # doc.objects[id].der
      /\ \A i \in 1..n :
           LET id == doc.maxId + (FirstOf(doc, m, key) + i)
           IN  id \in BlobIds(doc, m, key) /\ Streams(doc, m, key)[id] = Der(more[i])
  <2>. HIDE DEF doc
  <2>1. QED
    BY <1>1, LackingIs DEF old
<1>9. FirstOf(doc, m, key) \in Nat
  BY <1>1, BlobIdsFacts
<1>10. /\ \A id \in DOMAIN mat : mat[id].t = "der"
       /\ \A id \in BlobIds(doc, m, key) : id \in DOMAIN mat /\ mat[id] = Streams(doc, m, key)[id]
  <2>. HIDE DEF doc
  <2>1. QED
    BY <1>1, MaterialIs
<1>. HIDE DEF doc, n, l, more, mat
<1>11. ASSUME NEW i \in 1..l
       PROVE  b[i] = a[i] /\ refs[i] = old[i] /\ new.objects[refs[i]].t = "der"
  <2>1. refs[i] = old[i] /\ i \in 1..Len(refs)
    BY <1>2, <1>3, <1>8 DEF Gained, l
  <2>2. old[i] \in Range(old)
    BY <1>3 DEF Range
  <2>3. new.objects[old[i]] = doc.objects[old[i]] /\ doc.objects[old[i]].t = "der"
    BY <1>3, <1>5, <1>7, <2>2
  <2>4. QED
    BY <1>3, <1>4, <2>1, <2>3
<1>12. ASSUME NEW i \in 1..n
       PROVE  b[l + i] = more[i] /\ new.objects[refs[l + i]].t = "der"
  <2>1. refs[l + i] = base + i /\ l + i \in 1..Len(refs)
    BY <1>2, <1>3, <1>8 DEF Gained, l
  <2>2. PICK id : id = doc.maxId + (FirstOf(doc, m, key) + i)
    OBVIOUS
  <2>3. refs[l + i] = id
    BY <1>1, <1>9, <2>1, <2>2 DEF doc
  <2>4. id \in DOMAIN mat /\ mat[id] = Der(more[i])
    BY <1>8, <1>10, <2>2
  <2>5. id \in DOMAIN new.objects /\ id \notin DOMAIN doc.objects
    BY <1>6, <2>4 DEF Updated
  <2>6. mat[id].t = "der" /\ Serialized(mat[id]) = mat[id]
    BY <1>10, <2>4, SerializedParts
  <2>7. new.objects[id] = Der(more[i])
    BY <1>6, <2>4, <2>5, <2>6 DEF Updated
  <2>8. new.objects[id].t = "der" /\ new.objects[id].der = more[i]
    BY <2>7 DEF Der
  <2>9. QED
    BY <1>4, <2>1, <2>3, <2>8
<1>13. Len(refs) = l + n
  BY <1>2 DEF Gained, l
<1>14. ASSUME NEW i \in 1..Len(refs)
       PROVE  i \in 1..l \/ \E k \in 1..n : i = l + k
  <2>1. CASE i <= l
    BY <1>3, <2>1
  <2>2. CASE i > l
    <3>1. i - l \in 1..n /\ i = l + (i - l)
      BY <1>3, <1>8, <1>13, <2>2
    <3>2. QED
      BY <3>1
  <2>3. QED
    BY <1>3, <1>8, <1>13, <2>1, <2>2
<1>15. \A i \in 1..l : \A k \in 1..n : more[k] # a[i]
  <2>1. SUFFICES ASSUME NEW i \in 1..l, NEW k \in 1..n PROVE more[k] # a[i]
    OBVIOUS
  <2>2. old[i] \in Range(old)
    BY <1>3 DEF Range
  <2>3. QED
    BY <1>3, <1>8, <2>2
<1>16. IsInjective(b)
  <2>1. SUFFICES ASSUME NEW i \in 1..Len(refs), NEW j \in 1..Len(refs), b[i] = b[j] PROVE i = j
    BY <1>4 DEF IsInjective
  <2>2. CASE i \in 1..l /\ j \in 1..l
    <3>1. i \in DOMAIN a /\ j \in DOMAIN a
      BY <1>3, <2>2, SeqFacts
    <3>2. QED
      BY <1>7, <1>11, <2>1, <2>2, <3>1 DEF IsInjective
  <2>3. CASE i \in 1..l /\ \E k \in 1..n : j = l + k
    BY <1>11, <1>12, <1>15, <2>1, <2>3
  <2>4. CASE j \in 1..l /\ \E k \in 1..n : i = l + k
    BY <1>11, <1>12, <1>15, <2>1, <2>4
  <2>5. CASE (\E k \in 1..n : i = l + k) /\ \E k \in 1..n : j = l + k
    <3>1. PICK p \in 1..n, q \in 1..n : i = l + p /\ j = l + q
      BY <2>5
    <3>2. more[p] = more[q]
      BY <1>12, <2>1, <3>1
    <3>3. p = q
      BY <1>8, <3>2 DEF IsInjective
    <3>4. QED
      BY <3>1, <3>3
  <2>6. QED
    BY <1>14, <2>2, <2>3, <2>4, <2>5
<1>17. \A id \in Range(refs) : new.objects[id].t = "der"
  <2>1. SUFFICES ASSUME NEW i \in 1..Len(refs) PROVE new.objects[refs[i]].t = "der"
    BY <1>4 DEF Range
  <2>2. QED
    BY <1>11, <1>12, <1>14
<1>18. IsPrefix(a, b)
  <2>1. Len(a) <= Len(b) /\ \A i \in 1..Len(a) : a[i] = b[i]
    BY <1>3, <1>4, <1>8, <1>11, <1>13
  <2>2. QED
    BY <1>3, <1>4, <2>1, PrefixFacts
<1>19. QED
  BY <1>16, <1>17, <1>18 DEF StockedKey, a, b, refs, new

LEMMA DssMoveKept ==
  ASSUME NEW f, IsDoc(f), NEW g, IsDoc(g), DssMove(f, g), Stocked(f)
  PROVE  Stocked(g) /\ \A key \in DssKeys : IsPrefix(DssBlobs(f, key), DssBlobs(g, key))
<1>1. PICK m \in Materials :
        Updated(Load(f), Load(g), NewMaterial(Load(f), m), {}, DssRewrite(Load(f), m))
  BY DEF DssMove
<1>2. Materialized(m)
  BY SizesAssumption DEF Materialized
<1>3. /\ \A key \in DssKeys : StockedKey(f, key)
      /\ DssArrays(Load(f)) \cap FieldArrays(Load(f)) = {}
  BY StockedIs
<1>4. \A key \in DssKeys : StockedKey(g, key) /\ IsPrefix(DssBlobs(f, key), DssBlobs(g, key))
  BY <1>1, <1>2, <1>3, BlobsGained
<1>5. FieldArrays(Load(g)) \subseteq FieldArrays(Load(f))
  BY DssMoveSame, SameFieldArrays
<1>6. \A key \in DssKeys :
        LET h == ExistingDss(Load(g)).arr[key]
        IN  h = ExistingDss(Load(f)).arr[key] \/ h.at # "ref"
  BY <1>1, <1>2, RefsGained
<1>7. DssArrays(Load(g)) \subseteq DssArrays(Load(f))
  BY <1>6 DEF DssArrays
<1>8. Stocked(g)
  BY <1>3, <1>4, <1>5, <1>7, StockedIs
<1>9. QED
  BY <1>4, <1>8

-----------------------------------------------------------------------------
(* Every step keeps the third invariant.                                   *)

LEMMA MovesSettle ==
  ASSUME NEW f, NEW g, Moves(f, g), Settled(Load(f))
  PROVE  Settled(Load(g))
BY FieldMoveSettled, DssMoveSettled, SameFieldsKept DEF Moves, QuietMove

LEMMA GoesOnItself ==
  ASSUME NEW f, IsDoc(f)
  PROVE  GoesOn(f, f)
<1>1. SUFFICES ASSUME NEW key \in DssKeys PROVE IsPrefix(DssBlobs(f, key), DssBlobs(f, key))
  BY DEF GoesOn
<1>2. IsSeq(DssBlobs(f, key))
  BY BlobsAre
<1>3. QED
  BY <1>2, PrefixReflexive

LEMMA GoesOnTransitive ==
  ASSUME NEW f, NEW g, NEW h, IsDoc(f), IsDoc(g), IsDoc(h), GoesOn(f, g), GoesOn(g, h)
  PROVE  GoesOn(f, h)
<1>1. SUFFICES ASSUME NEW key \in DssKeys PROVE IsPrefix(DssBlobs(f, key), DssBlobs(h, key))
  BY DEF GoesOn
<1>2. IsSeq(DssBlobs(f, key)) /\ IsSeq(DssBlobs(g, key)) /\ IsSeq(DssBlobs(h, key))
  BY BlobsAre
<1>3. QED
  BY <1>2, PrefixTransitive DEF GoesOn

LEMMA MovesStock ==
  ASSUME NEW f, NEW g, Moves(f, g), Stocked(f)
  PROVE  Stocked(g) /\ GoesOn(f, g)
<1>1. IsDoc(f) /\ IsDoc(g)
  BY DEF Moves
<1>2. CASE DssMove(f, g)
  BY <1>1, <1>2, DssMoveKept DEF GoesOn
<1>3. CASE SameMaterial(Load(f), Load(g))
  <2>1. Stocked(g) /\ \A key \in DssKeys : DssBlobs(g, key) = DssBlobs(f, key)
    BY <1>1, <1>3, SameMaterialKept
  <2>2. GoesOn(f, f)
    BY <1>1, GoesOnItself
  <2>3. QED
    BY <2>1, <2>2 DEF GoesOn
<1>4. QED
  BY <1>1, <1>2, <1>3, FieldMoveKept, QuietMoveKept DEF Moves

\* Good documents, finished or with a signature that waits, are documents.
LEMMA AreDocs ==
  /\ \A f : Good(f) => IsDoc(f)
  /\ \A input, b, log : Finished(input, b, log) => IsDoc(b)
  /\ \A input, b, h, cap, log : Waiting(input, b, h, cap, log) => IsDoc(b)
BY WaitingHas DEF Good, Finished, Pending, IsDoc

\* What becomes of the document: a call that is done leaves its buffer.
LEMMA EditMoves ==
  ASSUME LInv, EditPage \/ EditObject \/ EditDss \/ EditGarbage
  PROVE  Moves(file, file')
<1>1. Good(file) /\ IsDoc(file)
  BY AreDocs DEF LInv, GoodFile
<1>2. CASE EditPage
  BY <1>1, <1>2, PageMoved DEF EditPage, Edit, Moves
<1>3. CASE EditObject
  BY <1>1, <1>3, ObjectMoved DEF EditObject, Edit, Moves
<1>4. CASE EditDss
  <2>. DEFINE doc  == Load(file)
              g(m) == Render(file, PlainBody(DssUpdate(doc, m)),
                             FreshId(doc, NewBlobs(doc, m) + 1), doc.root)
  <2>1. PICK m \in Materials : file' = g(m)
    BY <1>4 DEF EditDss, Edit
  <2>2. IsDoc(g(m)) /\ DssMove(file, g(m))
    BY <1>1, DssMoved
  <2>. HIDE DEF g
  <2>3. QED
    BY <1>1, <2>1, <2>2 DEF Moves
<1>5. CASE EditGarbage
  <2>1. file' = Append(file, Junk)
    BY <1>5 DEF EditGarbage
  <2>2. Good(Append(file, Junk)) /\ AlikeDocs(Load(file), Load(Append(file, Junk)))
    BY <1>1, GarbageGood
  <2>3. IsDoc(file') /\ QuietMove(file, file')
    BY <1>1, <2>1, <2>2, AreDocs, AlikeMoved
  <2>4. QED
    BY <1>1, <2>3 DEF Moves
<1>6. QED
  BY <1>2, <1>3, <1>4, <1>5

\* The buffer begins as an update of the document.
LEMMA BuildMoves ==
  ASSUME IInv, LInv, Build
  PROVE  Moves(file, buf') /\ file' = file
<1>. DEFINE doc  == Load(file)
            nap  == ApObjects(opts.ap)
            page == PageIds(doc)[PageNumber(opts)]
            body == SignedBody(FieldUpdate(doc, page, "ETSI.CAdES.detached", opts.cap, nap),
                               FreshId(doc, 1))
            b    == Render(file, body, FreshId(doc, nap + 3), doc.root)
<1>1. buf' = b /\ file' = file /\ Acceptable(file, opts)
  BY DEF Build
<1>2. nap \in Nat
  BY DEF ApObjects
<1>3. opts.cap \in Nat /\ opts.page \in Nat
  BY OptionsAssumption DEF IInv, TypeOK
<1>4. IsSeq(file) /\ Readable(file) /\ IsDocument(doc) /\ IsDoc(file)
  BY DEF LInv, GoodFile, Good, IsDoc
<1>5. PageNumber(opts) \in 1..Len(PageIds(doc))
  <2>1. Len(PageIds(doc)) \in Nat
    BY <1>4, PagesAre
  <2>2. PageNumber(opts) <= Len(PageIds(doc))
    BY <1>1 DEF Acceptable
  <2>3. PageNumber(opts) \in Nat /\ PageNumber(opts) > 0
    BY <1>1, <1>3 DEF PageNumber, Acceptable, ValidOptions
  <2>4. QED
    BY <2>1, <2>2, <2>3
<1>6. page \in PageObjects(doc)
  BY <1>4, <1>5, PagesAre
<1>7. IsDoc(b) /\ FieldMove(file, b) /\ Keeps(doc, Load(b))
  <2>. HIDE DEF page, nap
  <2>1. QED
    BY <1>2, <1>3, <1>4, <1>6, FieldMoved
<1>. HIDE DEF b
<1>8. QED
  BY <1>1, <1>4, <1>7 DEF Moves

\* build_doctimestamp_update
LEMMA StampMoves ==
  ASSUME IInv, LInv, Stamp
  PROVE  Moves(buf, buf') /\ file' = file
<1>. DEFINE doc  == Load(buf)
            page == PageIds(doc)[1]
            body == SignedBody(FieldUpdate(doc, page, "ETSI.RFC3161", opts.cap, 0),
                               FreshId(doc, 1))
            b    == Render(buf, body, FreshId(doc, 3), doc.root)
<1>1. buf' = b /\ file' = file /\ pc = "stamp"
  BY DEF Stamp
<1>2. opts.cap \in Nat
  BY OptionsAssumption DEF IInv, TypeOK
<1>3. Good(buf) /\ IsDoc(buf) /\ IsSeq(buf) /\ Readable(buf) /\ IsDocument(doc)
  BY <1>1 DEF LInv, GoodBuffer, Finished, Good, IsDoc
<1>4. page \in PageObjects(doc)
  BY <1>3, PagesAre
<1>5. IsDoc(b) /\ FieldMove(buf, b) /\ Keeps(doc, Load(b))
  <2>1. 0 \in Nat /\ 0 + 3 = 3
    OBVIOUS
  <2>. HIDE DEF page
  <2>2. QED
    BY <1>2, <1>3, <1>4, <2>1, FieldMoved
<1>. HIDE DEF b
<1>6. QED
  BY <1>1, <1>3, <1>5 DEF Moves

\* add_dss
LEMMA AddDssMoves ==
  ASSUME LInv, AddDss
  PROVE  Moves(buf, buf') /\ file' = file
<1>. DEFINE doc  == Load(buf)
            b(m) == Render(buf, PlainBody(DssUpdate(doc, m)),
                           FreshId(doc, NewBlobs(doc, m) + 1), doc.root)
<1>1. PICK m \in Materials : buf' = b(m)
  BY DEF AddDss
<1>2. file' = file /\ pc = "dss"
  BY DEF AddDss
<1>3. IsDoc(buf)
  BY <1>2, AreDocs DEF LInv, GoodBuffer
<1>4. IsDoc(b(m)) /\ DssMove(buf, b(m))
  BY <1>3, DssMoved
<1>. HIDE DEF b
<1>5. QED
  BY <1>1, <1>2, <1>3, <1>4 DEF Moves

\* patch_byte_range
LEMMA PatchMoves ==
  ASSUME IInv, LInv, NEW from, NEW to, Patch(from, to),
         <<from, to>> \in {<<"patch", "cms">>, <<"tspatch", "token">>}
  PROVE  Moves(buf, buf') /\ file' = file
<1>. DEFINE r == ByteRange(buf, head, opts.cap)
            b == [buf EXCEPT ![head].br = r]
<1>1. /\ pc = from /\ buf' = b /\ file' = file
  BY DEF Patch
<1>2. opts.cap \in Nat
  BY OptionsAssumption DEF IInv, TypeOK
<1>3. \E log : Waiting(file, buf, head, opts.cap, log)
  BY <1>1 DEF LInv, SignWaits, StampWaits, SignsNow, StampsNow
<1>4. PICK f : Pending(f, buf, head, opts.cap)
  BY <1>3, WaitingHas
<1>. HIDE DEF r
<1>5. Pending(f, b, head, opts.cap) /\ AlikeDocs(Load(buf), Load(b))
  BY <1>2, <1>4, PatchPending
<1>. HIDE DEF b
<1>6. IsDoc(buf) /\ IsDoc(b)
  BY <1>4, <1>5 DEF Pending, IsDoc
<1>7. QED
  BY <1>1, <1>5, <1>6, AlikeMoved DEF Moves

\* fill_placeholder
LEMMA FillMoves ==
  ASSUME IInv, LInv, IInv', LInv', Fill \/ FillStep("tsfill", "return")
  PROVE  Moves(buf, buf') /\ file' = file
<1>. DEFINE b == Filled(buf, head, opts.cap, der)
<1>1. /\ pc \in {"fill", "tsfill"} /\ pc' \in {"dss", "return"} /\ buf' = b /\ file' = file
  BY DEF Fill, FillStep
<1>2. opts.cap \in Nat /\ der.size \in Nat
  BY OptionsAssumption DEF IInv, TypeOK
<1>3. \E log : Waiting(file, buf, head, opts.cap, log)
  BY <1>1 DEF LInv, SignWaits, StampWaits, SignsNow, StampsNow
<1>4. PICK f : Pending(f, buf, head, opts.cap)
  BY <1>3, WaitingHas
<1>5. InPlace(buf, b, head, opts.cap)
  BY <1>2, <1>4, FilledInPlace
<1>. HIDE DEF b
<1>6. AlikeDocs(Load(buf), Load(b))
  BY <1>2, <1>4, <1>5, WrittenObjects
<1>7. IsDoc(buf)
  BY <1>4 DEF Pending, IsDoc
<1>8. IsDoc(b)
  BY <1>1 DEF LInv, GoodBuffer, Finished, Good, IsDoc
<1>9. QED
  BY <1>1, <1>6, <1>7, <1>8, AlikeMoved DEF Moves

\* Where the document and the buffer of a step come from.
LEMMA StepMoves ==
  ASSUME IInv, LInv, [Next]_vars
  PROVE  /\ \/ file' = file
            \/ Moves(file, file')
            \/ pc \in Working /\ file' = buf
         /\ pc' \in Working =>
              /\ file' = file
              /\ \/ pc \in Working /\ (buf' = buf \/ Moves(buf, buf'))
                 \/ Moves(file, buf')
<1>1. IInv' /\ LInv'
  BY StepInv, StepGood
<1>2. CASE \E o \in Options : Call(o)
  BY <1>2 DEF Call, Working
<1>3. CASE Reject \/ PatchFails \/ CryptoFails \/ FillFails
  BY <1>3 DEF Reject, PatchFails, CryptoFails, FillFails, Fail, Working
<1>4. CASE Build
  BY <1>4, BuildMoves
<1>5. CASE Patch("patch", "cms") \/ Patch("tspatch", "token")
  <2>1. Moves(buf, buf') /\ file' = file
    BY <1>5, PatchMoves
  <2>2. pc \in Working
    BY <1>5 DEF Patch, Working, Steps
  <2>3. QED
    BY <2>1, <2>2
<1>6. CASE CmsSign \/ Token
  BY <1>6 DEF CmsSign, Token, Working, Steps
<1>7. CASE Fill \/ FillStep("tsfill", "return")
  <2>1. Moves(buf, buf') /\ file' = file
    BY <1>1, <1>7, FillMoves
  <2>2. pc \in Working
    BY <1>7 DEF Fill, FillStep, Working, Steps
  <2>3. QED
    BY <2>1, <2>2
<1>8. CASE AddDss
  <2>1. Moves(buf, buf') /\ file' = file
    BY <1>8, AddDssMoves
  <2>2. pc \in Working
    BY <1>8 DEF AddDss, Working, Steps
  <2>3. QED
    BY <2>1, <2>2
<1>9. CASE Stamp
  <2>1. Moves(buf, buf') /\ file' = file
    BY <1>9, StampMoves
  <2>2. pc \in Working
    BY <1>9 DEF Stamp, Working, Steps
  <2>3. QED
    BY <2>1, <2>2
<1>10. CASE Return
  BY <1>10 DEF Return, Working, Steps
<1>11. CASE EditPage \/ EditObject \/ EditDss \/ EditGarbage
  <2>1. Moves(file, file')
    BY <1>11, EditMoves
  <2>2. pc' \notin Working
    BY <1>11 DEF EditPage, EditObject, EditDss, EditGarbage, Edit, Working
  <2>3. QED
    BY <2>1, <2>2
<1>12. CASE UNCHANGED vars
  BY <1>12 DEF vars
<1>. QED
  BY <1>2, <1>3, <1>4, <1>5, <1>6, <1>7, <1>8, <1>9, <1>10, <1>11, <1>12, Zenon
  DEF Next, Step

LEMMA SpecSettled == ASSUME FieldsBefore PROVE Spec => []FInv
<1>1. Init => FInv
  BY DEF Init, FInv, FieldsBefore, Settled, Working
<1>2. IInv /\ LInv /\ FInv /\ [Next]_vars => FInv'
  <2>. SUFFICES ASSUME IInv, LInv, FInv, [Next]_vars PROVE FInv'
    OBVIOUS
  <2>1. Settled(Load(file'))
    BY StepMoves, MovesSettle DEF FInv
  <2>2. pc' \in Working => Settled(Load(buf'))
    BY StepMoves, MovesSettle DEF FInv
  <2>3. QED
    BY <2>1, <2>2 DEF FInv
<1>3. QED
  BY <1>1, <1>2, SpecInv, SpecGood, PTL DEF Spec

\* In every document sign_pdf_bytes leaves, or another program, each signature is the
\* value of exactly one form field (build_incremental_update), which is an annotation
\* of a page, if it was so in the first document.
THEOREM EveryFieldIsKept == ASSUME FieldsBefore PROVE Spec => []EverySignatureHasItsField
<1>1. FInv => EverySignatureHasItsField
  BY DEF FInv, Settled, EverySignatureHasItsField
<1>2. QED
  BY <1>1, SpecSettled, PTL

LEMMA StepStocked ==
  ASSUME IInv, LInv, MInv, [Next]_vars
  PROVE  MInv' /\ GoesOn(file, file')
<1>1. IsDoc(file)
  BY AreDocs DEF LInv, GoodFile
<1>2. Stocked(file') /\ GoesOn(file, file')
  <2>1. CASE file' = file
    BY <1>1, <2>1, GoesOnItself DEF MInv
  <2>2. CASE Moves(file, file')
    BY <2>2, MovesStock DEF MInv
  <2>3. CASE pc \in Working /\ file' = buf
    BY <2>3 DEF MInv
  <2>4. QED
    BY <2>1, <2>2, <2>3, StepMoves
<1>3. ASSUME pc' \in Working
      PROVE  IsDoc(buf') /\ Stocked(buf') /\ GoesOn(file', buf')
  <2>1. file' = file
    BY <1>3, StepMoves
  <2>2. CASE pc \in Working /\ buf' = buf
    BY <2>1, <2>2 DEF MInv
  <2>3. CASE pc \in Working /\ Moves(buf, buf')
    <3>1. IsDoc(buf) /\ IsDoc(buf') /\ Stocked(buf') /\ GoesOn(buf, buf') /\ GoesOn(file, buf)
      BY <2>3, MovesStock DEF MInv, Moves
    <3>2. GoesOn(file, buf')
      BY <1>1, <3>1, GoesOnTransitive
    <3>3. QED
      BY <2>1, <3>1, <3>2
  <2>4. CASE Moves(file, buf')
    BY <2>1, <2>4, MovesStock DEF MInv, Moves
  <2>5. QED
    BY <1>3, <2>2, <2>3, <2>4, StepMoves
<1>4. QED
  BY <1>2, <1>3 DEF MInv

LEMMA SpecStocked == ASSUME MaterialBefore PROVE Spec => []MInv
<1>1. Init => MInv
  BY DEF Init, MInv, MaterialBefore, Working
<1>2. IInv /\ LInv /\ MInv /\ [Next]_vars => MInv'
  BY StepStocked
<1>3. QED
  BY <1>1, <1>2, SpecInv, SpecGood, PTL DEF Spec

\* Validation material is only ever added, and nothing is stored twice (add_dss,
\* merge), if the first document had it so.
THEOREM MaterialIsMerged == ASSUME MaterialBefore PROVE Spec => DssMerges
<1>. DEFINE A == \A key \in DssKeys :
                   /\ IsPrefix(DssBlobs(file, key), DssBlobs(file', key))
                   /\ IsInjective(DssBlobs(file', key))
<1>1. IInv /\ LInv /\ MInv /\ [Next]_vars => [A]_file
  <2>. SUFFICES ASSUME IInv, LInv, MInv, [Next]_vars PROVE A
    OBVIOUS
  <2>1. Stocked(file') /\ GoesOn(file, file')
    BY StepStocked DEF MInv
  <2>2. \A key \in DssKeys : StockedKey(file', key)
    BY <2>1, StockedIs
  <2>3. QED
    BY <2>1, <2>2 DEF GoesOn, StockedKey
<1>. HIDE DEF A
<1>2. Spec => [][A]_file
  BY <1>1, SpecStocked, SpecInv, SpecGood, PTL DEF Spec
<1>3. QED
  BY <1>2 DEF DssMerges, A

-----------------------------------------------------------------------------
(* What an update of the /DSS leaves alone (is_dss_only_update).           *)

LEMMA OnlyDssItself ==
  ASSUME NEW doc
  PROVE  OnlyDss(doc, doc)
BY DEF OnlyDss, Unchanged

\* The objects of the /DSS.
LEMMA DssIdsAre ==
  ASSUME NEW f, IsDoc(f), NEW id
  PROVE  LET doc == Load(f)
         IN  id \in DssIds(doc) <=>
               \/ Catalog(doc).dss.at = "ref" /\ id = Catalog(doc).dss.ref
               \/ \E key \in DssKeys : \/ id \in Range(Refs(doc, key))
                                       \/ /\ ExistingDss(doc).arr[key].at = "ref"
                                          /\ id = ExistingDss(doc).arr[key].ref
<1>. DEFINE doc    == Load(f)
            holder == Catalog(doc).dss
            dss    == ExistingDss(doc)
            IdsOf(h) == (IF h.at = "ref" THEN {h.ref} ELSE {})
                          \cup (IF h.at = "none" THEN {} ELSE Range(Resolve(doc, h).a))
<1>1. CASE holder.at = "none"
  <2>1. DssIds(doc) = {}
    BY <1>1 DEF DssIds
  <2>2. dss = EmptyDss
    BY <1>1 DEF ExistingDss
  <2>3. \A key \in DssKeys : dss.arr[key] = Absent
    BY <2>2 DEF EmptyDss
  <2>4. \A key \in DssKeys : Refs(doc, key) = << >>
    BY <2>3 DEF Refs, DssArray, Absent
  <2>5. Range(<< >>) = {}
    BY EmptyTable DEF Range
  <2>6. QED
    BY <1>1, <2>1, <2>3, <2>4, <2>5 DEF Absent
<1>2. CASE holder.at # "none"
  <2>1. dss = Resolve(doc, holder)
    BY <1>2 DEF ExistingDss
  <2>2. DssIds(doc) = (IF holder.at = "ref" THEN {holder.ref} ELSE {})
                        \cup UNION {IdsOf(dss.arr[key]) : key \in DssKeys}
    BY <1>2, <2>1, Zenon DEF DssIds
  <2>3. \A key \in DssKeys : Refs(doc, key) = IF dss.arr[key].at = "none" THEN << >>
                                             ELSE Resolve(doc, dss.arr[key]).a
    BY DEF Refs, DssArray
  <2>4. Range(<< >>) = {}
    BY EmptyTable DEF Range
  <2>. HIDE DEF dss
  <2>5. \A key \in DssKeys :
          id \in IdsOf(dss.arr[key]) <=> \/ id \in Range(Refs(doc, key))
                                         \/ dss.arr[key].at = "ref" /\ id = dss.arr[key].ref
    BY <2>3, <2>4
  <2>6. id \in UNION {IdsOf(dss.arr[key]) : key \in DssKeys}
          <=> \E key \in DssKeys : id \in IdsOf(dss.arr[key])
    OBVIOUS
  <2>. HIDE DEF IdsOf
  <2>7. QED
    BY <2>2, <2>5, <2>6 DEF dss
<1>3. QED
  BY <1>1, <1>2

LEMMA DssKinds ==
  ASSUME NEW f, IsDoc(f), Stocked(f), NEW id \in DssIds(Load(f))
  PROVE  id \in DOMAIN Load(f).objects /\ Load(f).objects[id].t \in {"dss", "array", "der"}
<1>. DEFINE doc == Load(f)
<1>1. CASE Catalog(doc).dss.at = "ref" /\ id = Catalog(doc).dss.ref
  BY <1>1, DssIs DEF IsDoc
<1>2. ASSUME NEW key \in DssKeys, id \in Range(Refs(doc, key))
      PROVE  id \in DOMAIN doc.objects /\ doc.objects[id].t = "der"
  BY <1>2, RefsAre, StockedIs DEF StockedKey
<1>3. ASSUME NEW key \in DssKeys, ExistingDss(doc).arr[key].at = "ref",
             id = ExistingDss(doc).arr[key].ref
      PROVE  id \in DOMAIN doc.objects /\ doc.objects[id].t = "array"
  BY <1>3, RefsAre
<1>4. QED
  BY <1>1, <1>2, <1>3, DssIdsAre

\* What an update of the /DSS writes again.
LEMMA DssMoveIs ==
  ASSUME NEW f, IsDoc(f), NEW g, DssMove(f, g)
  PROVE  LET old == Load(f)
             new == Load(g)
         IN  /\ new.root = old.root
             /\ \A id \in DOMAIN old.objects :
                  \/ id \in DOMAIN new.objects /\ new.objects[id] = old.objects[id]
                  \/ id = old.root /\ Catalog(old).dss.at # "ref"
                  \/ /\ Catalog(old).dss.at = "ref" /\ id = Catalog(old).dss.ref
                     /\ old.objects[id].t = "dss" /\ new.objects[id].t = "dss"
             /\ Catalog(old).dss.at = "ref" => Catalog(new).dss = Catalog(old).dss
             /\ PagesGrew(old, new)
             /\ NoReal(old) => NoReal(new) /\ NoDss(new) = NoDss(old)
<1>. DEFINE old    == Load(f)
            new    == Load(g)
            holder == Catalog(old).dss
<1>1. PICK m \in Materials : Updated(old, new, NewMaterial(old, m), {}, DssRewrite(old, m))
  BY DEF DssMove
<1>2. Materialized(m) /\ old.root \in DOMAIN old.objects /\ Catalog(old) \in Catalogs
  BY DocFacts, SizesAssumption DEF IsDoc, Materialized
<1>. DEFINE u   == DssRewrite(old, m)
            dss == NewDss(old, m)
            cat == DssCatalog(old, m)
<1>3. /\ dss.t = "dss" /\ cat \in Catalogs /\ cat.t = "catalog"
      /\ holder.at = "ref" => /\ holder.ref \in DOMAIN old.objects
                              /\ old.objects[holder.ref].t = "dss"
                              /\ DOMAIN u = {holder.ref} /\ u[holder.ref] = dss
      /\ holder.at # "ref" => DOMAIN u = {old.root} /\ u[old.root] = cat
  BY <1>2, DssRewrites
<1>4. /\ new.root = old.root
      /\ \A id \in DOMAIN old.objects :
           /\ id \in DOMAIN new.objects
           /\ new.objects[id] = IF id \in DOMAIN u THEN Serialized(u[id]) ELSE old.objects[id]
  BY <1>1 DEF Updated
<1>5. cat.number = Catalog(old).number /\ [cat EXCEPT !.dss = Absent] = NoDss(old)
  BY <1>2 DEF DssCatalog, NoDss, Catalogs
<1>6. Catalog(old).t = "catalog"
  BY <1>2 DEF Catalogs
<1>7. Serialized(dss) = dss /\ (cat.number # "integral_real" => Serialized(cat) = cat)
      /\ Serialized(cat).t = "catalog"
  BY <1>3, SerializedParts DEF Serialized
<1>. HIDE DEF old, new, u, dss, cat
<1>8. CASE holder.at = "ref"
  <2>1. \A id \in DOMAIN old.objects : new.objects[id] = IF id = holder.ref THEN dss ELSE old.objects[id]
    BY <1>3, <1>4, <1>7, <1>8
  <2>2. old.root # holder.ref
    BY <1>3, <1>6, <1>8 DEF Catalog
  <2>3. Catalog(new) = Catalog(old)
    BY <1>2, <1>4, <2>1, <2>2 DEF Catalog
  <2>4. PagesGrew(old, new)
    <3>1. \A id \in PageObjects(old) : old.objects[id].body \in Nat
      BY BodiesAre DEF old
    <3>2. \A id \in PageObjects(old) : new.objects[id] = old.objects[id]
      BY <1>3, <1>8, <2>1 DEF PageObjects
    <3>3. QED
      BY <3>1, <3>2 DEF PagesGrew
  <2>5. NoReal(old) => NoReal(new) /\ NoDss(new) = NoDss(old)
    BY <2>3 DEF NoReal, NoDss
  <2>6. \A id \in DOMAIN old.objects :
          \/ id \in DOMAIN new.objects /\ new.objects[id] = old.objects[id]
          \/ /\ holder.at = "ref" /\ id = holder.ref
             /\ old.objects[id].t = "dss" /\ new.objects[id].t = "dss"
    BY <1>3, <1>4, <1>8, <2>1
  <2>7. QED
    BY <1>4, <2>3, <2>4, <2>5, <2>6 DEF old, new
<1>9. CASE holder.at # "ref"
  <2>1. \A id \in DOMAIN old.objects :
          new.objects[id] = IF id = old.root THEN Serialized(cat) ELSE old.objects[id]
    BY <1>3, <1>4, <1>9
  <2>2. Catalog(new) = Serialized(cat)
    BY <1>2, <1>4, <2>1 DEF Catalog
  <2>3. NoReal(old) => NoReal(new) /\ NoDss(new) = NoDss(old)
    BY <1>5, <1>7, <2>2 DEF NoReal, NoDss
  <2>4. PagesGrew(old, new)
    <3>1. \A id \in PageObjects(old) : old.objects[id].body \in Nat
      BY BodiesAre DEF old
    <3>2. \A id \in PageObjects(old) : new.objects[id] = old.objects[id]
      BY <1>6, <2>1 DEF PageObjects, Catalog
    <3>3. QED
      BY <3>1, <3>2 DEF PagesGrew
  <2>5. QED
    BY <1>4, <1>9, <2>1, <2>3, <2>4 DEF old, new
<1>10. QED
  BY <1>8, <1>9

\* Every new stream is in the /DSS, and what was there is still there.
LEMMA DssMoveRefs ==
  ASSUME NEW f, IsDoc(f), NEW g, IsDoc(g), DssMove(f, g)
  PROVE  /\ \A key \in DssKeys : Range(Refs(Load(f), key)) \subseteq Range(Refs(Load(g), key))
         /\ \A id \in DOMAIN Load(g).objects \ DOMAIN Load(f).objects :
              \/ Load(g).objects[id] = XrefObj
              \/ /\ Load(g).objects[id].t = "der"
                 /\ \E key \in DssKeys : id \in Range(Refs(Load(g), key))
<1>. DEFINE old == Load(f)
            new == Load(g)
<1>1. PICK m \in Materials : Updated(old, new, NewMaterial(old, m), {}, DssRewrite(old, m))
  BY DEF DssMove
<1>2. Materialized(m) /\ old.maxId \in Nat
  BY DocFacts, SizesAssumption DEF IsDoc, Materialized
<1>. DEFINE a       == NewMaterial(old, m)
            n(key)  == Lack(old, m, key)
            at(key) == FirstOf(old, m, key)
<1>3. ASSUME NEW key \in DssKeys
      PROVE  /\ Gained(Refs(old, key), Refs(new, key), n(key), old.maxId + at(key))
             /\ Len(Refs(old, key)) \in Nat /\ IsSeq(Refs(old, key))
             /\ n(key) \in Nat /\ at(key) \in Nat
  BY <1>1, <1>2, RefsGained, RefsAre, BlobsAre, LackFacts, BlobIdsFacts
<1>4. ASSUME NEW key \in DssKeys PROVE Range(Refs(old, key)) \subseteq Range(Refs(new, key))
  <2>1. DOMAIN Refs(old, key) = 1..Len(Refs(old, key))
    BY <1>3, SeqFacts
  <2>2. DOMAIN Refs(new, key) = 1..Len(Refs(new, key))
    BY <1>3, SeqFacts DEF Gained
  <2>3. \A i \in 1..Len(Refs(old, key)) : /\ i \in 1..Len(Refs(new, key))
                                          /\ Refs(new, key)[i] = Refs(old, key)[i]
    BY <1>3 DEF Gained
  <2>4. QED
    BY <2>1, <2>2, <2>3 DEF Range
<1>5. ASSUME NEW key \in DssKeys, NEW id \in BlobIds(old, m, key)
      PROVE  id \in Range(Refs(new, key))
  <2>1. PICK i \in 1..n(key) : id = FreshId(old, at(key) + i)
    BY <1>5 DEF BlobIds, FreshIds
  <2>2. id = (old.maxId + at(key)) + i
    BY <1>2, <1>3, <2>1 DEF FreshId
  <2>3. DOMAIN Refs(new, key) = 1..Len(Refs(new, key))
    BY <1>3, SeqFacts DEF Gained
  <2>. HIDE DEF n, at, old, new
  <2>4. Len(Refs(old, key)) + i \in 1..Len(Refs(new, key))
        /\ Refs(new, key)[Len(Refs(old, key)) + i] = (old.maxId + at(key)) + i
    BY <1>3 DEF Gained
  <2>5. QED
    BY <2>2, <2>3, <2>4 DEF Range
<1>6. ASSUME NEW id \in DOMAIN new.objects \ DOMAIN old.objects, new.objects[id] # XrefObj
      PROVE  new.objects[id].t = "der" /\ \E key \in DssKeys : id \in BlobIds(old, m, key)
  <2>1. id \in DOMAIN a /\ new.objects[id] = Serialized(a[id])
    BY <1>1, <1>6 DEF Updated
  <2>2. a[id].t = "der"
    BY <1>2, <2>1, MaterialIs
  <2>3. new.objects[id].t = "der"
    BY <2>1, <2>2, SerializedParts
  <2>4. DOMAIN a = UNION {DOMAIN Streams(old, m, key) : key \in DssKeys}
    <3>1. DssKeys = {"Certs", "CRLs", "OCSPs"}
      BY DEF DssKeys
    <3>2. PICK x, y, z : /\ x = Streams(old, m, "Certs") /\ y = Streams(old, m, "CRLs")
                         /\ z = Streams(old, m, "OCSPs")
      OBVIOUS
    <3>3. a = (x ++ y) ++ z
      BY <3>2 DEF NewMaterial
    <3>4. DOMAIN (x ++ y) = DOMAIN x \cup DOMAIN y
      BY MergeIs
    <3>5. DOMAIN ((x ++ y) ++ z) = DOMAIN (x ++ y) \cup DOMAIN z
      BY MergeIs
    <3>. HIDE DEF a
    <3>6. QED
      BY <3>1, <3>2, <3>3, <3>4, <3>5
  <2>5. \E key \in DssKeys : id \in BlobIds(old, m, key)
    BY <2>1, <2>4, StreamsAre
  <2>6. QED
    BY <2>3, <2>5
<1>7. QED
  BY <1>4, <1>5, <1>6

\* So only the /DSS still differs after one more such update.
LEMMA OnlyDssMoved ==
  ASSUME NEW f, IsDoc(f), NEW g, IsDoc(g), DssMove(f, g), NoReal(Load(f)),
         NEW prev, OnlyDss(prev, Load(f))
  PROVE  OnlyDss(prev, Load(g))
<1>. DEFINE old == Load(f)
            new == Load(g)
<1>1. /\ new.root = old.root /\ NoDss(new) = NoDss(old)
      /\ \A id \in DOMAIN old.objects :
           \/ id \in DOMAIN new.objects /\ new.objects[id] = old.objects[id]
           \/ id = old.root
           \/ /\ Catalog(old).dss.at = "ref" /\ id = Catalog(old).dss.ref
              /\ new.objects[id].t = "dss"
      /\ Catalog(old).dss.at = "ref" => Catalog(new).dss = Catalog(old).dss
  BY DssMoveIs
<1>2. \A id \in DOMAIN old.objects \ {old.root} :
        id \notin DssIds(old) \/ old.objects[id].t = "array" => Unchanged(prev, old, id)
  BY DEF OnlyDss
<1>3. ASSUME NEW id \in DssIds(old), id \in DOMAIN old.objects
      PROVE  id \in DssIds(new) \/ id = old.root \/ old.objects[id].t = "array"
  <2>1. CASE Catalog(old).dss.at = "ref" /\ id = Catalog(old).dss.ref
    <3>1. Catalog(new).dss = Catalog(old).dss
      BY <1>1, <2>1
    <3>2. QED
      BY <2>1, <3>1, DssIdsAre
  <2>2. ASSUME NEW key \in DssKeys, id \in Range(Refs(old, key))
        PROVE  id \in DssIds(new)
    BY <2>2, DssMoveRefs, DssIdsAre
  <2>3. ASSUME NEW key \in DssKeys, ExistingDss(old).arr[key].at = "ref",
               id = ExistingDss(old).arr[key].ref
        PROVE  old.objects[id].t = "array"
    BY <2>3, RefsAre
  <2>4. QED
    BY <1>3, <2>1, <2>2, <2>3, DssIdsAre
<1>4. ASSUME NEW id \in DOMAIN new.objects \ {new.root},
             id \notin DssIds(new) \/ new.objects[id].t = "array"
      PROVE  Unchanged(prev, new, id)
  <2>1. CASE id \in DOMAIN old.objects
    <3>1. new.objects[id] = old.objects[id]
      <4>1. ASSUME Catalog(old).dss.at = "ref", id = Catalog(old).dss.ref,
                   new.objects[id].t = "dss"
            PROVE  FALSE
        <5>1. id \in DssIds(new)
          BY <1>1, <4>1, DssIdsAre
        <5>2. QED
          BY <1>4, <4>1, <5>1
      <4>2. QED
        BY <1>1, <1>4, <2>1, <4>1
    <3>2. Unchanged(prev, old, id)
      BY <1>1, <1>2, <1>3, <1>4, <2>1, <3>1
    <3>3. QED
      BY <3>1, <3>2 DEF Unchanged
  <2>2. CASE id \notin DOMAIN old.objects
    <3>1. \/ new.objects[id] = XrefObj
          \/ /\ new.objects[id].t = "der"
             /\ \E key \in DssKeys : id \in Range(Refs(new, key))
      BY <1>4, <2>2, DssMoveRefs
    <3>2. CASE new.objects[id] = XrefObj
      BY <3>2 DEF Unchanged
    <3>3. CASE /\ new.objects[id].t = "der"
               /\ \E key \in DssKeys : id \in Range(Refs(new, key))
      <4>1. id \in DssIds(new)
        BY <3>3, DssIdsAre
      <4>2. QED
        BY <1>4, <3>3, <4>1
    <3>4. QED
      BY <3>1, <3>2, <3>3
  <2>3. QED
    BY <2>1, <2>2
<1>5. QED
  BY <1>1, <1>4 DEF OnlyDss

-----------------------------------------------------------------------------
(* What is appended to a document.                                         *)

LEMMA MovesReal ==
  ASSUME NEW f, NEW g, Moves(f, g), NoReal(Load(f))
  PROVE  NoReal(Load(g))
<1>1. IsDoc(f) /\ Load(f).root \in DOMAIN Load(f).objects /\ Catalog(Load(f)) \in Catalogs
  BY DocFacts DEF Moves, IsDoc
<1>2. CASE FieldMove(f, g)
  <2>. DEFINE doc == Load(f)
              new == Load(g)
  <2>1. PICK sub, cap : \E page \in PageObjects(doc) : \E nap \in Nat :
          Updated(doc, new, NewObjects(doc, sub, cap, nap), {FreshId(doc, 1)},
                  Rewrites(doc, page, FreshId(doc, nap + 2)))
    BY <1>2, Zenon DEF FieldMove
  <2>2. PICK page \in PageObjects(doc) : \E nap \in Nat :
          Updated(doc, new, NewObjects(doc, sub, cap, nap), {FreshId(doc, 1)},
                  Rewrites(doc, page, FreshId(doc, nap + 2)))
    BY <2>1
  <2>3. PICK nap \in Nat :
          Updated(doc, new, NewObjects(doc, sub, cap, nap), {FreshId(doc, 1)},
                  Rewrites(doc, page, FreshId(doc, nap + 2)))
    BY <2>2
  <2>. DEFINE w == FreshId(doc, nap + 2)
              u == Rewrites(doc, page, w)
  <2>4. AllPush(doc, page, w, u)
    BY <1>1, RewritesAre
  <2>5. new.root = doc.root
        /\ Catalog(new) = IF doc.root \in DOMAIN u THEN Serialized(u[doc.root]) ELSE Catalog(doc)
    BY <1>1, <2>3 DEF Updated, Catalog
  <2>. HIDE DEF u, w, doc, new
  <2>6. ASSUME doc.root \in DOMAIN u PROVE u[doc.root] = NewCatalog(doc, w)
    <3>1. Pushes(doc, page, w, doc.root, u[doc.root]) /\ doc.objects[doc.root].t = "catalog"
      BY <1>1, <2>4, <2>6 DEF AllPush, Catalog, Catalogs, doc
    <3>2. QED
      BY <3>1 DEF Pushes
  <2>7. NewCatalog(doc, w).number = Catalog(doc).number
    BY <1>1 DEF NewCatalog, Catalogs, doc
  <2>8. Serialized(NewCatalog(doc, w)) = NewCatalog(doc, w)
    BY <2>7 DEF Serialized, NoReal, doc
  <2>9. QED
    BY <2>5, <2>6, <2>7, <2>8 DEF NoReal, doc, new
<1>3. CASE DssMove(f, g)
  BY <1>1, <1>3, DssMoveIs
<1>4. CASE QuietMove(f, g)
  BY <1>4 DEF QuietMove, NoReal
<1>5. QED
  BY <1>2, <1>3, <1>4 DEF Moves

\* g is f with an update of this kind, or with other bytes, appended.
AppendKinds == {"dss", "edit", "garbage"}

LEMMA UpdateAppends ==
  ASSUME NEW f, NEW objs, NEW size, Good(f), IsFine(f, objs, {}, size)
  PROVE  LET g == Render(f, PlainBody(objs), size, Load(f).root)
         IN  /\ Good(g) /\ Follows(f, g) /\ Len(f) < Len(g) /\ Len(f) < Top(g)
             /\ CollectSignatures(g) = CollectSignatures(f)
<1>. DEFINE g == Render(f, PlainBody(objs), size, Load(f).root)
<1>1. /\ Good(g) /\ Follows(f, g) /\ Len(f) < Top(g)
      /\ \A p \in 1..Len(g) : g[p].k = "sig" => p <= Len(f)
  BY PlainUpdateGood
<1>. HIDE DEF g
<1>2. CollectSignatures(g) = CollectSignatures(f)
  BY <1>1, SameSignatures
<1>3. Len(f) < Len(g)
  <2>1. Len(f) \in Nat /\ Len(g) \in Nat /\ Top(g) \in 1..Len(g)
    BY <1>1, SeqFacts, TopFacts DEF Good
  <2>2. QED
    BY <1>1, <2>1
<1>4. QED
  BY <1>1, <1>2, <1>3 DEF g

LEMMA DssAppends ==
  ASSUME NEW f, Good(f), NEW m \in Materials
  PROVE  LET doc == Load(f)
         IN  Appends(f, Render(f, PlainBody(DssUpdate(doc, m)),
                               FreshId(doc, NewBlobs(doc, m) + 1), doc.root), "dss")
<1>. DEFINE doc  == Load(f)
            objs == DssUpdate(doc, m)
            size == FreshId(doc, NewBlobs(doc, m) + 1)
            g    == Render(f, PlainBody(objs), size, doc.root)
<1>1. IsDoc(f) /\ IsSeq(f) /\ Readable(f) /\ IsDocument(doc) /\ Materialized(m)
  BY SizesAssumption DEF Good, IsDoc, Materialized
<1>2. IsFine(f, objs, {}, size)
  BY <1>1, DssUpdateFine
<1>3. DssMove(f, g)
  BY <1>1, DssMoved
<1>. HIDE DEF objs, size
<1>4. /\ Good(g) /\ Follows(f, g) /\ Len(f) < Len(g) /\ Len(f) < Top(g)
      /\ CollectSignatures(g) = CollectSignatures(f)
  BY <1>2, UpdateAppends
<1>. HIDE DEF g
<1>5. PagesGrew(doc, Load(g))
  BY <1>1, <1>3, DssMoveIs
<1>6. Appends(f, g, "dss")
  BY <1>3, <1>4, <1>5 DEF Appends
<1>7. QED
  BY <1>6 DEF g, objs, size

\* What another program does to the document.
LEMMA EditAppends ==
  ASSUME LInv, EditPage \/ EditObject \/ EditDss \/ EditGarbage
  PROVE  \E kind \in AppendKinds : Appends(file, file', kind) /\ since' = since \cup {kind}
<1>1. Good(file) /\ IsDoc(file) /\ IsSeq(file) /\ Readable(file) /\ IsDocument(Load(file))
  BY DEF LInv, GoodFile, Good, IsDoc
<1>2. CASE EditPage
  <2>. DEFINE doc  == Load(file)
              p    == PageIds(doc)[1]
              objs == Queue(p, [doc.objects[p] EXCEPT !.body = @ + 1])
              g    == Render(file, PlainBody(objs), doc.maxId + 1, doc.root)
  <2>1. file' = g /\ since' = since \cup {"edit"}
    BY <1>2 DEF EditPage, Edit
  <2>2. IsFine(file, objs, {}, doc.maxId + 1)
    BY <1>1, EditPageFine
  <2>3. PagesGrew(doc, Load(g)) /\ Edited(doc, Load(g))
    BY <1>1, PageMoved
  <2>. HIDE DEF objs
  <2>4. /\ Good(g) /\ Follows(file, g) /\ Len(file) < Len(g)
        /\ CollectSignatures(g) = CollectSignatures(file)
    BY <1>1, <2>2, UpdateAppends
  <2>. HIDE DEF g
  <2>5. Appends(file, g, "edit")
    BY <1>1, <2>3, <2>4 DEF Appends
  <2>6. QED
    BY <2>1, <2>5 DEF AppendKinds
<1>3. CASE EditObject
  <2>. DEFINE doc  == Load(file)
              objs == Queue(FreshId(doc, 1), ApObj)
              size == FreshId(doc, 2)
              g    == Render(file, PlainBody(objs), size, doc.root)
  <2>1. file' = g /\ since' = since \cup {"edit"}
    BY <1>3 DEF EditObject, Edit
  <2>2. IsFine(file, objs, {}, size)
    BY <1>1, EditObjectFine
  <2>3. PagesGrew(doc, Load(g)) /\ Edited(doc, Load(g))
    BY <1>1, ObjectMoved
  <2>. HIDE DEF objs, size
  <2>4. /\ Good(g) /\ Follows(file, g) /\ Len(file) < Len(g)
        /\ CollectSignatures(g) = CollectSignatures(file)
    BY <1>1, <2>2, UpdateAppends
  <2>. HIDE DEF g
  <2>5. Appends(file, g, "edit")
    BY <1>1, <2>3, <2>4 DEF Appends
  <2>6. QED
    BY <2>1, <2>5 DEF AppendKinds
<1>4. CASE EditDss
  <2>. DEFINE doc  == Load(file)
              g(m) == Render(file, PlainBody(DssUpdate(doc, m)),
                             FreshId(doc, NewBlobs(doc, m) + 1), doc.root)
  <2>1. PICK m \in Materials : file' = g(m) /\ since' = since \cup {"dss"}
    BY <1>4 DEF EditDss, Edit
  <2>2. Appends(file, g(m), "dss")
    BY <1>1, DssAppends
  <2>. HIDE DEF g
  <2>3. QED
    BY <2>1, <2>2 DEF AppendKinds
<1>5. CASE EditGarbage
  <2>. DEFINE g == Append(file, Junk)
  <2>1. file' = g /\ since' = since \cup {"garbage"}
    BY <1>5 DEF EditGarbage
  <2>2. /\ Good(g) /\ Follows(file, g) /\ AlikeDocs(Load(file), Load(g))
        /\ \A p \in 1..Len(g) : g[p].k = "sig" => p <= Len(file)
        /\ Len(file) < Len(g) /\ Top(g) = Top(file)
    BY <1>1, GarbageGood
  <2>. HIDE DEF g
  <2>3. CollectSignatures(g) = CollectSignatures(file)
    BY <1>1, <2>2, SameSignatures
  <2>4. PagesGrew(Load(file), Load(g))
    <3>1. \A p \in PageObjects(Load(file)) : /\ Load(file).objects[p].body \in Nat
                                             /\ Load(g).objects[p] = Load(file).objects[p]
      BY <1>1, <2>2, BodiesAre DEF AlikeDocs, PageObjects
    <3>2. QED
      BY <3>1 DEF PagesGrew
  <2>5. Appends(file, g, "garbage")
    BY <1>1, <2>2, <2>3, <2>4 DEF Appends
  <2>6. QED
    BY <2>1, <2>5 DEF AppendKinds
<1>6. QED
  BY <1>2, <1>3, <1>4, <1>5

-----------------------------------------------------------------------------
(* What was appended after the last signature.                             *)

LEMMA TrailHas ==
  ASSUME NEW f, NEW s, CollectSignatures(f) # << >>, Trail(f, s)
  PROVE  \E r : Stands(r, f, s)
BY DEF Trail

LEMMA TrailIs ==
  ASSUME NEW r, NEW f, NEW s, Stands(r, f, s)
  PROVE  Trail(f, s)
<1>1. IsSeq(r) /\ IsSeq(f) /\ StartOf(r, f)
  BY DEF Stands, Good, Follows
<1>2. Len(r) \in 0..Len(f) /\ SubSeq(f, 1, Len(r)) = r
  BY <1>1, PrefixIs
<1>3. QED
  BY <1>2 DEF Trail

LEMMA LastSigTyped ==
  ASSUME NEW f, Good(f), CollectSignatures(f) # << >>
  PROVE  RangeTyped(LastSig(f))
<1>. DEFINE sigs == CollectSignatures(f)
<1>1. IsSeq(sigs) /\ Len(sigs) \in Nat /\ DOMAIN sigs = 1..Len(sigs)
  BY Collected
<1>2. Len(sigs) # 0
  BY <1>1 DEF IsSeq
<1>3. Len(sigs) \in DOMAIN sigs
  BY <1>1, <1>2
<1>4. LastSig(f) = sigs[Len(sigs)]
  BY DEF LastSig, Last
<1>5. QED
  BY <1>3, <1>4, EntriesVerify

\* The trail begins with a signature for the whole document.
LEMMA SealedTrail ==
  ASSUME NEW f, Good(f), CollectSignatures(f) # << >>,
         Valid(f, LastSig(f)), CoversWholeDocument(f, LastSig(f))
  PROVE  Trail(f, {})
<1>1. IsDoc(f) /\ IsSeq(f) /\ Readable(f)
  BY DEF Good, IsDoc
<1>2. Follows(f, f) /\ OnlyDss(Load(f), Load(f))
  BY <1>1, FollowsItself, OnlyDssItself
<1>3. PagesGrew(Load(f), Load(f))
  BY <1>1, BodiesAre DEF PagesGrew
<1>4. Vouches(LastSig(f), f, Len(f))
  BY LastSigTyped DEF Vouches, CoversWholeDocument
<1>5. Top(f) <= Len(f)
  BY <1>1, TopFacts, SeqFacts
<1>6. Stands(f, f, {})
  BY <1>2, <1>3, <1>4, <1>5 DEF Stands
<1>7. QED
  BY <1>6, TrailIs

LEMMA StandsAppended ==
  ASSUME NEW f, NEW g, NEW kind \in AppendKinds, Appends(f, g, kind), NoReal(Load(f)),
         NEW r, NEW s, Stands(r, f, s)
  PROVE  Stands(r, g, s \cup {kind})
<1>. DEFINE t == s \cup {kind}
<1>1. /\ Good(r) /\ IsDoc(r) /\ IsSeq(r) /\ Follows(r, f) /\ Keeps(Load(r), Load(f))
      /\ PagesGrew(Load(r), Load(f))
      /\ Len(r) \in Nat /\ Len(r) <= Len(f)
  BY SeqFacts DEF Stands, Good, IsDoc, Follows, StartOf
<1>2. /\ Good(f) /\ IsDoc(f) /\ IsSeq(f) /\ Good(g) /\ IsDoc(g) /\ IsSeq(g) /\ Readable(g)
      /\ Follows(f, g) /\ Keeps(Load(f), Load(g)) /\ PagesGrew(Load(f), Load(g))
      /\ Len(f) < Len(g) /\ Len(f) \in Nat /\ Len(g) \in Nat
      /\ Top(g) \in Int
      /\ StartOf(f, g)
  BY SeqFacts, TopFacts DEF Appends, Good, IsDoc, Follows
<1>3. LastSig(g) = LastSig(f)
  BY DEF Appends, LastSig
<1>4. Follows(r, g)
  BY <1>1, <1>2, FollowsTransitive
<1>5. PagesGrew(Load(r), Load(g))
  BY <1>1, <1>2, PagesGrewTransitive
<1>6. Vouches(LastSig(g), g, Len(r))
  <2>1. Vouches(LastSig(f), f, Len(r))
    BY DEF Stands
  <2>2. IsPrefix(f, g)
    BY <1>2, PrefixFacts DEF StartOf
  <2>3. Valid(g, LastSig(f))
    BY <1>2, <2>1, <2>2, ValidSurvivesExtension DEF Vouches, RangeTyped
  <2>4. QED
    BY <1>3, <2>1, <2>3 DEF Vouches
<1>7. t # {} /\ Len(r) < Len(g)
  BY <1>1, <1>2
<1>8. ASSUME t \subseteq {"dss"} PROVE OnlyDss(Load(r), Load(g))
  <2>1. kind = "dss" /\ s \subseteq {"dss"}
    BY <1>8
  <2>2. DssMove(f, g)
    BY <2>1 DEF Appends
  <2>3. QED
    BY <1>2, <2>1, <2>2, OnlyDssMoved DEF Stands
<1>9. ASSUME t = {"dss"} PROVE Len(r) < Top(g)
  <2>1. Len(f) < Top(g)
    BY <1>9 DEF Appends
  <2>2. QED
    BY <1>1, <1>2, <2>1
<1>10. ASSUME t \subseteq {"garbage"} PROVE Top(g) <= Len(r)
  <2>1. kind = "garbage" /\ s \subseteq {"garbage"}
    BY <1>10
  <2>2. QED
    BY <2>1 DEF Appends, Stands
<1>11. ASSUME "edit" \in t PROVE Edited(Load(r), Load(g))
  <2>1. CASE "edit" \in s
    BY <1>1, <1>2, <2>1, EditedAfter DEF Stands
  <2>2. CASE kind = "edit"
    BY <1>1, <1>2, <2>2, EditedBefore DEF Appends
  <2>3. QED
    BY <1>11, <2>1, <2>2
<1>. HIDE DEF t
<1>12. Stands(r, g, t)
  BY <1>1, <1>2, <1>4, <1>5, <1>6, <1>7, <1>8, <1>9, <1>10, <1>11 DEF Stands
<1>13. QED
  BY <1>12 DEF t

LEMMA TrailAppended ==
  ASSUME NEW f, NEW g, NEW kind \in AppendKinds, Appends(f, g, kind), NoReal(Load(f)),
         NEW s, Trail(f, s)
  PROVE  Trail(g, s \cup {kind})
<1>1. CASE CollectSignatures(f) = << >>
  BY <1>1 DEF Appends, Trail
<1>2. CASE CollectSignatures(f) # << >>
  BY <1>2, TrailHas, StandsAppended, TrailIs
<1>3. QED
  BY <1>1, <1>2

-----------------------------------------------------------------------------
(* What document_intact makes of it.                                       *)

LEMMA DssOnlyIs ==
  ASSUME NEW r, NEW f, Good(r), Good(f), Follows(r, f)
  PROVE  DssOnlyUpdate(f, Len(r)) <=>
           LET old == Load(r)
               new == Load(f)
           IN  /\ Len(r) < Top(f) /\ new.root = old.root /\ NoDss(new) = NoDss(old)
               /\ \A id \in DOMAIN new.objects \ ({new.root} \cup DssIds(new)) :
                    Unchanged(old, new, id)
<1>1. SubSeq(f, 1, Len(r)) = r /\ Loadable(r) /\ Loadable(f)
  BY PrefixIs DEF Good, Follows, Readable
<1>2. LastStartXref(f) + HeaderOffset(f) >= Len(r) <=> Len(r) < Top(f)
  <2>1. PICK a \in Nat, h \in Nat, n \in Nat :
          a = LastStartXref(f) /\ h = HeaderOffset(f) /\ n = Len(r)
    BY TopFacts, HeaderFacts, SeqFacts DEF Good
  <2>2. a + h >= n <=> n < (a + h) + 1
    OBVIOUS
  <2>3. QED
    BY <2>1, <2>2 DEF Top
<1>3. QED
  BY <1>1, <1>2 DEF DssOnlyUpdate, NoDss, Unchanged

LEMMA EditIsNoDss ==
  ASSUME NEW r, NEW f, IsDoc(r), IsDoc(f), Stocked(f), Keeps(Load(r), Load(f)),
         Edited(Load(r), Load(f))
  PROVE  LET new == Load(f)
         IN  \E id \in DOMAIN new.objects \ ({new.root} \cup DssIds(new)) :
               ~Unchanged(Load(r), new, id)
<1>. DEFINE old == Load(r)
            new == Load(f)
<1>1. PICK id \in DOMAIN new.objects : IsEdit(old, new, id)
  BY DEF Edited
<1>2. new.objects[id].t \in {"page", "ap"}
  BY <1>1 DEF IsEdit
<1>3. id # new.root
  BY <1>2, DocFacts DEF IsDoc, Catalog, Catalogs
<1>4. id \notin DssIds(new)
  BY <1>2, DssKinds
<1>5. new.objects[id] # XrefObj
  BY <1>2 DEF XrefObj
<1>6. ASSUME id \in DOMAIN old.objects, old.objects[id] = new.objects[id] PROVE FALSE
  <2>1. new.objects[id].t = "page" /\ old.objects[id].body < new.objects[id].body
    BY <1>1, <1>6 DEF IsEdit
  <2>2. PICK n \in Nat : n = new.objects[id].body
    BY <2>1, BodiesAre DEF PageObjects
  <2>3. ~(n < n)
    OBVIOUS
  <2>4. QED
    BY <1>6, <2>1, <2>2, <2>3
<1>7. QED
  BY <1>3, <1>4, <1>5, <1>6 DEF Unchanged

LEMMA StandsExact ==
  ASSUME NEW f, Good(f), Stocked(f), CollectSignatures(f) # << >>,
         NEW r, NEW s \in SUBSET AppendKinds, Stands(r, f, s), ~({"dss", "garbage"} \subseteq s)
  PROVE  DocumentIntact(f) <=> s \subseteq {"dss"}
<1>. DEFINE sig == LastSig(f)
<1>1. /\ Good(r) /\ Follows(r, f) /\ Keeps(Load(r), Load(f)) /\ IsDoc(r) /\ IsDoc(f)
      /\ Len(r) \in Nat /\ Len(f) \in Nat /\ Top(f) \in Int
  BY SeqFacts, TopFacts DEF Stands, Good, Follows, IsDoc
<1>2. Vouches(sig, f, Len(r))
  BY DEF Stands
<1>3. DocumentIntact(f) <=> CoversWholeDocument(f, sig) \/ DssOnlyUpdate(f, Len(r))
  BY <1>2 DEF DocumentIntact, Vouches, LastSig
<1>4. CoversWholeDocument(f, sig) => Len(r) = Len(f)
  BY <1>2 DEF CoversWholeDocument, Vouches
<1>. HIDE DEF sig
<1>5. s = {} \/ s = {"dss"} \/ s = {"garbage"} \/ "edit" \in s
  BY DEF AppendKinds
<1>6. CASE s = {}
  BY <1>3, <1>6 DEF Stands, sig
<1>7. CASE s = {"dss"}
  <2>1. Len(r) < Top(f) /\ OnlyDss(Load(r), Load(f))
    BY <1>7 DEF Stands
  <2>2. DssOnlyUpdate(f, Len(r))
    BY <1>1, <2>1, DssOnlyIs DEF OnlyDss
  <2>3. QED
    BY <1>3, <1>7, <2>2
<1>8. CASE s = {"garbage"}
  <2>1. Top(f) <= Len(r) /\ Len(r) < Len(f)
    BY <1>8 DEF Stands
  <2>2. ~(Len(r) < Top(f)) /\ Len(r) # Len(f)
    BY <1>1, <2>1
  <2>3. ~DssOnlyUpdate(f, Len(r))
    BY <1>1, <2>2, DssOnlyIs
  <2>4. QED
    BY <1>3, <1>4, <1>8, <2>2, <2>3
<1>9. CASE "edit" \in s
  <2>1. Edited(Load(r), Load(f)) /\ Len(r) < Len(f)
    BY <1>9 DEF Stands
  <2>2. ~DssOnlyUpdate(f, Len(r))
    BY <1>1, <2>1, EditIsNoDss, DssOnlyIs
  <2>3. QED
    BY <1>1, <1>3, <1>4, <1>9, <2>1, <2>2
<1>10. QED
  BY <1>5, <1>6, <1>7, <1>8, <1>9

-----------------------------------------------------------------------------
(* Every step keeps the fourth invariant.                                  *)

\* What a signature that was just written begins.
LEMMA NewestTrail ==
  ASSUME NEW f, Good(f), NEW h, Newest(f, h), NEW sig, ObjectAt(f, h) = sig,
         Valid(f, sig), CoversWholeDocument(f, sig)
  PROVE  Trail(f, {})
<1>1. LastSig(f) = sig /\ CollectSignatures(f) # << >>
  BY LastEntry DEF LastSig
<1>2. QED
  BY <1>1, SealedTrail

LEMMA InitTrail == ASSUME IntactBefore, Init PROVE XInv
<1>1. Good(file)
  BY InitGood DEF LInv, GoodFile
<1>2. CollectSignatures(file) # << >> =>
        Valid(file, LastSig(file)) /\ CoversWholeDocument(file, LastSig(file))
  BY DEF Init, IntactBefore, LastSig
<1>3. Trail(file, {})
  <2>1. CASE CollectSignatures(file) = << >>
    BY <2>1 DEF Trail
  <2>2. CASE CollectSignatures(file) # << >>
    BY <1>1, <1>2, <2>2, SealedTrail
  <2>3. QED
    BY <2>1, <2>2
<1>4. NoReal(Load(file))
  BY DEF Init, IntactBefore, NoReal
<1>5. QED
  BY <1>3, <1>4 DEF Init, XInv, Working

\* fill_placeholder: the signature is for the whole of the buffer.
LEMMA FillTrail ==
  ASSUME IInv, LInv, [Next]_vars, Fill, pc' = "dss"
  PROVE  Trail(buf', {})
<1>1. IInv'
  BY StepInv
<1>2. pc = "fill" /\ buf' = Filled(buf, head, opts.cap, der) /\ UNCHANGED <<file, opts, head, der>>
  BY DEF Fill, FillStep
<1>3. Waiting(file, buf, head, opts.cap, report)
  BY <1>2 DEF LInv, SignWaits, SignsNow
<1>4. /\ Finished(file, buf', Append(report, Kind(buf[head])))
      /\ Newest(buf', head) /\ ObjectAt(buf', head) = SignatureAt(buf', head, opts.cap)
  BY <1>1, <1>2, <1>3, FillGoodBuffer
<1>5. /\ Valid(buf', SignatureAt(buf', head, opts.cap))
      /\ CoversWholeDocument(buf', SignatureAt(buf', head, opts.cap))
  BY <1>1, <1>2 DEF IInv, WrittenVerifies
<1>6. QED
  BY <1>4, <1>5, NewestTrail DEF Finished

\* add_dss
LEMMA AddDssTrail ==
  ASSUME LInv, XInv, AddDss
  PROVE  Trail(buf', {"dss"})
<1>. DEFINE b(m) == Render(buf, PlainBody(DssUpdate(Load(buf), m)),
                           FreshId(Load(buf), NewBlobs(Load(buf), m) + 1), Load(buf).root)
<1>1. PICK m \in Materials : buf' = b(m)
  BY DEF AddDss
<1>2. pc = "dss" /\ Good(buf)
  BY DEF AddDss, LInv, GoodBuffer, Finished
<1>3. Appends(buf, b(m), "dss")
  BY <1>2, DssAppends
<1>. HIDE DEF b
<1>4. Trail(buf, {}) /\ NoReal(Load(buf)) /\ "dss" \in AppendKinds
  BY <1>2 DEF XInv, Working, Steps, AppendKinds
<1>5. Trail(b(m), {} \cup {"dss"})
  BY <1>3, <1>4, TrailAppended
<1>6. {} \cup {"dss"} = {"dss"}
  OBVIOUS
<1>7. QED
  BY <1>1, <1>5, <1>6

\* Ok(buf)
LEMMA ReturnTrail ==
  ASSUME IInv, LInv, XInv, Return
  PROVE  Trail(file', since')
<1>1. pc = "return" /\ file' = buf /\ since' = IF opts.level = Blt THEN {"dss"} ELSE {}
  BY DEF Return
<1>2. CASE opts.level = Blt
  BY <1>1, <1>2 DEF XInv
<1>3. CASE opts.level # Blt
  <2>. DEFINE sig == SignatureAt(buf, head, opts.cap)
  <2>1. Good(buf) /\ Newest(buf, head) /\ ObjectAt(buf, head) = sig
    BY <1>1, <1>3 DEF LInv, GoodBuffer, Finished, WasLast
  <2>2. Valid(buf, sig) /\ CoversWholeDocument(buf, sig)
    BY <1>1, <1>3 DEF IInv, WrittenVerifies
  <2>3. Trail(buf, {})
    BY <2>1, <2>2, NewestTrail
  <2>4. QED
    BY <1>1, <1>3, <2>3
<1>4. QED
  BY <1>2, <1>3

LEMMA EditTrail ==
  ASSUME LInv, XInv, EditPage \/ EditObject \/ EditDss \/ EditGarbage
  PROVE  Trail(file', since')
<1>1. PICK kind \in AppendKinds : Appends(file, file', kind) /\ since' = since \cup {kind}
  BY EditAppends
<1>2. Trail(file, since) /\ NoReal(Load(file))
  BY DEF XInv
<1>3. Trail(file', since \cup {kind})
  BY <1>1, <1>2, TrailAppended
<1>4. QED
  BY <1>1, <1>3

\* Which steps write the document or finish the buffer.
LEMMA StepWrites ==
  ASSUME IInv, [Next]_vars
  PROVE  /\ \/ file' = file /\ since' = since
            \/ Return
            \/ EditPage \/ EditObject \/ EditDss \/ EditGarbage
         /\ pc' = "dss" => Fill \/ UNCHANGED vars
         /\ pc' = "return" /\ opts'.level = Blt =>
              AddDss \/ UNCHANGED vars \/ FillStep("tsfill", "return")
<1>1. CASE \E o \in Options : Call(o)
  BY <1>1 DEF Call
<1>2. CASE Reject \/ PatchFails \/ CryptoFails \/ FillFails
  BY <1>2 DEF Reject, PatchFails, CryptoFails, FillFails, Fail
<1>3. CASE Build \/ Stamp
  BY <1>3 DEF Build, Stamp
<1>4. CASE Patch("patch", "cms") \/ Patch("tspatch", "token")
  BY <1>4 DEF Patch
<1>5. CASE CmsSign \/ Token
  BY <1>5 DEF CmsSign, Token
<1>6. CASE Fill
  <2>1. file' = file /\ since' = since /\ opts' = opts
        /\ pc' = IF opts.level >= Blt THEN "dss" ELSE "return"
    BY <1>6 DEF Fill, FillStep
  <2>2. pc' = "return" => opts.level # Blt
    BY <2>1 DEF Blt
  <2>3. QED
    BY <1>6, <2>1, <2>2
<1>7. CASE FillStep("tsfill", "return")
  BY <1>7 DEF FillStep
<1>8. CASE AddDss
  <2>1. file' = file /\ since' = since /\ pc' \in {"stamp", "return"}
    BY <1>8 DEF AddDss
  <2>2. QED
    BY <1>8, <2>1
<1>9. CASE Return
  <2>1. pc' = "idle"
    BY <1>9 DEF Return
  <2>2. QED
    BY <1>9, <2>1
<1>10. CASE EditPage \/ EditObject \/ EditDss \/ EditGarbage
  <2>1. pc' = "idle"
    BY <1>10 DEF EditPage, EditObject, EditDss, EditGarbage, Edit
  <2>2. QED
    BY <1>10, <2>1
<1>11. CASE UNCHANGED vars
  BY <1>11 DEF vars
<1>12. QED
  BY <1>1, <1>2, <1>3, <1>4, <1>5, <1>6, <1>7, <1>8, <1>9, <1>10, <1>11, Zenon DEF Next, Step

LEMMA StepTrail ==
  ASSUME IInv, LInv, XInv, [Next]_vars
  PROVE  XInv'
<1>1. Trail(file', since')
  <2>1. CASE file' = file /\ since' = since
    BY <2>1 DEF XInv
  <2>2. QED
    BY <2>1, StepWrites, ReturnTrail, EditTrail
<1>2. NoReal(Load(file'))
  BY StepMoves, MovesReal DEF XInv
<1>3. pc' \in Working => NoReal(Load(buf'))
  BY StepMoves, MovesReal DEF XInv
<1>4. ASSUME pc' = "dss" PROVE Trail(buf', {})
  <2>1. CASE Fill
    BY <1>4, <2>1, FillTrail
  <2>2. CASE UNCHANGED vars
    BY <1>4, <2>2 DEF XInv, vars
  <2>3. QED
    BY <1>4, <2>1, <2>2, StepWrites
<1>5. ASSUME pc' = "return", opts'.level = Blt PROVE Trail(buf', {"dss"})
  <2>1. CASE AddDss
    BY <2>1, AddDssTrail
  <2>2. CASE UNCHANGED vars
    BY <1>5, <2>2 DEF XInv, vars
  <2>3. CASE FillStep("tsfill", "return")
    <3>1. pc = "tsfill" /\ opts' = opts
      BY <2>3 DEF FillStep
    <3>2. opts.level = Blta
      BY <3>1 DEF LInv, Stamps, StampsNow
    <3>3. QED
      BY <1>5, <3>1, <3>2 DEF Blt, Blta
  <2>4. QED
    BY <1>5, <2>1, <2>2, <2>3, StepWrites
<1>6. QED
  BY <1>1, <1>2, <1>3, <1>4, <1>5 DEF XInv

\* document_intact of the report is true exactly of a signed document to which at most
\* validation material was appended since its last signature or timestamp
\* (verify_pdf_bytes, dss_only_update), if the first document was one whose last
\* signature is for the whole of it; validation material together with bytes behind the
\* end is left out by the property, being what GarbageDetected is about.
THEOREM IntactReportIsExact ==
  ASSUME MaterialBefore, IntactBefore
  PROVE  Spec => []IntactIsExact
<1>1. Init => XInv
  BY InitTrail
<1>2. IInv /\ LInv /\ XInv /\ [Next]_vars => XInv'
  BY StepTrail
<1>3. IInv /\ LInv /\ MInv /\ XInv => IntactIsExact
  <2>. SUFFICES ASSUME IInv, LInv, MInv, XInv, ~({"dss", "garbage"} \subseteq since)
                PROVE  DocumentIntact(file) <=> Signed /\ since \subseteq {"dss"}
    BY DEF IntactIsExact
  <2>1. CASE CollectSignatures(file) = << >>
    BY <2>1 DEF DocumentIntact, Signed
  <2>2. CASE CollectSignatures(file) # << >>
    <3>1. Good(file) /\ Stocked(file)
      BY DEF LInv, GoodFile, MInv
    <3>2. since \in SUBSET AppendKinds
      BY DEF IInv, TypeOK, AppendKinds
    <3>3. PICK r : Stands(r, file, since)
      BY <2>2, TrailHas DEF XInv
    <3>4. DocumentIntact(file) <=> since \subseteq {"dss"}
      BY <2>2, <3>1, <3>2, <3>3, StandsExact
    <3>5. QED
      BY <2>2, <3>4 DEF Signed
  <2>3. QED
    BY <2>1, <2>2
<1>4. Spec => []XInv
  BY <1>1, <1>2, SpecInv, SpecGood, PTL DEF Spec
<1>5. QED
  BY <1>3, <1>4, SpecInv, SpecGood, SpecStocked, PTL
=============================================================================
