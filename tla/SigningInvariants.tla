------------------------- MODULE SigningInvariants -------------------------
(***************************************************************************)
(* The inductive invariants of Signing, and the notions they are stated    *)
(* in. A signature object is followed from its placeholder to the bytes    *)
(* that verify (IInv), a document from one version to the next (LInv),     *)
(* the fields and the validation material from object to object (FInv,     *)
(* MInv), and what is appended behind the last signature from update to    *)
(* update (XInv).                                                          *)
(***************************************************************************)
EXTENDS Signing, Basics

-----------------------------------------------------------------------------
(* The first: what the bytes are.  UpdateOnly and WrittenVerifies say      *)
(* where the signature object is and that it verifies once it is filled    *)
(* in; to carry that through a call one has to know what has been          *)
(* established about the object by every earlier step.                     *)

\* b extends f and has a signature object with its placeholder at h, behind f.
Laid(f, b, h, cap) ==
  /\ IsSeq(b) /\ IsPrefix(f, b)
  /\ h \in Nat /\ Len(f) < h /\ GtPos(h, cap) < Len(b)
  /\ b[h] = SigHead(b[h].id, b[h].sub, b[h].br)
  /\ b[LtPos(h)] = Lt /\ b[GtPos(h, cap)] = Gt

\* The steps of a call that have a buffer of their own.
Working == Steps \ {"idle", "check"}

\* Between calls the buffer is the document; in a call it extends the document
\* by a signature object.
InBuffer ==
  /\ IsPrefix(file, buf)
  /\ pc \notin Working => buf = file
  /\ pc \in Working => Laid(file, buf, head, opts.cap)

\* The object is the signature's or the timestamp's, as the step requires.
RightKind ==
  /\ pc \in {"patch", "cms", "fill"} => buf[head].sub = "ETSI.CAdES.detached"
  /\ pc \in {"tspatch", "token", "tsfill"} => buf[head].sub = "ETSI.RFC3161"

\* After patch_byte_range the range describes the buffer, until it is filled.
RangePatched ==
  pc \in {"cms", "fill", "token", "tsfill"} =>
    buf[head].br = ByteRange(buf, head, opts.cap)

\* The value about to be written is over the bytes outside the hole.
DerMade ==
  pc \in {"fill", "tsfill"} =>
    /\ der.size # 0
    /\ der.digest = Covered(buf, head, opts.cap)
    /\ der.t = IF buf[head].sub = "ETSI.RFC3161" THEN "tst" ELSE "cms"

\* What fill_placeholder wrote verifies (WrittenVerifies), and its range is one
\* of numbers.
RangeTyped(sig) == sig.br \in [1..4 -> Int]
Written ==
  pc \in {"dss", "stamp", "return"} =>
    RangeTyped(SignatureAt(buf, head, opts.cap))

\* Only these levels have a DSS.
AtDss == pc = "dss" => opts.level >= Blt

IInv ==
  /\ TypeOK /\ InBuffer /\ RightKind /\ RangePatched /\ DerMade
  /\ Written /\ WrittenVerifies /\ AtDss

-----------------------------------------------------------------------------
(* Documents, and documents that go on from others.                        *)

\* The place of the newest cross-reference section.
Top(f) == LastStartXref(f) + HeaderOffset(f) + 1
Table(f) == EntriesFrom(f)[Top(f)]
Ids(f) == DOMAIN Table(f)
PlaceIn(f, id) == Table(f)[id] + HeaderOffset(f) + 1

\* What an update may write again.
Containers == {"catalog", "page", "array", "form", "dss"}

\* What NoObjectLost says of two documents.
Keeps(old, new) ==
  \A id \in DOMAIN old.objects :
    /\ id \in DOMAIN new.objects
    /\ \/ new.objects[id] = old.objects[id]
       \/ old.objects[id].t \in Containers /\ new.objects[id].t = old.objects[id].t

\* The signature at p has its range where it belongs, and verifies if every signature of
\* the first document did.
SignedAt(f, p) ==
  PlacedAt(f, p) /\ (SignedBefore => Valid(f, ObjectAt(f, p)))
SignedWell(f) == \A p \in DOMAIN f : f[p].k = "sig" => SignedAt(f, p)

\* A document as a parser and a verifier expect it.
Good(f) == IsSeq(f) /\ Readable(f) /\ SignedWell(f) /\ IsDocument(Load(f))

\* g goes on from f: its objects are new, or where they were.
OldPlaces(f, g) ==
  \A id \in Ids(g) : \/ Len(f) < PlaceIn(g, id)
                     \/ id \in Ids(f) /\ PlaceIn(g, id) = PlaceIn(f, id)
Follows(f, g) == StartOf(f, g) /\ Keeps(Load(f), Load(g)) /\ OldPlaces(f, g)

\* The signature at h is the last of the file, and read back from there.
Newest(f, h) ==
  /\ h \in 1..Len(f) /\ f[h].k = "sig" /\ \A p \in 1..Len(f) : f[p].k = "sig" => p <= h
  /\ f[h].id \in Ids(f) /\ PlaceIn(f, f[h].id) = h

-----------------------------------------------------------------------------
(* The second: what the document and the buffer are as documents.          *)

\* The buffer b is the good document f with a signature object at h, not yet filled in.
Hole(h, cap) == (h + 2)..(h + 1 + cap)
Pending(f, b, h, cap) ==
  /\ Good(f) /\ IsSeq(b) /\ Readable(b) /\ IsDocument(Load(b)) /\ Follows(f, b)
  /\ h \in 1..Len(b) /\ Len(f) < h /\ b[h].k = "sig" /\ WholeAt(b, h, cap)
  /\ \A i \in Hole(h, cap) : b[i] = Zero
  /\ \A p \in 1..Len(b) : b[p].k = "sig" => p <= Len(f) \/ p = h
  /\ b[h].id \in Ids(b) \ Ids(f) /\ PlaceIn(b, b[h].id) = h

\* What the report on f is, if every signature of the first document verified.
Reports(f, log) == SignedBefore => ReportedLog(f) = log

\* The buffer is a good document f that goes on from the input, with one signature
\* object more that has not been filled in yet; log is the report on f.
Waiting(input, b, h, cap, log) ==
  \E n \in 0..Len(b) :
    LET f == SubSeq(b, 1, n)
    IN  Pending(f, b, h, cap) /\ Follows(input, f) /\ Reports(f, log)

Finished(input, b, log) == Good(b) /\ Follows(input, b) /\ Reports(b, log)

\* The last signature of the document leaves out nothing but its own /Contents.
Sealed(f) ==
  \E h \in 1..Len(f) : Newest(f, h) /\ CoversWholeDocument(f, ObjectAt(f, h))

SignsNow  == pc \in {"patch", "cms", "fill"}
StampsNow == pc \in {"tspatch", "token", "tsfill"}

GoodFile   == Good(file) /\ report = ReportedLog(file)
SignWaits  == SignsNow => Waiting(file, buf, head, opts.cap, report)
StampWaits == StampsNow => Waiting(file, buf, head, opts.cap, Append(report, "signature"))
Stamps     == StampsNow \/ pc = "stamp" => opts.level = Blta
OutputLog  == IF pc = "return" /\ opts.level = Blta THEN report \o <<"signature", "timestamp">>
              ELSE Append(report, "signature")
GoodBuffer == pc \in {"dss", "stamp", "return"} => Finished(file, buf, OutputLog)
WasLast    ==
  pc = "return" /\ opts.level # Blt =>
    Newest(buf, head) /\ ObjectAt(buf, head) = SignatureAt(buf, head, opts.cap)
EndsSealed == res = "ok" /\ since = {} => Sealed(file)

LInv ==
  /\ GoodFile /\ SignWaits /\ StampWaits /\ Stamps /\ GoodBuffer /\ WasLast /\ EndsSealed

-----------------------------------------------------------------------------
(* What an update does to a document, object by object.                    *)

\* The new objects of an update with a signature dictionary.
NewObjects(doc, sub, cap, nap) ==
  Queue(FreshId(doc, 1), [t |-> "newsig", sub |-> sub, cap |-> cap])
    ++ [id \in FreshIds(doc, 1, nap) |-> ApObj]
    ++ Queue(FreshId(doc, nap + 2), [t |-> "widget", sig |-> FreshId(doc, 1)])

\* The new streams of an update of the validation material.
Streams(doc, material, key) == NewStreams(doc, ExistingDss(doc), material, key)
NewMaterial(doc, material) ==
  Streams(doc, material, "Certs") ++ Streams(doc, material, "CRLs") ++ Streams(doc, material, "OCSPs")

\* The /DSS written again, in its own object or in the catalog.
NewDss(doc, material) ==
  [ExistingDss(doc) EXCEPT !.arr =
     [key \in DssKeys |-> MergedArray(doc, ExistingDss(doc), material, key)]]
DssRewrite(doc, material) ==
  IF Catalog(doc).dss.at = "ref" THEN Queue(Catalog(doc).dss.ref, NewDss(doc, material))
  ELSE Queue(doc.root, [Catalog(doc) EXCEPT !.dss = Inline(NewDss(doc, material))])

\* What an update with the new objects a, those in S signatures, and the rewritten
\* objects u makes of a document.
Updated(doc, new, a, S, u) ==
  /\ new.root = doc.root /\ DOMAIN doc.objects \subseteq DOMAIN new.objects
  /\ \A id \in DOMAIN a : id \in DOMAIN new.objects /\ id \notin DOMAIN doc.objects
  /\ \A id \in DOMAIN doc.objects :
       new.objects[id] = IF id \in DOMAIN u THEN Serialized(u[id]) ELSE doc.objects[id]
  /\ \A id \in DOMAIN new.objects \ DOMAIN doc.objects :
       IF id \notin DOMAIN a THEN new.objects[id] = XrefObj
       ELSE IF id \in S THEN new.objects[id].t = "sig"
       ELSE new.objects[id] = Serialized(a[id])

\* A document, whatever its signatures are.
IsDoc(f) == IsSeq(f) /\ Readable(f) /\ IsDocument(Load(f))

\* An object that keeps what fields and annotations depend on.
SameParts(v, w) ==
  /\ w.t = v.t
  /\ v.t \in {"array", "form", "widget", "der"} => w = v
  /\ v.t = "page" => w.annots = v.annots
  /\ v.t = "catalog" => w.form = v.form

SameFields(old, new) ==
  /\ new.root = old.root /\ DOMAIN old.objects \subseteq DOMAIN new.objects
  /\ \A id \in DOMAIN old.objects : SameParts(old.objects[id], new.objects[id])
  /\ \A id \in DOMAIN new.objects \ DOMAIN old.objects : new.objects[id].t \notin {"widget", "sig", "page"}

PageObjects(doc) == {id \in DOMAIN doc.objects : doc.objects[id].t = "page"}

\* The objects it writes again.
Rewrites(doc, page, w) == PageUpdate(doc, page, w) ++ FormUpdate(doc, w)

\* By an update with a field.
FieldMove(f, g) ==
  \E sub, cap : \E page \in PageObjects(Load(f)) : \E nap \in Nat :
    LET doc == Load(f)
    IN  Updated(doc, Load(g), NewObjects(doc, sub, cap, nap), {FreshId(doc, 1)},
                Rewrites(doc, page, FreshId(doc, nap + 2)))

\* By an update of the validation material.
DssMove(f, g) ==
  \E m \in Materials :
    Updated(Load(f), Load(g), NewMaterial(Load(f), m), {}, DssRewrite(Load(f), m))

\* By an update, or a change in place, that leaves fields and validation material alone.
QuietMove(f, g) ==
  /\ SameFields(Load(f), Load(g)) /\ Catalog(Load(g)) = Catalog(Load(f))
  /\ \A id \in DOMAIN Load(f).objects :
       Load(f).objects[id].t = "dss" => Load(g).objects[id] = Load(f).objects[id]

\* An update, or a change in place, of a document.
Moves(f, g) ==
  /\ IsDoc(f) /\ IsDoc(g)
  /\ \/ FieldMove(f, g) /\ Keeps(Load(f), Load(g))
     \/ DssMove(f, g)
     \/ QuietMove(f, g)

-----------------------------------------------------------------------------
(* The third: fields and validation material.                              *)

\* Whether every signature has its field.
Settled(doc) == Fielded(doc) /\ Linked(doc)

\* The fields of the document, and of the buffer of a call.
FInv == Settled(Load(file)) /\ (pc \in Working => Settled(Load(buf)))

\* The material of f goes on in g.
GoesOn(f, g) == \A key \in DssKeys : IsPrefix(DssBlobs(f, key), DssBlobs(g, key))

\* The material of the document, and of the buffer, which goes on from it.
MInv ==
  /\ Stocked(file)
  /\ pc \in Working => IsDoc(buf) /\ Stocked(buf) /\ GoesOn(file, buf)

-----------------------------------------------------------------------------
(* The fourth: what was appended after the last signature.                 *)

\* No page of old has less content in new.
PagesGrew(old, new) ==
  \A p \in PageObjects(old) : old.objects[p].body <= new.objects[p].body

\* new has a page or a form XObject that is not what old has under this number.
IsEdit(old, new, id) ==
  LET val == new.objects[id]
  IN  /\ val.t \in {"page", "ap"}
      /\ id \in DOMAIN old.objects => val.t = "page" /\ old.objects[id].body < val.body
Edited(old, new) == \E id \in DOMAIN new.objects : IsEdit(old, new, id)

\* Written again, the catalog reads as before (Serialized).
NoReal(doc) == Catalog(doc).number # "integral_real"

\* Under an id new has what old has, or the cross-reference stream of an update.
Unchanged(old, new, id) ==
  \/ new.objects[id] = XrefObj
  \/ id \in DOMAIN old.objects /\ old.objects[id] = new.objects[id]

\* Nothing but the /DSS differs (dss_only_update), and no array.
NoDss(doc) == [Catalog(doc) EXCEPT !.dss = Absent]
OnlyDss(old, new) ==
  /\ new.root = old.root /\ NoDss(new) = NoDss(old)
  /\ \A id \in DOMAIN new.objects \ {new.root} :
       id \notin DssIds(new) \/ new.objects[id].t = "array" => Unchanged(old, new, id)

\* g is f with an update of this kind, or with other bytes, appended.
Appends(f, g, kind) ==
  /\ Good(f) /\ Good(g) /\ Follows(f, g) /\ Len(f) < Len(g)
  /\ CollectSignatures(g) = CollectSignatures(f) /\ PagesGrew(Load(f), Load(g))
  /\ kind = "dss"     => DssMove(f, g) /\ Len(f) < Top(g)
  /\ kind = "edit"    => Edited(Load(f), Load(g))
  /\ kind = "garbage" => Top(g) = Top(f)

\* Since the last signature of f, which is for the whole of the revision r, nothing but
\* s was appended.
LastSig(f) == Last(CollectSignatures(f))
Vouches(sig, f, n) ==
  /\ RangeTyped(sig) /\ Valid(f, sig) /\ sig.br[1] = 0 /\ sig.br[3] + sig.br[4] = n
Stands(r, f, s) ==
  /\ Good(r) /\ Good(f) /\ Follows(r, f) /\ PagesGrew(Load(r), Load(f))
  /\ Vouches(LastSig(f), f, Len(r))
  /\ s = {} => CoversWholeDocument(f, LastSig(f))
  /\ s # {} => Len(r) < Len(f)
  /\ s \subseteq {"dss"} => OnlyDss(Load(r), Load(f))
  /\ s = {"dss"} => Len(r) < Top(f)
  /\ s \subseteq {"garbage"} => Top(f) <= Len(r)
  /\ "edit" \in s => Edited(Load(r), Load(f))
Trail(f, s) ==
  CollectSignatures(f) # << >> => \E n \in 0..Len(f) : Stands(SubSeq(f, 1, n), f, s)

\* What was appended to the document, and to the buffer behind the new signature.
XInv ==
  /\ Trail(file, since)
  /\ NoReal(Load(file)) /\ (pc \in Working => NoReal(Load(buf)))
  /\ pc = "dss" => Trail(buf, {})
  /\ pc = "return" /\ opts.level = Blt => Trail(buf, {"dss"})
=============================================================================
