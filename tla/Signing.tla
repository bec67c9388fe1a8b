------------------------------ MODULE Signing ------------------------------
(***************************************************************************)
(* The signing pipeline, sign_pdf_bytes of src/src/sign.rs with add_dss of *)
(* src/src/dss.rs, over a document that is signed again and again and that *)
(* other programs may edit between two calls.                              *)
(*                                                                         *)
(* A call goes through the steps of the source:                            *)
(*                                                                         *)
(*   check -> patch -> cms -> fill [-> dss [-> stamp -> tspatch -> token   *)
(*         -> tsfill]] -> return                                           *)
(*                                                                         *)
(* Each may end the call with an error instead; the document then stays    *)
(* what it was.                                                            *)
(***************************************************************************)
EXTENDS Documents

CONSTANTS
  InitialFiles,    \* the documents the first call may start from
  Options,         \* the SignOptions a caller may pass
  DerSizes,        \* lengths a CMS or a timestamp token may have
  Materials,       \* validation material: [DssKeys -> sets of DER blobs]
  MaxCalls,        \* bound: calls of sign_pdf_bytes
  MaxEdits,        \* bound: updates appended by other programs
  ByteRangeDigits, \* digits the /ByteRange placeholder has room for (30)
  MaxUsize         \* the largest usize

ASSUME InitialFilesAssumption ==
  \A f \in InitialFiles :
    /\ f \in Seq(Range(f)) /\ f # << >>
    /\ Readable(f) /\ WellPlaced(f) /\ IsDocument(Load(f))
ASSUME OptionsAssumption ==
  /\ Options # {}
  /\ \A o \in Options : o.cap \in Nat /\ o.page \in Nat /\ o.level \in 0..3
ASSUME SizesAssumption ==
  /\ DerSizes \subseteq Nat \ {0}
  /\ \A m \in Materials : \A key \in DssKeys : IsFiniteSet(m[key])
ASSUME BoundsAssumption == MaxCalls \in Nat /\ MaxEdits \in Nat

VARIABLES
  file,   \* the document: the input of the next call
  pc,     \* the step the current call is at
  opts,   \* its options
  buf,    \* its working buffer
  head,   \* position in buf of the signature object being filled
  der,    \* the CMS or token to write into it
  res,    \* how the last call ended
  report, \* history: what a verifier reports about the entries of file
  since,  \* history: what was appended after the last signature or timestamp
  calls,  \* history: calls so far
  edits   \* history: updates by other programs so far

vars == <<file, pc, opts, buf, head, der, res, report, since, calls, edits>>

\* PadesLevel, in ascending order.
Bb   == 0
Bt   == 1
Blt  == 2
Blta == 3
NoDer == [t |-> "none", digest |-> << >>, size |-> 0]

-----------------------------------------------------------------------------
(* Updates.                                                                *)

\* load_for_update: encrypted files and documents certified with P=1 are refused.
Refused(doc) == doc.encrypt \/ Catalog(doc).docmdp = 1

\* The objects add_appearance allocates: a font and the form XObject; with an
\* embedded font two more, with an image and its soft mask two more.
ApObjects(ap) == CASE ap = "none" -> 0 [] ap = "text" -> 2 [] OTHER -> 6

TakenId(doc, i) == doc.maxId + i - 1
FreshId(doc, i) == doc.maxId + i
FreshIds(doc, first, n) == {FreshId(doc, first + i) : i \in 1..n}

\* The array starts over.
PushAlone(doc, holder, id) == Arr(<<id>>)

\* An array entry with one more reference (the three shapes of /Annots, /Fields).
Push(doc, holder, id) ==
  Arr(IF holder.at = "none" THEN <<id>> ELSE Append(Resolve(doc, holder).a, id))

\* apply_widget_to_page
PageUpdate(doc, page, widget) ==
  LET annots == doc.objects[page].annots
  IN  IF annots.at = "ref"
      THEN Queue(annots.ref, Push(doc, annots, widget))
      ELSE Queue(page, [doc.objects[page] EXCEPT !.annots = Inline(Push(doc, annots, widget))])

\* add_field_to_form: the form, and the array object if /Fields is indirect.
FormWith(doc, form, widget) ==
  [form EXCEPT !.fields = IF @.at = "ref" THEN @ ELSE Inline(Push(doc, @, widget)),
               !.sigFlags = TRUE, !.needAppearances = FALSE]
FieldsForgotten(doc, form, widget) == << >>
FieldsUpdate(doc, form, widget) ==
  IF form.fields.at = "ref"
  THEN Queue(form.fields.ref, Push(doc, form.fields, widget)) ELSE << >>

EmptyForm ==
  [t |-> "form", fields |-> Absent, sigFlags |-> FALSE, needAppearances |-> FALSE]

\* apply_field_to_acroform: the catalog is written again only when the form
\* is not an object of its own.
FormUpdate(doc, widget) ==
  LET holder == Catalog(doc).form
      form   == IF holder.at = "none" THEN EmptyForm ELSE Resolve(doc, holder)
      new    == FormWith(doc, form, widget)
  IN  FieldsUpdate(doc, form, widget)
        ++ (IF holder.at = "ref" THEN Queue(holder.ref, new)
            ELSE Queue(doc.root, [Catalog(doc) EXCEPT !.form = Inline(new)]))

\* build_incremental_update, build_doctimestamp_update: the objects of an
\* update with a signature dictionary, nap appearance objects and a widget.
FieldUpdate(doc, page, sub, cap, nap) ==
  LET sig    == FreshId(doc, 1)
      widget == FreshId(doc, nap + 2)
  IN  Queue(sig, [t |-> "newsig", sub |-> sub, cap |-> cap])
        ++ [id \in FreshIds(doc, 1, nap) |-> ApObj]
        ++ Queue(widget, [t |-> "widget", sig |-> sig])
        ++ PageUpdate(doc, page, widget)
        ++ FormUpdate(doc, widget)

\* The page is checked when there is an appearance; an invisible signature
\* goes to page 1.
PageNumber(o) == IF o.ap = "none" THEN 1 ELSE o.page

\* add_dss, merge: the references an array keeps, and the blobs it lacks.
DssArray(doc, dss, key) ==
  IF dss.arr[key].at = "none" THEN << >> ELSE Resolve(doc, dss.arr[key]).a
AllOf(doc, dss, material, key) == material[key]
Missing(doc, dss, material, key) ==
  material[key] \ {doc.objects[id].der : id \in Range(DssArray(doc, dss, key))}

\* The ids allotted to the missing blobs: certificates, then CRLs, then OCSPs.
FirstNew(doc, dss, material, key) ==
  LET n(k) == Cardinality(Missing(doc, dss, material, k))
  IN  CASE key = "Certs" -> 0
        [] key = "CRLs"  -> n("Certs")
        [] key = "OCSPs" -> n("Certs") + n("CRLs")
NewStreams(doc, dss, material, key) ==
  LET blobs == SetToSeq(Missing(doc, dss, material, key))
      first == FirstNew(doc, dss, material, key)
  IN  [id \in FreshIds(doc, first, Cardinality(Missing(doc, dss, material, key))) |->
         Der(blobs[id - FreshId(doc, first)])]
ReplacedArray(doc, dss, material, key) ==
  LET first == FirstNew(doc, dss, material, key)
      n     == Cardinality(Missing(doc, dss, material, key))
  IN  Inline(Arr([i \in 1..n |-> FreshId(doc, first + i)]))
MergedArray(doc, dss, material, key) ==
  LET n     == Cardinality(Missing(doc, dss, material, key))
      first == FirstNew(doc, dss, material, key)
      refs  == DssArray(doc, dss, key) \o [i \in 1..n |-> FreshId(doc, first + i)]
  IN  IF refs = << >> THEN dss.arr[key] ELSE Inline(Arr(refs))
ExistingDss(doc) ==
  IF Catalog(doc).dss.at = "none" THEN EmptyDss ELSE Resolve(doc, Catalog(doc).dss)
NewBlobs(doc, material) ==
  LET n(key) == Cardinality(Missing(doc, ExistingDss(doc), material, key))
  IN  n("Certs") + n("CRLs") + n("OCSPs")
DssUpdate(doc, material) ==
  LET holder == Catalog(doc).dss
      old    == ExistingDss(doc)
      new    == [old EXCEPT !.arr =
                   [key \in DssKeys |-> MergedArray(doc, old, material, key)]]
  IN  NewStreams(doc, old, material, "Certs")
        ++ NewStreams(doc, old, material, "CRLs")
        ++ NewStreams(doc, old, material, "OCSPs")
        ++ (IF holder.at = "ref" THEN Queue(holder.ref, new)
            ELSE Queue(doc.root, [Catalog(doc) EXCEPT !.dss = Inline(new)]))

-----------------------------------------------------------------------------
(* The signature object inside the buffer.                                 *)

\* The first signature dictionary of the file, or an offset within the update.
FirstSigPosition(f, body) ==
  LET all == Terminated(f) \o body IN Min({i \in DOMAIN all : all[i].k = "sig"})
PositionInUpdate(f, body) == CHOOSE i \in DOMAIN body : body[i].k = "sig"

\* Rendered.offsets[sig_id]: the signature object of the update itself.
SigPosition(f, body) ==
  Len(Terminated(f)) + CHOOSE i \in DOMAIN body : body[i].k = "sig"

\* locate_contents_placeholder, relative to the position of the object.
LtPos(h)      == h + 1
GtPos(h, cap) == h + 2 + cap

\* The bytes outside the '<...>' hole.
Covered(b, h, cap) ==
  SubSeq(b, 1, LtPos(h) - 1) \o SubSeq(b, GtPos(h, cap) + 1, Len(b))

Digits(n) == IF n < 10 THEN 1 ELSE IF n < 100 THEN 2 ELSE 3

\* The hole ends one byte too early.
ByteRangeShort(b, h, cap) ==
  <<0, LtPos(h) - 1, GtPos(h, cap) - 1, Len(b) - GtPos(h, cap) + 1>>

\* patch_byte_range
ByteRange(b, h, cap) ==
  <<0, LtPos(h) - 1, GtPos(h, cap), Len(b) - GtPos(h, cap)>>
FitsPlaceholder(br) ==
  Digits(br[2]) + Digits(br[3]) + Digits(br[4]) <= ByteRangeDigits

\* fill_placeholder: hex of the DER value, zero-padded.
Filled(b, h, cap, d) ==
  [i \in DOMAIN b |->
     IF i \in (LtPos(h) + 1)..(LtPos(h) + cap)
     THEN IF i - LtPos(h) <= d.size THEN DerBytes(d)[i - LtPos(h)] ELSE Zero
     ELSE b[i]]

-----------------------------------------------------------------------------
(* One call of sign_pdf_bytes.                                             *)

Call(o) ==
  /\ pc = "idle" /\ calls < MaxCalls
  /\ opts' = o /\ pc' = "check" /\ res' = "none" /\ calls' = calls + 1
  /\ UNCHANGED <<file, buf, head, der, report, since, edits>>

\* The working buffer is a local of the call.
Drop(f) == buf' = f /\ head' = 1 /\ der' = NoDer

FailTruncates ==
  /\ pc' = "idle" /\ res' = "error" /\ file' = << >>
  /\ Drop(file)
  /\ UNCHANGED <<opts, report, since, calls, edits>>
Fail ==
  /\ pc' = "idle" /\ res' = "error"
  /\ Drop(file)
  /\ UNCHANGED <<file, opts, report, since, calls, edits>>

\* The checks on the options.  An appearance is drawable if its geometry is finite
\* and positive and its font and image can be read (validate_appearance,
\* add_appearance).
ValidOptions(o) ==
  /\ o.level >= Bt => o.tsa
  /\ o.cap > 0 /\ o.cap * 2 <= MaxUsize
  /\ o.ap # "none" => o.drawable /\ o.page > 0

Acceptable(f, o) ==
  /\ ValidOptions(o)
  /\ ~Refused(Load(f))
  /\ PageNumber(o) <= Len(PageIds(Load(f)))

Reject ==
  /\ pc = "check"
  /\ ~Acceptable(file, opts)
  /\ Fail

\* build_incremental_update
Build ==
  /\ pc = "check"
  /\ Acceptable(file, opts)
  /\ LET doc  == Load(file)
         nap  == ApObjects(opts.ap)
         objs == FieldUpdate(doc, PageIds(doc)[PageNumber(opts)],
                             "ETSI.CAdES.detached", opts.cap, nap)
         body == SignedBody(objs, FreshId(doc, 1))
     IN  /\ buf'  = Render(file, body, FreshId(doc, nap + 3), doc.root)
         /\ head' = SigPosition(file, body)
  /\ pc' = "patch"
  /\ UNCHANGED <<file, opts, der, res, report, since, calls, edits>>

\* Locating the placeholder and patching the /ByteRange, for the signature
\* and again for the document timestamp.
Patchable ==
  /\ buf[GtPos(head, opts.cap)] = Gt
  /\ FitsPlaceholder(ByteRange(buf, head, opts.cap))

Patch(from, to) ==
  /\ pc = from
  /\ Patchable
  /\ buf' = [buf EXCEPT ![head].br = ByteRange(buf, head, opts.cap)]
  /\ pc' = to
  /\ UNCHANGED <<file, opts, head, der, res, report, since, calls, edits>>

PatchFails ==
  /\ pc \in {"patch", "tspatch"}
  /\ ~Patchable
  /\ Fail

\* cms_sign: the detached CMS, from Bt on with a signature timestamp inside.
CmsSign ==
  /\ pc = "cms"
  /\ \E n \in DerSizes :
       der' = [t |-> "cms", digest |-> Covered(buf, head, opts.cap), size |-> n]
  /\ pc' = "fill"
  /\ UNCHANGED <<file, opts, buf, head, res, report, since, calls, edits>>

\* request_timestamp over the bytes of the document timestamp's own range.
Token ==
  /\ pc = "token"
  /\ \E n \in DerSizes :
       der' = [t |-> "tst", digest |-> Covered(buf, head, opts.cap), size |-> n]
  /\ pc' = "tsfill"
  /\ UNCHANGED <<file, opts, buf, head, res, report, since, calls, edits>>

\* The keystore cannot be used, or the TSA does not answer with a token.
CryptoFails ==
  /\ pc \in {"cms", "token"}
  /\ Fail

FillStep(from, to) ==
  /\ pc = from
  /\ der.size <= opts.cap
  /\ buf' = Filled(buf, head, opts.cap, der)
  /\ pc' = to
  /\ UNCHANGED <<file, opts, head, der, res, report, since, calls, edits>>

\* PlaceholderTooSmall
FillFails ==
  /\ pc \in {"fill", "tsfill"}
  /\ der.size > opts.cap
  /\ Fail

Fill == FillStep("fill", IF opts.level >= Blt THEN "dss" ELSE "return")

\* collect_validation_material (best effort: whatever could be fetched) and
\* add_dss.
AddDss ==
  /\ pc = "dss"
  /\ \E material \in Materials :
       LET doc == Load(buf)
       IN  buf' = Render(buf, PlainBody(DssUpdate(doc, material)),
                         FreshId(doc, NewBlobs(doc, material) + 1), doc.root)
  /\ pc' = IF opts.level >= Blta THEN "stamp" ELSE "return"
  /\ UNCHANGED <<file, opts, head, der, res, report, since, calls, edits>>

\* build_doctimestamp_update
Stamp ==
  /\ pc = "stamp"
  /\ LET doc  == Load(buf)
         objs == FieldUpdate(doc, PageIds(doc)[1], "ETSI.RFC3161", opts.cap, 0)
         body == SignedBody(objs, FreshId(doc, 1))
     IN  /\ buf'  = Render(buf, body, FreshId(doc, 3), doc.root)
         /\ head' = SigPosition(buf, body)
  /\ pc' = "tspatch"
  /\ UNCHANGED <<file, opts, der, res, report, since, calls, edits>>

\* Ok(buf)
Return ==
  /\ pc = "return"
  /\ file' = buf
  /\ since' = IF opts.level = Blt THEN {"dss"} ELSE {}
  /\ pc' = "idle" /\ res' = "ok"
  /\ Drop(file') /\ report' = ReportedLog(file')
  /\ UNCHANGED <<opts, calls, edits>>

-----------------------------------------------------------------------------
(* Updates appended by other programs between two calls.                   *)

Edit(objs, size, kind) ==
  /\ pc = "idle" /\ edits < MaxEdits
  /\ file' = Render(file, PlainBody(objs), size, Load(file).root)
  /\ since' = since \cup {kind} /\ edits' = edits + 1
  /\ Drop(file') /\ report' = ReportedLog(file')
  /\ UNCHANGED <<pc, opts, res, calls>>

\* New content on a page, or a new object nothing refers to.
EditPage ==
  LET doc == Load(file)
      p   == PageIds(doc)[1]
  IN  Edit(Queue(p, [doc.objects[p] EXCEPT !.body = @ + 1]), doc.maxId + 1, "edit")
EditObject ==
  LET doc == Load(file)
  IN  Edit(Queue(FreshId(doc, 1), ApObj), FreshId(doc, 2), "edit")

\* Another tool refreshes the /DSS.
EditDss ==
  LET doc == Load(file)
  IN  \E material \in Materials :
        Edit(DssUpdate(doc, material), FreshId(doc, NewBlobs(doc, material) + 1), "dss")

\* Bytes after the end that are no update.
EditGarbage ==
  /\ pc = "idle" /\ edits < MaxEdits
  /\ file' = Append(file, Junk)
  /\ since' = since \cup {"garbage"} /\ edits' = edits + 1
  /\ Drop(file') /\ report' = ReportedLog(file')
  /\ UNCHANGED <<pc, opts, res, calls>>

-----------------------------------------------------------------------------
Init ==
  /\ file \in InitialFiles
  /\ pc = "idle"
  /\ opts = CHOOSE o \in Options : TRUE
  /\ buf = file /\ head = 1 /\ der = NoDer
  /\ res = "none" /\ report = ReportedLog(file) /\ since = {} /\ calls = 0 /\ edits = 0

Step ==
  \/ Reject \/ Build
  \/ Patch("patch", "cms") \/ Patch("tspatch", "token") \/ PatchFails
  \/ CmsSign \/ Token \/ CryptoFails
  \/ Fill \/ FillStep("tsfill", "return") \/ FillFails
  \/ AddDss \/ Stamp \/ Return

Next ==
  \/ \E o \in Options : Call(o)
  \/ Step
  \/ EditPage \/ EditObject \/ EditDss \/ EditGarbage

Spec == Init /\ [][Next]_vars

-----------------------------------------------------------------------------
(* Properties.                                                             *)

\* Type invariant: the file and the buffer are non-empty sequences of cells, the
\* control state is a step of sign_pdf_bytes, and the counters keep their bounds.
Steps == {"idle", "check", "patch", "cms", "fill", "dss", "stamp", "tspatch",
          "token", "tsfill", "return"}
TypeOK ==
  /\ file \in Seq(Range(file)) /\ file # << >>
  /\ buf \in Seq(Range(buf)) /\ buf # << >>
  /\ pc \in Steps /\ opts \in Options /\ res \in {"none", "ok", "error"}
  /\ head \in Nat \ {0} /\ der.size \in Nat
  /\ since \subseteq {"dss", "edit", "garbage"}
  /\ calls \in 0..MaxCalls /\ edits \in 0..MaxEdits

\* What a document said stays in it: a call, or an update by another program,
\* only ever appends ("keeps the original bytes verbatim", sign.rs:190-191).
AppendOnly == [][IsPrefix(file, file')]_vars

\* While a call works, its buffer still begins with the input document, and the
\* signature object it patches in place (patch_byte_range, fill_placeholder)
\* lies in the appended part with its whole placeholder inside the buffer.
HasPlaceholder == pc \in {"patch", "cms", "fill", "tspatch", "token", "tsfill"}
UpdateOnly ==
  /\ IsPrefix(file, buf)
  /\ HasPlaceholder =>
       /\ head > Len(file)
       /\ GtPos(head, opts.cap) < Len(buf)

\* The signature dictionary at h, read back from the buffer.
SignatureAt(b, h, cap) ==
  [t |-> "sig", sub |-> b[h].sub, br |-> b[h].br,
   contents |-> SubSeq(b, LtPos(h) + 1, LtPos(h) + cap)]

\* From the moment it is filled in until the call returns, what was just written
\* verifies, although its /ByteRange was computed before the placeholder was
\* filled and the DSS is appended behind it; without such a DSS it leaves out
\* nothing but its own /Contents.
WrittenVerifies ==
  pc \in {"dss", "stamp", "return"} =>
    LET sig == SignatureAt(buf, head, opts.cap)
    IN  /\ Valid(buf, sig)
        /\ pc = "dss" \/ (pc = "return" /\ opts.level # Blt)
             => CoversWholeDocument(buf, sig)

\* Every signature that verifies keeps verifying, with the same range and the
\* same /Contents, whatever is appended later: by further signatures, by the
\* DSS, by a document timestamp, or by another program.
SignaturesSurvive ==
  [][LET old == CollectSignatures(file)
         new == CollectSignatures(file')
     IN  \A i \in DOMAIN old :
           Valid(file, old[i]) =>
             i \in DOMAIN new /\ new[i] = old[i] /\ Valid(file', new[i])]_file

Log == INSTANCE SignatureLog WITH log <- report

\* Seen through the report, the document is a log of valid entries: a call adds
\* one signature, a B-LTA call a signature and its archival timestamp at once,
\* and nothing else changes an entry.
ReportIsALog == Log!Spec

\* The report's document_intact (verify.rs) says exactly what the history says:
\* the document is signed and since its last signature or timestamp at most
\* validation material was appended, be it by this crate's own B-LT step.  Bytes
\* that are no update next to such material are the subject of GarbageDetected.
Signed == CollectSignatures(file) # << >>
IntactIsExact ==
  ~({"dss", "garbage"} \subseteq since) =>
    (DocumentIntact(file) <=> Signed /\ since \subseteq {"dss"})

\* verify.rs:571-574: "Trailing bytes that are not an update (garbage, a comment,
\* a truncated revision) [...] are not accepted."
GarbageDetected == "garbage" \in since => ~DocumentIntact(file)

\* The last signature of the first document is for the whole of it, and its catalog
\* holds no number that load_for_update reads as a real and writes as an integer.
IntactBefore ==
  \A f \in InitialFiles :
    LET sigs == CollectSignatures(f)
    IN  /\ Catalog(Load(f)).number # "integral_real"
        /\ sigs # << >> => Valid(f, Last(sigs)) /\ CoversWholeDocument(f, Last(sigs))

\* No entry of the first document is broken.
SignedBefore == \A f \in InitialFiles : AllVerify(f)

\* A call that succeeded leaves a document in which every entry verifies, whose
\* last entry leaves out nothing but its own /Contents.
OutputVerifies ==
  res = "ok" =>
    LET sigs == CollectSignatures(file)
    IN  /\ \A i \in DOMAIN sigs : Valid(file, sigs[i])
        /\ since = {} => CoversWholeDocument(file, Last(sigs))

\* The fields of the form and the annotations of the pages, as object numbers.
Elements(doc, holder) ==
  IF holder.at = "none" THEN << >> ELSE Resolve(doc, holder).a
FieldIds(doc) ==
  LET holder == Catalog(doc).form
  IN  IF holder.at = "none" THEN << >> ELSE Elements(doc, Resolve(doc, holder).fields)
AnnotIds(doc) ==
  UNION {Range(Elements(doc, doc.objects[p].annots)) : p \in Range(PageIds(doc))}

\* The signature s is the value of exactly one field, which is also an annotation
\* of a page.
HasItsField(doc, s) ==
  LET fields    == FieldIds(doc)
      IsMine(i) == /\ fields[i] \in DOMAIN doc.objects
                   /\ doc.objects[fields[i]] = [t |-> "widget", sig |-> s]
  IN  \E i \in DOMAIN fields :
        /\ IsMine(i) /\ \A j \in DOMAIN fields : IsMine(j) => j = i
        /\ fields[i] \in AnnotIds(doc)
        /\ ~Resolve(doc, Catalog(doc).form).needAppearances
Fielded(doc) == \A s \in SignatureIds(doc) : HasItsField(doc, s)

\* The signature a field has as its value is there.
Linked(doc) ==
  \A id \in DOMAIN doc.objects :
    doc.objects[id].t = "widget" => doc.objects[id].sig \in DOMAIN doc.objects

\* So it is in the first document.
FieldsBefore == \A f \in InitialFiles : Fielded(Load(f)) /\ Linked(Load(f))

\* A reader that follows the cross-reference chain of the result finds every
\* signature through the form, as the value of exactly one field, which a page shows
\* (build_incremental_update); no field is lost when another is added.
EverySignatureHasItsField == Fielded(Load(file))

\* An update gives new objects numbers no object has, the cross-reference stream
\* of an earlier update included: whatever is not one of the containers an
\* update extends reads back unchanged after a call.
NoObjectLost ==
  [][pc = "return" =>
       LET old == Load(file)
           new == Load(file')
       IN  \A id \in DOMAIN old.objects :
             /\ id \in DOMAIN new.objects
             /\ \/ new.objects[id] = old.objects[id]
                \/ /\ old.objects[id].t \in {"catalog", "page", "array", "form", "dss"}
                   /\ new.objects[id].t = old.objects[id].t]_vars

\* The validation material of the document, whatever shape its arrays have.
DssBlobs(f, key) ==
  LET doc == Load(f)
      ids == DssArray(doc, ExistingDss(doc), key)
  IN  [i \in DOMAIN ids |-> doc.objects[ids[i]].der]

\* The arrays of the /DSS and those of fields and annotations, as object numbers.
DssArrays(doc) ==
  LET arr == ExistingDss(doc).arr
  IN  {arr[key].ref : key \in {k \in DssKeys : arr[k].at = "ref"}}
FieldArrays(doc) ==
  LET form    == Catalog(doc).form
      pages   == {id \in DOMAIN doc.objects : doc.objects[id].t = "page"}
      holders == {doc.objects[p].annots : p \in pages}
                   \cup (IF form.at = "none" THEN {} ELSE {Resolve(doc, form).fields})
  IN  {h.ref : h \in {x \in holders : x.at = "ref"}}

\* The /DSS has no stream twice and shares no array.
Stocked(f) ==
  LET doc == Load(f)
  IN  /\ \A key \in DssKeys :
           /\ \A id \in Range(DssArray(doc, ExistingDss(doc), key)) :
                doc.objects[id].t = "der"
           /\ IsInjective(DssBlobs(f, key))
      /\ DssArrays(doc) \cap FieldArrays(doc) = {}

\* So it is in the first document.
MaterialBefore == \A f \in InitialFiles : Stocked(f)

\* ETSI EN 319 142-1 5.4.2, dss.rs:204-209: an updated DSS keeps the earlier
\* values in their places, and no blob is stored twice.
DssMerges ==
  [][\A key \in DssKeys :
       /\ IsPrefix(DssBlobs(file, key), DssBlobs(file', key))
       /\ IsInjective(DssBlobs(file', key))]_file
=============================================================================
