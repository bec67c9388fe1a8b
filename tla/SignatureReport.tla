-------------------------- MODULE SignatureReport --------------------------
(***************************************************************************)
(* The structural half of src/src/verify.rs: which signature dictionaries  *)
(* a file has, what each one covers, whether it still verifies, and        *)
(* whether the document as a whole is what was signed.  Certificate trust  *)
(* is the subject of ArchivalTrust.                                        *)
(***************************************************************************)
EXTENDS PdfFile

\* collect_signatures: the signature dictionaries of the parsed object set.
SignatureIds(doc) ==
  {id \in DOMAIN doc.objects : doc.objects[id].t = "sig"}

\* They are reported in the order of their /Contents in the file.
GapStart(sig) == sig.br[1] + sig.br[2]
CollectSignatures(file) ==
  LET doc == Load(file)
      ids == SignatureIds(doc)
      Rank(id) == Cardinality({j \in ids :
                    GapStart(doc.objects[j]) <= GapStart(doc.objects[id])})
  IN  << >> \o [i \in 1..Cardinality(ids) |->
                  doc.objects[CHOOSE id \in ids : Rank(id) = i]]

-----------------------------------------------------------------------------
(* One entry.                                                              *)

\* ranged: the two segments are in bounds, in order and do not overlap.
WellFormedRange(file, br) ==
  /\ \A i \in 1..4 : br[i] >= 0
  /\ br[1] + br[2] <= Len(file)
  /\ br[3] + br[4] <= Len(file)
  /\ br[1] + br[2] <= br[3]

SignedCells(file, br) ==
  SubSeq(file, br[1] + 1, br[1] + br[2]) \o SubSeq(file, br[3] + 1, br[3] + br[4])

\* gap_is_contents: the bytes the range leaves out are the hex string of this
\* very /Contents value.
GapIsContents(file, from, to, contents) ==
  /\ from < to /\ to <= Len(file)
  /\ file[from + 1].k = "lt"
  /\ file[to].k = "gt"
  /\ SubSeq(file, from + 2, to - 1) = contents

CoversWholeDocument(file, sig) ==
  /\ WellFormedRange(file, sig.br)
  /\ sig.br[1] = 0
  /\ sig.br[3] + sig.br[4] = Len(file)
  /\ GapIsContents(file, GapStart(sig), sig.br[3], sig.contents)

\* cms_from_contents: a DER value, then zero padding.
HasDer(contents) ==
  /\ contents # << >>
  /\ contents[1].k = "der"
  /\ contents[1].der.size <= Len(contents)

NeverTimestamp(sig) == FALSE
IsTimestamp(sig) == sig.sub = "ETSI.RFC3161"

\* The bytes after the range count against the signature.
ValidToTheEnd(file, sig) ==
  /\ WellFormedRange(file, sig.br)
  /\ sig.br[3] + sig.br[4] = Len(file)
  /\ HasDer(sig.contents)
  /\ sig.contents[1].der.digest = SignedCells(file, sig.br)

\* verify_signature, verify_doc_ts: the CMS signature, or the imprint of the
\* RFC 3161 token, is over exactly the bytes of the range.
Valid(file, sig) ==
  /\ WellFormedRange(file, sig.br)
  /\ HasDer(sig.contents)
  /\ LET der == sig.contents[1].der
     IN  /\ der.t = IF IsTimestamp(sig) THEN "tst" ELSE "cms"
         /\ der.digest = SignedCells(file, sig.br)

-----------------------------------------------------------------------------
(* The whole document.                                                     *)

\* Only the objects that hold the arrays, not their elements.
DssContainerIds(doc) ==
  LET dss == Catalog(doc).dss IN IF dss.at = "ref" THEN {dss.ref} ELSE {}

\* collect_dss_ids: the objects reachable from the /DSS entry.
DssIds(doc) ==
  LET holder == Catalog(doc).dss
      dss    == Resolve(doc, holder)
      IdsOf(h) == (IF h.at = "ref" THEN {h.ref} ELSE {})
                    \cup (IF h.at = "none" THEN {} ELSE Range(Resolve(doc, h).a))
  IN  (IF holder.at = "ref" THEN {holder.ref} ELSE {})
        \cup (IF holder.at = "none" THEN {}
              ELSE UNION {IdsOf(dss.arr[key]) : key \in DssKeys})

\* dss_only_update: nothing but the /DSS differs from the revision that ends
\* at offset end.
DssOnlyUpdate(file, end) ==
  LET signed == SubSeq(file, 1, end)
  IN  /\ Loadable(file)
      /\ LastStartXref(file) + HeaderOffset(file) >= end
      /\ Loadable(signed)
      /\ LET full == Load(file)
             prev == Load(signed)
         IN  /\ full.root = prev.root
             /\ [Catalog(full) EXCEPT !.dss = Absent]
                  = [Catalog(prev) EXCEPT !.dss = Absent]
             /\ \A id \in DOMAIN full.objects \ ({full.root} \cup DssIds(full)) :
                  \/ full.objects[id] = XrefObj
                  \/ /\ id \in DOMAIN prev.objects
                     /\ prev.objects[id] = full.objects[id]

\* document_intact: the last entry vouches for the file as it is.
DocumentIntact(file) ==
  LET sigs == CollectSignatures(file)
  IN  /\ sigs # << >>
      /\ LET last == Last(sigs)
         IN  /\ Valid(file, last)
             /\ \/ CoversWholeDocument(file, last)
                \/ /\ last.br[1] = 0
                   /\ DssOnlyUpdate(file, last.br[3] + last.br[4])

\* SignatureReport::all_valid.
AllValid(file) ==
  /\ CollectSignatures(file) # << >>
  /\ \A i \in DOMAIN CollectSignatures(file) :
       Valid(file, CollectSignatures(file)[i])
  /\ DocumentIntact(file)

\* What a verifier reports about the entries of a document.
ReportedLog(f) ==
  LET sigs == CollectSignatures(f)
  IN  [i \in DOMAIN sigs |->
         CASE ~Valid(f, sigs[i])   -> "broken"
           [] IsTimestamp(sigs[i]) -> "timestamp"
           [] OTHER                -> "signature"]
=============================================================================
