-------------------------------- MODULE Redaction --------------------------------
(***************************************************************************)
(* The redaction engine (redaction/engine.py): what becomes of a text once *)
(* its detectors have marked spans of it.                                  *)
(*                                                                         *)
(* A text is its length.  A detection is a kind and a span from .. to - 1. *)
(* The regular expressions are left out: a detector may mark any span,     *)
(* its marks do not overlap one another, and the account detector passes   *)
(* over what lies inside an amount in soles.                               *)
(***************************************************************************)
EXTENDS Naturals, FiniteSets, Sequences

\* Percent.  The e-mail and DNI detectors tie.
CONFIDENCE == [pii_name |-> 99, pii_email |-> 95, pii_id |-> 95, pii_ruc |-> 92,
               pii_phone |-> 90, pii_account |-> 70]
Kinds == DOMAIN CONFIDENCE

Span(length) == {s \in [from : 1..length, to : 2..(length + 1)] : s.from < s.to}
Length(d) == d.to - d.from
Inside(d, r) == d.from >= r.from /\ d.to <= r.to

\* Mutant: spans that touch count as overlapping.
Touch(a, b) == ~(a.to < b.from \/ b.to < a.from)

\* _ranges_overlap
Overlap(a, b) == ~(a.to <= b.from \/ b.to <= a.from)

\* What the detectors may report; names are matched one by one and overlap.
Detectable(ds, soles) ==
  /\ \A a, b \in ds : a # b /\ a.kind = b.kind /\ a.kind # "pii_name" => ~Overlap(a, b)
  /\ \A d \in ds : d.kind = "pii_account" => \A r \in soles : ~Inside(d, r)

\* The order in which _resolve_overlaps takes detections: confidence, length,
\* start, and then the order of the detectors, names and e-mails first.
DETECTORS == <<"pii_name", "pii_email", "pii_phone", "pii_id", "pii_ruc", "pii_account">>
Rank(kind) == CHOOSE i \in DOMAIN DETECTORS : DETECTORS[i] = kind

Before(a, b) ==
  \/ CONFIDENCE[a.kind] > CONFIDENCE[b.kind]
  \/ CONFIDENCE[a.kind] = CONFIDENCE[b.kind] /\ Length(a) > Length(b)
  \/ /\ CONFIDENCE[a.kind] = CONFIDENCE[b.kind] /\ Length(a) = Length(b)
     /\ \/ a.from < b.from
        \/ a.from = b.from /\ Rank(a.kind) < Rank(b.kind)

\* Greedy: in that order, a detection is kept unless one kept before overlaps it.
Resolved(ds) ==
  CHOOSE kept \in SUBSET ds :
    \A d \in ds : d \in kept <=> ~\E k \in kept : Before(k, d) /\ Overlap(d, k)

\* The tag of a kept detection: its kind and its number among that kind.
Tag(kept, d) ==
  [tag |-> d.kind,
   number |-> Cardinality({e \in kept : e.kind = d.kind /\ e.from <= d.from})]

\* The stitched text: in order, the characters kept and the tags, which stand
\* where their detections begin.
Character(i) == [tag |-> "character", number |-> i]

Stitched(length, tagOf) ==
  LET kept     == DOMAIN tagOf
      stays    == {i \in 1..length : ~\E d \in kept : d.from < i /\ i < d.to}
      place(k) == CHOOSE i \in stays : Cardinality({j \in stays : j <= i}) = k
      piece(i) == IF \E d \in kept : d.from = i THEN tagOf[CHOOSE d \in kept : d.from = i]
                  ELSE Character(i)
  IN  [k \in 1..Cardinality(stays) |-> piece(place(k))]

\* redact
Redacted(length, ds) ==
  LET kept == Resolved(ds) IN Stitched(length, [d \in kept |-> Tag(kept, d)])

\* masked_preview keeps the last digits of a number, nothing of a name, and
\* of an e-mail its first character and its top-level domain.
LastDigits == [pii_name |-> 0, pii_email |-> 0, pii_id |-> 4, pii_ruc |-> 4,
               pii_phone |-> 3, pii_account |-> 4]
Preview(length, ds) ==
  Stitched(length, [d \in Resolved(ds) |-> [tag |-> d.kind, number |-> LastDigits[d.kind]]])

-----------------------------------------------------------------------------
(* Property *)

Cells(d) == d.from .. (d.to - 1)

\* Where a text has characters and not tags.
Characters(text) == {k \in DOMAIN text : text[k].tag = "character"}

\* Every detection is redacted, or shares characters with a kept one that is
\* as sure; kept ones share none.  The text that is stored has the other
\* characters, in order, and one tag for each kept detection, numbered from
\* 1 within its kind; the preview hides the same characters.  (Of a
\* detection that gave way, the characters outside the kept one stay.)
RedactionCovers(length, ds) ==
  LET kept    == Resolved(ds)
      hidden  == UNION {Cells(d) : d \in kept}
      text    == Redacted(length, ds)
      preview == Preview(length, ds)
      plain   == Characters(text)
  IN  /\ \A d \in ds : \E k \in kept :
           Cells(d) \intersect Cells(k) # {} /\ CONFIDENCE[k.kind] >= CONFIDENCE[d.kind]
      /\ \A j, k \in kept : j # k => Cells(j) \intersect Cells(k) = {}
      /\ {text[k].number : k \in plain} = (1..length) \ hidden
      /\ \A j, k \in plain : j < k => text[j].number < text[k].number
      /\ Cardinality(DOMAIN text \ plain) = Cardinality(kept)
      /\ \A k \in DOMAIN text \ plain :
           text[k].number = Cardinality({j \in 1..k : text[j].tag = text[k].tag})
      /\ DOMAIN preview = DOMAIN text
      /\ \A k \in DOMAIN text :
           preview[k].tag = text[k].tag /\ (k \in plain => preview[k] = text[k])

=============================================================================
