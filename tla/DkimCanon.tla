----------------------------- MODULE DkimCanon -----------------------------
(***************************************************************************)
(* What DkimSigner::sign of src/auth/dkim.rs hashes and how it folds the   *)
(* signature.  The key, the hash and the signature are left out.           *)
(***************************************************************************)
EXTENDS MailText

DefaultSignedHeaders ==
  <<"from", "to", "subject", "date", "message-id", "mime-version", "content-type",
    "content-transfer-encoding">>

-----------------------------------------------------------------------------
(* canonicalize_body. *)

\* No blank lines at the end, no white space at the end of a line, CRLF behind each.
RelaxedBody(body) ==
  LET lines == LinesOf(body)
      used  == Max({0} \cup {i \in DOMAIN lines : Trim(lines[i]) # <<>>})
  IN IF used = 0 THEN CRLF ELSE WithCrlf([i \in 1..used |-> TrimEnd(lines[i], Blank)])

SimpleBody(body) == IF IsSuffix(CRLF, body) THEN body ELSE body \o CRLF

CanonicalizeBody(body, canon) == IF canon = "Relaxed" THEN RelaxedBody(body) ELSE SimpleBody(body)

-----------------------------------------------------------------------------
(* build_header_hash_input. *)

\* A header of the input: relaxed takes the line ends out of its value and puts one blank between
\* its words, so that only the words count.
CanonicalizeHeader(name, value, canon) ==
  [name |-> name,
   value |-> IF canon = "Relaxed" THEN Words(SelectSeq(value, LAMBDA s : s \notin {"CR", "LF"}))
             ELSE <<value>>]

Named(headers, name) == SelectSeq(headers, LAMBDA header : SameName(header.name, <<name>>))

\* Variant: of a field that occurs more than once, the first.
FieldToSignFirst(headers, name, signature) ==
  IF name = "dkim-signature" THEN signature ELSE Head(Named(headers, name)).value

\* Of a field that occurs more than once, the last.
FieldToSign(headers, name, signature) ==
  IF name = "dkim-signature" THEN signature ELSE Last(Named(headers, name)).value

\* The fields in the order of `signed'; one that is missing adds nothing.
HeaderHashInput(headers, signed, canon, signature) ==
  LET present == SelectSeq(signed, LAMBDA name : name = "dkim-signature" \/ Named(headers, name) # <<>>)
  IN [i \in DOMAIN present |->
        CanonicalizeHeader(present[i], FieldToSign(headers, present[i], signature), canon)]

-----------------------------------------------------------------------------

\* fold_signature, for lines of `width' characters: 76.
FoldSignature(signature, width) ==
  LET pieces == (Len(signature) + width - 1) \div width
      piece(i) == SubSeq(signature, (i - 1) * width + 1, Min({i * width, Len(signature)}))
  IN FlattenSeq([i \in 1..pieces |-> IF i = pieces THEN piece(i) ELSE piece(i) \o CRLF \o <<"SP">>])

\* sign: the two inputs of the hashes, for the header of the signature without its b= value.
SignatureInput(headers, body, signed, headerCanon, bodyCanon) ==
  LET bodyHash == CanonicalizeBody(body, bodyCanon)
  IN [body   |-> bodyHash,
      header |-> HeaderHashInput(headers, signed, headerCanon, <<"bh=">> \o bodyHash)]

=============================================================================
