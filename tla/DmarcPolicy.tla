---------------------------- MODULE DmarcPolicy ----------------------------
(***************************************************************************)
(* DMARC records and alignment: parse_record, check_dkim_alignment,        *)
(* evaluate and effective_policy of src/auth/dmarc.rs.  A record is its    *)
(* tags, the texts between its semicolons: the key and the value of a tag, *)
(* and whether white space stands before it.  The version tag and those    *)
(* that the code skips have a key too: "v=DMARC1", "" and "no =".  The     *)
(* value of pct= is a number.                                              *)
(***************************************************************************)
EXTENDS Integers, Text

DefaultRecord ==
  [ok |-> TRUE, policy |-> "none", subdomain |-> "unset",
   dkim |-> "Relaxed", spf |-> "Relaxed", percentage |-> 100]

Policies == {"none", "quarantine", "reject"}

\* parse_policy and parse_alignment, for values in any case.
ParsePolicy(value) == IF value \in Policies THEN value ELSE "bad"
ParseAlignment(value) ==
  CASE value \in {"r", "relaxed"} -> "Relaxed"
    [] value \in {"s", "strict"}  -> "Strict"
    [] OTHER                      -> "bad"

\* pct: a u8, 100 when it is none.
ParsePercentage(value) == IF value \in 0..255 THEN value ELSE 100

\* One tag.  The report addresses and fo= are kept and read by nothing.
ParseTag(record, tag) ==
  CASE ~ record.ok -> record
    [] record.ok /\ tag.key = "p" ->
         [record EXCEPT !.policy = ParsePolicy(tag.value), !.ok = ParsePolicy(tag.value) # "bad"]
    [] record.ok /\ tag.key = "sp" ->
         [record EXCEPT !.subdomain = ParsePolicy(tag.value), !.ok = ParsePolicy(tag.value) # "bad"]
    [] record.ok /\ tag.key = "adkim" ->
         [record EXCEPT !.dkim = ParseAlignment(tag.value), !.ok = ParseAlignment(tag.value) # "bad"]
    [] record.ok /\ tag.key = "aspf" ->
         [record EXCEPT !.spf = ParseAlignment(tag.value), !.ok = ParseAlignment(tag.value) # "bad"]
    [] record.ok /\ tag.key = "pct" -> [record EXCEPT !.percentage = ParsePercentage(tag.number)]
    [] OTHER -> record

\* The version has to be the first thing in the record.
ParseDmarc(tags) ==
  LET start == [DefaultRecord EXCEPT !.ok = Head(tags).key = "v=DMARC1" /\ ~ Head(tags).indented]
      after[n \in 0..Len(tags)] == IF n = 0 THEN start ELSE ParseTag(after[n - 1], tags[n])
  IN after[Len(tags)]

-----------------------------------------------------------------------------
(* Domains are texts of letters and dots. *)

LowerLetter(letter) == IF letter = "A" THEN "a" ELSE letter
LowerDomain(domain) == [i \in DOMAIN domain |-> LowerLetter(domain[i])]

\* Variant: the domain of the signature ends with that of From, with or without a dot between.
AlignedWithoutDot(from, authenticated, mode) ==
  IF mode = "Strict" THEN LowerDomain(from) = LowerDomain(authenticated)
  ELSE IsSuffix(LowerDomain(from), LowerDomain(authenticated))

\* check_dkim_alignment, and check_spf_alignment, which calls it.
Aligned(from, authenticated, mode) ==
  \/ LowerDomain(from) = LowerDomain(authenticated)
  \/ mode = "Relaxed" /\ IsSuffix(<<".">> \o LowerDomain(from), LowerDomain(authenticated))

\* evaluate.
EvaluateDmarc(dkimAligned, spfAligned) == IF dkimAligned \/ spfAligned THEN "Pass" ELSE "Fail"

EffectivePolicy(record, isSubdomain) ==
  IF isSubdomain /\ record.subdomain # "unset" THEN record.subdomain ELSE record.policy

=============================================================================
