------------------------------- MODULE Requests -----------------------------
(***************************************************************************)
(* The names of a certificate request: how CertificateCreate normalizes    *)
(* them, the DNS Persist scope they imply, and the directory they are      *)
(* deployed to.  A DNS name is the sequence of its labels from the top, so *)
(* that a subdomain extends its parent; Star is the wildcard label.  Case  *)
(* and surrounding blanks are a field of what the client sends.            *)
(***************************************************************************)
EXTENDS Integers, Sequences, SequencesExt

Star == 0

\* What a client sends: a name, well formed or not, and how it is spelled.
Spelling == {"plain", "untidy"}
RawDomain(Names) == [name : Names, spelling : Spelling]

(***************************************************************************)
(* The pattern of _validate_domains: at least two labels, and a wildcard   *)
(* only as the leftmost one.                                               *)
(***************************************************************************)
WellFormed(d) ==
    LET labels == SelectSeq(d, LAMBDA l : l # Star)
    IN  /\ Len(labels) >= 2
        /\ \A i \in DOMAIN d : d[i] = Star => i = Len(d)

\* str.lower and str.strip.
Tidy(raw) == raw.name

\* sorted: some total order of names, here by length and then by label.
Before(d, e) ==
    \/ Len(d) < Len(e)
    \/ /\ Len(d) = Len(e)
       /\ \E i \in DOMAIN d : d[i] < e[i] /\ \A j \in 1 .. i - 1 : d[j] = e[j]

Sorted(S) ==
    CHOOSE s \in SetToSeqs(S) :
        \A i, j \in DOMAIN s : i < j => Before(s[i], s[j])

(***************************************************************************)
(* _validate_domains: the primary name first, the others once each and     *)
(* sorted.                                                                 *)
(***************************************************************************)
Normalized(raws) ==
    LET names == [i \in DOMAIN raws |-> Tidy(raws[i])]
    IN  <<names[1]>> \o Sorted(ToSet(Tail(names)) \ {names[1]})

Acceptable(raws) ==
    Len(raws) >= 1 /\ \A i \in DOMAIN raws : WellFormed(Tidy(raws[i]))

-----------------------------------------------------------------------------
(***************************************************************************)
(* dns_persist_scope.                                                      *)
(***************************************************************************)
WithoutStar(d) == IF Last(d) = Star THEN Front(d) ELSE d

Scope(domains) == WithoutStar(domains[1])

\* Mutant: any name with the same top two labels is taken to be in scope.
InScopeBySite(domains) ==
    \A i \in DOMAIN domains :
        SubSeq(domains[i], 1, 2) = SubSeq(domains[1], 1, 2)

InScope(domains) ==
    \A i \in DOMAIN domains : IsPrefix(Scope(domains), WithoutStar(domains[i]))

WildcardPolicy(domains) == Len(domains) > 1 \/ Last(domains[1]) = Star

(***************************************************************************)
(* deployment_directory_name of the primary name: "@wildcard@" stands for  *)
(* the star, which is not a label that WellFormed admits elsewhere.        *)
(***************************************************************************)
WildcardMark == -1

\* Mutant: the star is dropped.
DirectoryWithoutStar(domains) == WithoutStar(domains[1])

Directory(domains) ==
    LET d == domains[1]
    IN  IF Last(d) = Star THEN Append(Front(d), WildcardMark) ELSE d

=============================================================================
