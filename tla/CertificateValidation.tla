----------------------- MODULE CertificateValidation -----------------------
(***************************************************************************)
(* validate_certificate (pulpcore/app/serializers/repository.py lines     *)
(* 76-113), used for a remote's ca_cert and client_cert: it walks the     *)
(* lines of the PEM text, collects each BEGIN .. END CERTIFICATE segment, *)
(* hands every segment to load_pem_x509_certificate and returns just the  *)
(* segments.  A line is abstracted to what the loop tests of it: it holds *)
(* the BEGIN marker, the END marker, or neither (base64 or commentary).   *)
(* One step of the model is one iteration of the loop.                    *)
(***************************************************************************)
EXTENDS Naturals, Sequences, SequencesExt

CONSTANT MaxLines   \* the most lines of a value

ASSUME LinesAssumption == MaxLines \in Nat

Kinds == {"begin", "end", "text"}

VARIABLES
    value,    \* value.split("\n"); <<>> stands for an empty or null value
    i,        \* the index of the next line
    certs,    \* the segments collected so far
    acert,    \* a_cert: the lines of the segment being collected
    outcome   \* "running", or what the function ended with

vars == <<value, i, certs, acert, outcome>>

\* load_pem_x509_certificate: one BEGIN line, base64 lines, one END line.
Loadable(b) ==
    /\ Len(b) >= 3
    /\ b[1] = "begin" /\ b[Len(b)] = "end"
    /\ \A k \in 2..Len(b) - 1 : b[k] = "text"

Init ==
    /\ value \in SeqOf(Kinds, MaxLines)
    /\ i = 1
    /\ certs = <<>>
    /\ acert = <<>>
    /\ outcome = IF value = <<>> THEN "skipped" ELSE "running"

\* Mutant: every line is collected, inside a segment or not.
CollectAlways(line) == Append(acert, line)

\* Mutant: the a_cert test is dropped; only BEGIN lines are collected.
CollectBeginOnly(line) == IF line = "begin" THEN Append(acert, line) ELSE acert

\* Line 99: a line is collected from a BEGIN line up to the END line.
Collect(line) == IF line = "begin" \/ acert # <<>> THEN Append(acert, line) ELSE acert

\* Lines 98-104, one iteration: collect the line; at an END line load the
\* segment, keep it and start afresh, or raise ValueError (line 110).
Step ==
    /\ outcome = "running" /\ i <= Len(value)
    /\ LET line == value[i]
           seg == Collect(line)
       IN IF line = "end"
          THEN IF Loadable(seg)
               THEN certs' = Append(certs, seg) /\ acert' = <<>> /\ outcome' = outcome
               ELSE outcome' = "invalid" /\ UNCHANGED <<certs, acert>>
          ELSE acert' = seg /\ UNCHANGED <<certs, outcome>>
    /\ i' = i + 1
    /\ UNCHANGED value

\* Lines 105-109: after the last line, no segment is an error, otherwise
\* the segments are returned.
Finish ==
    /\ outcome = "running" /\ i > Len(value)
    /\ outcome' = IF certs = <<>> THEN "none" ELSE "ok"
    /\ UNCHANGED <<value, i, certs, acert>>

\* The function has returned or raised.
Returned ==
    /\ outcome # "running"
    /\ UNCHANGED vars

Next == Step \/ Finish \/ Returned

Spec == Init /\ [][Next]_vars /\ WF_vars(Step \/ Finish)

-----------------------------------------------------------------------------
(* The reference: what the text's certificates are.                       *)

\* A certificate of v: a BEGIN line at s, an END line at e, and base64
\* lines only, at least one, in between.
IsCertAt(v, s, e) ==
    /\ 1 <= s /\ s + 1 < e /\ e <= Len(v)
    /\ v[s] = "begin" /\ v[e] = "end"
    /\ \A k \in s + 1..e - 1 : v[k] = "text"

CertStarts(v) == {s \in 1..Len(v) : \E e \in 1..Len(v) : IsCertAt(v, s, e)}

CertEnd(v, s) == CHOOSE e \in 1..Len(v) : IsCertAt(v, s, e)

\* The starts of S with n - 1 starts of S below them: the n-th one alone.
AtRank(S, n) == {s \in S : Cardinality({t \in S : t < s}) = n - 1}

\* The n-th of a set S of starts, counted from the first.
NthStart(S, n) == CHOOSE s \in AtRank(S, n) : TRUE

\* The certificates of v that start in S, in the order they appear.
CertsFrom(v, S) ==
    [n \in 1..Cardinality(S) |-> SubSeq(v, NthStart(S, n), CertEnd(v, NthStart(S, n)))]

\* The certificates of v, in the order they appear.
CertsOf(v) == CertsFrom(v, CertStarts(v))

\* Every marker line of v belongs to a certificate.
WellFormed(v) ==
    \A k \in 1..Len(v) : v[k] # "text" =>
        \E s \in CertStarts(v) : s <= k /\ k <= CertEnd(v, s)

-----------------------------------------------------------------------------
(* Properties                                                              *)

Outcomes == {"running", "skipped", "ok", "none", "invalid"}

\* The segment being collected always starts at a BEGIN line.
TypeOK ==
    /\ value \in SeqOf(Kinds, MaxLines)
    /\ i \in 1..Len(value) + 1
    /\ certs \in Seq(Seq(Kinds)) /\ acert \in Seq(Kinds)
    /\ acert # <<>> => acert[1] = "begin"
    /\ outcome \in Outcomes

\* validate_certificate's docstring: it returns just the certificates, all
\* of them, in order; it rejects a value only when the value holds a
\* broken certificate, and reports none only when there is none.
ReturnsExactlyTheCertificates ==
    /\ outcome = "ok" => certs = CertsOf(value)
    /\ outcome = "invalid" => ~WellFormed(value)
    /\ outcome = "none" => CertsOf(value) = <<>>

\* The docstring: ValidationError "when the provided value has no or an
\* invalid certificate": a value with a broken certificate is not accepted.
RejectsBrokenCertificate ==
    outcome = "ok" => WellFormed(value)

=============================================================================
