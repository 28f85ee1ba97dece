-------------------- MODULE CertificateValidationProofs --------------------
(***************************************************************************)
(* Proofs about validate_certificate's line loop, for values of any        *)
(* length: it returns exactly the certificates of the value, and rejects a *)
(* value only when it holds a broken certificate.                          *)
(***************************************************************************)
EXTENDS CertificateValidation, FiniteSetTheorems, SequenceTheorems, TLAPS

-----------------------------------------------------------------------------
(* Lemmas about the reference.                                            *)

\* A certificate ends at the first END line after its BEGIN line.
LEMMA CertEndUnique ==
    ASSUME NEW v, NEW s \in Nat, NEW e1 \in Nat, NEW e2 \in Nat,
           IsCertAt(v, s, e1), IsCertAt(v, s, e2)
    PROVE  e1 = e2
  <1>1. ~(e1 < e2)
    BY DEF IsCertAt
  <1>2. ~(e2 < e1)
    BY DEF IsCertAt
  <1>. QED
    BY <1>1, <1>2

\* CertEnd names that END line.
LEMMA CertEndIs ==
    ASSUME NEW v, NEW s \in Nat, NEW e \in Nat, IsCertAt(v, s, e)
    PROVE  CertEnd(v, s) = e
  <1>1. e \in 1..Len(v)
    BY DEF IsCertAt
  <1>2. IsCertAt(v, s, CertEnd(v, s)) /\ CertEnd(v, s) \in 1..Len(v)
    BY <1>1 DEF CertEnd
  <1>. QED
    BY <1>1, <1>2, CertEndUnique

\* No starts, no certificates.
LEMMA CertsFromEmpty ==
    ASSUME NEW v
    PROVE  CertsFrom(v, {}) = <<>>
  <1>1. Cardinality({}) = 0
    BY FS_EmptySet
  <1>. QED
    BY <1>1 DEF CertsFrom

\* A start above all the others adds its certificate at the end.
LEMMA CertsFromAppend ==
    ASSUME NEW v, NEW S \in SUBSET Nat, IsFiniteSet(S), NEW j \in Nat,
           \A s \in S : s < j
    PROVE  LET m == Cardinality(S)
           IN  /\ m \in Nat
               /\ CertsFrom(v, S) = [n \in 1..m |-> CertsFrom(v, S)[n]]
               /\ CertsFrom(v, S \cup {j}) = [n \in 1..m + 1 |-> CertsFrom(v, S \cup {j})[n]]
               /\ \A n \in 1..m : CertsFrom(v, S \cup {j})[n] = CertsFrom(v, S)[n]
               /\ CertsFrom(v, S \cup {j})[m + 1] = SubSeq(v, j, CertEnd(v, j))
  <1>1. /\ Cardinality(S) \in Nat
        /\ IsFiniteSet(S \cup {j})
        /\ Cardinality(S \cup {j}) = Cardinality(S) + 1
    <2>1. j \notin S
      OBVIOUS
    <2>. QED
      BY <2>1, FS_CardinalityType, FS_AddElement
  <1>2. ASSUME NEW s \in S PROVE {t \in S \cup {j} : t < s} = {t \in S : t < s}
    OBVIOUS
  <1>3. ASSUME NEW s \in S PROVE Cardinality({t \in S : t < s}) < Cardinality(S)
    <2>1. {t \in S : t < s} \in SUBSET S /\ {t \in S : t < s} # S
      OBVIOUS
    <2>2. Cardinality({t \in S : t < s}) <= Cardinality(S)
          /\ Cardinality({t \in S : t < s}) # Cardinality(S)
      BY <2>1, FS_Subset, Zenon
    <2>3. Cardinality({t \in S : t < s}) \in Nat
      BY <2>1, FS_Subset, FS_CardinalityType
    <2>. QED
      BY <1>1, <2>2, <2>3
  <1>4. {t \in S \cup {j} : t < j} = S
    <2>1. ASSUME NEW t \in S PROVE t < j
      OBVIOUS
    <2>2. ~(j < j)
      OBVIOUS
    <2>. QED
      BY <2>1, <2>2
  <1>5. ASSUME NEW n \in 1..Cardinality(S)
        PROVE  AtRank(S \cup {j}, n) = AtRank(S, n)
    <2>1. ASSUME NEW s \in S
          PROVE  Cardinality({t \in S \cup {j} : t < s}) = n - 1
                 <=> Cardinality({t \in S : t < s}) = n - 1
      BY <1>2
    <2>2. Cardinality({t \in S \cup {j} : t < j}) # n - 1
      BY <1>1, <1>4
    <2>. QED
      BY <2>1, <2>2 DEF AtRank
  <1>6. AtRank(S \cup {j}, Cardinality(S) + 1) = {j}
    <2>1. ASSUME NEW s \in S PROVE Cardinality({t \in S \cup {j} : t < s}) # Cardinality(S)
      <3>1. Cardinality({t \in S \cup {j} : t < s}) = Cardinality({t \in S : t < s})
        BY <1>2, Zenon
      <3>2. Cardinality({t \in S : t < s}) < Cardinality(S)
        BY <1>3
      <3>3. Cardinality({t \in S : t < s}) \in Nat
        BY FS_Subset, FS_CardinalityType
      <3>. QED
        BY <3>1, <3>2, <3>3, <1>1
    <2>2. Cardinality({t \in S \cup {j} : t < j}) = Cardinality(S)
      BY <1>4
    <2>3. (Cardinality(S) + 1) - 1 = Cardinality(S)
      BY <1>1
    <2>4. ASSUME NEW x PROVE x \in AtRank(S \cup {j}, Cardinality(S) + 1) <=> x = j
      BY <2>1, <2>2, <2>3, Zenon DEF AtRank
    <2>. QED
      BY <2>4
  <1>7. ASSUME NEW n \in 1..Cardinality(S) PROVE NthStart(S \cup {j}, n) = NthStart(S, n)
    BY <1>5 DEF NthStart
  <1>8. NthStart(S \cup {j}, Cardinality(S) + 1) = j
    BY <1>6 DEF NthStart
  <1>9. CertsFrom(v, S) = [n \in 1..Cardinality(S) |-> CertsFrom(v, S)[n]]
    BY DEF CertsFrom
  <1>10. CertsFrom(v, S \cup {j})
           = [n \in 1..Cardinality(S) + 1 |-> CertsFrom(v, S \cup {j})[n]]
    BY <1>1 DEF CertsFrom
  <1>11. ASSUME NEW n \in 1..Cardinality(S)
         PROVE  CertsFrom(v, S \cup {j})[n] = CertsFrom(v, S)[n]
    <2>1. n \in 1..Cardinality(S \cup {j})
      BY <1>1
    <2>. QED
      BY <2>1, <1>7 DEF CertsFrom
  <1>12. CertsFrom(v, S \cup {j})[Cardinality(S) + 1] = SubSeq(v, j, CertEnd(v, j))
    <2>1. Cardinality(S) + 1 \in 1..Cardinality(S \cup {j})
      BY <1>1
    <2>. QED
      BY <2>1, <1>8 DEF CertsFrom
  <1>. QED
    BY <1>1, <1>9, <1>10, <1>11, <1>12

-----------------------------------------------------------------------------
(* Type correctness.                                                       *)

\* A value of at most MaxLines lines is a sequence of line kinds.
LEMMA SeqOfKinds ==
    ASSUME NEW v \in SeqOf(Kinds, MaxLines)
    PROVE  v \in Seq(Kinds)
  <1>1. PICK m \in 0..MaxLines : v \in [1..m -> Kinds]
    BY DEF SeqOf
  <1>. QED
    BY <1>1, LinesAssumption

\* Collecting a line keeps the segment a sequence of kinds that starts at
\* a BEGIN line.
LEMMA CollectType ==
    ASSUME NEW line \in Kinds, acert \in Seq(Kinds),
           acert # <<>> => acert[1] = "begin"
    PROVE  /\ Collect(line) \in Seq(Kinds)
           /\ Collect(line) # <<>> => Collect(line)[1] = "begin"
  BY DEF Collect

\* The initial states are well typed.
LEMMA TypeInitial == Init => TypeOK
  <1> SUFFICES ASSUME Init PROVE TypeOK
    OBVIOUS
  <1>1. value \in Seq(Kinds)
    BY SeqOfKinds DEF Init
  <1>. QED
    BY <1>1 DEF Init, TypeOK, Outcomes

\* Every step keeps the state well typed.
LEMMA TypeStep == TypeOK /\ [Next]_vars => TypeOK'
  <1> SUFFICES ASSUME TypeOK, [Next]_vars PROVE TypeOK'
    OBVIOUS
  <1>1. value \in Seq(Kinds)
    BY SeqOfKinds DEF TypeOK
  <1>2. CASE Step
    <2>1. i \in 1..Len(value) /\ value[i] \in Kinds
      BY <1>1, <1>2 DEF Step, TypeOK
    <2>2. /\ Collect(value[i]) \in Seq(Kinds)
          /\ Collect(value[i]) # <<>> => Collect(value[i])[1] = "begin"
      BY <2>1, CollectType DEF TypeOK
    <2>3. value' = value /\ i' \in 1..Len(value') + 1
      BY <1>2, <2>1 DEF Step
    <2>4. CASE value[i] = "end" /\ Loadable(Collect(value[i]))
      <3>1. certs' = Append(certs, Collect(value[i])) /\ acert' = <<>> /\ outcome' = outcome
        BY <1>2, <2>4 DEF Step
      <3>. QED
        BY <2>2, <2>3, <3>1 DEF TypeOK
    <2>5. CASE value[i] = "end" /\ ~Loadable(Collect(value[i]))
      <3>1. outcome' = "invalid" /\ certs' = certs /\ acert' = acert
        BY <1>2, <2>5 DEF Step
      <3>. QED
        BY <2>3, <3>1 DEF TypeOK, Outcomes
    <2>6. CASE value[i] # "end"
      <3>1. acert' = Collect(value[i]) /\ certs' = certs /\ outcome' = outcome
        BY <1>2, <2>6 DEF Step
      <3>. QED
        BY <2>2, <2>3, <3>1 DEF TypeOK
    <2>. QED
      BY <2>4, <2>5, <2>6
  <1>3. CASE Finish
    BY <1>3 DEF Finish, TypeOK, Outcomes
  <1>4. CASE Returned \/ UNCHANGED vars
    BY <1>4 DEF Returned, TypeOK, vars
  <1>. QED
    BY <1>2, <1>3, <1>4 DEF Next

\* validate_certificate's state is always well typed, and the segment it
\* collects always starts at a BEGIN line.
THEOREM TypeCorrect == Spec => []TypeOK
  BY TypeInitial, TypeStep, PTL DEF Spec

-----------------------------------------------------------------------------
(* The loop's invariant.                                                   *)

\* The line where the segment being collected opens (i itself when none).
Open == i - Len(acert)

\* The certificates that start before the open segment.
Below == {s \in CertStarts(value) : s < Open}

\* Every BEGIN line before line n is closed by an END line before n.
Closed(n) ==
    \A s \in 1..n - 1 : value[s] = "begin" => \E e \in s + 1..n - 1 : value[e] = "end"

\* While the loop runs, a_cert holds the lines from Open to i - 1 and none
\* of them after the first is an END line; everything opened before Open
\* was closed, and certs holds the certificates that start before Open.
CertInv ==
    /\ TypeOK
    /\ outcome = "running" =>
         /\ Open \in 1..i
         /\ \A k \in 1..Len(acert) : acert[k] = value[Open + k - 1]
         /\ \A k \in Open + 1..i - 1 : value[k] # "end"
         /\ Closed(Open)
         /\ certs = CertsFrom(value, Below)
    /\ ReturnsExactlyTheCertificates

\* The start of a certificate and its end.
LEMMA StartFacts ==
    ASSUME NEW v \in Seq(Kinds), NEW s \in CertStarts(v)
    PROVE  /\ s \in 1..Len(v)
           /\ CertEnd(v, s) \in 1..Len(v)
           /\ IsCertAt(v, s, CertEnd(v, s))
  BY DEF CertStarts, CertEnd

\* What a step of the loop starts from.
LEMMA StepBasics ==
    ASSUME CertInv, Step
    PROVE  /\ value \in Seq(Kinds) /\ i \in 1..Len(value) /\ value[i] \in Kinds
           /\ acert \in Seq(Kinds) /\ certs \in Seq(Seq(Kinds))
           /\ acert # <<>> => acert[1] = "begin"
           /\ outcome = "running" /\ value' = value /\ i' = i + 1
           /\ Open \in 1..i
           /\ \A k \in 1..Len(acert) : acert[k] = value[Open + k - 1]
           /\ \A k \in Open + 1..i - 1 : value[k] # "end"
           /\ Closed(Open)
           /\ certs = CertsFrom(value, Below)
           /\ TypeOK'
  <1>1. TypeOK
    BY DEF CertInv
  <1>2. TypeOK'
    BY <1>1, TypeStep DEF Next
  <1>3. value \in Seq(Kinds)
    BY <1>1, SeqOfKinds DEF TypeOK
  <1>. QED
    BY <1>1, <1>2, <1>3 DEF CertInv, Step, TypeOK

\* The segment closed by the END line at i loads exactly when a
\* certificate runs from Open to i.
LEMMA LoadableIff ==
    ASSUME NEW v \in Seq(Kinds), NEW a \in Seq(Kinds), NEW j \in 1..Len(v),
           a # <<>>, v[j] = "end",
           NEW o \in 1..j, o = j - Len(a),
           \A k \in 1..Len(a) : a[k] = v[o + k - 1]
    PROVE  Loadable(Append(a, "end")) <=> IsCertAt(v, o, j)
  <1>1. Len(Append(a, "end")) = j - o + 1
    OBVIOUS
  <1>2. Append(a, "end")[1] = v[o] /\ Append(a, "end")[j - o + 1] = "end"
    OBVIOUS
  <1>3. \A k \in 2..j - o : Append(a, "end")[k] = v[o + k - 1]
    OBVIOUS
  <1>4. (\A k \in 2..j - o : Append(a, "end")[k] = "text")
        <=> \A k \in o + 1..j - 1 : v[k] = "text"
    <2>1. ASSUME \A k \in 2..j - o : Append(a, "end")[k] = "text",
                 NEW k \in o + 1..j - 1
          PROVE  v[k] = "text"
      <3>1. k - o + 1 \in 2..j - o /\ o + (k - o + 1) - 1 = k
        OBVIOUS
      <3>. QED
        BY <2>1, <3>1, <1>3
    <2>2. ASSUME \A k \in o + 1..j - 1 : v[k] = "text",
                 NEW k \in 2..j - o
          PROVE  Append(a, "end")[k] = "text"
      BY <2>2, <1>3
    <2>. QED
      BY <2>1, <2>2
  <1>. QED
    BY <1>1, <1>2, <1>4 DEF Loadable, IsCertAt

\* A line other than END: it is collected or skipped, and the loop goes on.
LEMMA StepTextInv ==
    ASSUME CertInv, Step, value[i] # "end"
    PROVE  CertInv'
  <1>1. /\ value \in Seq(Kinds) /\ i \in 1..Len(value) /\ value[i] \in Kinds
        /\ acert \in Seq(Kinds)
        /\ outcome = "running" /\ value' = value /\ i' = i + 1
        /\ Open \in 1..i
        /\ \A k \in 1..Len(acert) : acert[k] = value[Open + k - 1]
        /\ \A k \in Open + 1..i - 1 : value[k] # "end"
        /\ Closed(Open)
        /\ certs = CertsFrom(value, Below)
        /\ TypeOK'
    BY StepBasics
  <1>2. acert' = Collect(value[i]) /\ certs' = certs /\ outcome' = "running"
    BY <1>1 DEF Step
  <1>3. ReturnsExactlyTheCertificates'
    BY <1>2 DEF ReturnsExactlyTheCertificates
  \* Where the segment opens after the step, and what it then holds.
  <1>4. CASE acert # <<>> \/ value[i] = "begin"
    <2>1. acert' = Append(acert, value[i])
      BY <1>2, <1>4 DEF Collect
    <2>2. Open' = Open
      BY <1>1, <2>1 DEF Open
    <2>3. Open' \in 1..i'
      BY <1>1, <2>2
    <2>4. \A k \in 1..Len(acert') : acert'[k] = value'[Open' + k - 1]
      <3>1. acert = <<>> => Open = i
        BY <1>1 DEF Open
      <3>. QED
        BY <1>1, <2>1, <2>2, <3>1 DEF Open
    <2>5. \A k \in Open' + 1..i' - 1 : value'[k] # "end"
      BY <1>1, <2>2
    <2>6. Closed(Open)'
      BY <1>1, <2>2 DEF Closed
    <2>7. Below' = Below
      BY <1>1, <2>2 DEF Below
    <2>8. certs' = CertsFrom(value', Below')
      BY <1>1, <1>2, <2>7
    <2>. QED
      BY <1>1, <1>3, <2>3, <2>4, <2>5, <2>6, <2>8 DEF CertInv
  <1>5. CASE acert = <<>> /\ value[i] # "begin"
    <2>1. value[i] = "text"
      BY <1>1, <1>5 DEF Kinds
    <2>2. acert' = <<>>
      BY <1>2, <1>5 DEF Collect
    <2>3. Open = i /\ Open' = i + 1
      BY <1>1, <1>5, <2>2 DEF Open
    <2>4. Closed(Open)'
      <3>1. ASSUME NEW s \in 1..i, value[s] = "begin"
            PROVE  \E e \in s + 1..i : value[e] = "end"
        <4>1. s # i
          BY <2>1, <3>1
        <4>2. s \in 1..Open - 1
          BY <1>1, <2>3, <4>1
        <4>. QED
          BY <1>1, <2>3, <3>1, <4>2 DEF Closed
      <3>. QED
        BY <1>1, <2>3, <3>1 DEF Closed
    <2>5. i \notin CertStarts(value)
      BY <2>1 DEF CertStarts, IsCertAt
    <2>6. Below' = Below
      <3>1. \A s \in CertStarts(value) : s \in Nat
        BY <1>1, StartFacts
      <3>. QED
        BY <1>1, <2>3, <2>5, <3>1 DEF Below
    <2>7. certs' = CertsFrom(value', Below')
      BY <1>1, <1>2, <2>6
    <2>. QED
      BY <1>1, <1>3, <2>2, <2>3, <2>4, <2>7 DEF CertInv
  <1>. QED
    BY <1>4, <1>5

\* An END line that closes a loadable segment: the certificate from Open to
\* i is appended, and the next segment opens after i.
LEMMA StepLoadInv ==
    ASSUME CertInv, Step, value[i] = "end", Loadable(Collect(value[i]))
    PROVE  CertInv'
  <1>1. /\ value \in Seq(Kinds) /\ i \in 1..Len(value) /\ value[i] \in Kinds
        /\ acert \in Seq(Kinds) /\ certs \in Seq(Seq(Kinds))
        /\ outcome = "running" /\ value' = value /\ i' = i + 1
        /\ Open \in 1..i
        /\ \A k \in 1..Len(acert) : acert[k] = value[Open + k - 1]
        /\ \A k \in Open + 1..i - 1 : value[k] # "end"
        /\ Closed(Open)
        /\ certs = CertsFrom(value, Below)
        /\ TypeOK'
    BY StepBasics
  <1>2. acert # <<>>
    <2>1. acert = <<>> => Collect(value[i]) = <<>>
      BY DEF Collect
    <2>. QED
      BY <2>1 DEF Loadable
  <1>3. Collect(value[i]) = Append(acert, "end")
    BY <1>2 DEF Collect
  <1>4. /\ certs' = Append(certs, Append(acert, "end"))
        /\ acert' = <<>> /\ outcome' = "running"
    BY <1>1, <1>3 DEF Step
  <1>5. IsCertAt(value, Open, i)
    BY <1>1, <1>2, <1>3, LoadableIff DEF Open
  <1>6. Open \in CertStarts(value) /\ CertEnd(value, Open) = i
    BY <1>1, <1>5, CertEndIs DEF CertStarts
  <1>7. Append(acert, "end") = SubSeq(value, Open, CertEnd(value, Open))
    <2>1. Len(acert) = i - Open /\ Open \in Nat
      BY <1>1 DEF Open
    <2>2. /\ Append(acert, "end") \in Seq(Kinds)
          /\ Len(Append(acert, "end")) = Len(acert) + 1
          /\ \A k \in 1..Len(acert) : Append(acert, "end")[k] = acert[k]
          /\ Append(acert, "end")[Len(acert) + 1] = "end"
      BY <1>1, AppendProperties DEF Kinds
    <2>3. /\ SubSeq(value, Open, i) \in Seq(Kinds)
          /\ Len(SubSeq(value, Open, i)) = i - Open + 1
          /\ \A k \in 1..i - Open + 1 : SubSeq(value, Open, i)[k] = value[Open + k - 1]
      <3>1. \A k \in Open..i : value[k] \in Kinds
        BY <1>1
      <3>. QED
        BY <1>1, <2>1, <3>1, SubSeqProperties
    <2>4. \A k \in 1..Len(Append(acert, "end")) :
            Append(acert, "end")[k] = SubSeq(value, Open, i)[k]
      <3>1. ASSUME NEW k \in 1..Len(acert)
            PROVE  Append(acert, "end")[k] = SubSeq(value, Open, i)[k]
        BY <1>1, <2>1, <2>2, <2>3
      <3>2. Append(acert, "end")[Len(acert) + 1] = SubSeq(value, Open, i)[Len(acert) + 1]
        BY <1>1, <2>1, <2>2, <2>3
      <3>3. \A k \in 1..Len(Append(acert, "end")) : k \in 1..Len(acert) \/ k = Len(acert) + 1
        BY <1>1, <2>2
      <3>. QED
        BY <3>1, <3>2, <3>3, Zenon
    <2>. QED
      BY <1>6, <2>2, <2>3, <2>4, <2>1, SeqEqual
  <1>8. Open' = i + 1
    BY <1>1, <1>4 DEF Open
  \* The starts below i + 1 are those below Open, and Open.
  <1>9. Below' = Below \cup {Open}
    <2>1. ASSUME NEW s \in CertStarts(value), Open < s, s < i + 1 PROVE FALSE
      <3>1. s \in Nat /\ value[s] = "begin"
        BY <1>1, StartFacts DEF IsCertAt
      <3>2. CASE s < i
        BY <1>1, <1>5, <2>1, <3>1, <3>2 DEF IsCertAt
      <3>3. CASE s = i
        BY <1>1, <3>1, <3>3
      <3>. QED
        BY <1>1, <2>1, <3>1, <3>2, <3>3
    <2>2. \A s \in CertStarts(value) : s \in Nat
      BY <1>1, StartFacts
    <2>3. Below' = {s \in CertStarts(value) : s < i + 1}
      BY <1>1, <1>8 DEF Below
    <2>4. ASSUME NEW s \in CertStarts(value)
          PROVE  s < i + 1 <=> s < Open \/ s = Open
      BY <1>1, <2>1, <2>2
    <2>. QED
      BY <1>6, <2>3, <2>4, Zenon DEF Below
  <1>10. certs' = CertsFrom(value', Below')
    <2>1. Below \subseteq 1..Len(value)
      BY <1>1, StartFacts DEF Below
    <2>2. IsFiniteSet(Below) /\ Below \in SUBSET Nat
      <3>1. IsFiniteSet(1..Len(value))
        BY FS_Interval
      <3>2. Len(value) \in Nat
        BY <1>1
      <3>. QED
        <4>1. IsFiniteSet(Below)
          BY <2>1, <3>1, FS_Subset
        <4>. QED
          BY <2>1, <3>2, <4>1
    <2>3. \A s \in Below : s < Open
      BY DEF Below
    <2>4. Open \in Nat
      BY <1>1
    <2>. DEFINE m == Cardinality(Below)
                c == CertsFrom(value, Below \cup {Open})
    <2>5. /\ m \in Nat
          /\ CertsFrom(value, Below) = [n \in 1..m |-> CertsFrom(value, Below)[n]]
          /\ c = [n \in 1..m + 1 |-> c[n]]
          /\ \A n \in 1..m : c[n] = CertsFrom(value, Below)[n]
          /\ c[m + 1] = SubSeq(value, Open, CertEnd(value, Open))
      BY <2>2, <2>3, <2>4, CertsFromAppend DEF m, c
    <2>6. Len(certs) = m
      BY <1>1, <2>5 DEF m
    <2>7. Append(certs, Append(acert, "end"))
            = [n \in 1..m + 1 |-> IF n <= m THEN certs[n] ELSE Append(acert, "end")]
      BY <1>1, <2>5, <2>6
    <2>8. \A n \in 1..m + 1 :
            c[n] = IF n <= m THEN certs[n] ELSE Append(acert, "end")
      <3>1. certs = CertsFrom(value, Below)
        BY <1>1
      <3>2. ASSUME NEW n \in 1..m + 1, n <= m PROVE c[n] = certs[n]
        <4>1. n \in 1..m
          BY <2>5, <3>2
        <4>. QED
          BY <2>5, <3>1, <4>1
      <3>3. ASSUME NEW n \in 1..m + 1, ~(n <= m) PROVE c[n] = Append(acert, "end")
        <4>1. n = m + 1
          BY <2>5, <3>3
        <4>. QED
          BY <1>7, <2>5, <4>1
      <3>. QED
        BY <3>2, <3>3
    <2>9. certs' = c
      BY <1>4, <2>5, <2>7, <2>8
    <2>. QED
      BY <1>1, <1>9, <2>9 DEF c
  <1>11. Closed(Open)'
    <2>1. ASSUME NEW s \in 1..i, value[s] = "begin"
          PROVE  \E e \in s + 1..i : value[e] = "end"
      <3>1. CASE s < Open
        BY <1>1, <2>1, <3>1 DEF Closed
      <3>2. CASE s = Open
        BY <1>1, <1>5, <3>2 DEF IsCertAt
      <3>3. CASE Open < s /\ s < i
        BY <1>1, <1>5, <2>1, <3>3 DEF IsCertAt
      <3>4. CASE s = i
        BY <1>1, <2>1, <3>4
      <3>. QED
        BY <1>1, <3>1, <3>2, <3>3, <3>4
    <2>. QED
      BY <1>1, <1>8, <2>1 DEF Closed
  <1>12. ReturnsExactlyTheCertificates'
    BY <1>4 DEF ReturnsExactlyTheCertificates
  <1>. QED
    BY <1>1, <1>4, <1>8, <1>10, <1>11, <1>12 DEF CertInv

\* An END line that closes no loadable segment: the value is rejected, and
\* it does hold a marker line that no certificate covers.
LEMMA StepRejectInv ==
    ASSUME CertInv, Step, value[i] = "end", ~Loadable(Collect(value[i]))
    PROVE  CertInv'
  <1>1. /\ value \in Seq(Kinds) /\ i \in 1..Len(value) /\ value[i] \in Kinds
        /\ acert \in Seq(Kinds)
        /\ acert # <<>> => acert[1] = "begin"
        /\ outcome = "running" /\ value' = value /\ i' = i + 1
        /\ Open \in 1..i
        /\ \A k \in 1..Len(acert) : acert[k] = value[Open + k - 1]
        /\ \A k \in Open + 1..i - 1 : value[k] # "end"
        /\ Closed(Open)
        /\ TypeOK'
    BY StepBasics
  <1>2. outcome' = "invalid" /\ value' = value
    BY <1>1 DEF Step
  \* A BEGIN line before Open is closed before Open, so no certificate
  \* that starts there reaches Open.
  <1>3. ASSUME NEW s \in CertStarts(value), s < Open, Open <= CertEnd(value, s)
        PROVE  FALSE
    <2>1. s \in 1..Len(value) /\ CertEnd(value, s) \in 1..Len(value)
          /\ IsCertAt(value, s, CertEnd(value, s))
      BY <1>1, StartFacts
    <2>2. PICK e \in s + 1..Open - 1 : value[e] = "end"
      BY <1>1, <1>3, <2>1 DEF Closed, IsCertAt
    <2>. QED
      BY <1>1, <1>3, <2>1, <2>2 DEF IsCertAt
  <1>4. ~WellFormed(value)
    <2>1. CASE acert = <<>>
      <3>1. Open = i
        BY <1>1, <2>1 DEF Open
      <3>2. ASSUME NEW s \in CertStarts(value), s <= i, i <= CertEnd(value, s)
            PROVE  FALSE
        <4>1. s \in 1..Len(value) /\ IsCertAt(value, s, CertEnd(value, s))
          BY <1>1, StartFacts
        <4>2. s # i
          BY <4>1 DEF IsCertAt
        <4>. QED
          BY <1>1, <1>3, <3>1, <3>2, <4>1, <4>2
      <3>. QED
        BY <1>1, <3>2 DEF WellFormed
    <2>2. CASE acert # <<>>
      <3>1. Open < i /\ value[Open] = "begin" /\ Open \in 1..Len(value)
        BY <1>1, <2>2 DEF Open
      <3>2. ~IsCertAt(value, Open, i)
        <4>1. Collect(value[i]) = Append(acert, "end")
          BY <2>2 DEF Collect
        <4>. QED
          BY <1>1, <2>2, <4>1, LoadableIff DEF Open
      <3>3. ASSUME NEW s \in CertStarts(value), s <= Open, Open <= CertEnd(value, s)
            PROVE  FALSE
        <4>1. s \in 1..Len(value) /\ CertEnd(value, s) \in 1..Len(value)
              /\ IsCertAt(value, s, CertEnd(value, s))
          BY <1>1, StartFacts
        <4>2. CASE s < Open
          BY <1>3, <3>3, <4>2
        <4>3. CASE s = Open
          <5>1. CASE CertEnd(value, s) < i
            BY <1>1, <3>1, <4>1, <4>3, <5>1 DEF IsCertAt
          <5>2. CASE i < CertEnd(value, s)
            BY <1>1, <3>1, <4>1, <4>3, <5>2 DEF IsCertAt
          <5>3. CASE CertEnd(value, s) = i
            BY <3>2, <4>1, <4>3, <5>3
          <5>. QED
            BY <1>1, <4>1, <5>1, <5>2, <5>3
        <4>. QED
          BY <1>1, <3>3, <4>1, <4>2, <4>3
      <3>. QED
        BY <3>1, <3>3 DEF WellFormed
    <2>. QED
      BY <2>1, <2>2
  <1>5. ReturnsExactlyTheCertificates'
    BY <1>2, <1>4 DEF ReturnsExactlyTheCertificates
  <1>. QED
    BY <1>1, <1>2, <1>5 DEF CertInv

\* After the last line every certificate starts before Open, so certs holds
\* them all.
LEMMA FinishInv ==
    ASSUME CertInv, Finish
    PROVE  CertInv'
  <1>1. TypeOK /\ TypeOK'
    BY TypeStep DEF CertInv, Next
  <1>2. /\ value \in Seq(Kinds) /\ i = Len(value) + 1
        /\ outcome = "running"
        /\ Open \in 1..i
        /\ \A k \in Open + 1..i - 1 : value[k] # "end"
        /\ certs = CertsFrom(value, Below)
    BY <1>1, SeqOfKinds DEF CertInv, Finish, TypeOK
  <1>3. CertStarts(value) = Below
    <2>1. ASSUME NEW s \in CertStarts(value), ~(s < Open) PROVE FALSE
      <3>1. s \in 1..Len(value) /\ CertEnd(value, s) \in 1..Len(value)
            /\ IsCertAt(value, s, CertEnd(value, s))
        BY <1>2, StartFacts
      <3>. QED
        BY <1>2, <2>1, <3>1 DEF IsCertAt
    <2>. QED
      BY <2>1 DEF Below
  <1>4. certs = CertsOf(value)
    BY <1>2, <1>3 DEF CertsOf
  <1>5. /\ outcome' = IF certs = <<>> THEN "none" ELSE "ok"
        /\ value' = value /\ certs' = certs
    BY DEF Finish
  <1>6. ReturnsExactlyTheCertificates'
    BY <1>4, <1>5 DEF ReturnsExactlyTheCertificates
  <1>. QED
    BY <1>1, <1>5, <1>6 DEF CertInv

\* The loop starts with nothing collected and nothing below line 1.
LEMMA InitInv == Init => CertInv
  <1> SUFFICES ASSUME Init PROVE CertInv
    OBVIOUS
  <1>1. TypeOK /\ value \in Seq(Kinds)
    BY TypeInitial, SeqOfKinds DEF Init
  <1>2. CASE value = <<>>
    BY <1>1, <1>2 DEF Init, CertInv, ReturnsExactlyTheCertificates
  <1>3. CASE value # <<>>
    <2>1. i = 1 /\ acert = <<>> /\ certs = <<>> /\ outcome = "running"
      BY <1>3 DEF Init
    <2>2. Open = 1
      BY <2>1 DEF Open
    <2>3. Below = {}
      <3>1. \A s \in CertStarts(value) : s \in 1..Len(value)
        BY <1>1, StartFacts
      <3>. QED
        BY <2>2, <3>1 DEF Below
    <2>4. certs = CertsFrom(value, Below)
      BY <2>1, <2>3, CertsFromEmpty
    <2>5. Closed(Open)
      BY <2>2 DEF Closed
    <2>. QED
      BY <1>1, <2>1, <2>2, <2>4, <2>5 DEF CertInv, ReturnsExactlyTheCertificates
  <1>. QED
    BY <1>2, <1>3

\* Every step of the loop keeps the invariant.
LEMMA NextInv == CertInv /\ [Next]_vars => CertInv'
  <1> SUFFICES ASSUME CertInv, [Next]_vars PROVE CertInv'
    OBVIOUS
  <1>1. CASE Step
    <2>1. CASE value[i] # "end"
      BY <1>1, <2>1, StepTextInv
    <2>2. CASE value[i] = "end" /\ Loadable(Collect(value[i]))
      BY <1>1, <2>2, StepLoadInv
    <2>3. CASE value[i] = "end" /\ ~Loadable(Collect(value[i]))
      BY <1>1, <2>3, StepRejectInv
    <2>. QED
      BY <2>1, <2>2, <2>3
  <1>2. CASE Finish
    BY <1>2, FinishInv
  <1>3. CASE Returned \/ UNCHANGED vars
    <2>1. UNCHANGED vars
      BY <1>3 DEF Returned
    <2>. QED
      BY <2>1 DEF vars, CertInv, TypeOK, Open, Below, Closed,
                  ReturnsExactlyTheCertificates, CertsOf, WellFormed
  <1>. QED
    BY <1>1, <1>2, <1>3 DEF Next

\* validate_certificate returns exactly the certificates of the value, in
\* order; it raises ValueError only for a value with a marker line outside
\* every certificate, and reports no certificate only when there is none:
\* for values of every length.
THEOREM ReturnsExactly == Spec => []ReturnsExactlyTheCertificates
  <1>1. CertInv => ReturnsExactlyTheCertificates
    BY DEF CertInv
  <1>. QED
    BY InitInv, NextInv, <1>1, PTL DEF Spec

====
