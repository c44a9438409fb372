------------------------- MODULE QueryResultsProofs -------------------------
(***************************************************************************)
(* What a contract learns of a query, for chains of contracts of every     *)
(* length and for every set of data and messages: FailuresArrive,          *)
(* AnswersArriveUnchanged and SystemErrorsArrive.                          *)
(*                                                                         *)
(* The properties speak of the moment when a contract has its answer.  The *)
(* invariant IInv says of every form the answer has before - document,     *)
(* pair of data and error, QuerierResult - that what the contract will     *)
(* make of it is right.  The first lemmas compute that for each border on  *)
(* its own; they are where ToQuerierResult, the two MarshalJSON and the    *)
(* reading of the result on the Rust side have to fit together.            *)
(***************************************************************************)
EXTENDS QueryResults, TLAPS

\* The steps are first-order: Zenon is the backend, and the leaves that reason
\* about numbers or sequences cite SMT.
USE Zenon

\* What query_raw makes of a result of RustQuery.
Outcome(r) == IF r = Panic THEN Aborted ELSE from_slice(QuerierResult_MarshalJSON(r))

\* What the contract learns of an answer of the application.
LearntOf(response, err) == Outcome(ToQuerierResult(response, err))

\* Data and nil come back as data.
LEMMA DataComesBack ==
  ASSUME NEW d \in Data \cup {Nil, Empty}
  PROVE  LearntOf(d, NoError) = SeesData(IF d = Nil THEN Empty ELSE d)
  <1> USE QueryResultsAssumption DEF QueryResultsAssumption
  <1> DEFINE q == [Ok |-> d, Err |-> Empty]
             r == [Ok |-> q, Err |-> Nil]
  <1>1. ToQuerierResult(d, NoError) = r
    BY DEF ToQuerierResult, NoError
  <1>2. q # Nil
    BY NilAssumption, SMT DEF NilAssumption
  <1>3. QueryResult_MarshalJSON(q) = [ok |-> IF d = Nil THEN Empty ELSE d, error |-> Absent]
    BY DEF QueryResult_MarshalJSON, omitempty
  <1>4. QuerierResult_MarshalJSON(r)
          = [ok |-> [ok |-> IF d = Nil THEN Empty ELSE d, error |-> Absent], error |-> Absent]
    BY <1>2, <1>3 DEF QuerierResult_MarshalJSON
  <1>5. r # Panic
    BY DEF Panic
  <1>6. from_slice(QuerierResult_MarshalJSON(r)) = SeesData(IF d = Nil THEN Empty ELSE d)
    BY <1>4, SMT DEF from_slice
  <1> QED
    BY <1>1, <1>5, <1>6 DEF LearntOf, Outcome

\* A message comes back as a message, an empty one as empty data.
LEMMA TextComesBack ==
  ASSUME NEW t \in Texts \cup {Empty}, NEW err, err = [type |-> "other", text |-> t]
  PROVE  LearntOf(Nil, err) = IF t = Empty THEN SeesData(Empty) ELSE SeesText(t)
  <1> USE QueryResultsAssumption DEF QueryResultsAssumption
  <1> DEFINE q == [Ok |-> Nil, Err |-> t]
             r == [Ok |-> q, Err |-> Nil]
  <1>1. err # NoError /\ err.type = "other" /\ ToSystemError(err) = Nil
    BY DEF ToSystemError, NoError, isNil
  <1>2. ToQuerierResult(Nil, err) = r
    BY <1>1 DEF ToQuerierResult
  <1>3. q # Nil /\ r # Panic
    BY NilAssumption, SMT DEF NilAssumption, Panic
  <1>4. QuerierResult_MarshalJSON(r) = [ok |-> QueryResult_MarshalJSON(q), error |-> Absent]
    BY <1>3 DEF QuerierResult_MarshalJSON
  <1>5. QueryResult_MarshalJSON(q) = IF t = Empty THEN [ok |-> Empty, error |-> Absent]
                                     ELSE [ok |-> Absent, error |-> t]
    BY DEF QueryResult_MarshalJSON, omitempty
  <1>6. from_slice(QuerierResult_MarshalJSON(r))
          = IF t = Empty THEN SeesData(Empty) ELSE SeesText(t)
    BY <1>4, <1>5, SMT DEF from_slice
  <1> QED
    BY <1>2, <1>3, <1>6 DEF LearntOf, Outcome

\* A nil pointer becomes an abort.
LEMMA NilPointerAborts ==
  ASSUME NEW err, err = [type |-> "nil pointer"]
  PROVE  LearntOf(Nil, err) = Aborted
  <1>1. err # NoError /\ err.type = "nil pointer" /\ ToSystemError(err) = Nil
    BY DEF ToSystemError, NoError, isNil
  <1>2. ToQuerierResult(Nil, err) = Panic
    BY <1>1 DEF ToQuerierResult
  <1> QED
    BY <1>2 DEF LearntOf, Outcome

\* The only variant of a system error.
TheVariant(e) == CHOOSE v \in e.variants : TRUE

\* A system error comes back as a system error, and as itself if it has
\* exactly one variant and all its members.
LEMMA SystemErrorComesBack ==
  ASSUME NEW e \in SystemErrors, NEW r, r = [Ok |-> Nil, Err |-> e]
  PROVE  /\ r # Panic
         /\ \E w \in Variants : Outcome(r) = SeesSystemError(w)
         /\ \A v \in Variants : e.filled /\ e.variants = {v} => Outcome(r) = SeesSystemError(v)
  <1> USE QueryResultsAssumption DEF QueryResultsAssumption
  <1> DEFINE f == SystemError_MarshalJSON(e)
  <1>1. e # Nil /\ e.variants \in SUBSET Variants /\ e.filled \in BOOLEAN
    BY NilAssumption DEF NilAssumption, SystemErrors
  <1>2. r # Panic
    BY DEF Panic
  <1>3. QuerierResult_MarshalJSON(r) = [ok |-> Absent, error |-> f]
    BY <1>1 DEF QuerierResult_MarshalJSON
  <1>4. f \in [e.variants -> SUBSET UNION {members[v] : v \in Variants}]
    BY <1>1 DEF SystemError_MarshalJSON
  <1>5. f # Absent /\ DOMAIN f = e.variants
    BY <1>1, <1>4, NilAssumption DEF NilAssumption
  <1> HIDE DEF f
  <1>6. Outcome(r) = IF \E v \in Variants : DOMAIN f = {v} /\ f[v] = members[v]
                     THEN SeesSystemError(CHOOSE v \in Variants : v \in DOMAIN f)
                     ELSE SeesSystemError("InvalidResponse")
    BY <1>2, <1>3, <1>5, SMT DEF Outcome, from_slice
  <1>7. \A v \in Variants : DOMAIN f = {v} => (CHOOSE w \in Variants : w \in DOMAIN f) = v
    OBVIOUS
  <1>8. "InvalidResponse" \in Variants
    BY DEF Variants, members
  <1>9. ASSUME NEW v \in Variants, e.filled, e.variants = {v} PROVE f[v] = members[v]
    BY <1>9 DEF f, SystemError_MarshalJSON
  <1> QED
    BY <1>2, <1>5, <1>6, <1>7, <1>8, <1>9
-----------------------------------------------------------------------------
(* The invariant.                                                          *)

\* What an answer can have been to begin with.
Origins ==
  [sees : {"data"}, data : Data \cup {Nil, Empty}]
    \cup [sees : {"contract error"}, text : Texts \cup {Empty}]
    \cup [sees : {"system error"}, variant : Variants \cup {"any"}] \cup {Aborted}

\* It is right that a contract learns m of an answer that was o to begin with;
\* next says that the contract is the one next to whoever gave the answer.
Arrives(o, m, next) ==
  /\ m \in Learnt
  /\ o \in Origins
  /\ o.sees = "data" => m = SeesData(IF o.data = Nil THEN Empty ELSE o.data)
  /\ o.sees = "contract error" => IF o.text = Empty THEN m.sees = "data" ELSE m = o
  /\ o.sees = "system error" =>
       /\ m.sees \in {"system error", "contract error"}
       /\ next => m.sees = "system error" /\ (o.variant # "any" => m = o)
  /\ o.sees = "abort" => m.sees \in {"abort", "contract error"}

\* What VM_Query and the way back make of a document.
Reading(doc) ==
  IF doc.error \in {Absent, Empty}
  THEN SeesData(IF doc.ok = Absent THEN Empty ELSE doc.ok)
  ELSE SeesText(doc.error)

\* At every stage, what the contract will learn of the answer is right.
IInv ==
  /\ level \in 1 .. Depth /\ asked \in 1 .. Depth
  /\ stage \in {"contract", "querier", "document", "answer", "result"}
  /\ stage = "contract" => answer = Nil \/ (Arrives(origin, answer, level = asked) /\ level <= asked)
  /\ stage = "querier" => answer = Nil
  /\ stage = "document" =>
       /\ level > 1 /\ level - 1 <= asked
       /\ \/ answer = Malformed /\ origin = Aborted
          \/ answer \in Documents /\ Arrives(origin, Reading(answer), level - 1 = asked)
  /\ stage = "answer" =>
       level <= asked /\ Arrives(origin, LearntOf(answer.response, answer.err), level = asked)
  /\ stage = "result" => level <= asked /\ Arrives(origin, Outcome(answer), level = asked)

\* The forms of what a contract learns and of what an answer was.
LEMMA LearntForms ==
  ASSUME NEW m \in Learnt
  PROVE  \/ m.sees = "data" /\ m.data \in Data \cup {Empty} /\ m = SeesData(m.data)
         \/ m.sees = "contract error" /\ m.text \in Texts /\ m = SeesText(m.text)
         \/ m.sees = "system error" /\ m.variant \in Variants /\ m = SeesSystemError(m.variant)
         \/ m.sees = "abort" /\ m = Aborted
  <1>1. CASE m \in [sees : {"data"}, data : Data \cup {Empty}]
    BY <1>1 DEF SeesData
  <1>2. CASE m \in [sees : {"contract error"}, text : Texts]
    BY <1>2 DEF SeesText
  <1>3. CASE m \in [sees : {"system error"}, variant : Variants]
    BY <1>3 DEF SeesSystemError
  <1>4. CASE m = Aborted
    BY <1>4 DEF Aborted
  <1> QED
    BY <1>1, <1>2, <1>3, <1>4 DEF Learnt

LEMMA OriginForms ==
  ASSUME NEW o \in Origins
  PROVE  \/ o.sees = "data" /\ o.data \in Data \cup {Nil, Empty} /\ o = SeesData(o.data)
         \/ o.sees = "contract error" /\ o.text \in Texts \cup {Empty} /\ o = SeesText(o.text)
         \/ o.sees = "system error" /\ o.variant \in Variants \cup {"any"}
              /\ o = SeesSystemError(o.variant)
         \/ o.sees = "abort" /\ o = Aborted
  <1>1. CASE o \in [sees : {"data"}, data : Data \cup {Nil, Empty}]
    BY <1>1 DEF SeesData
  <1>2. CASE o \in [sees : {"contract error"}, text : Texts \cup {Empty}]
    BY <1>2 DEF SeesText
  <1>3. CASE o \in [sees : {"system error"}, variant : Variants \cup {"any"}]
    BY <1>3 DEF SeesSystemError
  <1>4. CASE o = Aborted
    BY <1>4 DEF Aborted
  <1> QED
    BY <1>1, <1>2, <1>3, <1>4 DEF Origins

\* The same in the other direction.
LEMMA Sightings ==
  /\ \A d : SeesData(d).sees = "data" /\ SeesData(d).data = d
  /\ \A d \in Data \cup {Empty} : SeesData(d) \in Learnt
  /\ \A d \in Data \cup {Nil, Empty} : SeesData(d) \in Origins
  /\ \A t : SeesText(t).sees = "contract error" /\ SeesText(t).text = t
  /\ \A t \in Texts : SeesText(t) \in Learnt
  /\ \A t \in Texts \cup {Empty} : SeesText(t) \in Origins
  /\ \A v : SeesSystemError(v).sees = "system error" /\ SeesSystemError(v).variant = v
  /\ \A v \in Variants : SeesSystemError(v) \in Learnt
  /\ \A v \in Variants \cup {"any"} : SeesSystemError(v) \in Origins
  /\ Aborted.sees = "abort" /\ Aborted \in Learnt /\ Aborted \in Origins
  BY DEF SeesData, SeesText, SeesSystemError, Aborted, Learnt, Origins

LEMMA Initially == Init => IInv
  BY QueryResultsAssumption, SMT DEF QueryResultsAssumption, Init, IInv

LEMMA RustQueryStep == ASSUME IInv, RustQuery PROVE IInv'
  BY DEF IInv, RustQuery

LEMMA RustQueryInvalidStep == ASSUME IInv, RustQueryInvalid PROVE IInv'
  <1> DEFINE e == [variants |-> {"InvalidRequest"}, filled |-> TRUE]
  <1>1. "InvalidRequest" \in Variants
    BY DEF Variants, members
  <1>2. e \in SystemErrors /\ e.filled /\ e.variants = {"InvalidRequest"}
    BY <1>1 DEF SystemErrors
  <1>3. answer' = [Ok |-> Nil, Err |-> e]
    BY DEF RustQueryInvalid
  <1> HIDE DEF e
  <1>4. Outcome(answer') = SeesSystemError("InvalidRequest")
    BY <1>1, <1>2, <1>3, SystemErrorComesBack
  <1> DEFINE m == SeesSystemError("InvalidRequest")
  <1>5. m \in Learnt /\ m \in Origins /\ m.sees = "system error" /\ m.variant = "InvalidRequest"
    BY <1>1 DEF Learnt, Origins, SeesSystemError
  <1>6. Arrives(m, m, TRUE)
    BY <1>5 DEF Arrives
  <1>7. Arrives(origin', Outcome(answer'), level' = asked')
    BY <1>4, <1>6 DEF RustQueryInvalid
  <1> QED
    BY <1>7, SMT DEF IInv, RustQueryInvalid

LEMMA AsksStep == ASSUME IInv, querier_Asks PROVE IInv'
  BY QueryResultsAssumption, SMT DEF QueryResultsAssumption, IInv, querier_Asks

LEMMA ReturnsStep == ASSUME IInv, RustQueryReturns PROVE IInv'
  BY DEF IInv, RustQueryReturns, LearntOf

LEMMA QueryRawStep == ASSUME IInv, query_raw PROVE IInv'
  BY DEF IInv, query_raw, Outcome

LEMMA ContinueStep == ASSUME IInv, Continue PROVE IInv'
  BY QueryResultsAssumption DEF QueryResultsAssumption, IInv, Continue

\* What is right to learn, by what the answer was.
LEMMA RightData ==
  ASSUME NEW d \in Data \cup {Nil, Empty}, NEW n
  PROVE  Arrives(SeesData(d), SeesData(IF d = Nil THEN Empty ELSE d), n)
  BY Sightings, QueryResultsAssumption DEF QueryResultsAssumption, Arrives

LEMMA RightText ==
  ASSUME NEW t \in Texts \cup {Empty}, NEW n
  PROVE  Arrives(SeesText(t), IF t = Empty THEN SeesData(Empty) ELSE SeesText(t), n)
  BY Sightings DEF Arrives

LEMMA RightUnspoken ==
  ASSUME NEW d \in Data \cup {Empty}, NEW n
  PROVE  Arrives(SeesText(Empty), SeesData(d), n)
  BY Sightings DEF Arrives

LEMMA RightAbort ==
  ASSUME NEW m, m = Aborted \/ \E t \in Texts : m = SeesText(t), NEW n
  PROVE  Arrives(Aborted, m, n)
  BY Sightings DEF Arrives

LEMMA RightSystemError ==
  ASSUME NEW v \in Variants \cup {"any"}, NEW w \in Variants, v # "any" => w = v, NEW n
  PROVE  Arrives(SeesSystemError(v), SeesSystemError(w), n)
  BY Sightings DEF Arrives

\* The application answers with data.
LEMMA AnswersDataStep ==
  ASSUME IInv, NEW d \in Data \cup {Nil, Empty}, querier_Query(d, NoError)
  PROVE  IInv'
  <1>1. answer'.response = d /\ answer'.err = NoError /\ origin' = SeesData(d)
    BY DEF querier_Query
  <1>2. Arrives(origin', LearntOf(answer'.response, answer'.err), level' = asked')
    BY <1>1, DataComesBack, RightData
  <1> QED
    BY <1>2, SMT DEF IInv, querier_Query

\* The application answers with an error.
LEMMA MeaningArrives ==
  ASSUME NEW err \in Errors
  PROVE  err # NoError /\ \A n : Arrives(Meaning(err), LearntOf(Nil, err), n)
  <1> SUFFICES ASSUME NEW n
               PROVE  err # NoError /\ Arrives(Meaning(err), LearntOf(Nil, err), n)
    OBVIOUS
  <1>1. CASE err \in [type : {"other"}, text : Texts \cup {Empty}]
    <2>1. err = [type |-> "other", text |-> err.text] /\ err.text \in Texts \cup {Empty}
      BY <1>1
    <2>2. err # NoError /\ err.type = "other"
      BY <1>1, SMT DEF NoError
    <2>3. Meaning(err) = SeesText(err.text)
      BY <2>2 DEF Meaning
    <2>4. LearntOf(Nil, err) = IF err.text = Empty THEN SeesData(Empty) ELSE SeesText(err.text)
      BY <2>1, TextComesBack
    <2> QED
      BY <2>1, <2>2, <2>3, <2>4, RightText
  <1>2. CASE err \in [type : {"nil pointer"}]
    <2>1. err = [type |-> "nil pointer"]
      BY <1>2
    <2>2. err # NoError /\ err.type = "nil pointer"
      BY <2>1 DEF NoError
    <2>3. Meaning(err) = Aborted
      BY <2>2 DEF Meaning
    <2> QED
      BY <2>1, <2>2, <2>3, NilPointerAborts, RightAbort
  <1>3. ASSUME err.type \in {"variant", "SystemError"}, NEW e \in SystemErrors, ToSystemError(err) = e,
               NEW v \in Variants \cup {"any"}, Meaning(err) = SeesSystemError(v),
               v # "any" => e.filled /\ e.variants = {v}
        PROVE  err # NoError /\ Arrives(Meaning(err), LearntOf(Nil, err), n)
    <2>1. err # NoError
      BY <1>3, SMT DEF NoError
    <2>2. e # Nil
      BY NilAssumption DEF NilAssumption
    <2>3. ToQuerierResult(Nil, err) = [Ok |-> Nil, Err |-> e]
      BY <1>3, <2>1, <2>2 DEF ToQuerierResult
    <2>4. PICK w \in Variants : LearntOf(Nil, err) = SeesSystemError(w)
      BY <2>3, SystemErrorComesBack DEF LearntOf
    <2>5. CASE v = "any"
      <3>1. Arrives(SeesSystemError(v), SeesSystemError(w), n)
        BY <2>5, RightSystemError
      <3> QED
        BY <1>3, <2>1, <2>4, <3>1
    <2>6. CASE v # "any"
      <3>1. v \in Variants /\ e.filled /\ e.variants = {v}
        BY <1>3, <2>6
      <3>2. LearntOf(Nil, err) = SeesSystemError(v)
        BY <3>1, <2>3, SystemErrorComesBack DEF LearntOf
      <3> QED
        BY <1>3, <2>1, <3>1, <3>2, RightSystemError
    <2> QED
      BY <2>5, <2>6
  <1>4. CASE err \in [type : {"variant"}, variant : Variants, filled : BOOLEAN]
    <2>1. err.type = "variant" /\ err.variant \in Variants /\ err.filled \in BOOLEAN
      BY <1>4
    <2> DEFINE e == [variants |-> {err.variant}, filled |-> err.filled]
               v == IF err.filled THEN err.variant ELSE "any"
    <2>2. e \in SystemErrors /\ ToSystemError(err) = e
      BY <2>1 DEF SystemErrors, ToSystemError, isNil
    <2>3. Meaning(err) = SeesSystemError(v) /\ v \in Variants \cup {"any"}
      BY <2>1 DEF Meaning
    <2>4. v # "any" => e.filled /\ e.variants = {v}
      BY <2>1
    <2> HIDE DEF e, v
    <2> QED
      BY <2>1, <2>2, <2>3, <2>4, <1>3
  <1>5. CASE err \in [type : {"SystemError"}, error : SystemErrors]
    <2>1. err.type = "SystemError" /\ err.error \in SystemErrors
      BY <1>5
    <2> DEFINE e == err.error
               single == e.filled /\ \E v \in Variants : e.variants = {v}
               v == IF single THEN CHOOSE u \in e.variants : TRUE ELSE "any"
    <2>2. ToSystemError(err) = e
      BY <2>1 DEF ToSystemError, isNil
    <2>3. Meaning(err) = SeesSystemError(v)
      BY <2>1 DEF Meaning
    <2>4. \A u \in Variants : e.variants = {u} => (CHOOSE x \in e.variants : TRUE) = u
      OBVIOUS
    <2>5. v \in Variants \cup {"any"} /\ (v # "any" => e.filled /\ e.variants = {v})
      BY <2>4
    <2> HIDE DEF v
    <2> QED
      BY <2>1, <2>2, <2>3, <2>5, <1>3
  <1> QED
    BY <1>1, <1>2, <1>4, <1>5 DEF Errors

LEMMA AnswersErrorStep ==
  ASSUME IInv, NEW err \in Errors, querier_Query(Nil, err)
  PROVE  IInv'
  <1>1. answer'.response = Nil /\ answer'.err = err
    BY DEF querier_Query
  <1>2. origin' = Meaning(err)
    BY MeaningArrives DEF querier_Query
  <1>3. Arrives(origin', LearntOf(answer'.response, answer'.err), level' = asked')
    BY <1>1, <1>2, MeaningArrives
  <1> QED
    BY <1>3, SMT DEF IInv, querier_Query

\* A contract answers with a document of its own.
LEMMA ContractAnswersStep ==
  ASSUME IInv, NEW doc \in Documents \cup {Malformed}, ContractAnswers(doc)
  PROVE  IInv'
  <1>1. stage' = "document" /\ answer' = doc /\ level' = level /\ asked' = level - 1 /\ level > 1
    BY DEF ContractAnswers
  <1>2. level' - 1 <= asked' /\ asked' \in 1 .. Depth
    BY <1>1, QueryResultsAssumption, SMT DEF IInv, QueryResultsAssumption
  <1>3. CASE doc = Malformed
    <2>1. origin' = Aborted
      BY <1>3 DEF ContractAnswers
    <2> QED
      BY <1>1, <1>2, <1>3, <2>1 DEF IInv
  <1>4. CASE doc # Malformed
    <2>1. doc.ok \in Data \cup {Empty, Absent} /\ doc.error \in Texts \cup {Empty, Absent}
      BY <1>4 DEF Documents
    <2>2. /\ doc.error # Absent => origin' = SeesText(doc.error)
          /\ doc.error = Absent => origin' = SeesData(IF doc.ok = Absent THEN Empty ELSE doc.ok)
      BY <1>4 DEF ContractAnswers
    <2> DEFINE d == IF doc.ok = Absent THEN Empty ELSE doc.ok
    <2>3. d \in Data \cup {Empty} /\ d # Nil
      BY <2>1, QueryResultsAssumption DEF QueryResultsAssumption
    <2>4. \A n : Arrives(origin', Reading(doc), n)
      <3> SUFFICES ASSUME NEW n PROVE Arrives(origin', Reading(doc), n)
        OBVIOUS
      <3>1. CASE doc.error = Absent
        <4>1. Reading(doc) = SeesData(d) /\ origin' = SeesData(d)
          BY <2>2, <3>1 DEF Reading
        <4> QED
          BY <4>1, <2>3, RightData
      <3>2. CASE doc.error = Empty
        <4>1. Reading(doc) = SeesData(d) /\ origin' = SeesText(Empty)
          BY <2>2, <3>2, QueryResultsAssumption DEF Reading, QueryResultsAssumption
        <4> HIDE DEF d
        <4> QED
          BY <4>1, <2>3, RightUnspoken
      <3>3. CASE doc.error \in Texts
        <4>1. Reading(doc) = SeesText(doc.error) /\ origin' = SeesText(doc.error) /\ doc.error # Empty
          BY <2>2, <3>3, QueryResultsAssumption DEF Reading, QueryResultsAssumption
        <4> QED
          BY <4>1, <3>3, RightText
      <3> QED
        BY <2>1, <3>1, <3>2, <3>3
    <2> QED
      BY <1>1, <1>2, <1>4, <2>4 DEF IInv
  <1> QED
    BY <1>3, <1>4

\* A contract passes on what it has learnt.
LEMMA ContractRelaysStep == ASSUME IInv, ContractRelays PROVE IInv'
  <1> USE QueryResultsAssumption DEF QueryResultsAssumption
  <1>1. /\ stage' = "document" /\ level' = level /\ asked' = asked /\ origin' = origin
        /\ level > 1 /\ level <= asked
    BY DEF ContractRelays, IInv
  <1>2. Arrives(origin, answer, level = asked) /\ answer \in Learnt
    BY DEF ContractRelays, IInv, Arrives
  <1>3. level' - 1 <= asked' /\ level' - 1 # asked'
    BY <1>1, SMT DEF IInv
  <1>4. ASSUME answer' \in Documents, Arrives(origin, Reading(answer'), FALSE) PROVE IInv'
    <2>1. Arrives(origin', Reading(answer'), level' - 1 = asked')
      BY <1>1, <1>3, <1>4 DEF Arrives
    <2> QED
      BY <1>1, <1>3, <1>4, <2>1 DEF IInv
  <1>5. CASE answer.sees = "data"
    <2>1. answer' = [ok |-> answer.data, error |-> Absent]
      BY <1>5 DEF ContractRelays
    <2>2. answer.data \in Data \cup {Empty} /\ answer = SeesData(answer.data)
      BY <1>2, <1>5, LearntForms
    <2>3. answer' \in Documents /\ Reading(answer') = answer
      BY <2>1, <2>2 DEF Documents, Reading
    <2> QED
      BY <1>2, <1>4, <2>3 DEF Arrives
  <1>6. CASE answer.sees = "contract error"
    <2>1. answer' = [ok |-> Absent, error |-> answer.text]
      BY <1>6 DEF ContractRelays
    <2>2. answer.text \in Texts /\ answer = SeesText(answer.text)
      BY <1>2, <1>6, LearntForms
    <2>3. answer' \in Documents /\ Reading(answer') = answer
      BY <2>1, <2>2 DEF Documents, Reading
    <2> QED
      BY <1>2, <1>4, <2>3 DEF Arrives
  <1>7. CASE answer.sees = "system error"
    <2>1. PICK t \in Texts : answer' = [ok |-> Absent, error |-> t]
      BY <1>7 DEF ContractRelays
    <2>2. answer' \in Documents /\ Reading(answer') = SeesText(t)
      BY <2>1 DEF Documents, Reading
    <2>3. origin \in Origins /\ origin.sees = "system error"
      BY <1>2, <1>7, OriginForms, Sightings DEF Arrives
    <2>4. Arrives(origin, SeesText(t), FALSE)
      BY <2>3, Sightings DEF Arrives
    <2> QED
      BY <1>4, <2>2, <2>4
  <1>8. CASE answer.sees = "abort"
    <2>1. answer' = Malformed
      BY <1>8 DEF ContractRelays
    <2>2. origin = Aborted
      BY <1>2, <1>8, OriginForms, Sightings DEF Arrives
    <2> QED
      BY <1>1, <1>3, <2>1, <2>2 DEF IInv
  <1> QED
    BY <1>2, <1>5, <1>6, <1>7, <1>8, LearntForms

\* VM.Query and the application bring the document to the contract that asked.
LEMMA VMQueryStep == ASSUME IInv, VM_Query PROVE IInv'
  <1> USE QueryResultsAssumption DEF QueryResultsAssumption
  <1>1. /\ stage' = "answer" /\ level' = level - 1 /\ asked' = asked /\ origin' = origin
        /\ level > 1 /\ level - 1 <= asked
    BY DEF VM_Query, IInv
  <1>2. level' \in 1 .. Depth
    BY <1>1, SMT DEF IInv
  <1>3. SUFFICES Arrives(origin, LearntOf(answer'.response, answer'.err), level - 1 = asked)
    BY <1>1, <1>2 DEF IInv
  <1> DEFINE other(t) == [type |-> "other", text |-> t]
             result == QueryResult_Unmarshal(answer)
  <1>4. CASE answer = Malformed
    <2>1. PICK t \in Texts : answer' = [response |-> Nil, err |-> other(t)]
      BY <1>4 DEF VM_Query
    <2>2. LearntOf(Nil, other(t)) = SeesText(t)
      BY TextComesBack
    <2>3. answer'.response = Nil /\ answer'.err = other(t)
      BY <2>1
    <2>4. origin = Aborted
      BY <1>1, <1>4 DEF IInv, VM_Query, Documents, Malformed
    <2> QED
      BY <2>2, <2>3, <2>4, RightAbort
  <1>5. CASE answer # Malformed
    <2>1. answer \in Documents /\ Arrives(origin, Reading(answer), level - 1 = asked)
      BY <1>5 DEF VM_Query, IInv
    <2>2. answer.ok \in Data \cup {Empty, Absent} /\ answer.error \in Texts \cup {Empty, Absent}
      BY <2>1 DEF Documents
    <2>3. /\ result.Ok = IF answer.ok = Absent THEN Nil ELSE answer.ok
          /\ result.Err = IF answer.error = Absent THEN Empty ELSE answer.error
      BY DEF QueryResult_Unmarshal
    <2>4. answer' = IF result.Err # Empty
                    THEN [response |-> Nil, err |-> other(result.Err)]
                    ELSE [response |-> result.Ok, err |-> NoError]
      BY <1>5 DEF VM_Query
    <2> HIDE DEF result
    <2>5. CASE result.Err # Empty
      <3>1. result.Err \in Texts /\ result.Err = answer.error /\ answer.error \notin {Absent, Empty}
        BY <2>2, <2>3, <2>5
      <3>2. answer'.response = Nil /\ answer'.err = other(result.Err)
        BY <2>4, <2>5
      <3>3. LearntOf(Nil, other(result.Err)) = SeesText(result.Err)
        BY <3>1, TextComesBack
      <3>4. Reading(answer) = SeesText(result.Err)
        BY <3>1 DEF Reading
      <3> QED
        BY <2>1, <3>2, <3>3, <3>4
    <2>6. CASE result.Err = Empty
      <3>1. answer.error \in {Absent, Empty}
        BY <2>2, <2>3, <2>6
      <3>2. answer'.response = result.Ok /\ answer'.err = NoError
        BY <2>4, <2>6
      <3>3. result.Ok \in Data \cup {Nil, Empty}
        BY <2>2, <2>3
      <3>4. LearntOf(result.Ok, NoError) = SeesData(IF result.Ok = Nil THEN Empty ELSE result.Ok)
        BY <3>3, DataComesBack
      <3>5. Reading(answer) = SeesData(IF result.Ok = Nil THEN Empty ELSE result.Ok)
        BY <2>2, <2>3, <3>1 DEF Reading
      <3> QED
        BY <2>1, <3>2, <3>4, <3>5
    <2> QED
      BY <2>5, <2>6
  <1> QED
    BY <1>4, <1>5

-----------------------------------------------------------------------------

LEMMA Invariance == Spec => []IInv
  <1>1. IInv /\ [Next]_vars => IInv'
    <2> SUFFICES ASSUME IInv, [Next]_vars PROVE IInv'
      OBVIOUS
    <2>1. CASE UNCHANGED vars
      BY <2>1 DEF vars, IInv
    <2>2. CASE Next
      BY <2>2, RustQueryStep, RustQueryInvalidStep, AnswersDataStep, AnswersErrorStep, AsksStep,
         ContractAnswersStep, ContractRelaysStep, VMQueryStep, ReturnsStep, QueryRawStep,
         ContinueStep, Zenon DEF Next
    <2> QED
      BY <2>1, <2>2
  <1> QED
    BY <1>1, Initially, PTL DEF Spec

\* A failure with an empty message, by its members.
LEMMA UnspokenForm ==
  ASSUME NEW o \in Origins
  PROVE  o = SeesText(Empty) <=> o.sees = "contract error" /\ o.text = Empty
  <1>1. ASSUME o.sees = "contract error" PROVE o = SeesText(o.text)
    BY <1>1, OriginForms
  <1> QED
    BY <1>1, Sightings

\* What a contract has learnt, by what the answer was.
LEMMA LearntIsRight ==
  ASSUME IInv, Learns
  PROVE  /\ \/ origin.sees = "data"
               /\ answer = SeesData(IF origin.data = Nil THEN Empty ELSE origin.data)
            \/ origin.sees = "contract error" /\ Unspoken /\ answer.sees = "data"
            \/ origin.sees = "contract error" /\ ~Unspoken /\ answer = origin
            \/ origin.sees = "system error" /\ ~Unspoken /\ answer.sees # "data"
            \/ origin.sees = "abort" /\ ~Unspoken /\ answer.sees # "data"
         /\ Unspoken => origin.sees = "contract error"
  <1>1. Arrives(origin, answer, level = asked) /\ origin \in Origins
    BY DEF Learns, IInv, Arrives
  <1>2. Unspoken <=> origin.sees = "contract error" /\ origin.text = Empty
    BY <1>1, UnspokenForm DEF Unspoken
  <1> QED
    BY <1>1, <1>2, OriginForms DEF Arrives

\* At every depth and for all data and messages, a failure stays a failure on
\* its way through any number of contracts, and no success becomes one
\* (ToQuerierResult, QueryResult.MarshalJSON, query_raw).
THEOREM FailuresAlwaysArrive == Spec => []FailuresArrive
  <1>1. IInv => FailuresArrive
    BY LearntIsRight, Sightings DEF FailuresArrive
  <1> QED
    BY <1>1, Invariance, PTL

\* The data and the messages themselves come back unchanged, however many
\* contracts they pass (QueryResult.MarshalJSON, VM.Query, query_raw).
THEOREM AnswersAlwaysUnchanged == Spec => []AnswersArriveUnchanged
  <1>1. ASSUME IInv PROVE AnswersArriveUnchanged
    <2> SUFFICES ASSUME Learns
                 PROVE  /\ origin.sees = "data" =>
                             answer.data = IF origin.data = Nil THEN Empty ELSE origin.data
                        /\ origin.sees = "contract error" /\ ~Unspoken => answer = origin
      BY DEF AnswersArriveUnchanged
    <2>1. /\ origin.sees = "data" =>
               answer = SeesData(IF origin.data = Nil THEN Empty ELSE origin.data)
          /\ origin.sees = "contract error" /\ ~Unspoken => answer = origin
      BY <1>1, LearntIsRight
    <2>2. \A d : SeesData(d).data = d
      BY Sightings
    <2> QED
      BY <2>1, <2>2
  <1> QED
    BY <1>1, Invariance, PTL

\* A contract next to the application sees every system error as a system
\* error, and a complete one as the variant it is (ToSystemError, query_raw).
THEOREM SystemErrorsAlwaysArrive == Spec => []SystemErrorsArrive
  <1>1. IInv => SystemErrorsArrive
    BY DEF IInv, Learns, Arrives, SystemErrorsArrive
  <1> QED
    BY <1>1, Invariance, PTL
=============================================================================
