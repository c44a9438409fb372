---------------------------- MODULE QueryResults ----------------------------
(***************************************************************************)
(* What a contract learns of a query.  A query leaves the contract through *)
(* GoQuerier::query_raw and cQueryExternal and reaches the querier of the  *)
(* application, which answers it or asks another contract with VM.Query.   *)
(* On the way back the answer changes its form at every border: document   *)
(* of a contract, QueryResult, pair of data and Go error, QuerierResult,   *)
(* JSON, SystemResult<ContractResult<Binary>>.  The forms differ in how    *)
(* they tell failures, empty data and nothing at all apart.                *)
(*                                                                         *)
(* Data and messages are Empty or one of a few values; data may be Nil.    *)
(***************************************************************************)
EXTENDS Naturals

CONSTANTS
  Data,    \* non-empty data
  Texts,   \* non-empty messages
  Depth,   \* bound: contracts that ask each other
  Nil,     \* nil
  Absent,  \* a member that a JSON document does not have
  Empty    \* an empty slice or message

ASSUME QueryResultsAssumption ==
  /\ Depth \in Nat \ {0}
  /\ Texts # {}
  /\ Nil # Absent /\ Nil # Empty /\ Absent # Empty
  /\ {Nil, Absent, Empty} \cap (Data \cup Texts) = {}

VARIABLES
  level,   \* the depth of the contract that runs or has just ended
  stage,   \* where the query or its answer is
  answer,  \* its form there
  origin,  \* what the answer was to begin with
  asked    \* the depth of the contract that asked whoever gave it

vars == <<level, stage, answer, origin, asked>>

-----------------------------------------------------------------------------
(* Go errors and system errors                                             *)

\* The variants of a system error with their members in JSON.
members ==
  [InvalidRequest |-> {"error", "request"}, InvalidResponse |-> {"error", "response"},
   NoSuchContract |-> {"addr"}, NoSuchCode |-> {"code_id"}, Unknown |-> {},
   UnsupportedRequest |-> {"kind"}]

Variants == DOMAIN members

\* A system error has a set of variants that are not nil.  It is filled if the
\* strings, numbers and slices in them are not empty, zero or nil.
SystemErrors == [variants : SUBSET Variants, filled : BOOLEAN]

NoError == [type |-> "none"]

\* The errors of an application: a SystemError or one of its variants, as a
\* value or behind a pointer, a nil pointer to one of them, or any other error.
Errors ==
  [type : {"SystemError"}, error : SystemErrors]
    \cup [type : {"variant"}, variant : Variants, filled : BOOLEAN]
    \cup [type : {"nil pointer"}]
    \cup [type : {"other"}, text : Texts \cup {Empty}]

isNil(err) == err.type \in {"none", "nil pointer"}

fault_ToSystemError(err) ==
  CASE isNil(err) \/ err.type = "other" -> Nil
    [] err.type = "SystemError" -> err.error
    [] err.type = "variant" ->
       [variants |-> {IF err.variant = "NoSuchCode" THEN "NoSuchContract" ELSE err.variant},
        filled |-> err.filled]

ToSystemError(err) ==
  CASE isNil(err) \/ err.type = "other" -> Nil
    [] err.type = "SystemError" -> err.error
    [] err.type = "variant" -> [variants |-> {err.variant}, filled |-> err.filled]

-----------------------------------------------------------------------------
(* QueryResult and QuerierResult                                           *)

\* An answer that has become a panic: Error() dereferences the nil pointer.
Panic == [panic |-> TRUE]

fault_ToQuerierResult(response, err) ==
  IF ToSystemError(err) # Nil
  THEN [Ok |-> Nil, Err |-> ToSystemError(err)]
  ELSE [Ok |-> [Ok |-> response, Err |-> Empty], Err |-> Nil]

ToQuerierResult(response, err) ==
  CASE err = NoError -> [Ok |-> [Ok |-> response, Err |-> Empty], Err |-> Nil]
    [] err # NoError /\ ToSystemError(err) # Nil -> [Ok |-> Nil, Err |-> ToSystemError(err)]
    [] err.type = "nil pointer" -> Panic
    [] err.type = "other" -> [Ok |-> [Ok |-> Nil, Err |-> err.text], Err |-> Nil]

\* An omitempty member is absent when it is empty.
omitempty(x) == IF x \in {Nil, Empty} THEN Absent ELSE x

fault_QueryResult_MarshalJSON(q) == [ok |-> omitempty(q.Ok), error |-> omitempty(q.Err)]

QueryResult_MarshalJSON(q) ==
  IF q.Ok \in {Nil, Empty} /\ q.Err = Empty
  THEN [ok |-> Empty, error |-> Absent]
  ELSE [ok |-> omitempty(q.Ok), error |-> omitempty(q.Err)]

\* The members of a variant that are written with a value.  Addr, CodeID and
\* Kind are omitempty; a nil Request or Response becomes null.
SystemError_MarshalJSON(e) ==
  [v \in e.variants |-> IF e.filled THEN members[v] ELSE members[v] \cap {"error"}]

QuerierResult_MarshalJSON(r) ==
  [ok |-> IF r.Ok = Nil THEN Absent ELSE QueryResult_MarshalJSON(r.Ok),
   error |-> IF r.Err = Nil THEN Absent ELSE SystemError_MarshalJSON(r.Err)]

\* The documents a contract may return from query, and one that is not JSON.
Documents == [ok : Data \cup {Empty, Absent}, error : Texts \cup {Empty, Absent}]
Malformed == [malformed |-> TRUE]

\* QueryResult has no UnmarshalJSON: the members that are there are set.
QueryResult_Unmarshal(doc) ==
  [Ok |-> IF doc.ok = Absent THEN Nil ELSE doc.ok,
   Err |-> IF doc.error = Absent THEN Empty ELSE doc.error]

-----------------------------------------------------------------------------
(* The Rust side                                                           *)

SeesData(d) == [sees |-> "data", data |-> d]
SeesText(t) == [sees |-> "contract error", text |-> t]
SeesSystemError(v) == [sees |-> "system error", variant |-> v]
Aborted == [sees |-> "abort"]

\* What a contract can learn of a query.
Learnt ==
  [sees : {"data"}, data : Data \cup {Empty}] \cup [sees : {"contract error"}, text : Texts]
    \cup [sees : {"system error"}, variant : Variants] \cup {Aborted}

\* nil is none of the values that are tested for it, and a member that is absent
\* is no object.
ASSUME NilAssumption ==
  /\ Nil \notin SystemErrors \cup Learnt
  /\ Nil \notin [Ok : Data \cup {Nil, Empty}, Err : Texts \cup {Empty}]
  /\ \A V \in SUBSET Variants : Absent \notin [V -> SUBSET UNION {members[v] : v \in Variants}]

\* serde reads an enum with exactly one member, and all members of its variant.
from_slice(doc) ==
  CASE doc.error = Absent /\ doc.ok.ok # Absent /\ doc.ok.error = Absent -> SeesData(doc.ok.ok)
    [] doc.error = Absent /\ doc.ok.ok = Absent /\ doc.ok.error # Absent -> SeesText(doc.ok.error)
    [] doc.error # Absent /\ \E v \in Variants : DOMAIN doc.error = {v} /\ doc.error[v] = members[v] ->
       SeesSystemError(CHOOSE v \in Variants : v \in DOMAIN doc.error)
    [] OTHER -> SeesSystemError("InvalidResponse")

-----------------------------------------------------------------------------

Init ==
  /\ level = 1 /\ stage = "contract"
  /\ answer = Nil /\ origin = Nil /\ asked = 1

\* The contract queries and its request is read by the application.
RustQuery ==
  /\ stage = "contract" /\ answer = Nil
  /\ stage' = "querier"
  /\ UNCHANGED <<level, answer, origin, asked>>

\* The contract queries with a request that json.Unmarshal does not accept.
\* binRequest is what the contract has sent, and err.Error() has a text.
RustQueryInvalid ==
  /\ stage = "contract" /\ answer = Nil
  /\ stage' = "result"
  /\ answer' = [Ok |-> Nil, Err |-> [variants |-> {"InvalidRequest"}, filled |-> TRUE]]
  /\ origin' = SeesSystemError("InvalidRequest") /\ asked' = level
  /\ UNCHANGED level

\* What an error of the application stands for.
Meaning(err) ==
  CASE err.type = "other" -> SeesText(err.text)
    [] err.type = "nil pointer" -> Aborted
    [] err.type = "variant" -> SeesSystemError(IF err.filled THEN err.variant ELSE "any")
    [] err.type = "SystemError" ->
       SeesSystemError(IF err.error.filled /\ \E v \in Variants : err.error.variants = {v}
                       THEN CHOOSE v \in err.error.variants : TRUE ELSE "any")

\* The application answers on its own.
querier_Query(response, err) ==
  /\ stage = "querier"
  /\ stage' = "answer"
  /\ answer' = [response |-> response, err |-> err]
  /\ origin' = IF err = NoError THEN SeesData(response) ELSE Meaning(err)
  /\ asked' = level
  /\ UNCHANGED level

\* The application asks another contract.
querier_Asks ==
  /\ stage = "querier" /\ level < Depth
  /\ level' = level + 1 /\ stage' = "contract"
  /\ UNCHANGED <<answer, origin, asked>>

\* The contract that was asked answers without a query of its own, or traps.
ContractAnswers(doc) ==
  /\ stage = "contract" /\ level > 1 /\ answer = Nil
  /\ stage' = "document"
  /\ answer' = doc
  /\ origin' = CASE doc = Malformed -> Aborted
                 [] doc # Malformed /\ doc.error # Absent -> SeesText(doc.error)
                 [] doc # Malformed /\ doc.error = Absent ->
                    SeesData(IF doc.ok = Absent THEN Empty ELSE doc.ok)
  /\ asked' = level - 1
  /\ UNCHANGED level

\* The contract that was asked passes on what it has learnt.  The message it
\* makes of a system error is not empty.
ContractRelays ==
  /\ stage = "contract" /\ level > 1 /\ answer # Nil
  /\ stage' = "document"
  /\ CASE answer.sees = "data" -> answer' = [ok |-> answer.data, error |-> Absent]
       [] answer.sees = "contract error" -> answer' = [ok |-> Absent, error |-> answer.text]
       [] answer.sees = "system error" ->
            \E t \in Texts : answer' = [ok |-> Absent, error |-> t]
       [] answer.sees = "abort" -> answer' = Malformed
  /\ UNCHANGED <<level, origin, asked>>

\* VM.Query returns to the application, with an error if the contract has
\* trapped or its document cannot be read, and the application passes on what
\* it has got.
VM_Query ==
  /\ stage = "document"
  /\ level' = level - 1 /\ stage' = "answer"
  /\ \E t \in Texts :
       answer' =
         IF answer = Malformed
         THEN [response |-> Nil, err |-> [type |-> "other", text |-> t]]
         ELSE LET result == QueryResult_Unmarshal(answer) IN
              IF result.Err # Empty
              THEN [response |-> Nil, err |-> [type |-> "other", text |-> result.Err]]
              ELSE [response |-> result.Ok, err |-> NoError]
  /\ UNCHANGED <<origin, asked>>

\* RustQuery returns.
RustQueryReturns ==
  /\ stage = "answer"
  /\ stage' = "result"
  /\ answer' = ToQuerierResult(answer.response, answer.err)
  /\ UNCHANGED <<level, origin, asked>>

\* cQueryExternal writes the result, or recovers from the panic, and query_raw
\* reads it.
query_raw ==
  /\ stage = "result"
  /\ stage' = "contract"
  /\ answer' = IF answer = Panic THEN Aborted ELSE from_slice(QuerierResult_MarshalJSON(answer))
  /\ UNCHANGED <<level, origin, asked>>

\* The outermost contract goes on.
Continue ==
  /\ stage = "contract" /\ level = 1 /\ answer # Nil
  /\ answer' = Nil /\ origin' = Nil /\ asked' = 1
  /\ UNCHANGED <<level, stage>>

Next ==
  \/ RustQuery \/ RustQueryInvalid
  \/ \E response \in Data \cup {Nil, Empty} : querier_Query(response, NoError)
  \/ \E err \in Errors : querier_Query(Nil, err)
  \/ querier_Asks
  \/ \E doc \in Documents \cup {Malformed} : ContractAnswers(doc)
  \/ ContractRelays \/ VM_Query \/ RustQueryReturns \/ query_raw \/ Continue

Spec == Init /\ [][Next]_vars

-----------------------------------------------------------------------------
(* Properties                                                              *)

\* The contract at this level has its answer.
Learns == stage = "contract" /\ answer # Nil

\* "errors must not be empty" (queries.go:23): a failure that has an empty
\* message is the one that cannot be told from empty data.
Unspoken == origin = SeesText(Empty)

\* A failure at the far end of a chain of contracts that pass on what they
\* learn is a failure for every contract of the chain, whatever form it has
\* taken in between, and no failure comes out of a success (ToQuerierResult,
\* QueryResult.MarshalJSON, query_raw).
FailuresArrive ==
  Learns => (answer.sees = "data" <=> origin.sees = "data" \/ Unspoken)

\* The data and the message of a contract or of the application come back
\* unchanged, however many contracts they pass; nil and empty data are one.
AnswersArriveUnchanged ==
  Learns =>
    /\ origin.sees = "data" =>
         answer.data = IF origin.data = Nil THEN Empty ELSE origin.data
    /\ origin.sees = "contract error" /\ ~Unspoken => answer = origin

\* For the contract next to the application, a system error with exactly one
\* variant, all of it filled in, is that variant.  Every other one - none or
\* several variants, an omitted member - is still a system error and neither a
\* message nor an abort (ToSystemError, query_raw).
SystemErrorsArrive ==
  Learns /\ level = asked /\ origin.sees = "system error" =>
    /\ answer.sees = "system error"
    /\ origin.variant # "any" => answer = origin

=============================================================================
