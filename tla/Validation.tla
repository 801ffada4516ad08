----------------------------- MODULE Validation -----------------------------
(***************************************************************************)
(* What validateCollection and the handlers of auth profiles let through.  *)
(* Bodies are records; where the code tests a string for being falsy, ""   *)
(* stands for a missing one.  A missing index is as invalid as a negative  *)
(* one; a missing timeout is NoTimeout.                                    *)
(***************************************************************************)
EXTENDS Integers, Sequences, FiniteSets

CONSTANTS
  Text,            \* the strings that may occur in a body
  MaxRequests,     \* MAX_REQUESTS_PER_COLLECTION
  MaxHeaders,      \* MAX_HEADER_COUNT
  MinTimeout,      \* MIN_TIMEOUT_MS
  MaxTimeout,      \* MAX_TIMEOUT_MS
  DefaultTimeout   \* the schema's default for timeoutMs

Methods == {"GET", "POST", "PUT", "PATCH", "DELETE"}
Modes == {"sequential", "parallel"}
AuthTypes == {"none", "bearer", "apiKey"}
BlockedHeaders == {"host", "content-length", "transfer-encoding", "connection"}
NoTimeout == -1

ASSUME TextAssumption == {"", "none", "sequential"} \subseteq Text

\* 20, 30, 100, 30000 and 10000 in the code.
ASSUME ValidationAssumption ==
  /\ MaxRequests \in Nat /\ MaxHeaders \in Nat
  /\ MinTimeout \in Nat /\ MaxTimeout \in Nat
  /\ DefaultTimeout \in MinTimeout..MaxTimeout

\* Methods and header names are compared without regard to case: here they
\* have one.  A url is "http" if isURL accepts it.
Header == [name : Text, isString : BOOLEAN]
Rule == [variable : Text, from : Text]
Request == [index     : Int,
            method    : Text,
            url       : {"", "http", "other"},
            timeoutMs : Nat \cup {NoTimeout},
            headers   : SUBSET Header,
            extract   : SUBSET Rule]

Auth == [type : Text, token : Text, headerName : Text]
AuthNotGiven == [type |-> "", token |-> "", headerName |-> ""]

-----------------------------------------------------------------------------

ValidHeaders(headers) ==
  /\ Cardinality(headers) <= MaxHeaders
  /\ \A h \in headers : h.name \notin BlockedHeaders /\ h.isString

\* validateRequestDef returns no error.
ValidRequest(r) ==
  /\ r.method \in Methods
  /\ r.url = "http"
  /\ r.index >= 0
  /\ r.timeoutMs # NoTimeout => r.timeoutMs \in MinTimeout..MaxTimeout
  /\ ValidHeaders(r.headers)
  /\ \A rule \in r.extract : rule.variable # "" /\ rule.from # ""

\* Bug kept for comparison: only neighbours are compared.
NeighboursDiffer(requests) ==
  \A p \in 1..(Len(requests) - 1) : requests[p].index # requests[p + 1].index

UniqueIndexes(requests) ==
  Cardinality({requests[p].index : p \in 1..Len(requests)}) = Len(requests)

\* A body without auth passes; one with auth must bring what its type needs.
ValidAuth(auth) ==
  auth = AuthNotGiven \/
    /\ auth.type \in AuthTypes
    /\ auth.type = "bearer" => auth.token # ""
    /\ auth.type = "apiKey" => auth.token # "" /\ auth.headerName # ""

ValidCollection(body) ==
  /\ body.name # ""
  /\ body.executionMode \in Modes \cup {""}
  /\ ValidAuth(body.auth)
  /\ Len(body.requests) \in 1..MaxRequests
  /\ \A p \in 1..Len(body.requests) : ValidRequest(body.requests[p])
  /\ UniqueIndexes(body.requests)

\* The checks of createAuthProfile.
ValidProfile(body) ==
  /\ body.name # "" /\ body.token # ""
  /\ body.type \in {"bearer", "apiKey"}
  /\ body.type = "apiKey" => body.headerName # ""

=============================================================================
