---------------------------- MODULE HttpRequest ----------------------------
(***************************************************************************)
(* http::HttpRequest: the record a parser fills and a handler reads.       *)
(*                                                                         *)
(* Header values are strings, as in the code; what std::stoi makes of one  *)
(* is the constant function Stoi, whose domain is the values stoi accepts  *)
(* (it throws on the others).  A query string is the sequence of its       *)
(* pairs, each given by the lengths of its key and its value: what         *)
(* setQueryParameters computes depends on lengths and offsets only, so a   *)
(* substring is modelled as the slice <<from, to>> of the argument string. *)
(***************************************************************************)
EXTENDS Integers, Sequences

CONSTANTS
    Path,          \* request paths
    HeaderName,    \* names of header fields
    HeaderValue,   \* their values; "" is what getHeader returns for none
    Stoi,          \* what std::stoi returns, for the values it accepts
    UintModulus    \* 2^64 in the code: contentLength_ is a uint64_t

ASSUME HttpRequestAssumption ==
    /\ {"Content-Length", "Connection", "Other"} \subseteq HeaderName
    /\ "" \in HeaderValue
    /\ UintModulus \in Nat \ {0}
    /\ \A v \in DOMAIN Stoi : Stoi[v] \in Int
    /\ "" \notin DOMAIN Stoi

Method == {"kInvalid", "kGet", "kPost", "kHead", "kPut", "kDelete", "kOptions"}

\* The methods whose requests carry a body (HttpContext::parseRequest).
BodyMethod == {"kPost", "kPut"}

---------------------------------------------------------------------------
(* setQueryParameters: argumentStr is split at every '&'.                  *)

\* A pair key=value of the argument string; an '&' separates two pairs.
Pair == [key : Nat, value : Nat]
PairLen(p) == p.key + 1 + p.value

\* prev at the i-th pair: the offset where it starts.
Start(args) ==
    LET start[i \in 1..Len(args)] ==
          IF i = 1 THEN 0 ELSE start[i - 1] + PairLen(args[i - 1]) + 1
    IN start

\* pair.substr(prev, equalPos) applied to the copy of the pair: it throws
\* when the offset is beyond the copy, else it is cut at the copy's end.
KeyThrows(prev, p) == prev > PairLen(p)
KeySlice(prev, p) ==
    LET from == prev + prev
        end  == prev + PairLen(p)
    IN <<from, IF from + p.key <= end THEN from + p.key ELSE end>>

\* pair.substr(equalPos + 1, pos): the rest of the pair after its '='.
ValueSlice(prev, p) == <<prev + p.key + 1, prev + PairLen(p)>>

\* The whole loop: does it throw, and what it stores when it does not.
QueryThrows(args) == \E i \in 1..Len(args) : KeyThrows(Start(args)[i], args[i])
QueryParameters(args) ==
    [i \in 1..Len(args) |-> [key   |-> KeySlice(Start(args)[i], args[i]),
                             value |-> ValueSlice(Start(args)[i], args[i])]]

---------------------------------------------------------------------------
(* The request object.  query holds the pairs setQueryParameters stored:   *)
(* the keys and values it stored for them are QueryParameters(query).      *)

NewRequest ==
    [method |-> "kInvalid", path |-> "", version |-> "Unknown",
     query |-> <<>>, headers |-> [h \in HeaderName |-> ""],
     content |-> <<>>, contentLength |-> 0]

\* getHeader: the empty string stands for a header that is not there.
GetHeader(req, field) == req.headers[field]
AddHeader(req, name, value) == [req EXCEPT !.headers[name] = value]

\* setMethod asserts that no method was recognised before.
MethodUnset(req) == req.method = "kInvalid"

\* Bug: the length of the CRLF is counted in part.
SetContentLengthOffByOne(req, v) ==
    [req EXCEPT !.contentLength = (Stoi[v] + 1) % UintModulus]

\* setContentLength(std::stoi(v)): the int is converted to uint64_t.
SetContentLength(req, v) == [req EXCEPT !.contentLength = Stoi[v] % UintModulus]

\* Bugs: swap forgets one more member.
SwapKeepsMethod(req) ==
    [NewRequest EXCEPT !.method = req.method, !.content = req.content,
                       !.contentLength = req.contentLength]
SwapKeepsHeaders(req) ==
    [NewRequest EXCEPT !.headers = req.headers, !.content = req.content,
                       !.contentLength = req.contentLength]

\* swap with a new request: every member but content_ and contentLength_.
SwapWithNew(req) ==
    [NewRequest EXCEPT !.content = req.content,
                       !.contentLength = req.contentLength]
===========================================================================
