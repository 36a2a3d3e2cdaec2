--------------------------------- MODULE FxHttp ---------------------------------
(***************************************************************************)
(* The way of a request through the HTTP layer: RequestIdMiddleware, the   *)
(* router, the validation of its inputs, the endpoint and the exception    *)
(* handlers that create_app registers (app/main.py).  What an endpoint     *)
(* does is the other modules' matter: here it answers or raises.           *)
(*                                                                         *)
(* The layers are nested.  The handlers of ApiError, HTTPException and     *)
(* RequestValidationError run inside the middleware, the handler of        *)
(* Exception runs in ServerErrorMiddleware, outside of it.                 *)
(***************************************************************************)
EXTENDS Naturals

CONSTANTS
    Requests,   \* the requests under way
    ClientIds,  \* values of an X-Request-ID header
    None

VARIABLES
    input,      \* what the client sent
    stage,      \* the layer that has the request
    id,         \* request.state.request_id
    answer      \* what was sent back

vars == <<input, stage, id, answer>>

(* One endpoint of each sort: with a JSON body (POST /executions), a POST    *)
(* without one or any parameter (/rate-refreshes) and a GET (the balances of *)
(* a customer).                                                              *)
Endpoints == {"submit", "trigger", "read"}
MethodOf(endpoint) == IF endpoint = "read" THEN "GET" ELSE "POST"

(* Of the content types the middleware takes application/json alone, FastAPI *)
(* also those that end in +json. (A body without a type is one of the last   *)
(* two kinds, by the release of FastAPI.)                                    *)
Inputs == {sent \in [
    method : {"GET", "POST"},
    path : Endpoints \cup {"unknown"},
    length : {"absent", "zero", "positive"},    \* content-length
    content : {"json", "json_suffix", "other"}, \* content-type
    body : {"malformed", "invalid", "valid"},   \* none at all is invalid
    params : BOOLEAN,                           \* path and header parameters are valid
    header : ClientIds \cup {None}] :           \* X-Request-ID
        /\ sent.length = "zero" => sent.body = "invalid"
        /\ sent.path = "trigger" => sent.params}

(* str(uuid4()) *)
Generated(r) == <<"uuid4", r>>

(* A handler puts the request ID in the body of an error; only the           *)
(* middleware puts it in a header.                                           *)
Problem(status, r) == [status |-> status, instance |-> id[r], header |-> None]
Success == [status |-> 200, instance |-> None, header |-> None]

-----------------------------------------------------------------------------
Init ==
    /\ input = [r \in Requests |-> None]
    /\ stage = [r \in Requests |-> "free"]
    /\ id = [r \in Requests |-> None]
    /\ answer = [r \in Requests |-> None]

Goto(r, next) == stage' = [stage EXCEPT ![r] = next]

Receive(r, sent) ==
    /\ stage[r] = "free"
    /\ Goto(r, "dispatch")
    /\ input' = [input EXCEPT ![r] = sent]
    /\ id' = [id EXCEPT ![r] = IF sent.header = None THEN Generated(r) ELSE sent.header]
    /\ UNCHANGED answer

(* _has_unsupported_json_content *)
Unsupported(sent) == sent.method = "POST" /\ sent.length = "positive" /\ sent.content # "json"

(* The refusal is returned before call_next, and with it before the header. *)
RefuseContent(r) ==
    /\ stage[r] = "dispatch"
    /\ Unsupported(input[r])
    /\ Goto(r, "sent")
    /\ answer' = [answer EXCEPT ![r] = Problem(415, r)]
    /\ UNCHANGED <<input, id>>

(* call_next returns: the middleware sets the header and sends the answer. *)
ReturnThrough(r, response) ==
    /\ Goto(r, "sent")
    /\ answer' = [answer EXCEPT ![r] = [response EXCEPT !.header = id[r]]]
    /\ UNCHANGED <<input, id>>

Pass(r, next) == Goto(r, next) /\ UNCHANGED <<input, id, answer>>

(* The router: no such path, or another method. *)
Route(r) ==
    /\ stage[r] = "dispatch"
    /\ ~Unsupported(input[r])
    /\ CASE input[r].path = "unknown" -> ReturnThrough(r, Problem(404, r))
         [] input[r].path # "unknown" /\ input[r].method # MethodOf(input[r].path) ->
                ReturnThrough(r, Problem(405, r))
         [] OTHER -> Pass(r, "validate")

(* Without a content-length a body of any type comes this far. FastAPI reads *)
(* it as JSON, or hands it on as bytes, which are no object.                 *)
Parsed(sent) == sent.length # "zero" /\ sent.content # "other"

(* _is_json_decode_error: the body is read before the parameters are. *)
Malformed(sent) == sent.path = "submit" /\ Parsed(sent) /\ sent.body = "malformed"

Valid(sent) ==
    /\ sent.params
    /\ sent.path = "submit" => Parsed(sent) /\ sent.body = "valid"

Validate(r) ==
    /\ stage[r] = "validate"
    /\ IF Malformed(input[r]) THEN ReturnThrough(r, Problem(400, r))
       ELSE IF ~Valid(input[r]) THEN ReturnThrough(r, Problem(422, r))
       ELSE Pass(r, "endpoint")

(* The endpoint returns, or raises an ApiError of app/utils/errors.py. *)
Handle(r) ==
    /\ stage[r] = "endpoint"
    /\ \/ ReturnThrough(r, Success)
       \/ \E status \in {404, 409, 422, 502, 503, 504} : ReturnThrough(r, Problem(status, r))


(* Any other exception passes the middleware on its way out. *)
HandleUnexpected(r) ==
    /\ stage[r] = "endpoint"
    /\ Goto(r, "sent")
    /\ answer' = [answer EXCEPT ![r] = Problem(500, r)]
    /\ UNCHANGED <<input, id>>

Next ==
    \E r \in Requests :
        \/ \E sent \in Inputs : Receive(r, sent)
        \/ RefuseContent(r) \/ Route(r) \/ Validate(r) \/ Handle(r) \/ HandleUnexpected(r)

Spec == Init /\ [][Next]_vars

-----------------------------------------------------------------------------
(* Properties *)

=============================================================================
