------------------------------ MODULE Requests -------------------------------
(***************************************************************************)
(* The handler of backend/torando_gui/server.py: what a request makes the  *)
(* daemon do, and the status it is answered with.                          *)
(*                                                                         *)
(* A request is a record: method; host and origin ("ours", "other", or     *)
(* "absent"; the origin is that of Origin or else of Referer); path;       *)
(* header and query, the two tokens ("ours", "other", "absent"); and body  *)
(* ("good", "bad", "large").  raises says how the operation behind it      *)
(* ends: "nothing", "ValueError" (or RuntimeError), "other".               *)
(***************************************************************************)
EXTENDS Naturals

Ok == 200
BadRequest == 400
Unauthorized == 401
Forbidden == 403
NotFound == 404
Failed == 500

\* The answer, and the operation of App that ran.
Reply(status, runs) == [status |-> status, runs |-> runs]
Refuse(status) == Reply(status, "nothing")

HostOk(r) == r.host = "ours"

\* Mutant: the token in the query is good for every verb.
TokenAnywhere(r) == r.header = "ours" \/ r.query = "ours"

\* The token in the query is good for GET alone.
TokenOk(r) == r.header = "ours" \/ (r.method = "GET" /\ r.query = "ours")

OriginOk(r) == r.origin \in {"ours", "absent"}

Pages == {"/", "/app.js"}
Reading == {"/api/health", "/api/status", "/api/users", "/api/exit", "/api/events"}
Changing == {"/api/connect", "/api/disconnect", "/api/newnym", "/api/config"}
Paths == Pages \union Reading \union Changing \union {"/elsewhere", "/api/elsewhere"}
Api(path) == path \notin Pages \union {"/elsewhere"}

Token == {"ours", "other", "absent"}
Request ==
  [method : {"GET", "HEAD", "POST"}, host : {"ours", "other"}, origin : Token,
   header : Token, query : Token, body : {"good", "bad", "large"},
   path : Paths, raises : {"nothing", "ValueError", "other"}]

\* _api_get: an operation that raises is answered with 500; HEAD has no
\* event stream.
ApiGet(r) ==
  IF r.path \notin Reading THEN Refuse(NotFound)
  ELSE Reply(IF r.raises # "nothing" /\ r.path # "/api/events" THEN Failed ELSE Ok,
             IF r.path = "/api/events" /\ r.method = "HEAD" THEN "nothing" ELSE r.path)

\* _body_json: JSON, or nothing, and of one megabyte at most.
BodyOk(r) == r.body = "good"

\* _api_post: the body is read first.
ApiPost(r) ==
  CASE ~BodyOk(r)                           -> Refuse(BadRequest)
    [] BodyOk(r) /\ r.path \notin Changing -> Refuse(NotFound)
    [] OTHER -> Reply(CASE r.raises = "nothing"    -> Ok
                        [] r.raises = "ValueError" -> BadRequest
                        [] r.raises = "other"      -> Failed, r.path)

\* do_GET, which do_HEAD calls
DoGet(r) ==
  CASE ~HostOk(r)                               -> Refuse(Forbidden)
    [] HostOk(r) /\ r.path \in Pages            -> Reply(Ok, "nothing")
    [] HostOk(r) /\ Api(r.path) /\ ~TokenOk(r)  -> Refuse(Unauthorized)
    [] HostOk(r) /\ Api(r.path) /\ TokenOk(r)   -> ApiGet(r)
    [] OTHER                                    -> Refuse(NotFound)

DoPost(r) ==
  CASE ~HostOk(r)                                         -> Refuse(Forbidden)
    [] HostOk(r) /\ ~Api(r.path)                          -> Refuse(NotFound)
    [] HostOk(r) /\ Api(r.path) /\ ~TokenOk(r)            -> Refuse(Unauthorized)
    [] HostOk(r) /\ Api(r.path) /\ TokenOk(r) /\ ~OriginOk(r) -> Refuse(Forbidden)
    [] OTHER                                              -> ApiPost(r)

Handle(r) == IF r.method = "POST" THEN DoPost(r) ELSE DoGet(r)

=============================================================================
