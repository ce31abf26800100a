------------------------------ MODULE WebGuard ------------------------------
(* The guards of web routes: the dependencies of fastapi/__init__.py, and  *)
(* the middleware with the decorators of django, each written out on its   *)
(* own over one verifier (verify_access_token of _jwks.py) and one set of  *)
(* challenges (_mcp.py). A request is put to both, one after the other.    *)
(* The web frameworks, PyJWT and the server are external.                  *)
EXTENDS Integers

CONSTANTS
    Cases,  \* the requests: route, configuration, credential, claims, answers
    Skew    \* clock_skew_seconds

Frameworks == {"fastapi", "django"}

VARIABLES
    case,      \* the request under way, a member of Cases
    stage,     \* framework -> how far its guard has come
    user,      \* framework -> the roles of axiam_user, or "none"
    response   \* framework -> its status and WWW-Authenticate challenge

vars == <<case, stage, user, response>>

Init ==
    /\ case \in Cases
    /\ stage = [f \in Frameworks |-> "extract"]
    /\ user = [f \in Frameworks |-> "none"]
    /\ response = [f \in Frameworks |-> [status |-> 0, challenge |-> "none"]]

Goes(f, s) ==
    /\ stage' = [stage EXCEPT ![f] = s]
    /\ UNCHANGED <<case, user, response>>

Responds(f, status, challenge) ==
    /\ stage' = [stage EXCEPT ![f] = "done"]
    /\ response' = [response EXCEPT ![f] = [status |-> status, challenge |-> challenge]]
    /\ UNCHANGED <<case, user>>

Knows(f, roles) ==
    /\ stage' = [stage EXCEPT ![f] = "route"]
    /\ user' = [user EXCEPT ![f] = roles]
    /\ UNCHANGED <<case, response>>

(* challenge_for_401: there is a challenge when resource_metadata_url is   *)
(* set, and it names an error when a credential was presented.             *)
Challenge401(presented) ==
    IF ~case.mcp THEN "none" ELSE IF presented THEN "invalid_token" ELSE "no_credential"

Unauthorized(f, presented) == Responds(f, 401, Challenge401(presented))

(* challenge_for_403.                                                      *)
Challenge403(reason) ==
    IF case.mcp /\ case.scope /\ reason = "no_grant" THEN "insufficient_scope" ELSE "none"

-----------------------------------------------------------------------------
(* PyJWT coerces exp and nbf to numbers; the verifier then wants numbers.  *)
Expired == case.exp <= 0 - Skew
Immature == case.nbfType = "number" /\ case.nbf > Skew

(* Mutant: exp is looked at only when it is there.                         *)
Current_IfPresent ==
    case.expType \in {"number", "absent"} /\ (case.expType = "number" => ~Expired)

(* Rules 2, 3 and 7, relative to now: exp must be there and a number.      *)
Current == case.expType = "number" /\ ~Expired

Mature == case.nbfType \in {"number", "absent"} /\ ~Immature

(* Rule 9, without evidence: any cnf is refused.                           *)
Unbound == case.cnf = "absent"

(* _verify_claims and verify_token_binding.                                *)
Verified ==
    /\ case.alg = "EdDSA" /\ case.key = "known"
    /\ case.sub # "absent"
    /\ Current /\ Mature
    /\ case.tenant = "configured"
    /\ case.expectsIssuer => case.iss = "expected"
    /\ case.expectsAudience => case.aud = "expected"
    /\ ~case.revoked
    /\ Unbound

Roles == IF case.claims \in {"role", "roles"} THEN "held" ELSE "lacking"

(* list(roles_claim) of a number raises TypeError, and nobody catches it.  *)
Iterable == case.claims # "number"

(* The double submit; both texts are taken to be ASCII, as the client      *)
(* writes them.                                                            *)
CsrfHolds == case.csrf = "equal"

-----------------------------------------------------------------------------
(* _extract_token: a header of another kind is no credential, and the      *)
(* cookie is not looked at. The document's route has no dependency.        *)
FastApiExtract ==
    /\ stage["fastapi"] = "extract"
    /\ \/ case.route = "document" /\ Responds("fastapi", 200, "none")
       \/ /\ case.route # "document"
          /\ \/ case.header = "bearer" /\ Goes("fastapi", "verify")
             \/ case.header = "other" /\ Unauthorized("fastapi", FALSE)
             \/ case.header = "absent" /\ case.cookie /\ Goes("fastapi", "csrf")
             \/ case.header = "absent" /\ ~case.cookie /\ Unauthorized("fastapi", FALSE)

(* Mutant: a header of another kind lets the cookie speak.                 *)
Presented_FallsBack == case.header = "bearer" \/ case.cookie

(* The django _extract_token.                                              *)
Presented == case.header = "bearer" \/ (case.header = "absent" /\ case.cookie)

(* is_metadata_document_request, in front of every view.                   *)
Exempt == case.mcp /\ case.route = "document"

(* AxiamAuthMiddleware._authenticate; a view may be without it.            *)
DjangoExtract ==
    /\ stage["django"] = "extract" /\ stage["fastapi"] = "done"
    /\ \/ (Exempt \/ ~case.installed) /\ Goes("django", "route")
       \/ /\ ~Exempt /\ case.installed
          /\ \/ ~Presented /\ Unauthorized("django", FALSE)
             \/ Presented /\ Goes("django", IF case.header = "bearer" THEN "verify" ELSE "csrf")

CsrfNeeded == ~case.safe

(* _assert_csrf_valid and _is_csrf_valid, for a cookie's credential only.  *)
Csrf(f) ==
    /\ stage[f] = "csrf"
    /\ \/ (CsrfNeeded => CsrfHolds) /\ Goes(f, "verify")
       \/ CsrfNeeded /\ ~CsrfHolds /\ Responds(f, 403, "none")

(* verify_access_token, whose failures are all one 401; then the scope     *)
(* claim is read for the roles, and only then the subject.                 *)
FastApiVerify ==
    /\ stage["fastapi"] = "verify"
    /\ \/ ~Verified /\ Unauthorized("fastapi", TRUE)
       \/ Verified /\ ~Iterable /\ Responds("fastapi", 500, "none")
       \/ Verified /\ Iterable /\ case.sub = "empty" /\ Unauthorized("fastapi", TRUE)
       \/ Verified /\ Iterable /\ case.sub = "user" /\ Knows("fastapi", Roles)

(* _build_user, of whose failures _MalformedClaims alone is caught.        *)
Malformed == case.sub = "empty"

DjangoVerify ==
    /\ stage["django"] = "verify"
    /\ \/ ~Verified /\ Unauthorized("django", TRUE)
       \/ Verified /\ ~Iterable /\ Responds("django", 500, "none")
       \/ Verified /\ Iterable /\ Malformed /\ Unauthorized("django", TRUE)
       \/ Verified /\ Iterable /\ ~Malformed /\ Knows("django", Roles)

(* The dependencies, after _authenticate.                                  *)
FastApiRoute ==
    /\ stage["fastapi"] = "route"
    /\ \/ case.route = "user" /\ Responds("fastapi", 200, "none")
       \/ case.route = "role" /\ user["fastapi"] = "held" /\ Responds("fastapi", 200, "none")
       \/ case.route = "role" /\ user["fastapi"] # "held" /\ Responds("fastapi", 403, "none")
       \/ /\ case.route = "access"
          /\ IF case.resource = "uuid" THEN Goes("fastapi", "check")
                                       ELSE Responds("fastapi", 400, "none")

UserMissing == user["django"] = "none"

(* The decorators look for axiam_user first; the document has none.        *)
DjangoRoute ==
    /\ stage["django"] = "route"
    /\ \/ case.route = "document" /\ Responds("django", 200, "none")
       \/ /\ case.route # "document" /\ UserMissing
          /\ Unauthorized("django", Presented)
       \/ /\ case.route # "document" /\ ~UserMissing
          /\ \/ case.route = "user" /\ Responds("django", 200, "none")
             \/ /\ case.route = "role"
                /\ Responds("django", IF user["django"] = "held" THEN 200 ELSE 403, "none")
             \/ /\ case.route = "access"
                /\ IF case.resource = "uuid" THEN Goes("django", "check")
                                             ELSE Responds("django", 400, "none")

(* AuthError or NetworkError: no decision was had.                         *)
Undecided == case.decision = "undecided"

(* check_access of the request's own subject.                              *)
Check(f) ==
    /\ stage[f] = "check"
    /\ \/ Undecided /\ Responds(f, 503, "none")
       \/ case.decision = "allowed" /\ Responds(f, 200, "none")
       \/ /\ case.decision \in {"no_grant", "denied_by_rule", "authz_error"}
          /\ Goes(f, "deny")

(* _denied: mint a ticket when the route has a challenger; else, or if     *)
(* that fails, the challenge of the MCP configuration.                     *)
Deny(f) ==
    /\ stage[f] = "deny"
    /\ \/ case.uma /\ case.ticket /\ Responds(f, 403, "uma")
       \/ ~(case.uma /\ case.ticket) /\ Responds(f, 403, Challenge403(case.decision))

Next ==
    \/ FastApiExtract \/ FastApiVerify \/ FastApiRoute
    \/ DjangoExtract \/ DjangoVerify \/ DjangoRoute
    \/ \E f \in Frameworks : Csrf(f) \/ Check(f) \/ Deny(f)

Spec == Init /\ [][Next]_vars

-----------------------------------------------------------------------------
(* Types (case never changes): the stage of each guard, what it knows and  *)
(* what it answered.                                                       *)
TypeOK ==
    /\ stage \in [Frameworks ->
          {"extract", "csrf", "verify", "route", "check", "deny", "done"}]
    /\ user \in [Frameworks -> {"none", "held", "lacking"}]
    /\ response \in [Frameworks ->
          [status : {0, 200, 400, 401, 403, 500, 503},
           challenge : {"none", "no_credential", "invalid_token",
                        "insufficient_scope", "uma"}]]

Done(f) == stage[f] = "done"

(* What CONTRACT.md §10.1 and §11 ask of a request that is let in.         *)
Entitled(f) ==
    \/ case.route = "document"
    \/ /\ \/ case.header = "bearer"
          \/ case.header = "absent" /\ case.cookie /\ (case.safe \/ case.csrf = "equal")
       /\ case.alg = "EdDSA" /\ case.key = "known" /\ case.sub = "user"
       /\ case.expType = "number" /\ case.exp + Skew > 0
       /\ case.nbfType = "absent" \/ (case.nbfType = "number" /\ case.nbf <= Skew)
       /\ case.tenant = "configured" /\ case.cnf = "absent" /\ ~case.revoked
       /\ (case.expectsIssuer => case.iss = "expected")
       /\ (case.mcp \/ case.expectsAudience => case.aud = "expected")
       /\ case.claims # "number"
       /\ f = "django" => case.installed
       /\ case.route = "role" => case.claims \in {"role", "roles"}
       /\ case.route = "access" => case.resource = "uuid" /\ case.decision = "allowed"

(* A route opens to the entitled and to nobody else: across the order of   *)
(* credential, double submit, claims, user and decision, and the shortcut  *)
(* past the middleware for the metadata document (_authenticate of both    *)
(* frameworks, require_access and require_role).                           *)
OpensToTheEntitled ==
    \A f \in Frameworks : Done(f) => (response[f].status = 200 <=> Entitled(f))

(* The two frameworks, written apart, answer every request alike: the same *)
(* status and the same challenge, when the middleware is installed.        *)
GuardsAgree ==
    (case.installed /\ \A f \in Frameworks : Done(f))
        => response["fastapi"] = response["django"]
=============================================================================
