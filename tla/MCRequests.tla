----------------------------- MODULE MCRequests -----------------------------
(* The requests an application sends through the management surface, and   *)
(* those it guards. They share no state, so one behaviour is one of the    *)
(* two, chosen at the start: a list_all and a create on a small collection *)
(* with other writers, or one request put to the guards of both web        *)
(* frameworks.                                                             *)
EXTENDS ManagementCalls, Integers, TLC

CONSTANTS Cases, Skew

VARIABLES part, case, stage, user, response

web == <<case, stage, user, response>>
mcvars == <<part, vars, web>>

-----------------------------------------------------------------------------
(* What a request may be: its route, its configuration, its credential,    *)
(* its claims and what the server will answer about it.                    *)
Request ==
    [route : {"user", "role", "access", "document"},
     safe : BOOLEAN, mcp : BOOLEAN, uma : BOOLEAN,
     header : {"bearer", "absent", "other"}, cookie : BOOLEAN,
     csrf : {"equal", "absent", "different"},
     alg : {"EdDSA", "other"}, key : {"known", "unknown"},
     sub : {"user", "empty", "absent"},
     exp : Int, expType : {"number", "absent", "text"},
     nbf : Int, nbfType : {"number", "absent", "text"},
     tenant : {"configured", "other", "absent"},
     iss : {"expected", "other"}, aud : {"expected", "other"},
     revoked : BOOLEAN, cnf : {"absent", "bound", "unknown"},
     claims : {"role", "roles", "absent", "null", "other", "number"},
     resource : {"uuid", "missing", "garbled"},
     decision : {"allowed", "no_grant", "denied_by_rule", "authz_error", "undecided"},
     ticket : BOOLEAN, scope : BOOLEAN, installed : BOOLEAN,
     expectsIssuer : BOOLEAN, expectsAudience : BOOLEAN]

(* The document is asked for where it is configured; a metadata URL asks   *)
(* for an audience (validate_mcp_configuration).                           *)
ASSUME CasesAssumption ==
    /\ Skew \in Nat
    /\ \A r \in Cases :
          /\ r \in Request
          /\ r.route = "document" => r.mcp
          /\ r.mcp => r.expectsAudience

(* Requests that differ in at most two fields from one that is served, for *)
(* every kind of route, credential and configuration.                      *)
Values ==
    [header |-> {"bearer", "absent", "other"}, cookie |-> BOOLEAN,
     csrf |-> {"equal", "absent", "different"},
     alg |-> {"EdDSA", "other"}, key |-> {"known", "unknown"},
     sub |-> {"user", "empty", "absent"},
     exp |-> -2..1, expType |-> {"number", "absent", "text"},
     nbf |-> 0..2, nbfType |-> {"number", "absent", "text"},
     tenant |-> {"configured", "other", "absent"},
     iss |-> {"expected", "other"}, aud |-> {"expected", "other"},
     revoked |-> BOOLEAN, cnf |-> {"absent", "bound", "unknown"},
     claims |-> {"role", "roles", "absent", "null", "other", "number"},
     resource |-> {"uuid", "missing", "garbled"},
     decision |-> {"allowed", "no_grant", "denied_by_rule", "authz_error", "undecided"},
     ticket |-> BOOLEAN, scope |-> BOOLEAN, installed |-> BOOLEAN,
     expectsIssuer |-> BOOLEAN, expectsAudience |-> BOOLEAN]

Good ==
    [header |-> "bearer", cookie |-> TRUE, csrf |-> "equal",
     alg |-> "EdDSA", key |-> "known", sub |-> "user",
     exp |-> 1, expType |-> "number", nbf |-> 0, nbfType |-> "absent",
     tenant |-> "configured", iss |-> "expected", aud |-> "expected",
     revoked |-> FALSE, cnf |-> "absent", claims |-> "role",
     resource |-> "uuid", decision |-> "allowed",
     ticket |-> TRUE, scope |-> TRUE, installed |-> TRUE,
     expectsIssuer |-> TRUE, expectsAudience |-> TRUE]

(* The document is asked for with GET, and only require_access takes a     *)
(* challenger.                                                             *)
Bases ==
    { b \in [route : {"user", "role", "access", "document"},
             safe : BOOLEAN, mcp : BOOLEAN, uma : BOOLEAN] :
        /\ b.route = "document" => b.safe /\ b.mcp
        /\ b.uma => b.route = "access" }

Deviations == UNION { { <<f, v>> : v \in Values[f] } : f \in DOMAIN Values }

Requests ==
    { r \in { b @@ [Good EXCEPT !.header = h, ![d[1]] = d[2], ![e[1]] = e[2]] :
                b \in Bases, h \in {"bearer", "absent"}, d, e \in Deviations } :
        r.mcp => r.expectsAudience }

-----------------------------------------------------------------------------
Web == INSTANCE WebGuard

MCInit ==
    /\ part \in {"management", "web"}
    /\ Init
    /\ IF part = "web"
          THEN collection = <<>> /\ limit = 1 /\ ~(fresh \/ bearer \/ search)
          ELSE case = Good @@ [route |-> "user", safe |-> TRUE, mcp |-> FALSE, uma |-> FALSE]
    /\ Web!Init

ManagementPart == part = "management" /\ Next /\ UNCHANGED <<part, web>>
WebPart == part = "web" /\ Web!Next /\ UNCHANGED <<part, vars>>

MCNext == ManagementPart \/ WebPart

(* The fairness of ManagementCalls!Spec.                                   *)
MCSpec ==
    /\ MCInit /\ [][MCNext]_mcvars
    /\ WF_mcvars(part = "management" /\ Walk /\ UNCHANGED <<part, web>>)

-----------------------------------------------------------------------------
(* Of the web guards: a route opens to the entitled and to nobody else     *)
(* (_authenticate of both frameworks, require_access and require_role).    *)
OpensToTheEntitled == Web!OpensToTheEntitled

(* Of the web guards: FastAPI and Django answer every request alike.       *)
GuardsAgree == Web!GuardsAgree
=============================================================================
