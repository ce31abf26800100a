----------------------------- MODULE MCSession ------------------------------
(* The credential that one session holds, and the memo of decisions that   *)
(* its client keeps beside it.  The memo never reads the jar, and what     *)
(* clears it is an action of both, so one behaviour is one of the two      *)
(* parts, chosen at the start.                                             *)
EXTENDS MCDecisionMemo

CONSTANTS
    r1, r2, l1, d1, o1, NoOne,
    Requesters, Logins, Devices, Logouts

(* A coroutine makes one kind of call.                                     *)
ASSUME RolesAssumption == Requesters \cap (Logins \cup Devices \cup Logouts) = {}

VARIABLES
    part,
    spc, jar, bearer, guard, lock, baseline, entered, observed, request, held,
    answer, redeemable, issued

session == <<spc, jar, bearer, guard, lock, baseline, entered, observed,
             request, held, answer, redeemable, issued>>
mcvars == <<part, vars, session>>

Session == INSTANCE Session

MCInit ==
    /\ part \in {"memo", "session"}
    /\ Init /\ Session!Init
    /\ part # "memo" =>
          /\ asks = [c \in Checkers |-> [question |-> q1, tenant |-> own]]
          /\ kind = [c \in Changers |-> "login"]
          /\ principal = p1

MemoPart == part = "memo" /\ Next /\ UNCHANGED <<part, session>>
SessionPart == part = "session" /\ Session!Next /\ UNCHANGED <<part, vars>>

MCNext == MemoPart \/ SessionPart

MCSpec == MCInit /\ [][MCNext]_mcvars

(* Callers that make one kind of call are interchangeable;                 *)
(* every property is of safety.                                            *)
MCSymmetry == Permutations(Checkers) \cup Permutations(Requesters)

-----------------------------------------------------------------------------
(* Of the session: while a device credential is held, no request is sent   *)
(* that the server would run as an earlier session.                        *)
RunsAsAdopted == Session!RunsAsAdopted

(* Of the session: the guard of a session with a device credential has     *)
(* nothing to compare with, whatever answers are still to come.            *)
BaselineForgotten == Session!BaselineForgotten

(* Of the session: a login that returned normally leaves a credential      *)
(* until somebody logs out.                                                *)
NotStranded == Session!NotStranded
=============================================================================
