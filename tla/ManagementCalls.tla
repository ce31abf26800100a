-------------------------- MODULE ManagementCalls ---------------------------
(* The requests of the management surface (management/_request.py): a      *)
(* list_all that walks a collection page by page (management/_page.py) and *)
(* a create, each through the refresh after a 401 and, if it only reads,   *)
(* through the retry runner (_retry.py), while other administrators create *)
(* and delete rows. The server is external.                                *)
EXTENDS Naturals, Sequences, FiniteSets, SequencesExt

CONSTANTS
    Mine,          \* the rows that create() may make
    Others,        \* the rows that other administrators may create
    Matching,      \* the rows that a search term selects
    MAX_ATTEMPTS,
    MaxRows,       \* bound on the collection at the start
    MaxPage,       \* bound on the page size
    MaxWrites      \* bound on the other administrators' writes

(* A new row is another than those there are.                              *)
ASSUME RowsAssumption ==
    /\ Mine \cap Others = {} /\ (Mine \cup Others) \cap (1 .. MaxRows) = {}
    /\ MaxRows \in Nat /\ MaxPage \in Nat

Calls == {"list_all", "create"}

VARIABLES
    collection,  \* the server's rows, in the order it lists them
    fresh,       \* the server accepts the session's credential
    bearer,      \* that credential is an adopted device token
    search,      \* list_all was given a search term
    limit,       \* the page size: PageRequest.limit or the server's own
    pc,          \* call -> where it is
    attempt,     \* call -> the attempt of retry_sync under way
    resent,      \* call -> this attempt was sent again after a refresh
    offset,      \* PageRequest.offset of the page asked for
    out,         \* what collect_pages has gathered
    result,      \* call -> ok, error (the server's) or unknown (NetworkError)
    writes,      \* foreign writes so far
    made,        \* history: the rows created so far
    throughout,  \* history: matching rows that were there all along the walk
    inserted, deleted \* history: rows added, removed since the walk began

config == <<bearer, search, limit>>
progress == <<pc, attempt, resent, result>>
walk == <<offset, out>>
history == <<throughout, inserted, deleted>>
vars == <<collection, fresh, config, progress, walk, writes, made, history>>

Rows == 1 .. MaxRows \cup Mine \cup Others

(* The rows that list_all asks for: the server filters before it pages.    *)
Selected(r) == search => r \in Matching

View(s) ==
    LET shown[n \in 0 .. Len(s)] ==
          IF n = 0 THEN <<>>
          ELSE IF Selected(s[n]) THEN Append(shown[n - 1], s[n])
          ELSE shown[n - 1]
    IN  shown[Len(s)]

(* Rows are named by the order in which the server lists them at first.    *)
Init ==
    /\ \E n \in 0 .. MaxRows : collection = [i \in 1 .. n |-> i]
    /\ fresh \in BOOLEAN /\ bearer \in BOOLEAN /\ search \in BOOLEAN
    /\ limit \in 1 .. MaxPage
    /\ pc = [c \in Calls |-> "called"]
    /\ attempt = [c \in Calls |-> 1] /\ resent = [c \in Calls |-> FALSE]
    /\ offset = 0 /\ out = <<>>
    /\ result = [c \in Calls |-> "none"]
    /\ writes = 0
    /\ made = {}
    /\ throughout = {} /\ inserted = 0 /\ deleted = 0

-----------------------------------------------------------------------------
(* A request leaves: the n-th attempt, or its resend.                      *)
Sends(c, n, again) ==
    /\ pc' = [pc EXCEPT ![c] = "sent"]
    /\ attempt' = [attempt EXCEPT ![c] = n]
    /\ resent' = [resent EXCEPT ![c] = again]
    /\ UNCHANGED result

Ends(c, r) ==
    /\ pc' = [pc EXCEPT ![c] = "done"]
    /\ result' = [result EXCEPT ![c] = r]
    /\ UNCHANGED <<attempt, resent>>

(* Mutant: a write goes through the retry runner too.                      *)
Retried_Writes(c) == attempt[c] < MAX_ATTEMPTS

(* Only GET goes through retry_sync (section 27.4 rule 8).                 *)
Retried(c) == c = "list_all" /\ attempt[c] < MAX_ATTEMPTS

NetworkFails(c) ==
    IF Retried(c) THEN Sends(c, attempt[c] + 1, FALSE)
                  ELSE Ends(c, "unknown")

(* A 401 is refreshed once in an attempt, and never for a device token.    *)
Refreshes(c) == ~bearer /\ ~resent[c]

-----------------------------------------------------------------------------
(* The call is made, with a session: its first request leaves.             *)
Begin(c) ==
    /\ pc[c] = "called"
    /\ Sends(c, 1, FALSE)
    /\ throughout' = IF c = "list_all" THEN ToSet(View(collection)) ELSE throughout
    /\ inserted' = IF c = "list_all" THEN 0 ELSE inserted
    /\ deleted' = IF c = "list_all" THEN 0 ELSE deleted
    /\ UNCHANGED <<collection, fresh, config, walk, writes, made>>

Shown(all) ==
    SubSeq(all, offset + 1,
           IF offset + limit <= Len(all) THEN offset + limit ELSE Len(all))

(* Mutant: the search term is sent with the first page only.               *)
Items_Unfiltered == Shown(IF offset = 0 THEN View(collection) ELSE collection)

(* The page at offset: PageRequest carries limit and search along.         *)
Items == Shown(View(collection))

(* Mutant: only the total ends the walk.                                   *)
Exhausted_Total(total) == offset + Len(Items) >= total

(* collect_pages stops at an empty page, whatever the total, or past it.   *)
Exhausted(total) == Items = <<>> \/ offset + Len(Items) >= total

(* Where the next page begins.                                             *)
NextOffset == offset + Len(Items)

(* A page arrives; the total it states may be one too many.                *)
Page(excess) ==
    /\ pc["list_all"] = "sent" /\ fresh
    /\ out' = out \o Items
    /\ IF Exhausted(Len(View(collection)) + excess)
          THEN Ends("list_all", "ok") /\ UNCHANGED offset
          ELSE Sends("list_all", 1, FALSE) /\ offset' = NextOffset
    /\ UNCHANGED <<collection, fresh, config, writes, made, history>>

(* A row comes into the listing at some place.                             *)
Appears(r) ==
    /\ \E i \in 1 .. Len(collection) + 1 : collection' = InsertAt(collection, i, r)
    /\ inserted' = inserted + 1
    /\ UNCHANGED <<throughout, deleted>>

(* The server makes create()'s row; its answer arrives or is lost.         *)
Create(lost) ==
    /\ pc["create"] = "sent" /\ fresh
    /\ \E r \in Mine \ made : Appears(r) /\ made' = made \cup {r}
    /\ IF lost THEN NetworkFails("create") ELSE Ends("create", "ok")
    /\ UNCHANGED <<fresh, config, walk, writes>>

(* 400, 403, 404, 409 or 422: an error, and nothing was written.           *)
Refused(c) ==
    /\ pc[c] = "sent" /\ fresh
    /\ Ends(c, "error")
    /\ UNCHANGED <<collection, fresh, config, walk, writes, made, history>>

(* A transport failure, a 429 or a 5xx, before the server did anything.    *)
Fails(c) ==
    /\ pc[c] = "sent"
    /\ NetworkFails(c)
    /\ UNCHANGED <<collection, fresh, config, walk, writes, made, history>>

(* 401.                                                                    *)
Unauthorized(c) ==
    /\ pc[c] = "sent" /\ ~fresh
    /\ IF Refreshes(c)
          THEN pc' = [pc EXCEPT ![c] = "refreshing"]
               /\ UNCHANGED <<attempt, resent, result>>
          ELSE Ends(c, "error")
    /\ UNCHANGED <<collection, fresh, config, walk, writes, made, history>>

(* _retry_after_refresh: the request is sent once more in this attempt.    *)
Refreshed(c) ==
    /\ pc[c] = "refreshing"
    /\ fresh' = TRUE
    /\ Sends(c, attempt[c], TRUE)
    /\ UNCHANGED <<collection, config, walk, writes, made, history>>

(* The refresh is refused, or fails as a request does.                     *)
RefreshFails(c) ==
    /\ pc[c] = "refreshing"
    /\ Ends(c, "error") \/ NetworkFails(c)
    /\ UNCHANGED <<collection, fresh, config, walk, writes, made, history>>

(* The access token expires, the session is revoked.                       *)
Expire ==
    /\ fresh /\ fresh' = FALSE
    /\ UNCHANGED <<collection, config, progress, walk, writes, made, history>>

(* Another administrator writes. Before the walk that would be another     *)
(* collection to start from; after it, nobody looks.                       *)
OtherWrites ==
    /\ pc["list_all"] \in {"sent", "refreshing"}
    /\ writes < MaxWrites /\ writes' = writes + 1

OtherCreates ==
    /\ OtherWrites
    /\ \E r \in Others \ made : Appears(r) /\ made' = made \cup {r}
    /\ UNCHANGED <<fresh, config, progress, walk>>

OtherDeletes(i) ==
    /\ OtherWrites
    /\ collection' = RemoveAt(collection, i)
    /\ throughout' = throughout \ {collection[i]}
    /\ deleted' = deleted + 1
    /\ UNCHANGED <<fresh, config, progress, walk, made, inserted>>

Step(c) ==
    \/ Begin(c) \/ Refused(c) \/ Fails(c)
    \/ Unauthorized(c) \/ Refreshed(c) \/ RefreshFails(c)

Pages == \E excess \in {0, 1} : Page(excess)

Walk == Pages \/ Step("list_all")

Next ==
    \/ Pages
    \/ \E c \in Calls : Step(c)
    \/ \E lost \in BOOLEAN : Create(lost)
    \/ Expire \/ OtherCreates
    \/ \E i \in DOMAIN collection : OtherDeletes(i)

(* The caller runs and each request ends, with an answer or by its         *)
(* timeout; nothing is asked of the server or of the other administrators. *)
Spec == Init /\ [][Next]_vars /\ WF_vars(Walk)

-----------------------------------------------------------------------------
TypeOK ==
    /\ collection \in Seq(Rows)
    /\ pc \in [Calls -> {"called", "sent", "refreshing", "done"}]
    /\ attempt \in [Calls -> 1 .. MAX_ATTEMPTS]
    /\ resent \in [Calls -> BOOLEAN]
    /\ offset \in Nat /\ out \in Seq(Rows)
    /\ result \in [Calls -> {"none", "ok", "error", "unknown"}]
    /\ made \subseteq Mine \cup Others /\ throughout \subseteq Rows

Walked == result["list_all"] = "ok"

(* Offsets shift under a walk, but each foreign deletion costs it at most  *)
(* one row that was there all along, and each insertion repeats at most    *)
(* one; so a walk during which nobody wrote is exact, whatever failed and  *)
(* was retried, and whatever the page size and the reported total (section *)
(* 27.4 rule 4). It returns nothing the search term does not select.       *)
OneRowPerWrite ==
    Walked =>
        /\ Cardinality(throughout \ ToSet(out)) <= deleted
        /\ Len(out) - Cardinality(ToSet(out)) <= inserted
        /\ search => ToSet(out) \subseteq Matching

(* What create() made is what its outcome says: one row if it returned,    *)
(* none if the server's error was raised, and if it ended in a             *)
(* NetworkError at most one; expired tokens and lost answers never make a  *)
(* second ("every write on this surface is issued exactly once").          *)
WriteIsTruthful ==
    /\ Cardinality(made \cap Mine) <= 1
    /\ result["create"] = "ok" => made \cap Mine # {}
    /\ result["create"] = "error" => made \cap Mine = {}

(* A walk ends, also when the server's total is wrong ("costs one wasted   *)
(* request rather than an unbounded loop").                                *)
WalkEnds == pc["list_all"] # "called" ~> pc["list_all"] = "done"
=============================================================================
