---------------------------- MODULE TaskListing -----------------------------
(***************************************************************************)
(* GET /api/admin/tasks: AdminHandler.HandleListTasks with                 *)
(* AdminRepository.ListEvents.  One request runs two statements, a count   *)
(* and then one page ordered by created_at, and rows are inserted and      *)
(* change their status between any two statements.  An operator asks for   *)
(* a single page or walks through all of them, as far as the total_pages   *)
(* of the last answer goes.                                                *)
(*                                                                         *)
(* A row is reduced to its created_at and to whether it matches the        *)
(* filters of the request (status, type, priority, search).                *)
(***************************************************************************)
EXTENDS Integers, FiniteSets, Sequences, SequencesExt

CONSTANTS
    Rows,             \* ids of the rows table events may hold
    Times,            \* values of created_at, positive
    PageParams,       \* page numbers operators type
    SizeParams,       \* page sizes operators type
    DefaultPageSize,  \* 20 in the code
    MaxPageSize,      \* 100 in the code
    IntBits,          \* width of Go's int: 64
    OffsetBits        \* width of the OFFSET parameter: 32

ASSUME ListingAssumption ==
    /\ IsFiniteSet(Rows)
    /\ Times \subseteq Nat \ {0}
    /\ PageParams \subseteq Int
    /\ SizeParams \subseteq Int
    /\ DefaultPageSize \in 1..MaxPageSize
    /\ MaxPageSize \in Nat
    /\ MaxPageSize < 2^(OffsetBits - 1)
    /\ OffsetBits \in Nat \ {0}
    /\ IntBits \in Nat
    /\ IntBits >= OffsetBits
    /\ Cardinality(Rows) < 2^(OffsetBits - 1)

VARIABLES
    table,    \* created_at (0: no such row) and match of each row
    req,      \* where the request is in HandleListTasks
    walk      \* what a walk through the pages has seen so far

vars == <<table, req, walk>>

Row == [at : Times \cup {0}, match : BOOLEAN]

NoRow == [at |-> 0, match |-> FALSE]

Matching == {r \in Rows : table[r].match}

-----------------------------------------------------------------------------
(* Numbers.                                                                *)

(* The low w bits of n, read as a signed number.                           *)
Signed(n, w) ==
    LET m == n % 2^w IN IF m >= 2^(w - 1) THEN m - 2^w ELSE m

(* strconv.Atoi with its error dropped: a number out of range reads as the *)
(* nearest in range (and something that is no number as 0).                *)
Atoi(n) ==
    CASE n >= 2^(IntBits - 1) -> 2^(IntBits - 1) - 1
      [] n < -(2^(IntBits - 1)) -> -(2^(IntBits - 1))
      [] OTHER -> n

PageOf(n) == IF Atoi(n) < 1 THEN 1 ELSE Atoi(n)

PageSizeOf(n) == IF Atoi(n) \in 1..MaxPageSize THEN Atoi(n) ELSE DefaultPageSize

(* Mutant: the product is cut to half the width.                           *)
BugOffset(page, size) == Signed((page - 1) * size, OffsetBits \div 2)

(* int32((p.Page - 1) * p.PageSize), the product taken in int.             *)
Offset(page, size) == Signed(Signed((page - 1) * size, IntBits), OffsetBits)

(* Mutant: a last page that is not full is not announced.                  *)
BugTotalPages(total, size) == total \div size

(* math.Ceil(total / pageSize).                                            *)
TotalPages(total, size) == (total + size - 1) \div size

-----------------------------------------------------------------------------
NoRequest == [pc |-> "idle", page |-> 1, size |-> DefaultPageSize, total |-> 0,
              shown |-> {}, torn |-> FALSE]

NoWalk == [on |-> FALSE, seen |-> {}, stayed |-> {}, left |-> FALSE,
           tied |-> FALSE]

Init ==
    /\ table \in [Rows -> {NoRow} \cup [at : Times, match : BOOLEAN]]
    /\ req = NoRequest
    /\ walk = NoWalk

(* HandleListTasks reads its parameters.                                   *)
HandleListTasks(page, size) ==
    req' = [NoRequest EXCEPT !.pc = "count", !.page = PageOf(page),
                             !.size = PageSizeOf(size)]

(* An operator asks for one page ...                                       *)
AskForPage(page, size) ==
    /\ req.pc = "idle"
    /\ HandleListTasks(page, size)
    /\ UNCHANGED <<table, walk>>

(* ... or for the first of all pages ...                                   *)
StartWalk(size) ==
    /\ req.pc = "idle"
    /\ HandleListTasks(1, size)
    /\ walk' = [NoWalk EXCEPT !.on = TRUE, !.stayed = Matching]
    /\ UNCHANGED table

(* ... and, while the last answer announces more of them, for the next.    *)
NextPage ==
    /\ req.pc = "answered"
    /\ walk.on
    /\ req.page < TotalPages(req.total, req.size)
    /\ HandleListTasks(req.page + 1, req.size)
    /\ UNCHANGED <<table, walk>>

(* CountEventsFiltered; an error of it is a 500.                           *)
CountEventsFiltered ==
    /\ req.pc = "count"
    /\ \/ req' = [req EXCEPT !.pc = "list", !.total = Cardinality(Matching)]
       \/ req' = [req EXCEPT !.pc = "failed"]
    /\ UNCHANGED <<table, walk>>

(* The matching rows, latest first; rows of one instant in any order.      *)
Listings ==
    {s \in SetToSeqs(Matching) :
        \A i, j \in DOMAIN s : i < j => table[s[i]].at >= table[s[j]].at}

Tied == \E r, q \in Matching : r # q /\ table[r].at = table[q].at

(* ListEventsFiltered with LIMIT and OFFSET, and the answer; an error of   *)
(* it is a 500 too, and Postgres refuses a negative offset.                *)
ListEventsFiltered ==
    LET from == Offset(req.page, req.size) IN
    /\ req.pc = "list"
    /\ \/ /\ from >= 0
          /\ \E s \in Listings :
                LET rows == {s[i] : i \in DOMAIN s \cap
                                          (from + 1)..(from + req.size)}
                IN
                /\ req' = [req EXCEPT !.pc = "answered", !.shown = rows]
                /\ walk' = IF walk.on
                           THEN [walk EXCEPT !.seen = @ \cup rows,
                                             !.tied = @ \/ Tied]
                           ELSE walk
       \/ req' = [req EXCEPT !.pc = "failed"] /\ UNCHANGED walk
    /\ UNCHANGED table

(* The answer has been read and the operator is done with it.              *)
EndRequest ==
    /\ req.pc \in {"answered", "failed"}
    /\ req' = NoRequest
    /\ walk' = NoWalk
    /\ UNCHANGED table

(* Somebody else's insert: created_at was drawn by the process before the  *)
(* statement ran, so it may be earlier than that of rows already there.    *)
InsertEvent(r, at) ==
    /\ table[r] = NoRow
    /\ table' = [table EXCEPT ![r] = [at |-> at, match |-> TRUE]]
    /\ req' = [req EXCEPT !.torn = @ \/ req.pc = "list"]
    /\ UNCHANGED walk

(* Somebody else's status update: the row leaves or enters the filter.     *)
UpdateEventStatus(r) ==
    /\ table[r] # NoRow
    /\ table' = [table EXCEPT ![r].match = ~@]
    /\ req' = [req EXCEPT !.torn = @ \/ (req.pc = "list" /\ ~table[r].match)]
    /\ walk' = [walk EXCEPT !.stayed = @ \ {r},
                            !.left = @ \/ (table[r].match /\ walk.seen # {})]

Next ==
    \/ \E page \in PageParams, size \in SizeParams : AskForPage(page, size)
    \/ \E size \in SizeParams : StartWalk(size)
    \/ NextPage \/ CountEventsFiltered \/ ListEventsFiltered \/ EndRequest
    \/ \E r \in Rows : UpdateEventStatus(r) \/ \E at \in Times : InsertEvent(r, at)

Spec == Init /\ [][Next]_vars

-----------------------------------------------------------------------------
(* Correctness properties.                                                 *)

(* A walk that read the last announced page has seen every task that       *)
(* matched from its first to its last request, whatever was inserted       *)
(* meanwhile, except when a row entered between the count and the page of  *)
(* the last request, when a row left the filter after the first page was   *)
(* read, or when two tasks have the same created_at.                       *)
WalkSeesAll ==
    /\ walk.on
    /\ req.pc = "answered"
    /\ req.page >= TotalPages(req.total, req.size)
    /\ ~(req.torn \/ walk.left \/ walk.tied)
    => walk.stayed \subseteq walk.seen

(* A page the count announces is never refused and skips exactly the pages *)
(* before it; beyond the last page no row is shown again under a second    *)
(* page number, up to the page whose offset no longer fits its parameter.  *)
PageIsItsOwn ==
    /\ req.page <= TotalPages(req.total, req.size) /\ req.pc = "list" =>
          Offset(req.page, req.size) = (req.page - 1) * req.size
    /\ req.pc = "answered" /\ req.shown # {} =>
          \/ (req.page - 1) * req.size < Cardinality(Rows)
          \/ (req.page - 1) * req.size >= 2^OffsetBits
=============================================================================
