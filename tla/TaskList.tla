------------------------------ MODULE TaskList ------------------------------
(***************************************************************************)
(* InMemory.List (a2asrv/taskstore/inmemory.go): a client pages through    *)
(* the tasks of a user, newest update first, while tasks are created and   *)
(* updated.  The page token names the last task of a page by its time and  *)
(* its id; nothing is kept between two calls.  Stored tasks are replaced,  *)
(* never changed, so a call sees the map as it was under the read lock.    *)
(*                                                                         *)
(* Ids are numbers, ordered as the strings are.  The clock does not go     *)
(* back but may stand still between two writes.                            *)
(***************************************************************************)
EXTENDS Integers, SequencesExt

CONSTANTS
    Ids,
    Underscored,      \* ids that contain an underscore
    OwnerOf,          \* the user that created a task
    ContextOf,        \* its context
    States,
    Requests,         \* the list requests a client may page through
    DefaultPageSize,  \* 50 in the code
    MaxPageSize,      \* 100 in the code
    MaxTime,          \* bound: the clock
    Anonymous,        \* the user name ""
    Nil

VARIABLES
    tasks,      \* InMemory.tasks: per id Nil or [state, stamp, lastUpdated]
    clock,
    request,    \* the client's request without its token
    pc,         \* "idle", "paging", "done", "refused" (the request) or "badToken"
    token,      \* the token of the next page, Nil for the first
    listed,     \* the ids of the pages so far
    touched     \* history: the tasks written since the client began

vars == <<tasks, clock, request, pc, token, listed, touched>>

Stored == [state : States, stamp : (0..MaxTime) \cup {Nil}, lastUpdated : 0..MaxTime]

Init ==
    /\ tasks = [i \in Ids |-> Nil] /\ clock = 0
    /\ request \in Requests /\ pc = "idle"
    /\ token = Nil /\ listed = <<>> /\ touched = {}

-----------------------------------------------------------------------------
(* Writes *)

\* The status may carry a timestamp.  Writes after the client has finished are
\* not looked at.
Put(i, now, state) ==
    /\ pc \in {"idle", "paging"}
    /\ clock' = now /\ touched' = IF pc = "idle" THEN {} ELSE touched \cup {i}
    /\ \E stamp \in {now, Nil} :
          tasks' = [tasks EXCEPT ![i] = [state |-> state, stamp |-> stamp, lastUpdated |-> now]]
    /\ UNCHANGED <<request, pc, token, listed>>

Now == {clock, clock + 1} \cap 0..MaxTime

Create(i) == tasks[i] = Nil /\ \E now \in Now, s \in States : Put(i, now, s)

Update(i) == tasks[i] # Nil /\ \E now \in Now, s \in States : Put(i, now, s)

-----------------------------------------------------------------------------
(* List *)

filterTasks(r) ==
    {i \in Ids : /\ tasks[i] # Nil
                 /\ OwnerOf[i] = r.user
                 /\ r.context # Nil => ContextOf[i] = r.context
                 /\ r.status # Nil => tasks[i].state = r.status
                 /\ r.after # Nil /\ tasks[i].stamp # Nil => tasks[i].stamp >= r.after}

Before(i, j) ==
    \/ tasks[i].lastUpdated > tasks[j].lastUpdated
    \/ tasks[i].lastUpdated = tasks[j].lastUpdated /\ i > j

\* Mutant: tasks of the same time as the last one of a page are skipped.
PastTimeOnly(i, cursor) == tasks[i].lastUpdated < cursor.time

\* What sort.Search looks for: the first task behind the cursor.
Past(i, cursor) ==
    \/ tasks[i].lastUpdated < cursor.time
    \/ tasks[i].lastUpdated = cursor.time /\ i < cursor.id

\* slices.SortFunc; the order is total.
Sorted(all) ==
    CHOOSE s \in [1..Cardinality(all) -> all] : \A k, l \in DOMAIN s : k < l => Before(s[k], s[l])

encodePageToken(i) == [time |-> tasks[i].lastUpdated, id |-> i]

\* The text of a token is split at its underscores into exactly two parts.
decodePageToken(t) == IF t.id \in Underscored THEN Nil ELSE t

\* The tasks behind the token.
Rest(all, t) ==
    IF t = Nil THEN all
    ELSE LET cursor == decodePageToken(t)
             behind == {k \in DOMAIN all : Past(all[k], cursor)}
         IN IF behind = {} THEN <<>>
            ELSE SubSeq(all, CHOOSE k \in behind : \A l \in behind : k <= l, Len(all))

PageSize(r) == IF r.pageSize = 0 THEN DefaultPageSize ELSE r.pageSize

Accepted(r) == r.user # Anonymous /\ PageSize(r) \in 1..MaxPageSize

Begin ==
    /\ pc = "idle" /\ pc' = "paging"
    /\ UNCHANGED <<tasks, clock, request, token, listed, touched>>

List ==
    /\ pc = "paging"
    /\ IF ~Accepted(request) THEN pc' = "refused" /\ UNCHANGED <<token, listed>>
       ELSE IF token # Nil /\ decodePageToken(token) = Nil
       THEN pc' = "badToken" /\ UNCHANGED <<token, listed>>
       ELSE LET rest == Rest(Sorted(filterTasks(request)), token)
                more == PageSize(request) < Len(rest)
                page == IF more THEN SubSeq(rest, 1, PageSize(request)) ELSE rest
            IN /\ listed' = listed \o page
               /\ token' = IF more THEN encodePageToken(Last(page)) ELSE Nil
               /\ pc' = IF more THEN "paging" ELSE "done"
    /\ UNCHANGED <<tasks, clock, request, touched>>

Next ==
    \/ \E i \in Ids : Create(i) \/ Update(i)
    \/ Begin \/ List

Spec == Init /\ [][Next]_vars

-----------------------------------------------------------------------------
(* Properties *)

Times(i) == Cardinality({k \in DOMAIN listed : listed[k] = i})

\* A client that follows the tokens to the end gets every matching task that
\* nobody wrote meanwhile, and gets no task twice however often it is written:
\* a task that moves to the front is never behind a cursor again, also when
\* the clock stands still.  The tasks are those of the caller, in any page.
PagesComplete ==
    /\ tasks \in [Ids -> Stored \cup {Nil}] /\ clock \in 0..MaxTime /\ listed \in Seq(Ids)
    /\ \A i \in Ids : Times(i) <= 1
    /\ pc = "done" => \A i \in filterTasks(request) \ touched : Times(i) = 1
    /\ \A k \in DOMAIN listed : OwnerOf[listed[k]] = request.user
=============================================================================
