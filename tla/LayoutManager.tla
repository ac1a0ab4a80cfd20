--------------------------- MODULE LayoutManager ---------------------------
(***************************************************************************)
(* LayoutManager: the user's layouts in a local store, and their copies on *)
(* a server that other clients use too.  The local store is behind a mutex *)
(* that serves callers in their order; an operation takes it once to read  *)
(* and again to write, and calls the server in between.                    *)
(*                                                                         *)
(* A step is one critical section with the code after it up to the next    *)
(* wait, or the answer of one call of the server.  A sync starts whenever  *)
(* none is in progress.                                                    *)
(***************************************************************************)
EXTENDS Integers, FiniteSets, SequencesExt

CONSTANTS
  Ids,          \* layout ids, those of new layouts included
  Names, Data,  \* numbers that stand for names and for panel layouts
  Conflicts,    \* may the server refuse an update as a conflict
  MaxCalls,     \* bound: how many operations the user calls
  MaxFailures,  \* bound: how many calls of the server reject, or syncs abort
  MaxOthers     \* bound: how many changes other clients make

ASSUME LayoutAssumption ==
  /\ Names \subseteq Nat \ {0} /\ Names # {}
  /\ Data \subseteq Nat \ {0} /\ Data # {}
  /\ Conflicts \in BOOLEAN
  /\ {MaxCalls, MaxFailures, MaxOthers} \subseteq Nat

None == 0     \* an undefined name, data or time
Absent == [status |-> "absent"]

VARIABLES
  hasRemote,  \* is there a server (#remote)
  local,      \* the local store: Absent, or a layout
  remote,     \* the server: Absent, or a layout
  serverTime, \* the last savedAt the server gave
  taken,      \* the ids used so far
  queue,      \* the sections that wait for the mutex, first come first served
  ops,        \* the user's operations, by the order of their calls
  sync,       \* syncWithRemote: "off", "listing" or "ops"
  aborted,    \* is its abort signal set
  listed, fetched,  \* what it read, NotYet before
  uploads,    \* its calls of the server that are not answered
  cleanups,   \* what is to be done locally for those that are
  orphans,    \* calls of the server of syncs that failed
  failures, others,  \* how many there were
  late,       \* history: layouts that a last section stored since the list
  deleted     \* history: ids deleted, and nothing under way

store == <<local, taken>>
server == <<remote, serverTime>>
syncing == <<sync, aborted, listed, fetched, uploads, cleanups, orphans>>
counters == <<failures, others>>
vars == <<hasRemote, store, server, queue, ops, syncing, counters, late,
          deleted>>

NotYet == [id \in {} |-> Absent]
Calls == 1..MaxCalls
Exists(l) == l # Absent

(* layoutAppearsDeleted *)
AppearsDeleted(l) ==
  \/ l.status = "locally-deleted"
  \/ l.status = "remotely-deleted" /\ l.working = None

Visible(id) == Exists(local[id]) /\ ~AppearsDeleted(local[id])

Layout(name, shared, base, status, last) ==
  [name |-> name, shared |-> shared, base |-> base, working |-> None,
   status |-> status, last |-> last]

(* A layout of the server as it is first put into the local store.          *)
Tracked(r) == Layout(r.name, r.shared, r.data, "tracked", r.savedAt)

(* A mutant: what is edited, or nothing. *)
EditedOnly(l) == l.working

Edited(l) == IF l.working = None THEN l.base ELSE l.working

-----------------------------------------------------------------------------
(* The server.  A request leaves alone what it has None for.  "last" is not *)
(* sent: it tells whether the server may see a conflict.                    *)
Request(call, id, name, data, shared, last) ==
  [call |-> call, id |-> id, name |-> name, data |-> data, shared |-> shared,
   last |-> last]

OnServer(name, data, shared) ==
  [status |-> "saved", name |-> name, data |-> data, shared |-> shared,
   savedAt |-> serverTime + 1]

Or(new, old) == IF new = None THEN old ELSE new

(* updateOrFetchLayout: after a conflict the answer is the server's version.*)
Outcome(request, r, reply) ==
  [remote |-> [remote EXCEPT ![request.id] = r], reply |-> reply]

Outcomes(request) ==
  LET r == remote[request.id] IN
  CASE request.call = "get" -> {Outcome(request, r, r)}
    [] request.call = "delete" -> {Outcome(request, Absent, Absent)}
    [] request.call = "save" ->
         LET new == OnServer(request.name, request.data, request.shared)
         IN {Outcome(request, new, new)}
    [] request.call = "update" /\ ~Exists(r) -> {}
    [] OTHER ->
         LET new == OnServer(Or(request.name, r.name), Or(request.data, r.data),
                             r.shared)
         IN {Outcome(request, new, new)}
              \cup IF Conflicts /\ r.savedAt # request.last
                   THEN {Outcome(request, r, r)} ELSE {}

Lands(outcome) ==
  /\ remote' = outcome.remote
  /\ serverTime' = serverTime + (IF remote' = remote THEN 0 ELSE 1)

(* The call rejects, whether the server carried it out or not. *)
Rejects(request) ==
  /\ \/ Outcomes(request) = {} /\ UNCHANGED <<server, failures>>
     \/ /\ failures < MaxFailures
        /\ failures' = failures + 1
        /\ \/ UNCHANGED server
           \/ \E outcome \in Outcomes(request) : Lands(outcome)

-----------------------------------------------------------------------------
(* The user's operations.                                                   *)

NoOp == [kind |-> "none", step |-> "none"]
Done == [kind |-> "none", step |-> "done"]

Op(kind, id, new, name, data, shared) ==
  [kind |-> kind, step |-> "local", id |-> id, new |-> new, name |-> name,
   data |-> data, shared |-> shared, read |-> Absent, reply |-> Absent]

(* Both stores when there is one layout, in step with the server or local,  *)
(* and edited or not.                                                       *)
OneLayout(id, shared, tracked, edited) ==
  LET name == CHOOSE n \in Names : TRUE
      data == CHOOSE d \in Data : TRUE
  IN /\ edited # data
     /\ local = [i \in Ids |->
           IF i # id THEN Absent
           ELSE [Layout(name, shared, data,
                        IF tracked THEN "tracked" ELSE "unset",
                        IF tracked THEN 1 ELSE None)
                   EXCEPT !.working = edited]]
     /\ remote = [i \in Ids |->
           IF i # id \/ ~tracked THEN Absent
           ELSE [status |-> "saved", name |-> name, data |-> data,
                 shared |-> shared, savedAt |-> 1]]

Init ==
  \E id \in Ids, shared \in BOOLEAN, imported \in BOOLEAN,
     edited \in Data \cup {None} :
    /\ hasRemote \in BOOLEAN
    /\ shared => hasRemote /\ ~imported
    /\ imported => hasRemote
    /\ OneLayout(id, shared, hasRemote /\ ~imported, edited)
    /\ serverTime = 1 /\ taken = {id}
    /\ queue = <<>> /\ ops = [n \in Calls |-> NoOp]
    /\ sync = "off" /\ aborted = FALSE
    /\ listed = NotYet /\ fetched = NotYet
    /\ uploads = {} /\ cleanups = {} /\ orphans = {}
    /\ failures = 0 /\ others = 0
    /\ late = {} /\ deleted = {}

Section(name, todo) == [name |-> name, todo |-> todo]

(* The queue without the section of that name, of which there is at most one. *)
QueueWithout(name) ==
  LET at == {k \in 1..Len(queue) : queue[k].name = name} IN
  IF at = {} THEN queue ELSE RemoveAt(queue, CHOOSE k \in at : TRUE)

(* An operation on a layout the user sees, or a call of getLayout for one   *)
(* that the local store does not have (a link to a layout, say).            *)
Call(kind, id, name, data, shared) ==
  /\ \E n \in Calls, new \in Ids :
       /\ ops[n] = NoOp
       /\ \A m \in Calls : m < n => ops[m] # NoOp
       /\ CASE kind = "save" -> id \notin taken /\ new = id /\ (shared => hasRemote)
            [] kind = "copy" -> Visible(id) /\ new \notin taken
            [] kind = "get" -> new = id /\ ~Exists(local[id])
            [] OTHER -> new = id /\ Visible(id)
       /\ taken' = IF kind = "get" THEN taken ELSE taken \cup {new}
       /\ LET op == Op(kind, id, new, name, data, shared) IN
          IF kind = "save" /\ shared
          THEN /\ ops' = [ops EXCEPT ![n] = [op EXCEPT !.step = "remote"]]
               /\ UNCHANGED queue
          ELSE /\ ops' = [ops EXCEPT ![n] = op]
               /\ queue' = Append(queue, Section("op", n))
  /\ UNCHANGED <<hasRemote, local, server, syncing, counters, late, deleted>>

(* Which call of the server an operation makes once it has read the layout. *)
Needs(op, l) ==
  CASE op.kind = "update" -> op.name # None /\ l.shared
    [] op.kind = "overwrite" -> l.shared
    [] op.kind = "delete" -> l.shared /\ l.status # "remotely-deleted"
    [] OTHER -> FALSE

RequestOf(op) ==
  CASE op.kind = "save" ->
         Request("save", op.id, op.name, op.data, op.shared, None)
    [] op.kind = "get" -> Request("get", op.id, None, None, FALSE, None)
    [] op.kind = "update" ->
         Request("update", op.id, op.name, None, FALSE, op.read.last)
    [] op.kind = "overwrite" ->
         Request("update", op.id, None, Edited(op.read), FALSE, op.read.last)
    [] op.kind = "delete" ->
         Request("delete", op.id, None, None, FALSE, None)

OneSection(op) == op.kind \in {"save", "revert", "copy"}

(* The first section of the others reads the layout. *)
Reads(n) ==
  LET op == ops[n]
      l == local[op.id]
  IN IF op.kind = "get"
     THEN ops' = [ops EXCEPT ![n] = IF Exists(l) \/ ~hasRemote THEN Done
                                    ELSE [op EXCEPT !.step = "remote"]]
     ELSE ops' = [ops EXCEPT ![n] =
            IF ~Exists(l) THEN Done
            ELSE [op EXCEPT !.read = l,
                            !.step = IF Needs(op, l) THEN "remote" ELSE "write"]]

NewWorking(op) ==
  CASE op.data = None -> op.read.working
    [] op.data = op.read.base -> None
    [] OTHER -> op.data

(* What the last section of an operation puts, from what the first one read.*)
Written(op) ==
  LET l == op.read IN
  CASE op.kind = "update" /\ Exists(op.reply) ->
         [Tracked(op.reply) EXCEPT !.working = NewWorking(op)]
    [] op.kind = "update" /\ ~Exists(op.reply) ->
         LET isRename == /\ hasRemote /\ op.name # None
                         /\ l.status \notin {"unset", "new"}
         IN [l EXCEPT !.name = Or(op.name, @), !.working = NewWorking(op),
                      !.status = IF isRename THEN "updated" ELSE @]
    [] op.kind = "overwrite" /\ Exists(op.reply) ->
         [l EXCEPT !.base = op.reply.data, !.working = None,
                   !.status = "tracked", !.last = op.reply.savedAt]
    [] op.kind = "overwrite" /\ ~Exists(op.reply) ->
         [l EXCEPT !.base = Edited(l), !.working = None,
                   !.status = IF hasRemote /\ @ # "new" THEN "updated" ELSE @]
    [] op.kind = "delete" ->
         IF hasRemote /\ ~l.shared
         THEN [l EXCEPT !.working = Edited(l), !.status = "locally-deleted"]
         ELSE Absent
    [] op.kind = "get" ->
         IF Exists(local[op.id]) THEN local[op.id] ELSE Tracked(op.reply)
    [] op.kind = "save" ->
         IF op.shared THEN Tracked(op.reply)
         ELSE Layout(op.name, FALSE, op.data,
                     IF hasRemote THEN "new" ELSE "unset", None)
    [] op.kind = "revert" ->
         IF Exists(local[op.id]) THEN [local[op.id] EXCEPT !.working = None]
         ELSE Absent

(* makePersonalCopy.  The time it stores as the server's is never read: the *)
(* upload of a new layout replaces it.  It is left out.                     *)
Copied(op) ==
  LET l == local[op.id] IN
  IF ~Exists(l) THEN local
  ELSE [local EXCEPT ![op.new] = Layout(op.name, FALSE, Edited(l), "new", None),
                     ![op.id].working = None]

Writes(n) ==
  /\ local' = IF ops[n].kind = "copy" THEN Copied(ops[n])
              ELSE [local EXCEPT ![ops[n].id] = Written(ops[n])]
  /\ ops' = [ops EXCEPT ![n] = Done]

Active == {n \in Calls : ops[n] \notin {NoOp, Done}}

(* An operation about to write, and nothing else under way. *)
Alone ==
  /\ ops[Head(queue).todo].step = "write" /\ Cardinality(Active) = 1
  /\ sync = "off" /\ Len(queue) = 1 /\ orphans = {}

OpSection ==
  /\ queue # <<>> /\ Head(queue).name = "op"
  /\ LET n == Head(queue).todo IN
     IF OneSection(ops[n]) \/ ops[n].step = "write"
     THEN Writes(n) /\ queue' = Tail(queue)
     ELSE /\ Reads(n)
          /\ queue' = IF ops'[n].step = "write"
                      THEN Append(Tail(queue), Head(queue)) ELSE Tail(queue)
          /\ UNCHANGED local
  /\ deleted' = IF ops[Head(queue).todo].kind = "delete" /\ Alone
                 THEN deleted \cup {ops[Head(queue).todo].id} ELSE deleted
  /\ late' = IF ops[Head(queue).todo].step = "write"
             THEN late \cup {ops[Head(queue).todo].id} ELSE late
  /\ UNCHANGED <<hasRemote, taken, server, syncing, counters>>

OpReplies(n) ==
  /\ ops[n].step = "remote"
  /\ \E outcome \in Outcomes(RequestOf(ops[n])) :
       /\ Lands(outcome)
       /\ IF ops[n].kind = "get" /\ ~Exists(outcome.reply)
          THEN ops' = [ops EXCEPT ![n] = Done] /\ UNCHANGED queue
          ELSE /\ ops' = [ops EXCEPT ![n].reply = outcome.reply,
                                     ![n].step = "write"]
               /\ queue' = Append(queue, Section("op", n))
  /\ UNCHANGED <<hasRemote, store, syncing, counters, late, deleted>>

OpRejected(n) ==
  /\ ops[n].step = "remote"
  /\ Rejects(RequestOf(ops[n]))
  /\ ops' = [ops EXCEPT ![n] = Done]
  /\ UNCHANGED <<hasRemote, store, queue, syncing, others, late, deleted>>

-----------------------------------------------------------------------------
(* Syncing.                                                                 *)

(* A mutant: what the server has newer comes first. *)
BothNewerFirst(l, r) ==
  CASE l.status \in {"unset", "new"} -> IF l.shared THEN "none" ELSE "upload-new"
    [] l.status = "updated" -> "upload-updated"
    [] OTHER -> IF l.last # r.savedAt THEN "update-baseline"
                ELSE IF l.status = "locally-deleted" THEN "delete-remote"
                ELSE "none"

(* computeLayoutSyncOperations for a layout that both sides have.           *)
PlanForBoth(l, r) ==
  CASE l.status \in {"unset", "new"} -> IF l.shared THEN "none" ELSE "upload-new"
    [] l.status = "updated" -> "upload-updated"
    [] l.status = "tracked" ->
         IF l.last # r.savedAt THEN "update-baseline" ELSE "none"
    [] l.status = "locally-deleted" -> "delete-remote"
    [] l.status = "remotely-deleted" -> "none"

(* A mutant: a deletion is over once the server does not have the layout.   *)
LocalDeletedStays(l) ==
  CASE l.status \in {"unset", "new"} -> IF l.shared THEN "none" ELSE "upload-new"
    [] l.status \in {"updated", "tracked"} /\ l.shared -> "mark-deleted"
    [] l.status \in {"updated", "tracked"} /\ ~l.shared -> "delete-local"
    [] OTHER -> "none"

(* ... for one that only the local store has. *)
PlanForLocal(l) ==
  CASE l.status \in {"unset", "new"} -> IF l.shared THEN "none" ELSE "upload-new"
    [] l.status = "updated" -> IF l.shared THEN "mark-deleted" ELSE "delete-local"
    [] l.status = "tracked" ->
         IF l.working = None \/ ~l.shared THEN "delete-local" ELSE "mark-deleted"
    [] l.status = "locally-deleted" -> "delete-local"
    [] l.status = "remotely-deleted" ->
         IF l.working = None THEN "delete-local" ELSE "none"

SyncOp(type, id, l, r) == [type |-> type, id |-> id, local |-> l, remote |-> r]

PlanFor(id, l, r) ==
  LET type == CASE Exists(l) /\ Exists(r) -> PlanForBoth(l, r)
                [] Exists(l) /\ ~Exists(r) -> PlanForLocal(l)
                [] ~Exists(l) /\ Exists(r) -> "add-to-cache"
                [] OTHER -> "none"
  IN IF type = "none" THEN {} ELSE {SyncOp(type, id, l, r)}

IsLocal(op) == op.type \in {"add-to-cache", "delete-local", "mark-deleted",
                            "update-baseline"}

(* Mutants: the old data is kept; what the user has edited is not. *)
BaselineOld(l, r) == [l EXCEPT !.name = r.name, !.last = r.savedAt]
BaselineUnedited(l, r) == Tracked(r)

NewBaseline(l, r) == [Tracked(r) EXCEPT !.working = l.working]

(* What an operation leaves in the local store. *)
Result(op) ==
  CASE op.type = "add-to-cache" -> Tracked(op.remote)
    [] op.type = "update-baseline" -> NewBaseline(op.local, op.remote)
    [] op.type = "mark-deleted" ->
         [op.local EXCEPT !.status = "remotely-deleted", !.last = None]
    [] op.type \in {"delete-local", "delete-remote"} -> Absent
    [] op.type = "upload-new" ->
         [op.local EXCEPT !.status = "tracked", !.last = op.remote.savedAt]
    [] op.type = "upload-updated" ->
         [op.local EXCEPT !.name = op.remote.name, !.status = "tracked",
                          !.last = op.remote.savedAt]

UploadOf(op) ==
  LET l == op.local IN
  CASE op.type = "delete-remote" ->
         Request("delete", op.id, None, None, FALSE, None)
    [] op.type = "upload-new" ->
         Request("save", op.id, l.name, l.base, l.shared, None)
    [] op.type = "upload-updated" ->
         Request("update", op.id, l.name, l.base, FALSE, l.last)

SyncStarts ==
  /\ hasRemote /\ sync = "off"
  /\ sync' = "listing" /\ aborted' = FALSE
  /\ listed' = NotYet /\ fetched' = NotYet
  /\ queue' = Append(queue, Section("list", {}))
  /\ UNCHANGED <<hasRemote, store, server, ops, uploads, cleanups, orphans,
                 counters, late, deleted>>

(* A failed or finished sync leaves nothing that anybody waits for, except  *)
(* the section with its local operations; calls of the server go on.        *)
SyncOver(calls) ==
  /\ sync' = "off" /\ aborted' = FALSE
  /\ listed' = NotYet /\ fetched' = NotYet
  /\ uploads' = {} /\ cleanups' = {}
  /\ orphans' = orphans \cup calls

ListSection ==
  /\ queue # <<>> /\ Head(queue).name = "list"
  /\ listed' = local
  /\ queue' = Tail(queue)
  /\ late' = {}
  /\ UNCHANGED <<hasRemote, store, server, ops, sync, aborted, fetched, uploads,
                 cleanups, orphans, counters, deleted>>

Fetched ==
  /\ sync = "listing" /\ fetched = NotYet
  /\ fetched' = remote
  /\ UNCHANGED <<hasRemote, store, server, queue, ops, sync, aborted, listed,
                 uploads, cleanups, orphans, counters, late, deleted>>

(* getLayouts rejects; nobody reads the list any more. *)
FetchFails ==
  /\ sync = "listing" /\ fetched = NotYet
  /\ failures < MaxFailures /\ failures' = failures + 1
  /\ SyncOver({})
  /\ queue' = QueueWithout("list")
  /\ UNCHANGED <<hasRemote, store, server, ops, others, late, deleted>>

(* Sections with nothing to do are left out. *)
Plans ==
  /\ sync = "listing" /\ listed # NotYet /\ fetched # NotYet
  /\ LET all == UNION {PlanFor(id, listed[id], fetched[id]) : id \in Ids}
         locals == {op \in all : IsLocal(op)}
     IN IF aborted
        THEN SyncOver({}) /\ UNCHANGED queue
        ELSE /\ sync' = "ops"
             /\ uploads' = all \ locals
             /\ queue' = IF locals = {} THEN queue
                         ELSE Append(queue, Section("locals", locals))
             /\ listed' = NotYet /\ fetched' = NotYet
             /\ UNCHANGED <<aborted, cleanups, orphans>>
  /\ UNCHANGED <<hasRemote, store, server, ops, counters, late, deleted>>

(* The local operations, one after the other in one section. *)
LocalsSection ==
  /\ queue # <<>> /\ Head(queue).name = "locals"
  /\ \E op \in Head(queue).todo :
       /\ local' = [local EXCEPT ![op.id] = Result(op)]
       /\ queue' = IF Head(queue).todo = {op} THEN Tail(queue)
                   ELSE [queue EXCEPT ![1].todo = @ \ {op}]
  /\ UNCHANGED <<hasRemote, taken, server, ops, syncing, counters, late,
                 deleted>>

UploadReplies(op) ==
  /\ \E outcome \in Outcomes(UploadOf(op)) :
       /\ Lands(outcome)
       /\ cleanups' = cleanups \cup {[op EXCEPT !.remote = outcome.reply]}
  /\ uploads' = uploads \ {op}
  /\ IF uploads' = {}
     THEN queue' = Append(queue, Section("cleanups", cleanups'))
     ELSE UNCHANGED queue
  /\ UNCHANGED <<hasRemote, store, ops, sync, aborted, listed, fetched, orphans,
                 counters, late, deleted>>

UploadRejected(op) ==
  /\ Rejects(UploadOf(op))
  /\ SyncOver(uploads \ {op})
  /\ UNCHANGED <<hasRemote, store, queue, ops, others, late, deleted>>

(* An abort keeps deletions of the server from being followed locally, but  *)
(* not the other cleanups.                                                  *)
CleanupsSection ==
  /\ queue # <<>> /\ Head(queue).name = "cleanups"
  /\ LET todo == {op \in Head(queue).todo :
                    ~(aborted /\ op.type = "delete-remote")}
     IN local' = [id \in Ids |->
                    IF \E op \in todo : op.id = id
                    THEN Result(CHOOSE op \in todo : op.id = id)
                    ELSE local[id]]
  /\ queue' = Tail(queue)
  /\ UNCHANGED <<hasRemote, taken, server, ops, syncing, counters, late,
                 deleted>>

SyncEnds ==
  /\ sync = "ops" /\ uploads = {}
  /\ \A k \in 1..Len(queue) : queue[k].name \notin {"locals", "cleanups"}
  /\ SyncOver({})
  /\ UNCHANGED <<hasRemote, store, server, queue, ops, counters, late, deleted>>

(* The application is hidden: LayoutManagerProvider aborts its sync.        *)
Abort ==
  /\ \/ sync # "off" /\ ~aborted
     \/ \E k \in 1..Len(queue) : queue[k].name = "locals"
  /\ failures < MaxFailures /\ failures' = failures + 1
  /\ aborted' = (sync # "off")
  /\ queue' = QueueWithout("locals")
  /\ UNCHANGED <<hasRemote, store, server, ops, sync, listed, fetched, uploads,
                 cleanups, orphans, others, late, deleted>>

OrphanLands(op) ==
  /\ orphans' = orphans \ {op}
  /\ \/ UNCHANGED server
     \/ \E outcome \in Outcomes(UploadOf(op)) : Lands(outcome)
  /\ UNCHANGED <<hasRemote, store, queue, ops, sync, aborted, listed, fetched,
                 uploads, cleanups, counters, late, deleted>>

(* Another client changes the data of a layout, deletes it, or adds one.    *)
Other(id) ==
  /\ hasRemote /\ others < MaxOthers /\ others' = others + 1
  /\ \/ /\ Exists(remote[id])
        /\ \/ \E d \in Data \ {remote[id].data} :
                Lands(Outcome([id |-> id],
                              OnServer(remote[id].name, d, remote[id].shared),
                              Absent))
           \/ Lands(Outcome([id |-> id], Absent, Absent))
        /\ UNCHANGED taken
     \/ /\ id \notin taken /\ taken' = taken \cup {id}
        /\ \E n \in Names, d \in Data :
             Lands(Outcome([id |-> id], OnServer(n, d, TRUE), Absent))
  /\ UNCHANGED <<hasRemote, local, queue, ops, syncing, failures, late,
                 deleted>>

-----------------------------------------------------------------------------
SectionStep == OpSection \/ ListSection \/ LocalsSection \/ CleanupsSection
OpAnswered(n) == OpReplies(n) \/ OpRejected(n)
SyncStep ==
  \/ Fetched \/ FetchFails \/ Plans \/ SyncEnds
  \/ \E op \in uploads : UploadReplies(op) \/ UploadRejected(op)

UserCalls ==
  \E id \in Ids :
    \/ \E n \in Names, d \in Data, shared \in BOOLEAN :
         Call("save", id, n, d, shared)
    \/ \E n \in Names \cup {None}, d \in Data \cup {None} :
         (n # None \/ d # None) /\ Call("update", id, n, d, FALSE)
    \/ \E n \in Names : Call("copy", id, n, None, FALSE)
    \/ \E kind \in {"get", "delete", "overwrite", "revert"} :
         Call(kind, id, None, None, FALSE)

Next ==
  \/ UserCalls
  \/ SectionStep
  \/ \E n \in Calls : OpAnswered(n)
  \/ SyncStarts \/ SyncStep \/ Abort
  \/ \E op \in orphans : OrphanLands(op)
  \/ \E id \in Ids : Other(id)

(* Sections end, the server answers, and the application goes on syncing:   *)
(* it is visible and online long enough.                                    *)
Spec ==
  /\ Init /\ [][Next]_vars
  /\ WF_vars(SectionStep)
  /\ \A n \in Calls : WF_vars(OpAnswered(n))
  /\ WF_vars(SyncStarts) /\ WF_vars(SyncStep)
  /\ WF_vars(\E op \in orphans : OrphanLands(op))

-----------------------------------------------------------------------------
Statuses ==
  {"unset", "new", "updated", "tracked", "locally-deleted", "remotely-deleted"}

TypeOK ==
  /\ hasRemote \in BOOLEAN
  /\ \A id \in Ids : Exists(local[id]) =>
       /\ local[id].name \in Names /\ local[id].base \in Data
       /\ local[id].working \in Data \cup {None}
       /\ local[id].status \in Statuses
       /\ local[id].last \in 0..serverTime
       /\ id \in taken
  /\ \A id \in Ids : Exists(remote[id]) =>
       remote[id].savedAt \in 1..serverTime /\ id \in taken
  /\ sync \in {"off", "listing", "ops"} /\ aborted \in BOOLEAN
  /\ sync # "ops" => uploads = {} /\ cleanups = {}

(* A layout that is in step with the server's version, and which no sync    *)
(* will therefore touch, has the server's data.                             *)
TrackedAgrees ==
  \A id \in Ids :
    LET l == local[id]
        r == remote[id]
    IN Exists(l) /\ Exists(r) /\ l.status = "tracked" /\ l.last = r.savedAt =>
         l.base = r.data

SyncWrites == queue # <<>> /\ Head(queue).name \in {"locals", "cleanups"}

(* What is edited and not saved stays, or goes with a personal layout's copy *)
(* on the server; what is marked as deleted does not come back.             *)
Keeps(id) ==
  /\ Visible(id) /\ local[id].working # None =>
       IF Exists(local'[id]) THEN local'[id].working = local[id].working
       ELSE ~local[id].shared
  /\ local[id].status = "locally-deleted" => ~Visible(id)'

(* A sync undoes none of the user's edits and deletions, whatever operations *)
(* are under way, but for what the last section of an operation stores      *)
(* between the sync's list and its writes.                                  *)
SyncKeepsChanges == [][SyncWrites => \A id \in Ids \ late : Keeps(id)]_vars

(* A sync keeps those, too.  It does not: it puts back what it has listed   *)
(* (LayoutManager.ts:578, 641), and the edit or the deletion is lost.       *)
SyncKeepsAll == [][SyncWrites => \A id \in Ids : Keeps(id)]_vars

(* A layout that was deleted while nothing else was under way never comes   *)
(* back, whatever fails, is lost or aborted in later syncs.                 *)
DeletionIsFinal == \A id \in deleted : ~Visible(id)

(* When all is quiet, local store and server agree, over and over: syncing  *)
(* comes to the end of every disagreement.                                  *)
Synced ==
  \A id \in Ids :
    LET l == local[id]
        r == remote[id]
    IN IF ~Exists(l) THEN ~Exists(r)
       ELSE IF l.status = "remotely-deleted"
       THEN ~Exists(r) /\ l.shared /\ l.working # None
       ELSE Exists(r) /\ l.status = "tracked" /\ l.last = r.savedAt

Converges == hasRemote ~> Synced

=============================================================================
