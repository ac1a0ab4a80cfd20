------------------------ MODULE LayoutManager_proofs ------------------------
(***************************************************************************)
(* Proofs about LayoutManager.  What is kept in the local store and on the *)
(* server, listed by a sync, read by an operation, planned, sent, answered *)
(* or left behind is all of one kind: copies of versions that the server   *)
(* gave, and edits of them made here; and none of them is of a layout that *)
(* was deleted with nothing else under way, but to delete it.  The         *)
(* invariant IInv says so with two functions that the program keeps        *)
(* nowhere, the data the server gave at each time and which layouts are    *)
(* shared, and with the set of the layouts so deleted.                     *)
(***************************************************************************)
EXTENDS LayoutManager, SequenceTheorems, FiniteSetTheorems, TLAPS

USE LayoutAssumption

Kinds == {"save", "get", "update", "overwrite", "delete", "revert", "copy"}

SyncTypes == {"add-to-cache", "delete-local", "mark-deleted",
              "update-baseline", "upload-new", "upload-updated",
              "delete-remote"}

Copy ==
  [name : Names, shared : BOOLEAN, base : Data, working : Data \cup {None},
   status : Statuses, last : Nat]

Saved ==
  [status : {"saved"}, name : Names, data : Data, shared : BOOLEAN,
   savedAt : Nat \ {0}]

(* What the server has been given at each time, and which layouts are      *)
(* shared: they are not kept anywhere, but some such functions agree with  *)
(* everything that is.                                                     *)
Given == [Nat -> Data]
Shares == [Ids -> BOOLEAN]

(* A new shared layout is known to nobody before the server has it.         *)
Saving(op) == op.kind = "save" /\ op.step = "remote"
Born == {id \in taken : \A n \in Calls : Saving(ops[n]) => ops[n].id # id}

(* A shared layout that the server does not have any more never comes back. *)
Gone(id, s) == id \in Born /\ s[id] /\ ~Exists(remote[id])

(* A deleted layout is not on the server, and not on a list of its layouts. *)
Safe(id) == ~Exists(remote[id]) /\ (fetched # NotYet => ~Exists(fetched[id]))

(* The copies of a layout there can be in local hands; d holds the ids that *)
(* were deleted while nothing else was under way.                           *)
Copies(id, g, s, d) ==
  {c \in Copy : /\ id \in Born /\ c.shared = s[id] /\ c.last <= serverTime
                /\ c.status = "tracked" =>
                     hasRemote /\ (~Conflicts => c.base = g[c.last])
                /\ c.status = "remotely-deleted" => Gone(id, s)
                /\ id \in d => c.status = "locally-deleted"}

(* ... and those the server may have given.                                 *)
Saveds(id, g, s, d) ==
  {r \in Saved : /\ hasRemote /\ id \in Born /\ r.shared = s[id]
                 /\ r.savedAt <= serverTime /\ r.data = g[r.savedAt]}

OpRecord ==
  [kind : Kinds, step : {"local", "remote", "write"}, id : Ids, new : Ids,
   name : Names \cup {None}, data : Data \cup {None}, shared : BOOLEAN,
   read : Copy \cup {Absent}, reply : Saved \cup {Absent}]

UserOps(g, s, d) ==
  {op \in OpRecord :
     /\ op.read \in Copies(op.id, g, s, d) \cup {Absent}
     /\ op.reply \in Saveds(op.id, g, s, d) \cup {Absent}
     /\ op.kind # "get" => op.id \in taken
     /\ op.kind # "get" /\ ~Saving(op) => op.id \in Born
     /\ op.kind \in {"update", "overwrite", "delete"} /\ op.step # "local" =>
          Exists(op.read)
     /\ op.kind = "get" /\ op.step = "write" => Exists(op.reply)
     /\ op.kind = "delete" /\ op.step = "write" /\ s[op.id] => Gone(op.id, s)
     /\ op.kind = "save" =>
          /\ op.name \in Names /\ op.data \in Data /\ s[op.id] = op.shared
          /\ op.shared => hasRemote /\ op.step # "local"
          /\ op.shared /\ op.step = "write" => Exists(op.reply)
          /\ op.step # "local" => op.shared
     /\ op.kind = "copy" =>
          op.new \in Born \ d /\ ~s[op.new] /\ op.name \in Names
     /\ op.kind \in {"copy", "revert"} => op.step = "local"
     /\ op.id \in d => op.kind = "get" /\ op.step # "write" /\ Safe(op.id)}

SyncRecord ==
  [type : SyncTypes, id : Ids, local : Copy \cup {Absent},
   remote : Saved \cup {Absent}]

SyncOps(g, s, d) ==
  {op \in SyncRecord :
     /\ hasRemote /\ op.id \in Born
     /\ op.local \in Copies(op.id, g, s, d) \cup {Absent}
     /\ op.remote \in Saveds(op.id, g, s, d) \cup {Absent}
     /\ op.type \in {"add-to-cache", "update-baseline"} => Exists(op.remote)
     /\ op.type # "add-to-cache" => Exists(op.local)
     /\ op.type = "mark-deleted" => Gone(op.id, s)
     /\ op.type = "upload-new" => ~s[op.id]
     /\ op.id \in d => op.type \in {"delete-local", "delete-remote"}
     /\ op.id \in d /\ op.type = "delete-local" => Safe(op.id)}

Locals(g, s, d) == {op \in SyncOps(g, s, d) : IsLocal(op)}
Uploads(g, s, d) == {op \in SyncOps(g, s, d) : ~IsLocal(op)}

Answered(g, s, d) ==
  {op \in Uploads(g, s, d) :
     /\ op.type # "delete-remote" =>
          Exists(op.remote) /\ (~Conflicts => op.remote.data = op.local.base)
     /\ op.id \in d => Safe(op.id)}

Sections(g, s, d) ==
  [name : {"op"}, todo : Calls] \cup [name : {"list"}, todo : {{}}]
    \cup [name : {"locals"}, todo : SUBSET Locals(g, s, d)]
    \cup [name : {"cleanups"}, todo : SUBSET Answered(g, s, d)]

LocalTyped(g, s, d) ==
  /\ local = [id \in Ids |-> local[id]]
  /\ \A id \in Ids : /\ local[id] \in Copies(id, g, s, d) \cup {Absent}
                     /\ id \in d /\ ~Exists(local[id]) => Safe(id)

RemoteTyped(g, s, d) ==
  /\ remote = [id \in Ids |-> remote[id]]
  /\ \A id \in Ids : remote[id] \in Saveds(id, g, s, d) \cup {Absent}

QueueTyped(g, s, d) == queue \in Seq(Sections(g, s, d))

OpsTyped(g, s, d) == ops \in [Calls -> UserOps(g, s, d) \cup {NoOp, Done}]

ListedTyped(g, s, d) ==
  listed # NotYet =>
    \A id \in Ids : /\ listed[id] \in Copies(id, g, s, d) \cup {Absent}
                    /\ id \in d /\ ~Exists(listed[id]) => Safe(id)

FetchedTyped(g, s, d) ==
  fetched # NotYet =>
    \A id \in Ids : /\ fetched[id] \in Saveds(id, g, s, d) \cup {Absent}
                    /\ id \in d /\ ~Exists(fetched[id]) => Safe(id)

SyncTyped(g, s, d) ==
  /\ uploads \subseteq Uploads(g, s, d) /\ cleanups \subseteq Answered(g, s, d)
  /\ orphans \subseteq Uploads(g, s, d)

Typed(g, s, d) ==
  /\ LocalTyped(g, s, d) /\ RemoteTyped(g, s, d) /\ QueueTyped(g, s, d)
  /\ OpsTyped(g, s, d) /\ ListedTyped(g, s, d) /\ FetchedTyped(g, s, d)
  /\ SyncTyped(g, s, d)

Places ==
  /\ hasRemote \in BOOLEAN /\ aborted \in BOOLEAN
  /\ serverTime \in Nat /\ taken \subseteq Ids /\ deleted \subseteq taken
  /\ sync \in {"off", "listing", "ops"}
  /\ sync # "off" => hasRemote
  /\ sync # "ops" => uploads = {} /\ cleanups = {}
  /\ sync # "listing" => listed = NotYet /\ fetched = NotYet

(* An operation waits in the queue once, and not while the server is asked; *)
(* a sync waits for its list once, and a layout is new once.                *)
Once(q) ==
  \A k, l \in 1..Len(q) :
    /\ q[k].name \in {"op", "list"} /\ q[l].name = q[k].name
    /\ q[k].todo = q[l].todo
    => k = l

Waits(n, q) == \E k \in 1..Len(q) : q[k].name = "op" /\ q[k].todo = n

ListWaits(q) == \E k \in 1..Len(q) : q[k].name = "list"

Queued ==
  /\ Once(queue)
  /\ \A n \in Calls : Waits(n, queue) => ops[n].step \in {"local", "write"}
  /\ ListWaits(queue) => sync = "listing" /\ listed = NotYet
  /\ \A m, n \in Calls :
       Saving(ops[m]) /\ Saving(ops[n]) /\ ops[m].id = ops[n].id => m = n

(* A section that does not put a layout which the local store has not; o is *)
(* how far the user's operations are.                                       *)
Harmless(x, id, o) ==
  /\ x.name = "op" /\ o[x.todo].id = id => o[x.todo].step = "local"
  /\ x.name \in {"locals", "cleanups"} => \A op \in x.todo : op.id # id

Shield(q, id, o) ==
  \A k \in 1..Len(q) : q[k].name = "list" =>
    \A j \in 1..(k - 1) : Harmless(q[j], id, o)

(* A sync has not, and will not have, the layout on its list.               *)
Missed(id) ==
  /\ listed # NotYet => ~Exists(listed[id])
  /\ ListWaits(queue) => ~Exists(local[id]) /\ Shield(queue, id, ops)

(* A shared layout that came to the server after a sync had fetched its     *)
(* layouts.                                                                 *)
Late(id, s) ==
  fetched # NotYet /\ ~Exists(fetched[id]) /\ Exists(remote[id]) /\ s[id]

Unlisted(s) == \A id \in Ids : Late(id, s) => Missed(id)

IInv ==
  /\ Places /\ Queued
  /\ \E g \in Given, s \in Shares, d \in SUBSET Ids :
       d = deleted /\ Typed(g, s, d) /\ Unlisted(s)

-----------------------------------------------------------------------------
(* Time goes on, ids are taken, and what is gone stays so.                  *)

Grows(g, h, s, u, d) ==
  /\ hasRemote' = hasRemote /\ taken \subseteq taken' /\ Born \subseteq Born'
  /\ serverTime \in Nat /\ serverTime' \in Nat /\ serverTime <= serverTime'
  /\ \A k \in Nat : k <= serverTime => h[k] = g[k]
  /\ \A id \in taken : u[id] = s[id]
  /\ \A id : Gone(id, s) => Gone(id, u)'
  /\ \A id \in d : Safe(id) => Safe(id)'

(* A copy, or a version of the server, is one as time goes on.              *)
LEMMA RecordsGrow ==
  ASSUME NEW g, NEW h, NEW s, NEW u, NEW d, Grows(g, h, s, u, d), NEW id
  PROVE  /\ Copies(id, g, s, d) \subseteq Copies(id, h, u, d)'
         /\ Saveds(id, g, s, d) \subseteq Saveds(id, h, u, d)'
<1>0. Born \subseteq taken
  BY DEF Born
<1>1. ASSUME NEW c \in Copies(id, g, s, d) PROVE c \in Copies(id, h, u, d)'
  <2>1. c \in Copy /\ c.last \in Nat
    BY DEF Copies, Copy
  <2> QED
    BY <1>0, <1>1, <2>1 DEF Copies, Grows
<1>2. ASSUME NEW r \in Saveds(id, g, s, d) PROVE r \in Saveds(id, h, u, d)'
  <2>1. r \in Saved /\ r.savedAt \in Nat
    BY DEF Saveds, Saved
  <2> QED
    BY <1>0, <1>2, <2>1 DEF Saveds, Grows
<1> QED
  BY <1>1, <1>2

(* So is what is to be done with them.                                      *)
LEMMA OpsGrow ==
  ASSUME NEW g, NEW h, NEW s, NEW u, NEW d, Grows(g, h, s, u, d)
  PROVE  /\ UserOps(g, s, d) \subseteq UserOps(h, u, d)'
         /\ SyncOps(g, s, d) \subseteq SyncOps(h, u, d)'
         /\ Locals(g, s, d) \subseteq Locals(h, u, d)'
         /\ Uploads(g, s, d) \subseteq Uploads(h, u, d)'
         /\ Answered(g, s, d) \subseteq Answered(h, u, d)'
<1>0. Born \subseteq taken
  BY DEF Born
<1>1. ASSUME NEW op \in UserOps(g, s, d) PROVE op \in UserOps(h, u, d)'
  <2>1. /\ op.read \in Copies(op.id, h, u, d)' \cup {Absent}
        /\ op.reply \in Saveds(op.id, h, u, d)' \cup {Absent}
    BY RecordsGrow DEF UserOps
  <2>2. /\ hasRemote' = hasRemote /\ taken \subseteq taken'
        /\ Born \subseteq Born'
        /\ \A id \in taken : u[id] = s[id]
        /\ \A id : Gone(id, s) => Gone(id, u)'
        /\ \A id \in d : Safe(id) => Safe(id)'
    BY DEF Grows
  <2>3. /\ op \in OpRecord
        /\ op.kind # "get" => op.id \in taken /\ u[op.id] = s[op.id]
        /\ op.kind = "copy" => u[op.new] = s[op.new]
    BY <1>0, <2>2 DEF UserOps
  <2> QED
    BY <2>1, <2>2, <2>3 DEF UserOps
<1>2. ASSUME NEW op \in SyncOps(g, s, d) PROVE op \in SyncOps(h, u, d)'
  <2>1. /\ op.local \in Copies(op.id, h, u, d)' \cup {Absent}
        /\ op.remote \in Saveds(op.id, h, u, d)' \cup {Absent}
    BY RecordsGrow DEF SyncOps
  <2>2. op \in SyncRecord /\ op.id \in Born /\ u[op.id] = s[op.id]
    BY <1>0 DEF SyncOps, Grows
  <2> QED
    BY <2>1, <2>2 DEF SyncOps, Grows
<1>3. ASSUME NEW op \in Answered(g, s, d) PROVE op \in Answered(h, u, d)'
  <2>1. op \in Uploads(h, u, d)'
    BY <1>2 DEF Answered, Uploads
  <2> QED
    BY <2>1 DEF Answered, Grows
<1> QED
  BY <1>1, <1>2, <1>3 DEF Locals, Uploads

(* ... and what waits for the mutex.                                        *)
LEMMA QueueGrows ==
  ASSUME NEW g, NEW h, NEW s, NEW u, NEW d, Grows(g, h, s, u, d)
  PROVE  /\ Sections(g, s, d) \subseteq Sections(h, u, d)'
         /\ Seq(Sections(g, s, d)) \subseteq Seq(Sections(h, u, d)')
<1> DEFINE A == Sections(g, s, d)
           B == Sections(h, u, d)'
<1>1. A \subseteq B
  <2>1. /\ SUBSET Locals(g, s, d) \subseteq SUBSET (Locals(h, u, d)')
        /\ SUBSET Answered(g, s, d) \subseteq SUBSET (Answered(h, u, d)')
    BY OpsGrow
  <2> QED
    BY <2>1 DEF Sections
<1> HIDE DEF A, B
<1>2. \A q \in Seq(A) : q \in Seq(B)
  BY <1>1
<1> QED
  BY <1>1, <1>2 DEF A, B

(* What stays as it is has the types it had.                                *)
LEMMA StaysTyped ==
  ASSUME NEW g, NEW h, NEW s, NEW u, NEW d, Grows(g, h, s, u, d),
         Typed(g, s, d)
  PROVE  /\ local' = local => LocalTyped(h, u, d)'
         /\ remote' = remote => RemoteTyped(h, u, d)'
         /\ queue' = queue => QueueTyped(h, u, d)'
         /\ ops' = ops => OpsTyped(h, u, d)'
         /\ listed' = listed => ListedTyped(h, u, d)'
         /\ fetched' = fetched => FetchedTyped(h, u, d)'
         /\ UNCHANGED <<uploads, cleanups, orphans>> => SyncTyped(h, u, d)'
<1>1. local' = local => LocalTyped(h, u, d)'
  BY RecordsGrow DEF Typed, LocalTyped, Grows
<1>2. remote' = remote => RemoteTyped(h, u, d)'
  BY RecordsGrow DEF Typed, RemoteTyped
<1>3. queue' = queue => QueueTyped(h, u, d)'
  BY QueueGrows DEF Typed, QueueTyped
<1>4. ops' = ops => OpsTyped(h, u, d)'
  <2>1. UserOps(g, s, d) \subseteq UserOps(h, u, d)'
    BY OpsGrow
  <2> QED
    BY <2>1 DEF Typed, OpsTyped
<1>5. listed' = listed => ListedTyped(h, u, d)'
  BY RecordsGrow DEF Typed, ListedTyped, Grows
<1>6. fetched' = fetched => FetchedTyped(h, u, d)'
  BY RecordsGrow DEF Typed, FetchedTyped, Grows
<1>7. UNCHANGED <<uploads, cleanups, orphans>> => SyncTyped(h, u, d)'
  BY OpsGrow DEF Typed, SyncTyped
<1> QED
  BY <1>1, <1>2, <1>3, <1>4, <1>5, <1>6, <1>7

(* An id is new until the server has answered; from then on it stays born.  *)
LEMMA BornStays ==
  ASSUME taken \subseteq taken',
         \A n \in Calls :
           Saving(ops'[n]) /\ ops'[n].id \in taken =>
             Saving(ops[n]) /\ ops[n].id = ops'[n].id
  PROVE  Born \subseteq Born'
  BY DEF Born

(* Nothing changes but what the user or a sync does here.                   *)
LEMMA StandsStill ==
  ASSUME NEW g, NEW s, NEW d, Places, UNCHANGED <<hasRemote, taken, server>>,
         Born \subseteq Born', fetched' \in {fetched, NotYet, remote}
  PROVE  Grows(g, g, s, s, d)
<1>1. UNCHANGED <<hasRemote, taken, remote, serverTime>>
  BY DEF server
<1>2. \A id : Gone(id, s) => Gone(id, s)'
  BY <1>1 DEF Gone
<1>3. \A id \in d : Safe(id) => Safe(id)'
  BY <1>1 DEF Safe
<1> QED
  BY <1>1, <1>2, <1>3 DEF Places, Grows

-----------------------------------------------------------------------------
(* The server.                                                              *)

(* A version that the server gives now.                                     *)
Fresh(r, id, u) ==
  /\ r \in Saved /\ r.savedAt = serverTime + 1
  /\ hasRemote /\ id \in Born' /\ r.shared = u[id]

(* A request that an operation or a sync makes.                             *)
Sent(q, s, d) ==
  /\ q.id \in Ids /\ q.call \in {"get", "delete", "save", "update"}
  /\ q.call = "save" =>
       /\ hasRemote /\ q.id \in taken /\ q.shared = s[q.id]
       /\ q.name \in Names /\ q.data \in Data
       /\ q.id \notin d /\ (s[q.id] => q.id \notin Born)
  /\ q.call = "update" =>
       q.name \in Names \cup {None} /\ q.data \in Data \cup {None}

(* What the server has of a layout after a call, and answers.               *)
LEMMA OutcomeFacts ==
  ASSUME NEW g, NEW s \in Shares, NEW d, Places, Typed(g, s, d),
         Born \subseteq Born', NEW q, Sent(q, s, d),
         q.call = "save" => q.id \in Born',
         NEW o \in Outcomes(q)
  PROVE  \E r : /\ o = Outcome(q, r, r)
                /\ r = Absent \/ r = remote[q.id] \/ Fresh(r, q.id, s)
                /\ q.call \in {"save", "update"} =>
                     /\ Exists(r)
                     /\ ~Conflicts /\ q.data # None => r.data = q.data
                /\ Exists(r) /\ ~Exists(remote[q.id]) => q.call = "save"
                /\ q.call = "get" => r = remote[q.id]
                /\ q.call = "delete" => r = Absent
<1> DEFINE old == remote[q.id]
<1>0. /\ old \in Saveds(q.id, g, s, d) \cup {Absent}
      /\ serverTime + 1 \in Nat \ {0} /\ None \notin Data /\ None \notin Names
  BY DEF Typed, RemoteTyped, Places, None, Sent
<1>1. CASE q.call = "get"
  <2>1. o = Outcome(q, old, old)
    BY <1>1 DEF Outcomes
  <2> QED
    BY <1>1, <2>1
<1>2. CASE q.call = "delete"
  <2>1. o = Outcome(q, Absent, Absent)
    BY <1>2 DEF Outcomes
  <2> QED
    BY <1>2, <2>1 DEF Exists
<1>3. CASE q.call = "save"
  <2> DEFINE new == OnServer(q.name, q.data, q.shared)
  <2>1. o = Outcome(q, new, new)
    BY <1>3 DEF Outcomes
  <2>2. new \in Saved /\ new.savedAt = serverTime + 1 /\ new.shared = s[q.id]
        /\ new.data = q.data /\ new.status = "saved"
    <3>1. s[q.id] \in BOOLEAN
      BY DEF Shares, Sent
    <3> QED
      BY <1>0, <1>3, <3>1 DEF OnServer, Saved, Sent
  <2> HIDE DEF new
  <2>3. Fresh(new, q.id, s) /\ Exists(new)
    BY <1>3, <2>2 DEF Fresh, Exists, Absent, Sent
  <2> QED
    BY <1>3, <2>1, <2>2, <2>3
<1>4. CASE q.call = "update"
  <2>1. Exists(old)
    BY <1>4 DEF Outcomes
  <2> DEFINE new == OnServer(Or(q.name, old.name), Or(q.data, old.data),
                             old.shared)
  <2>2. /\ old \in Saveds(q.id, g, s, d) /\ old \in Saved
        /\ q.id \in Born /\ old.shared = s[q.id] /\ hasRemote
    BY <1>0, <2>1 DEF Exists, Saveds
  <2>3. /\ Or(q.name, old.name) \in Names /\ Or(q.data, old.data) \in Data
        /\ old.shared \in BOOLEAN
        /\ q.data # None => Or(q.data, old.data) = q.data
    BY <1>4, <2>2 DEF Saved, Or, Sent
  <2>4. /\ new \in Saved /\ new.savedAt = serverTime + 1
        /\ new.shared = s[q.id] /\ new.status = "saved"
        /\ q.data # None => new.data = q.data
    BY <1>0, <2>2, <2>3 DEF OnServer, Saved
  <2>5. o = Outcome(q, new, new) \/ (Conflicts /\ o = Outcome(q, old, old))
    BY <1>4, <2>1 DEF Outcomes
  <2> HIDE DEF new
  <2>6. Fresh(new, q.id, s) /\ Exists(new)
    BY <2>2, <2>4 DEF Fresh, Exists, Absent
  <2>7. CASE o = Outcome(q, new, new)
    BY <1>4, <2>1, <2>4, <2>6, <2>7
  <2>8. CASE Conflicts /\ o = Outcome(q, old, old)
    BY <1>4, <2>1, <2>8
  <2> QED
    BY <2>5, <2>7, <2>8
<1> QED
  BY <1>1, <1>2, <1>3, <1>4 DEF Sent

(* A call that lands: what the server gives is from then on what it gave.   *)
(* A shared layout that it had, or one that was deleted, does not come back.*)
LEMMA LandsTyped ==
  ASSUME NEW g \in Given, NEW s, NEW u, NEW d, Places, Typed(g, s, d),
         hasRemote' = hasRemote, taken \subseteq taken', Born \subseteq Born',
         fetched' = fetched, \A i \in taken : u[i] = s[i],
         NEW id \in Ids, NEW r,
         r = Absent \/ r = remote[id] \/ Fresh(r, id, u),
         Exists(r) /\ ~Exists(remote[id]) =>
           id \notin d /\ (s[id] => id \notin Born),
         remote' = [remote EXCEPT ![id] = r],
         serverTime' = serverTime + (IF remote' = remote THEN 0 ELSE 1)
  PROVE  \E h \in Given : /\ Grows(g, h, s, u, d) /\ RemoteTyped(h, u, d)'
                          /\ r \in Saveds(id, h, u, d)' \cup {Absent}
<1> DEFINE old == remote[id]
<1>0. Born \subseteq taken /\ Born \subseteq Ids
  BY DEF Born, Places
<1>1. /\ serverTime \in Nat /\ serverTime' \in Nat /\ serverTime <= serverTime'
      /\ serverTime' = serverTime \/ serverTime' = serverTime + 1
  BY DEF Places
<1>2. /\ remote = [i \in Ids |-> remote[i]]
      /\ \A i \in Ids : remote[i] \in Saveds(i, g, s, d) \cup {Absent}
  BY DEF Typed, RemoteTyped
<1>3. /\ remote' = [i \in Ids |-> remote'[i]] /\ remote'[id] = r
      /\ \A i : i # id => remote'[i] = remote[i]
  <2>1. DOMAIN remote = Ids
    BY <1>2
  <2>2. \A i : i \notin Ids => remote'[i] = remote[i]
    BY <2>1
  <2> QED
    BY <1>2, <2>1, <2>2
<1>6. \A i : Gone(i, s) => Gone(i, u)'
  BY <1>0, <1>3 DEF Gone
<1>7. \A i \in d : Safe(i) => Safe(i)'
  BY <1>3 DEF Safe
<1>4. CASE r = Absent \/ r = old
  <2>1. Grows(g, g, s, u, d)
    BY <1>1, <1>6, <1>7 DEF Grows
  <2>2. \A i \in Ids : remote[i] \in Saveds(i, g, u, d)' \cup {Absent}
    BY <1>2, <2>1, RecordsGrow
  <2>3. \A i \in Ids : remote'[i] \in Saveds(i, g, u, d)' \cup {Absent}
    BY <1>3, <1>4, <2>2
  <2> QED
    BY <1>3, <2>1, <2>3 DEF RemoteTyped
<1>5. CASE Fresh(r, id, u)
  <2>1. r \in Saved /\ r.savedAt = serverTime + 1 /\ r.data \in Data
    BY <1>5 DEF Fresh, Saved
  <2>2. PICK h \in Given : h = [g EXCEPT ![serverTime + 1] = r.data]
    BY <1>1, <2>1 DEF Given
  <2>3. /\ h[serverTime + 1] = r.data
        /\ \A k \in Nat : k <= serverTime => h[k] = g[k]
    BY <1>1, <2>2 DEF Given
  <2>4. Grows(g, h, s, u, d)
    BY <1>1, <1>6, <1>7, <2>3 DEF Grows
  <2>5. remote' # remote
    <3>1. old = Absent \/ old.savedAt <= serverTime
      BY <1>2 DEF Saveds
    <3>2. r # Absent
      BY <2>1 DEF Saved, Absent
    <3>3. r # old
      BY <1>1, <2>1, <3>1, <3>2
    <3> QED
      BY <1>3, <3>3
  <2>6. serverTime' = serverTime + 1
    BY <1>1, <2>5
  <2>7. r \in Saveds(id, h, u, d)'
    <3> DEFINE t == serverTime'
    <3>1. r.savedAt = t /\ t \in Nat /\ r.data = h[t]
      BY <1>1, <2>1, <2>3, <2>6
    <3> HIDE DEF t
    <3>2. r.savedAt <= t
      BY <3>1
    <3>3. hasRemote' /\ id \in Born' /\ r.shared = u[id]
      BY <1>5 DEF Fresh
    <3> QED
      BY <2>1, <3>1, <3>2, <3>3 DEF Saveds, t
  <2>8. ASSUME NEW i \in Ids
        PROVE  remote[i] \in Saveds(i, h, u, d)' \cup {Absent}
    <3>1. Saveds(i, g, s, d) \subseteq Saveds(i, h, u, d)'
      BY <2>4, RecordsGrow
    <3> QED
      BY <1>2, <3>1
  <2>9. RemoteTyped(h, u, d)'
    <3>1. \A i \in Ids : remote'[i] \in Saveds(i, h, u, d)' \cup {Absent}
      BY <1>3, <2>7, <2>8
    <3> QED
      BY <1>3, <3>1 DEF RemoteTyped
  <2> QED
    BY <2>2, <2>4, <2>7, <2>9
<1> QED
  BY <1>4, <1>5

-----------------------------------------------------------------------------
(* The queue.                                                               *)

(* What is left of a queue: some sections in their order, some with less to *)
(* do.                                                                      *)
Under(x, y) ==
  /\ x.name = y.name
  /\ x.todo = y.todo \/ (x.name = "locals" /\ x.todo \subseteq y.todo)

Shrinks(q, r) ==
  \E f \in [1..Len(r) -> 1..Len(q)] :
    /\ \A k \in 1..Len(r) : Under(r[k], q[f[k]])
    /\ \A k, l \in 1..Len(r) : k < l => f[k] < f[l]

(* Nothing waits in what is left that did not wait before.                  *)
LEMMA ShrinkFacts ==
  ASSUME NEW S, NEW q \in Seq(S), NEW r \in Seq(S), Shrinks(q, r), Once(q)
  PROVE  /\ Once(r) /\ (ListWaits(r) => ListWaits(q))
         /\ \A m : Waits(m, r) => Waits(m, q)
<1>1. PICK f \in [1..Len(r) -> 1..Len(q)] :
        /\ \A k \in 1..Len(r) : Under(r[k], q[f[k]])
        /\ \A k, l \in 1..Len(r) : k < l => f[k] < f[l]
  BY DEF Shrinks
<1>2. /\ Len(q) \in Nat /\ Len(r) \in Nat
      /\ \A k \in 1..Len(r) : f[k] \in 1..Len(q)
  OBVIOUS
<1>3. Once(r)
  <2> SUFFICES ASSUME NEW k \in 1..Len(r), NEW l \in 1..Len(r),
                      r[k].name \in {"op", "list"}, r[l].name = r[k].name,
                      r[k].todo = r[l].todo
               PROVE  k = l
    BY DEF Once
  <2>1. /\ q[f[k]].name = r[k].name /\ q[f[k]].todo = r[k].todo
        /\ q[f[l]].name = r[l].name /\ q[f[l]].todo = r[l].todo
    BY <1>1 DEF Under
  <2>2. f[k] = f[l]
    BY <1>2, <2>1 DEF Once
  <2>3. ~(k < l) /\ ~(l < k)
    BY <1>1, <1>2, <2>2
  <2> QED
    BY <1>2, <2>3
<1>4. ListWaits(r) => ListWaits(q)
  BY <1>1, <1>2 DEF ListWaits, Under
<1>5. \A m : Waits(m, r) => Waits(m, q)
  BY <1>1, <1>2 DEF Waits, Under
<1> QED
  BY <1>3, <1>4, <1>5

(* What came before the list was harmless, and what is left of it is.       *)
LEMMA ShrinkShield ==
  ASSUME NEW S, NEW q \in Seq(S), NEW r \in Seq(S), Shrinks(q, r),
         NEW id, NEW o, NEW p, Shield(q, id, o),
         \A k \in 1..Len(r) : r[k].name = "op" => p[r[k].todo] = o[r[k].todo]
  PROVE  Shield(r, id, p)
<1>1. PICK f \in [1..Len(r) -> 1..Len(q)] :
        /\ \A k \in 1..Len(r) : Under(r[k], q[f[k]])
        /\ \A k, l \in 1..Len(r) : k < l => f[k] < f[l]
  BY DEF Shrinks
<1>2. Len(q) \in Nat /\ Len(r) \in Nat
  OBVIOUS
<1> SUFFICES ASSUME NEW k \in 1..Len(r), r[k].name = "list",
                    NEW j \in 1..(k - 1)
             PROVE  Harmless(r[j], id, p)
  BY DEF Shield
<1>3. j \in 1..Len(r) /\ j < k
  BY <1>2
<1>4. f[j] \in 1..Len(q) /\ f[k] \in 1..Len(q) /\ f[j] < f[k]
  BY <1>1, <1>3
<1>5. f[j] \in 1..(f[k] - 1)
  BY <1>2, <1>4
<1>6. Under(r[k], q[f[k]]) /\ Under(r[j], q[f[j]])
  BY <1>1, <1>3
<1>7. q[f[k]].name = "list"
  BY <1>6 DEF Under
<1>8. Harmless(q[f[j]], id, o)
  BY <1>4, <1>5, <1>7 DEF Shield
<1>9. r[j].name = "op" => p[r[j].todo] = o[r[j].todo]
  BY <1>3
<1> QED
  BY <1>6, <1>8, <1>9 DEF Harmless, Under

(* What joins the queue after the list cannot disturb it.                   *)
LEMMA AppendShield ==
  ASSUME NEW S, NEW q \in Seq(S), NEW x, x.name # "list",
         NEW id, NEW o, NEW p, Shield(q, id, o),
         \A k \in 1..Len(q) : q[k].name = "op" => p[q[k].todo] = o[q[k].todo]
  PROVE  Shield(Append(q, x), id, p)
<1> DEFINE r == Append(q, x)
<1>1. /\ Len(r) = Len(q) + 1 /\ Len(q) \in Nat
      /\ r[Len(q) + 1] = x /\ \A k \in 1..Len(q) : r[k] = q[k]
  OBVIOUS
<1> HIDE DEF r
<1>2. ASSUME NEW k \in 1..Len(r), r[k].name = "list", NEW j \in 1..(k - 1)
      PROVE  Harmless(r[j], id, p)
  <2>1. k \in 1..Len(q) /\ j \in 1..Len(q)
    BY <1>1, <1>2
  <2>2. q[k].name = "list" /\ r[j] = q[j]
    BY <1>1, <1>2, <2>1
  <2>3. Harmless(q[j], id, o)
    BY <2>1, <2>2 DEF Shield
  <2>4. q[j].name = "op" => p[q[j].todo] = o[q[j].todo]
    BY <2>1
  <2> QED
    BY <2>2, <2>3, <2>4 DEF Harmless
<1>3. Shield(r, id, p)
  BY <1>2 DEF Shield
<1> QED
  BY <1>3 DEF r

(* A section that is not in the queue yet joins it.                         *)
LEMMA AppendFacts ==
  ASSUME NEW S, NEW q \in Seq(S), NEW x \in S, Once(q),
         x.name = "op" => ~Waits(x.todo, q), x.name = "list" => ~ListWaits(q)
  PROVE  LET r == Append(q, x) IN
         /\ r \in Seq(S) /\ Once(r)
         /\ \A m : Waits(m, r) <=> Waits(m, q) \/ (x.name = "op" /\ x.todo = m)
         /\ ListWaits(r) <=> ListWaits(q) \/ x.name = "list"
<1> DEFINE r == Append(q, x)
<1>1. /\ r \in Seq(S) /\ Len(r) = Len(q) + 1 /\ Len(q) \in Nat
      /\ r[Len(q) + 1] = x /\ \A k \in 1..Len(q) : r[k] = q[k]
  OBVIOUS
<1> HIDE DEF r
<1>2. Once(r)
  <2> SUFFICES ASSUME NEW k \in 1..Len(r), NEW l \in 1..Len(r),
                      r[k].name \in {"op", "list"}, r[l].name = r[k].name,
                      r[k].todo = r[l].todo, k < l
               PROVE  FALSE
    BY <1>1 DEF Once
  <2>1. k \in 1..Len(q) /\ r[k] = q[k]
    BY <1>1
  <2>2. CASE l \in 1..Len(q)
    BY <1>1, <2>1, <2>2 DEF Once
  <2>3. CASE l = Len(q) + 1
    BY <1>1, <2>1, <2>3 DEF Waits, ListWaits
  <2> QED
    BY <1>1, <2>2, <2>3
<1>3. ASSUME NEW m
      PROVE  Waits(m, r) <=> Waits(m, q) \/ (x.name = "op" /\ x.todo = m)
  BY <1>1 DEF Waits
<1>4. ListWaits(r) <=> ListWaits(q) \/ x.name = "list"
  BY <1>1 DEF ListWaits
<1> QED
  BY <1>1, <1>2, <1>3, <1>4 DEF r

(* ... one of an operation.                                                 *)
LEMMA AppendOp ==
  ASSUME NEW S, NEW q \in Seq(S), NEW n, Section("op", n) \in S,
         Once(q), ~Waits(n, q)
  PROVE  LET r == Append(q, Section("op", n)) IN
         /\ r \in Seq(S) /\ Once(r) /\ (ListWaits(r) <=> ListWaits(q))
         /\ \A m : Waits(m, r) <=> Waits(m, q) \/ m = n
<1>1. PICK x \in S : x = Section("op", n)
  OBVIOUS
<1>2. x.name = "op" /\ x.todo = n
  BY <1>1 DEF Section
<1> QED
  BY <1>1, <1>2, AppendFacts

(* ... and one of a running sync.                                           *)
LEMMA AppendOther ==
  ASSUME NEW S, NEW q \in Seq(S), NEW x \in S, x.name \notin {"op", "list"},
         Once(q)
  PROVE  LET r == Append(q, x) IN
         /\ r \in Seq(S) /\ Once(r) /\ (ListWaits(r) <=> ListWaits(q))
         /\ \A m : Waits(m, r) <=> Waits(m, q)
  BY AppendFacts

(* The first section is served.                                             *)
LEMMA TailFacts ==
  ASSUME NEW S, NEW q \in Seq(S), q # <<>>, Once(q),
         \A x \in S : x.name = "list" => x.todo = {}
  PROVE  LET r == Tail(q) IN
         /\ r \in Seq(S) /\ Shrinks(q, r) /\ Once(r)
         /\ ListWaits(r) => ListWaits(q)
         /\ Head(q).name = "list" => ~ListWaits(r)
         /\ \A m : Waits(m, r) =>
                     Waits(m, q) /\ ~(Head(q).name = "op" /\ Head(q).todo = m)
<1> DEFINE r == Tail(q)
<1>1. /\ r \in Seq(S) /\ Len(q) = Len(r) + 1 /\ Len(r) \in Nat
      /\ Head(q) = q[1] /\ \A k \in 1..Len(r) : r[k] = q[k + 1]
  OBVIOUS
<1> HIDE DEF r
<1>2. Shrinks(q, r)
  <2>0. \A k \in 1..Len(r) : k + 1 \in 1..Len(q)
    BY <1>1
  <2>1. PICK f \in [1..Len(r) -> 1..Len(q)] : f = [k \in 1..Len(r) |-> k + 1]
    BY <2>0
  <2>2. \A k \in 1..Len(r) : Under(r[k], q[f[k]])
    BY <1>1, <2>1 DEF Under
  <2>3. \A k, l \in 1..Len(r) : k < l => f[k] < f[l]
    BY <1>1, <2>1
  <2> QED
    BY <2>2, <2>3 DEF Shrinks
<1>3. /\ Once(r) /\ (ListWaits(r) => ListWaits(q))
      /\ \A m : Waits(m, r) => Waits(m, q)
  BY <1>1, <1>2, ShrinkFacts
<1>4. ASSUME NEW k \in 1..Len(r), r[k].name \in {"op", "list"},
             r[k].name = q[1].name, r[k].todo = q[1].todo
      PROVE  FALSE
  <2>1. k + 1 \in 1..Len(q) /\ 1 \in 1..Len(q) /\ k + 1 # 1
    BY <1>1
  <2> QED
    BY <1>1, <1>4, <2>1 DEF Once
<1>5. ASSUME NEW m, Waits(m, r)
      PROVE  ~(Head(q).name = "op" /\ Head(q).todo = m)
  BY <1>1, <1>4, <1>5 DEF Waits
<1>6. ASSUME Head(q).name = "list" PROVE ~ListWaits(r)
  <2>1. q[1] \in S /\ \A k \in 1..Len(r) : r[k] \in S
    BY <1>1
  <2> QED
    BY <1>1, <1>4, <1>6, <2>1 DEF ListWaits
<1> QED
  BY <1>1, <1>2, <1>3, <1>5, <1>6 DEF r

(* The section of a sync is taken out of the queue.                         *)
LEMMA WithoutFacts ==
  ASSUME NEW S, queue \in Seq(S), Once(queue), NEW name,
         \A x \in S : x.name = "list" => x.todo = {}
  PROVE  LET r == QueueWithout(name) IN
         /\ r \in Seq(S) /\ Shrinks(queue, r)
         /\ name = "list" => ~ListWaits(r)
<1> DEFINE at == {k \in 1..Len(queue) : queue[k].name = name}
           r == QueueWithout(name)
<1>1. CASE at = {}
  <2>1. r = queue
    BY <1>1 DEF QueueWithout
  <2> HIDE DEF r
  <2>2. PICK f \in [1..Len(queue) -> 1..Len(queue)] :
          f = [k \in 1..Len(queue) |-> k]
    OBVIOUS
  <2>3. Shrinks(queue, r)
    BY <2>1, <2>2 DEF Shrinks, Under
  <2>4. name = "list" => ~ListWaits(r)
    BY <1>1, <2>1 DEF ListWaits
  <2> QED
    BY <2>1, <2>3, <2>4 DEF r
<1>2. CASE at # {}
  <2>1. PICK i \in at : r = RemoveAt(queue, i)
    BY <1>2 DEF QueueWithout
  <2>2. /\ i \in 1..Len(queue) /\ queue[i].name = name /\ Len(queue) \in Nat
    OBVIOUS
  <2> HIDE DEF at, r
  <2>3. /\ r \in Seq(S) /\ Len(queue) = Len(r) + 1 /\ Len(r) \in Nat
        /\ \A k \in 1..Len(r) : r[k] = IF k < i THEN queue[k] ELSE queue[k + 1]
    <3> DEFINE a == SubSeq(queue, 1, i - 1)
               b == SubSeq(queue, i + 1, Len(queue))
    <3>1. /\ a \in Seq(S) /\ Len(a) = i - 1
          /\ \A k \in 1..(i - 1) : a[k] = queue[k]
      <4>1. 1 \in Int /\ i - 1 \in Int /\ \A k \in 1..(i - 1) : queue[k] \in S
        BY <2>2
      <4> QED
        BY <2>2, <4>1, SubSeqProperties
    <3>2. /\ b \in Seq(S) /\ Len(b) = Len(queue) - i
          /\ \A k \in 1..(Len(queue) - i) : b[k] = queue[i + k]
      <4> DEFINE m == i + 1
                 n == Len(queue)
      <4>1. /\ m \in Int /\ n \in Int /\ \A k \in m..n : queue[k] \in S
            /\ b = SubSeq(queue, m, n)
        BY <2>2
      <4> HIDE DEF m, n, b
      <4>2. /\ b \in Seq(S) /\ Len(b) = IF m <= n THEN n - m + 1 ELSE 0
            /\ \A k \in 1..(n - m + 1) : b[k] = queue[m + k - 1]
        BY <4>1, SubSeqProperties
      <4>3. n - m + 1 = n - i /\ (m <= n \/ n - i = 0)
        BY <2>2 DEF m, n
      <4>4. \A k \in 1..(n - i) : m + k - 1 = i + k
        BY <2>2 DEF m, n
      <4> QED
        BY <2>2, <4>2, <4>3, <4>4 DEF m, n
    <3>3. r = a \o b
      BY <2>1 DEF RemoveAt
    <3> HIDE DEF a, b
    <3>4. /\ r \in Seq(S) /\ Len(r) = Len(a) + Len(b)
          /\ \A k \in 1..Len(r) :
               r[k] = IF k <= Len(a) THEN a[k] ELSE b[k - Len(a)]
      <4>1. a \in Seq(S) /\ b \in Seq(S) /\ Len(a) \in Nat /\ Len(b) \in Nat
        BY <3>1, <3>2
      <4>2. /\ a \o b \in Seq(S) /\ Len(a \o b) = Len(a) + Len(b)
            /\ \A k \in 1..(Len(a) + Len(b)) :
                 (a \o b)[k] = IF k <= Len(a) THEN a[k] ELSE b[k - Len(a)]
        BY <4>1, ConcatProperties
      <4> QED
        BY <3>3, <4>1, <4>2
    <3>5. ASSUME NEW k \in 1..Len(r)
          PROVE  r[k] = IF k < i THEN queue[k] ELSE queue[k + 1]
      <4>1. CASE k < i
        <5>1. k \in 1..(i - 1) /\ k <= Len(a)
          BY <2>2, <3>1, <3>4, <4>1
        <5> QED
          BY <3>1, <3>4, <4>1, <5>1
      <4>2. CASE ~(k < i)
        <5>1. /\ k - (i - 1) \in 1..(Len(queue) - i) /\ ~(k <= Len(a))
              /\ i + (k - (i - 1)) = k + 1 /\ k - Len(a) = k - (i - 1)
          BY <2>2, <3>1, <3>2, <3>4, <4>2
        <5>2. r[k] = b[k - (i - 1)]
          BY <3>4, <5>1
        <5>3. b[k - (i - 1)] = queue[k + 1]
          BY <3>2, <5>1
        <5> QED
          BY <4>2, <5>2, <5>3
      <4> QED
        BY <4>1, <4>2
    <3> QED
      BY <2>2, <3>1, <3>2, <3>4, <3>5
  <2>4. Shrinks(queue, r)
    <3>1. \A k \in 1..Len(r) : (IF k < i THEN k ELSE k + 1) \in 1..Len(queue)
      BY <2>2, <2>3
    <3>2. PICK f \in [1..Len(r) -> 1..Len(queue)] :
            f = [k \in 1..Len(r) |-> IF k < i THEN k ELSE k + 1]
      BY <3>1
    <3>3. \A k \in 1..Len(r) : Under(r[k], queue[f[k]])
      BY <2>3, <3>2 DEF Under
    <3>4. \A k, l \in 1..Len(r) : k < l => f[k] < f[l]
      BY <2>2, <2>3, <3>2
    <3> QED
      BY <3>3, <3>4 DEF Shrinks
  <2>5. ASSUME name = "list", NEW k \in 1..Len(r), r[k].name = "list"
        PROVE  FALSE
    <3>1. PICK j \in 1..Len(queue) : j # i /\ r[k] = queue[j]
      BY <2>2, <2>3
    <3>2. queue[i] \in S /\ queue[j] \in S
      BY <2>2
    <3> QED
      BY <2>2, <2>5, <3>1, <3>2 DEF Once
  <2> QED
    BY <2>3, <2>4, <2>5 DEF r, ListWaits
<1> QED
  BY <1>1, <1>2

-----------------------------------------------------------------------------
(* What a sync misses.                                                      *)

(* The section of a list says no more than that.                            *)
LEMMA ListTodo ==
  \A g, s, d : \A x \in Sections(g, s, d) : x.name = "list" => x.todo = {}
  BY DEF Sections

(* A layout that is new to the server is known to nobody yet.               *)
LEMMA UnbornMissed ==
  ASSUME NEW g, NEW s, NEW d, Typed(g, s, d), Queued,
         NEW id \in Ids, id \notin Born
  PROVE  Missed(id)
<1>1. ~Exists(local[id]) /\ (listed # NotYet => ~Exists(listed[id]))
  BY DEF Typed, LocalTyped, ListedTyped, Copies, Exists
<1>2. ASSUME NEW k \in 1..Len(queue) PROVE Harmless(queue[k], id, ops)
  <2>1. queue[k] \in Sections(g, s, d)
    BY DEF Typed, QueueTyped
  <2>2. \A op \in SyncOps(g, s, d) : op.id # id
    BY DEF SyncOps
  <2>3. queue[k].name \in {"locals", "cleanups"} =>
          \A op \in queue[k].todo : op.id # id
    BY <2>1, <2>2 DEF Sections, Locals, Answered, Uploads
  <2>4. ASSUME queue[k].name = "op", ops[queue[k].todo].id = id
        PROVE  ops[queue[k].todo].step = "local"
    <3>1. PICK n \in Calls : n = queue[k].todo
      BY <2>1, <2>4 DEF Sections
    <3>2. Waits(n, queue) /\ ops[n].step \in {"local", "write"}
      BY <2>4, <3>1 DEF Waits, Queued
    <3>3. ops[n] \in UserOps(g, s, d)
      BY <3>2 DEF Typed, OpsTyped, NoOp, Done
    <3>4. ops[n].id = id /\ ~Saving(ops[n])
      BY <2>4, <3>1, <3>2 DEF Saving
    <3>5. ops[n].kind = "get" /\ ops[n].reply = Absent
      BY <3>3, <3>4 DEF UserOps, Saveds
    <3> QED
      BY <3>1, <3>2, <3>3, <3>5 DEF UserOps, Exists
  <2> QED
    BY <2>3, <2>4 DEF Harmless
<1>3. Shield(queue, id, ops)
  <2>1. \A k \in 1..Len(queue) : \A j \in 1..(k - 1) : j \in 1..Len(queue)
    BY DEF Typed, QueueTyped
  <2> QED
    BY <1>2, <2>1 DEF Shield
<1> QED
  BY <1>1, <1>3 DEF Missed

(* What a sync misses now, or is new, it will miss.                         *)
LEMMA UnlistedStays ==
  ASSUME NEW g, NEW h, NEW s, NEW u, NEW d, Grows(g, h, s, u, d),
         Typed(g, s, d), Queued, Unlisted(s), fetched' \in {fetched, NotYet},
         \A id \in Ids : Missed(id) /\ u[id] => Missed(id)'
  PROVE  Unlisted(u)'
<1> SUFFICES ASSUME NEW id \in Ids, Late(id, u)' PROVE Missed(id)
  BY DEF Unlisted, Late
<1>1. CASE id \in Born
  <2>1. u[id] = s[id] /\ (Gone(id, s) => Gone(id, u)')
    BY <1>1 DEF Born, Grows
  <2>2. Late(id, s)
    BY <1>1, <2>1 DEF Late, Gone
  <2> QED
    BY <2>2 DEF Unlisted
<1>2. CASE id \notin Born
  BY <1>2, UnbornMissed
<1> QED
  BY <1>1, <1>2

(* ... as long as no section puts the layout before the list is read.       *)
LEMMA MissedStays ==
  ASSUME NEW id, Missed(id), listed' \in {listed, NotYet},
         ListWaits(queue') =>
           /\ ListWaits(queue) /\ (Exists(local'[id]) => Exists(local[id]))
           /\ Shield(queue, id, ops) => Shield(queue', id, ops')
  PROVE  Missed(id)'
  BY DEF Missed

-----------------------------------------------------------------------------
(* The user's operations.                                                   *)

(* One layout, and what the server gave at time 1.                          *)
LEMMA InitIInv == Init => IInv
<1> SUFFICES ASSUME Init PROVE IInv
  OBVIOUS
<1>2. PICK id \in Ids, shared \in BOOLEAN, tracked \in BOOLEAN,
           edited \in Data \cup {None} :
        /\ OneLayout(id, shared, tracked, edited) /\ taken = {id}
        /\ tracked => hasRemote
  <2>1. PICK id \in Ids, shared \in BOOLEAN, imported \in BOOLEAN,
             edited \in Data \cup {None} :
          /\ hasRemote \in BOOLEAN
          /\ OneLayout(id, shared, hasRemote /\ ~imported, edited)
          /\ taken = {id}
    BY DEF Init
  <2>2. PICK tracked \in BOOLEAN : tracked = (hasRemote /\ ~imported)
    OBVIOUS
  <2> QED
    BY <2>1, <2>2
<1> DEFINE name == CHOOSE n \in Names : TRUE
           data == CHOOSE d \in Data : TRUE
           c == [Layout(name, shared, data,
                        IF tracked THEN "tracked" ELSE "unset",
                        IF tracked THEN 1 ELSE None)
                   EXCEPT !.working = edited]
           r == [status |-> "saved", name |-> name, data |-> data,
                 shared |-> shared, savedAt |-> 1]
<1>1. name \in Names /\ data \in Data
  OBVIOUS
<1>11. /\ local = [i \in Ids |-> IF i # id THEN Absent ELSE c]
       /\ remote = [i \in Ids |-> IF i # id \/ ~tracked THEN Absent ELSE r]
  BY <1>2, Zenon DEF OneLayout
<1>3. /\ hasRemote \in BOOLEAN /\ serverTime = 1 /\ queue = <<>>
      /\ ops = [n \in Calls |-> NoOp] /\ sync = "off" /\ aborted = FALSE
      /\ listed = NotYet /\ fetched = NotYet
      /\ uploads = {} /\ cleanups = {} /\ orphans = {} /\ deleted = {}
  BY DEF Init
<1>14. PICK d \in SUBSET Ids : d = {}
  OBVIOUS
<1>15. Born = {id}
  BY <1>2, <1>3 DEF Born, Saving, NoOp
<1> HIDE DEF name, data
<1>4. PICK g \in Given : g = [k \in Nat |-> data]
  BY <1>1 DEF Given
<1>5. PICK s \in Shares : s = [i \in Ids |-> shared]
  BY DEF Shares
<1>6. LocalTyped(g, s, d)
  <2>1. c \in Copies(id, g, s, d)
    <3>1. c \in Copy
      BY <1>1 DEF Copy, Layout, None, Statuses
    <3>2. /\ c.shared = s[id] /\ c.last <= serverTime
          /\ c.status = "tracked" => hasRemote /\ c.base = g[c.last]
      BY <1>2, <1>3, <1>4, <1>5 DEF Layout, None
    <3>3. c.status # "remotely-deleted" /\ id \notin d /\ id \in Born
      BY <1>14, <1>15 DEF Layout
    <3> HIDE DEF c
    <3> QED
      BY <3>1, <3>2, <3>3 DEF Copies
  <2> HIDE DEF c, r
  <2> QED
    BY <1>11, <1>14, <2>1 DEF LocalTyped
<1>7. RemoteTyped(g, s, d)
  <2>1. tracked => r \in Saveds(id, g, s, d)
    <3>1. r \in Saved
      BY <1>1 DEF Saved
    <3>2. r.shared = s[id] /\ r.savedAt <= serverTime /\ r.data = g[r.savedAt]
      BY <1>3, <1>4, <1>5
    <3> HIDE DEF r
    <3> QED
      BY <1>2, <1>15, <3>1, <3>2 DEF Saveds
  <2> HIDE DEF c, r
  <2> QED
    BY <1>11, <2>1 DEF RemoteTyped
<1>8. Typed(g, s, d)
  <2>1. QueueTyped(g, s, d)
    BY <1>3 DEF QueueTyped
  <2>2. OpsTyped(g, s, d) /\ ListedTyped(g, s, d) /\ FetchedTyped(g, s, d)
    BY <1>3 DEF OpsTyped, ListedTyped, FetchedTyped
  <2> QED
    BY <1>3, <1>6, <1>7, <2>1, <2>2 DEF Typed, SyncTyped
<1>9. Places
  BY <1>2, <1>3 DEF Places, NotYet
<1>10. Queued
  BY <1>3 DEF Queued, Once, Waits, ListWaits, Saving, NoOp
<1>16. Unlisted(s)
  BY <1>3 DEF Unlisted, Late
<1> QED
  BY <1>3, <1>8, <1>9, <1>10, <1>14, <1>16 DEF IInv

(* A call: the ids it takes are new to everything that is kept.             *)
LEMMA CallKeeps ==
  ASSUME IInv, NEW kind \in Kinds, NEW id \in Ids,
         NEW name \in Names \cup {None}, NEW data \in Data \cup {None},
         NEW shared \in BOOLEAN, Call(kind, id, name, data, shared),
         kind = "save" => name \in Names /\ data \in Data,
         kind = "copy" => name \in Names
  PROVE  IInv'
<1>1. PICK g \in Given, s \in Shares, d \in SUBSET Ids :
        d = deleted /\ Typed(g, s, d) /\ Unlisted(s)
  BY DEF IInv
<1> DEFINE op(new) == Op(kind, id, new, name, data, shared)
<1>2. PICK n \in Calls, new \in Ids :
        /\ ops[n] = NoOp
        /\ CASE kind = "save" -> id \notin taken /\ new = id
                                   /\ (shared => hasRemote)
             [] kind = "copy" -> Visible(id) /\ new \notin taken
             [] kind = "get" -> new = id /\ ~Exists(local[id])
             [] OTHER -> new = id /\ Visible(id)
        /\ taken' = IF kind = "get" THEN taken ELSE taken \cup {new}
        /\ IF kind = "save" /\ shared
           THEN /\ ops' =
                     [ops EXCEPT ![n] = [op(new) EXCEPT !.step = "remote"]]
                /\ UNCHANGED queue
           ELSE /\ ops' = [ops EXCEPT ![n] = op(new)]
                /\ queue' = Append(queue, Section("op", n))
  BY DEF Call
<1>3. /\ UNCHANGED <<hasRemote, local, remote, serverTime, sync, aborted,
                     listed, fetched, uploads, cleanups, orphans, deleted>>
  BY DEF Call, server, syncing
<1>4. PICK u \in Shares :
        u = IF kind \in {"save", "copy"}
            THEN [s EXCEPT ![new] = (kind = "save" /\ shared)] ELSE s
  BY DEF Shares
<1>5. /\ new \in taken => u = s
      /\ kind \in {"save", "copy"} => u[new] = (kind = "save" /\ shared)
      /\ \A i \in taken : u[i] = s[i]
  <2>1. kind \in {"save", "copy"} => new \notin taken
    BY <1>2
  <2> QED
    BY <1>4, <2>1 DEF Shares
<1>6. Places'
  BY <1>2, <1>3 DEF IInv, Places
<1>0. /\ ops \in [Calls -> UserOps(g, s, d) \cup {NoOp, Done}]
      /\ taken \subseteq taken' /\ Born \subseteq taken /\ d \subseteq taken
      /\ \A m \in Calls : Saving(ops[m]) => ops[m].id \in taken
      /\ \A m \in Calls : Saving(ops'[m]) =>
           \/ m # n /\ ops'[m] = ops[m]
           \/ m = n /\ kind = "save" /\ shared /\ ops'[m].id = id
  <2>1. ops \in [Calls -> UserOps(g, s, d) \cup {NoOp, Done}]
    BY <1>1 DEF Typed, OpsTyped
  <2>2. \A m \in Calls : Saving(ops[m]) => ops[m].id \in taken
    BY <2>1 DEF UserOps, Saving, NoOp, Done
  <2>3. \A m \in Calls : m # n => ops'[m] = ops[m]
    BY <1>2, <2>1
  <2>4. ASSUME Saving(ops'[n])
        PROVE  kind = "save" /\ shared /\ ops'[n].id = id
    BY <1>2, <2>1, <2>4 DEF Saving, Op
  <2>5. taken \subseteq taken' /\ Born \subseteq taken /\ d \subseteq taken
    BY <1>1, <1>2 DEF Born, IInv, Places
  <2> QED
    BY <2>1, <2>2, <2>3, <2>4, <2>5
<1>17. Born \subseteq Born'
  BY <1>0, <1>2, BornStays
<1>18. /\ kind = "save" /\ ~shared => id \in Born'
       /\ kind = "copy" => new \in Born' \ d
  <2>1. CASE kind = "save" /\ ~shared
    BY <1>0, <1>2, <2>1 DEF Born
  <2>2. CASE kind = "copy"
    <3>1. new \notin taken /\ new \in taken'
      BY <1>2, <2>2
    <3>2. \A m \in Calls : Saving(ops'[m]) => ops'[m].id \in taken
      BY <1>0, <2>2
    <3> QED
      <4>1. new \in Born'
        BY <3>1, <3>2 DEF Born
      <4> QED
        BY <1>0, <2>2, <3>1, <4>1
  <2> QED
    BY <2>1, <2>2
<1>7. Grows(g, g, s, u, d)
  <2>1. \A i : Gone(i, s) => Gone(i, u)'
    BY <1>0, <1>3, <1>5, <1>17 DEF Gone
  <2>2. \A i \in d : Safe(i) => Safe(i)'
    BY <1>3 DEF Safe
  <2> QED
    BY <1>0, <1>3, <1>5, <1>17, <2>1, <2>2 DEF Grows, IInv, Places
<1>8. /\ id \in Born \/ kind \in {"get", "save"}
      /\ id \in d => kind = "get" /\ Safe(id)'
  <2>1. /\ local[id] \in Copies(id, g, s, d) \cup {Absent}
        /\ id \in d /\ ~Exists(local[id]) => Safe(id)
    BY <1>1 DEF Typed, LocalTyped
  <2>2. Exists(local[id]) =>
          id \in Born /\ (id \in d => local[id].status = "locally-deleted")
    BY <2>1 DEF Copies, Exists
  <2>3. Visible(id) => id \in Born \ d
    BY <2>2 DEF Visible, AppearsDeleted
  <2>4. id \in d => kind = "get"
    BY <1>0, <1>2, <2>3 DEF Kinds
  <2>5. id \in d /\ kind = "get" => Safe(id)
    BY <1>2, <2>1
  <2>6. id \in Born \/ kind \in {"get", "save"}
    BY <1>2, <2>3 DEF Kinds
  <2> QED
    BY <1>7, <2>4, <2>5, <2>6 DEF Grows
<1>21. PICK x : x = ops'[n]
  OBVIOUS
<1>9. /\ x \in UserOps(g, u, d)'
      /\ ops' = [ops EXCEPT ![n] = x]
      /\ ops \in [Calls -> UserOps(g, s, d) \cup {NoOp, Done}]
  <2>1. ops \in [Calls -> UserOps(g, s, d) \cup {NoOp, Done}]
    BY <1>1 DEF Typed, OpsTyped
  <2>2. x = [kind |-> kind,
             step |-> IF kind = "save" /\ shared THEN "remote" ELSE "local",
             id |-> id, new |-> new, name |-> name, data |-> data,
             shared |-> shared, read |-> Absent, reply |-> Absent]
    BY <1>2, <1>21, <2>1 DEF Op
  <2>3. ops' = [ops EXCEPT ![n] = x]
    BY <1>2, <1>21, <2>1
  <2>4. x \in OpRecord
    BY <2>2 DEF OpRecord
  <2>5. /\ x.kind # "get" => x.id \in taken'
        /\ x.kind = "save" =>
             /\ x.name \in Names /\ x.data \in Data /\ u[x.id] = x.shared
             /\ x.shared => hasRemote' /\ x.step # "local"
             /\ x.step # "local" => x.shared
        /\ x.kind = "copy" => ~u[x.new] /\ x.name \in Names
        /\ x.kind # "save" => x.step = "local"
        /\ x.step # "write" /\ x.read = Absent /\ x.reply = Absent
    <3>1. x.kind # "get" => x.id \in taken'
      BY <1>0, <1>2, <1>8, <2>2
    <3> QED
      BY <1>2, <1>3, <1>5, <2>2, <3>1
  <2>6. /\ x.kind # "get" /\ ~Saving(x) => x.id \in Born'
        /\ x.kind = "copy" => x.new \in Born' \ d
        /\ x.id \in d => x.kind = "get" /\ Safe(x.id)'
    <3>1. x.kind # "get" /\ ~Saving(x) => x.id \in Born'
      BY <1>8, <1>17, <1>18, <2>2 DEF Saving
    <3>2. x.id = id /\ x.kind = kind /\ x.new = new
      BY <2>2
    <3> QED
      BY <1>8, <1>18, <3>1, <3>2
  <2> QED
    BY <2>1, <2>3, <2>4, <2>5, <2>6 DEF UserOps
<1>10. /\ LocalTyped(g, u, d)' /\ RemoteTyped(g, u, d)'
       /\ ListedTyped(g, u, d)'
       /\ FetchedTyped(g, u, d)' /\ SyncTyped(g, u, d)'
       /\ queue' = queue => QueueTyped(g, u, d)'
  BY <1>1, <1>3, <1>7, StaysTyped
<1>11. OpsTyped(g, u, d)'
  <2>1. UserOps(g, s, d) \subseteq UserOps(g, u, d)'
    BY <1>7, OpsGrow
  <2> QED
    BY <1>9, <2>1 DEF OpsTyped
<1>12. ops'[n] = x /\ \A m \in Calls : m # n => ops'[m] = ops[m]
  BY <1>9
<1>19. \A i, m \in Calls : Saving(ops'[i]) /\ Saving(ops'[m])
                             /\ ops'[i].id = ops'[m].id => i = m
  <2> SUFFICES ASSUME NEW i \in Calls, NEW m \in Calls, i # m,
                      Saving(ops'[i]), Saving(ops'[m]), ops'[i].id = ops'[m].id
               PROVE  FALSE
    OBVIOUS
  <2>1. CASE i # n /\ m # n
    BY <1>0, <2>1 DEF IInv, Queued
  <2>2. CASE i = n \/ m = n
    BY <1>0, <1>2, <2>2
  <2> QED
    BY <2>1, <2>2
<1>20. ~Waits(n, queue) /\ Once(queue)
  BY <1>2 DEF IInv, Queued, NoOp
<1>13. /\ QueueTyped(g, u, d)' /\ Queued'
       /\ \A i \in Ids : Shield(queue, i, ops) => Shield(queue', i, ops')
       /\ ListWaits(queue') => ListWaits(queue)
  <2>0. \A k \in 1..Len(queue) :
          queue[k].name = "op" => ops'[queue[k].todo] = ops[queue[k].todo]
    <3> SUFFICES ASSUME NEW k \in 1..Len(queue), queue[k].name = "op"
                 PROVE  ops'[queue[k].todo] = ops[queue[k].todo]
      OBVIOUS
    <3>1. queue[k] \in Sections(g, s, d)
      BY <1>1 DEF Typed, QueueTyped
    <3>2. queue[k].todo \in Calls /\ queue[k].todo # n
      BY <1>20, <3>1 DEF Waits, Sections
    <3> QED
      BY <1>12, <3>2
  <2>1. CASE kind = "save" /\ shared
    <3>1. queue' = queue
      BY <1>2, <2>1
    <3>2. Queued'
      BY <1>3, <1>12, <1>19, <1>20, <3>1 DEF IInv, Queued
    <3>3. \A i \in Ids : Shield(queue, i, ops) => Shield(queue', i, ops')
      <4>1. queue \in Seq(Sections(g, s, d))
        BY <1>1 DEF Typed, QueueTyped
      <4>2. \A k \in 1..Len(queue) : \A j \in 1..(k - 1) : j \in 1..Len(queue)
        BY <4>1
      <4> QED
        BY <2>0, <3>1, <4>2 DEF Shield, Harmless
    <3> QED
      BY <1>10, <3>1, <3>2, <3>3
  <2>2. CASE ~(kind = "save" /\ shared)
    <3> DEFINE S == Sections(g, u, d)'
    <3>1. queue' = Append(queue, Section("op", n)) /\ x.step = "local"
      BY <1>2, <1>9, <1>21, <2>2 DEF Op
    <3>3. queue \in Seq(S) /\ Section("op", n) \in S
      <4>1. queue \in Seq(S)
        BY <1>1, <1>7, QueueGrows DEF Typed, QueueTyped
      <4> QED
        BY <4>1 DEF Section, Sections
    <3> HIDE DEF S
    <3>4. /\ queue' \in Seq(S) /\ Once(queue')
          /\ ListWaits(queue') <=> ListWaits(queue)
          /\ \A m : Waits(m, queue') <=> Waits(m, queue) \/ m = n
      BY <1>20, <3>1, <3>3, AppendOp
    <3>5. QueueTyped(g, u, d)'
      BY <3>4 DEF QueueTyped, S
    <3>6. Queued'
      BY <1>3, <1>12, <1>19, <3>1, <3>4 DEF IInv, Queued
    <3>7. ASSUME NEW i \in Ids, Shield(queue, i, ops)
          PROVE  Shield(queue', i, ops')
      <4>1. PICK y : y = Section("op", n)
        OBVIOUS
      <4>2. y.name # "list"
        BY <4>1 DEF Section
      <4>3. Shield(Append(queue, y), i, ops')
        BY <2>0, <3>3, <3>7, <4>2, AppendShield
      <4> QED
        BY <3>1, <4>1, <4>3
    <3> QED
      BY <3>4, <3>5, <3>6, <3>7
  <2> QED
    BY <2>1, <2>2
<1>14. Typed(g, u, d)'
  BY <1>10, <1>11, <1>13 DEF Typed
<1>15. Unlisted(u)'
  <2>1. \A i \in Ids : Missed(i) => Missed(i)'
    BY <1>3, <1>13, MissedStays
  <2> QED
    BY <1>1, <1>3, <1>7, <2>1, UnlistedStays DEF IInv
<1>16. d = deleted'
  BY <1>1, <1>3
<1> QED
  BY <1>6, <1>13, <1>14, <1>15, <1>16 DEF IInv

(* A version of the server that the local store takes over.                *)
LEMMA TrackedTyped ==
  ASSUME NEW g, NEW s, NEW d, NEW id, id \notin d,
         NEW r \in Saveds(id, g, s, d)
  PROVE  Tracked(r) \in Copies(id, g, s, d) /\ Tracked(r).working = None
<1> DEFINE c == Tracked(r)
<1>1. r \in Saved /\ r.savedAt \in Nat
  BY DEF Saveds, Saved
<1>2. c \in Copy
  BY <1>1 DEF Copy, Saved, Tracked, Layout, Statuses, None
<1>3. /\ c.shared = r.shared /\ c.last = r.savedAt /\ c.base = r.data
      /\ c.status = "tracked" /\ c.working = None
  BY DEF Tracked, Layout
<1> HIDE DEF c
<1>4. c \in Copies(id, g, s, d)
  BY <1>2, <1>3 DEF Copies, Saveds
<1> QED
  BY <1>3, <1>4 DEF c

(* What an operation writes from what it has read and the server answered.  *)
LEMMA WrittenTyped ==
  ASSUME NEW g, NEW s, NEW d, Places, Typed(g, s, d),
         NEW op \in UserOps(g, s, d),
         op.kind # "copy", OneSection(op) \/ op.step = "write",
         op.step \in {"local", "write"}
  PROVE  /\ op.id \notin d
         /\ Written(op) \in Copies(op.id, g, s, d) \cup {Absent}
<1> DEFINE l == op.read
           r == op.reply
           C == Copies(op.id, g, s, d)
           w == Written(op)
<1>1. /\ op \in OpRecord /\ op.kind \in Kinds /\ op.id \in Ids
      /\ op.name \in Names \cup {None} /\ op.data \in Data \cup {None}
  BY DEF UserOps, OpRecord
<1>0. op.id \notin d /\ (op.kind # "get" => op.id \in Born)
  BY DEF UserOps, OneSection, Saving
<1> SUFFICES Written(op) \in Copies(op.id, g, s, d) \cup {Absent}
  BY <1>0
<1>2. l \in C \cup {Absent} /\ r \in Saveds(op.id, g, s, d) \cup {Absent}
  BY DEF UserOps
<1>3. Exists(l) => /\ l \in C /\ l \in Copy /\ Edited(l) \in Data
                   /\ l.working \in Data \cup {None}
  BY <1>2 DEF Exists, Copies, Copy, Edited
<1>4. Exists(r) => /\ r \in Saveds(op.id, g, s, d) /\ r \in Saved
                   /\ Tracked(r) \in C
                   /\ r.savedAt \in Nat
  BY <1>0, <1>2, TrackedTyped DEF Exists, Saveds, Saved
<1>5. local[op.id] \in C \cup {Absent}
  BY <1>1 DEF Typed, LocalTyped
<1>6. CASE op.kind = "update" /\ Exists(r)
  <2> DEFINE v == NewWorking(op)
             t == Tracked(r)
  <2>1. v \in Data \cup {None}
    <3>1. Exists(l)
      BY <1>6 DEF UserOps, OneSection
    <3> QED
      BY <1>1, <1>3, <3>1 DEF NewWorking
  <2>2. w = [t EXCEPT !.working = v]
    BY <1>6 DEF Written
  <2>3. t \in C
    BY <1>4, <1>6
  <2> HIDE DEF v, t, w
  <2>4. w \in Copy /\ w.shared = t.shared /\ w.last = t.last
        /\ w.status = t.status /\ w.base = t.base
    BY <2>1, <2>2, <2>3 DEF Copies, Copy
  <2> QED
    BY <2>3, <2>4 DEF Copies, w
<1>7. CASE op.kind = "update" /\ ~Exists(r)
  <2> DEFINE v == NewWorking(op)
             n == Or(op.name, l.name)
  <2>1. Exists(l)
    BY <1>7 DEF UserOps, OneSection
  <2>2. v \in Data \cup {None} /\ n \in Names
    BY <1>1, <1>3, <2>1 DEF NewWorking, Or, Copy
  <2>3. PICK b \in {"updated", l.status} :
          w = [l EXCEPT !.name = n, !.working = v, !.status = b]
    BY <1>7 DEF Written
  <2> HIDE DEF v, n, w
  <2>4. w \in Copy /\ w.shared = l.shared /\ w.last = l.last
        /\ w.status = b /\ w.base = l.base
    BY <1>3, <2>1, <2>2, <2>3 DEF Copy, Statuses
  <2> QED
    BY <1>0, <1>3, <1>7, <2>1, <2>3, <2>4 DEF Copies, w
<1>8. CASE op.kind = "overwrite" /\ Exists(r)
  <2>1. Exists(l)
    BY <1>8 DEF UserOps, OneSection
  <2>2. w = [l EXCEPT !.base = r.data, !.working = None,
                      !.status = "tracked", !.last = r.savedAt]
    BY <1>8 DEF Written
  <2> HIDE DEF w
  <2>3. w \in Copy /\ w.shared = l.shared /\ w.last = r.savedAt
        /\ w.base = r.data
    BY <1>3, <1>4, <1>8, <2>1, <2>2 DEF Copy, Saved, Statuses, None
  <2> QED
    <3>1. w.status = "tracked"
      BY <1>3, <2>1, <2>2 DEF Copy
    <3> QED
      BY <1>0, <1>3, <1>4, <1>8, <2>1, <2>3, <3>1 DEF Copies, Saveds, w
<1>9. CASE op.kind = "overwrite" /\ ~Exists(r)
  <2> DEFINE v == Edited(l)
             b == IF hasRemote /\ l.status # "new" THEN "updated" ELSE l.status
  <2>1. Exists(l)
    BY <1>9 DEF UserOps, OneSection
  <2>2. w = [l EXCEPT !.base = v, !.working = None, !.status = b]
    BY <1>9 DEF Written
  <2>3. /\ v \in Data /\ b \in Statuses /\ b # "tracked"
        /\ b \in {"updated", l.status}
    BY <1>3, <2>1 DEF Copies, Copy, Statuses, Places
  <2> HIDE DEF w, v, b
  <2>4. w \in Copy /\ w.shared = l.shared /\ w.last = l.last /\ w.status = b
    BY <1>3, <2>1, <2>2, <2>3 DEF Copy, None
  <2> QED
    BY <1>0, <1>3, <1>9, <2>1, <2>3, <2>4 DEF Copies, w
<1>10. CASE op.kind = "delete"
  <2>1. Exists(l)
    BY <1>10 DEF UserOps, OneSection
  <2> DEFINE v == Edited(l)
  <2>2. \/ w = [l EXCEPT !.working = v, !.status = "locally-deleted"]
        \/ w = Absent
    BY <1>10 DEF Written
  <2> HIDE DEF w, v
  <2>3. CASE w = [l EXCEPT !.working = v, !.status = "locally-deleted"]
    <3>1. w \in Copy /\ w.shared = l.shared /\ w.last = l.last
          /\ w.status = "locally-deleted"
      BY <1>3, <2>1, <2>3 DEF Copy, Statuses, v
    <3> QED
      BY <1>0, <1>3, <1>10, <2>1, <3>1 DEF Copies, w
  <2> QED
    BY <2>2, <2>3 DEF w
<1>11. CASE op.kind = "get"
  <2>1. Exists(r)
    BY <1>11 DEF UserOps, OneSection
  <2> QED
    BY <1>4, <1>5, <1>11, <2>1 DEF Written
<1>12. CASE op.kind = "save" /\ op.shared
  <2>1. Exists(r)
    BY <1>12 DEF UserOps
  <2> QED
    BY <1>4, <1>12, <2>1 DEF Written
<1>13. CASE op.kind = "save" /\ ~op.shared
  <2> DEFINE b == IF hasRemote THEN "new" ELSE "unset"
  <2>1. w = Layout(op.name, FALSE, op.data, b, None)
    BY <1>13 DEF Written
  <2>2. op.name \in Names /\ op.data \in Data /\ op.id \in taken /\ ~s[op.id]
        /\ s[op.id] = op.shared
    BY <1>13 DEF UserOps
  <2>3. op.shared = FALSE
    BY <1>1, <1>13 DEF OpRecord
  <2> HIDE DEF w
  <2>4. w \in Copy /\ w.shared = FALSE /\ w.last = 0
        /\ w.status \in {"new", "unset"}
    BY <2>1, <2>2 DEF Copy, Layout, Statuses, None
  <2> QED
    <3>1. w.shared = s[op.id] /\ op.id \in taken
      BY <2>2, <2>3, <2>4
    <3>3. w.last <= serverTime
      BY <2>4 DEF Places
    <3>2. w \in C
      BY <1>0, <1>13, <2>4, <3>1, <3>3 DEF Copies
    <3> QED
      BY <3>2 DEF w
<1>14. CASE op.kind = "revert"
  <2> DEFINE k == local[op.id]
  <2>1. CASE Exists(k)
    <3>1. w = [k EXCEPT !.working = None] /\ k \in C
      BY <1>5, <1>14, <2>1 DEF Written, Exists
    <3> HIDE DEF w, k
    <3>2. w \in Copy /\ w.shared = k.shared /\ w.last = k.last
          /\ w.status = k.status /\ w.base = k.base
      BY <3>1 DEF Copies, Copy
    <3> QED
      BY <3>1, <3>2 DEF Copies, w
  <2>2. CASE ~Exists(k)
    BY <1>14, <2>2 DEF Written
  <2> QED
    BY <2>1, <2>2
<1> QED
  BY <1>0, <1>1, <1>6, <1>7, <1>8, <1>9, <1>10, <1>11, <1>12, <1>13, <1>14
     DEF Kinds

(* What makePersonalCopy leaves in the local store.                         *)
LEMMA CopiedTyped ==
  ASSUME NEW g, NEW s \in Shares, NEW d, Places, Typed(g, s, d),
         NEW op \in UserOps(g, s, d),
         op.kind = "copy", local' = Copied(op)
  PROVE  /\ local' = [i \in Ids |-> local'[i]]
         /\ \A i \in Ids :
              /\ local'[i] \in Copies(i, g, s, d) \cup {Absent}
              /\ Exists(local[i]) => Exists(local'[i])
              /\ i # op.new => (Exists(local'[i]) => Exists(local[i]))
<1> DEFINE l == local[op.id]
           c == Layout(op.name, FALSE, Edited(l), "new", None)
           e == [l EXCEPT !.working = None]
<1>1. /\ op.id \in Ids /\ op.new \in Born \ d /\ op.new \in Ids
      /\ op.name \in Names /\ ~s[op.new]
  BY DEF UserOps, OpRecord
<1>2. /\ local = [i \in Ids |-> local[i]]
      /\ \A i \in Ids : local[i] \in Copies(i, g, s, d) \cup {Absent}
  BY DEF Typed, LocalTyped
<1>3. CASE ~Exists(l)
  BY <1>2, <1>3 DEF Copied
<1>4. CASE Exists(l)
  <2>1. l \in Copies(op.id, g, s, d) /\ l \in Copy
    BY <1>1, <1>2, <1>4 DEF Exists, Copies
  <2>2. s[op.new] = FALSE
    BY <1>1 DEF Shares
  <2>3. c \in Copies(op.new, g, s, d)
    <3>1. c \in Copy
      BY <1>1, <2>1 DEF Copy, Layout, Statuses, None, Edited
    <3>2. c.shared = FALSE /\ c.last = 0 /\ c.status = "new"
      BY DEF Layout, None
    <3> HIDE DEF c
    <3>3. c.last <= serverTime
      BY <3>2 DEF Places
    <3> QED
      BY <1>1, <2>2, <3>1, <3>2, <3>3 DEF Copies
  <2>4. e \in Copies(op.id, g, s, d)
    <3>1. /\ e \in Copy /\ e.shared = l.shared /\ e.last = l.last
          /\ e.status = l.status /\ e.base = l.base
      BY <2>1 DEF Copy
    <3> HIDE DEF e
    <3> QED
      BY <2>1, <3>1 DEF Copies
  <2>5. local' = [local EXCEPT ![op.new] = c, ![op.id].working = None]
    BY <1>4 DEF Copied
  <2> DEFINE f == [c EXCEPT !.working = None]
  <2>6. f \in Copies(op.new, g, s, d)
    <3> HIDE DEF c
    <3>1. /\ f \in Copy /\ f.shared = c.shared /\ f.last = c.last
          /\ f.status = c.status /\ f.base = c.base
      BY <2>3 DEF Copies, Copy
    <3> HIDE DEF f
    <3> QED
      BY <2>3, <3>1 DEF Copies
  <2> HIDE DEF c
  <2>7. /\ op.id # op.new => local'[op.new] = c
        /\ op.id = op.new => local'[op.new] = f
        /\ op.id # op.new => local'[op.id] = e
        /\ \A i \in Ids \ {op.id, op.new} : local'[i] = local[i]
        /\ local' = [i \in Ids |-> local'[i]]
    BY <1>1, <1>2, <2>5
  <2> HIDE DEF f, e
  <2>8. \A i : Absent \notin Copies(i, g, s, d)
    BY DEF Copies, Copy, Absent
  <2>9. \A i \in Ids : local'[i] \in Copies(i, g, s, d) \cup {Absent}
    BY <1>2, <2>3, <2>4, <2>6, <2>7
  <2>10. Exists(local'[op.id]) /\ Exists(local'[op.new])
    BY <2>3, <2>4, <2>6, <2>7, <2>8 DEF Exists
  <2> QED
    BY <1>4, <2>7, <2>9, <2>10
<1> QED
  BY <1>3, <1>4

(* The operation that is served is one that waits, with the layout it is on.*)
LEMMA FirstOp ==
  ASSUME NEW g, NEW s, NEW d, Queued, Typed(g, s, d), queue # <<>>,
         Head(queue).name = "op"
  PROVE  LET n == Head(queue).todo IN
         /\ n \in Calls /\ ops[n] \in UserOps(g, s, d)
         /\ ops[n].step \in {"local", "write"}
         /\ Head(queue) = Section("op", n)
         /\ Section("op", n) \in Sections(g, s, d)
         /\ queue \in Seq(Sections(g, s, d))
         /\ Tail(queue) \in Seq(Sections(g, s, d))
         /\ Once(Tail(queue)) /\ ~Waits(n, Tail(queue))
         /\ Shrinks(queue, Tail(queue))
         /\ ListWaits(Tail(queue)) => ListWaits(queue)
         /\ \A m : Waits(m, Tail(queue)) => Waits(m, queue) /\ m # n
<1> DEFINE h == Head(queue)
           n == Head(queue).todo
           S == Sections(g, s, d)
<1>1. queue \in Seq(S) /\ Once(queue)
  BY DEF Queued, Typed, QueueTyped
<1>2. h \in S /\ h = queue[1] /\ 1 \in 1..Len(queue)
  BY <1>1
<1>3. n \in Calls /\ h = Section("op", n)
  BY <1>2 DEF Sections, Section
<1>4. Waits(n, queue)
  BY <1>2 DEF Waits
<1>5. ops[n].step \in {"local", "write"}
  BY <1>3, <1>4 DEF Queued
<1>6. ops[n] \in UserOps(g, s, d)
  BY <1>3, <1>5 DEF Typed, OpsTyped, NoOp, Done
<1> HIDE DEF S
<1>8. \A x \in S : x.name = "list" => x.todo = {}
  BY ListTodo DEF S
<1>7. /\ Tail(queue) \in Seq(S) /\ Once(Tail(queue))
      /\ Shrinks(queue, Tail(queue))
      /\ ListWaits(Tail(queue)) => ListWaits(queue)
      /\ \A m : Waits(m, Tail(queue)) =>
                  Waits(m, queue) /\ ~(Head(queue).name = "op" /\ n = m)
  BY <1>1, <1>8, TailFacts
<1> QED
  BY <1>1, <1>2, <1>3, <1>5, <1>6, <1>7 DEF S

(* What the first section of an operation leaves to do.                     *)
LEMMA ReadTyped ==
  ASSUME NEW g, NEW s, NEW d, Places, Typed(g, s, d), NEW n \in Calls,
         ops[n] \in UserOps(g, s, d), ops[n].step = "local",
         ~OneSection(ops[n]),
         Reads(n)
  PROVE  /\ ops'[n] \in UserOps(g, s, d) \cup {Done} /\ ~Saving(ops'[n])
         /\ ops' = [ops EXCEPT ![n] = ops'[n]]
<1> DEFINE op == ops[n]
           l == local[op.id]
           x == ops'[n]
<1>1. ops \in [Calls -> UserOps(g, s, d) \cup {NoOp, Done}]
  BY DEF Typed, OpsTyped
<1>2. /\ op \in OpRecord /\ op.id \in Ids
      /\ op.kind \in {"get", "update", "overwrite", "delete"}
  BY DEF UserOps, OpRecord, OneSection, Kinds
<1>3. l \in Copies(op.id, g, s, d) \cup {Absent}
  BY <1>2 DEF Typed, LocalTyped
<1>4. CASE op.kind = "get"
  <2>1. x \in {Done, [op EXCEPT !.step = "remote"]}
        /\ ops' = [ops EXCEPT ![n] = x]
    BY <1>1, <1>4 DEF Reads
  <2>2. [op EXCEPT !.step = "remote"] \in UserOps(g, s, d)
    BY <1>2, <1>4 DEF UserOps, OpRecord
  <2>3. ~Saving([op EXCEPT !.step = "remote"]) /\ ~Saving(Done)
    BY <1>2, <1>4 DEF Saving, OpRecord, Done
  <2> QED
    BY <2>1, <2>2, <2>3
<1>5. CASE op.kind # "get"
  <2> DEFINE b == IF Needs(op, l) THEN "remote" ELSE "write"
             y == [op EXCEPT !.read = l, !.step = b]
  <2>1. /\ x = Done \/ (Exists(l) /\ x = y)
        /\ ops' = [ops EXCEPT ![n] = x]
    BY <1>1, <1>5 DEF Reads
  <2>2. ASSUME Exists(l) PROVE y \in UserOps(g, s, d) /\ ~Saving(y)
    <3>1. l \in Copy /\ l \in Copies(op.id, g, s, d)
      BY <1>3, <2>2 DEF Exists, Copies
    <3>2. b \in {"remote", "write"}
      OBVIOUS
    <3>4. op.kind = "delete" /\ b = "write" =>
            ~l.shared \/ l.status = "remotely-deleted"
      BY DEF Needs
    <3> HIDE DEF b, l
    <3>3. /\ y.kind = op.kind /\ y.id = op.id /\ y.new = op.new
          /\ y.name = op.name /\ y.data = op.data /\ y.shared = op.shared
          /\ y.read = l /\ y.reply = op.reply /\ y.step = b /\ y \in OpRecord
      BY <1>2, <3>1, <3>2 DEF OpRecord
    <3> HIDE DEF y
    <3> QED
      <4>1. y.id \notin d
        BY <1>5, <3>3 DEF UserOps
      <4>2. y.kind = "delete" /\ y.step = "write" /\ s[y.id] => Gone(y.id, s)
        BY <1>5, <3>1, <3>3, <3>4 DEF Copies
      <4>3. ~Saving(op) /\ ~Saving(y)
        BY <1>2, <3>3 DEF Saving
      <4> QED
        BY <1>2, <1>5, <2>2, <3>1, <3>2, <3>3, <4>1, <4>2, <4>3 DEF UserOps
  <2>3. ~Saving(Done)
    BY DEF Saving, Done
  <2> QED
    BY <2>1, <2>2, <2>3
<1> QED
  BY <1>4, <1>5

(* What waits behind the first section, which is not the list.              *)
LEMMA HeadHarmless ==
  ASSUME NEW S, queue \in Seq(S), queue # <<>>, Head(queue).name # "list",
         ListWaits(queue), NEW id, Shield(queue, id, ops)
  PROVE  Harmless(Head(queue), id, ops)
<1>1. Head(queue) = queue[1] /\ Len(queue) \in Nat
  OBVIOUS
<1>2. PICK k \in 1..Len(queue) : queue[k].name = "list"
  BY DEF ListWaits
<1>3. k # 1 /\ 1 \in 1..(k - 1)
  BY <1>1, <1>2
<1> QED
  BY <1>1, <1>2, <1>3 DEF Shield

(* A section of an operation: it reads the layout and asks or waits again,  *)
(* or writes it and is done.                                                *)
LEMMA OpSectionTyped ==
  ASSUME Places, Queued, OpSection,
         NEW g \in Given, NEW s \in Shares, NEW d \in SUBSET Ids,
         Typed(g, s, d), Unlisted(s)
  PROVE  Queued' /\ Typed(g, s, d)' /\ Unlisted(s)'
<1> DEFINE n == Head(queue).todo
           S == Sections(g, s, d)
           T == Sections(g, s, d)'
<1>2. /\ queue # <<>> /\ Head(queue).name = "op"
      /\ UNCHANGED <<hasRemote, taken, server, remote, serverTime, sync,
                     aborted, listed, fetched, uploads, cleanups, orphans>>
  BY DEF OpSection, server, syncing
<1>4. /\ n \in Calls /\ ops[n] \in UserOps(g, s, d)
      /\ ops[n].step \in {"local", "write"}
      /\ Head(queue) = Section("op", n) /\ Section("op", n) \in S
      /\ queue \in Seq(S) /\ Tail(queue) \in Seq(S)
      /\ Once(Tail(queue)) /\ ~Waits(n, Tail(queue))
      /\ Shrinks(queue, Tail(queue))
      /\ ListWaits(Tail(queue)) => ListWaits(queue)
      /\ \A m : Waits(m, Tail(queue)) => Waits(m, queue) /\ m # n
  BY <1>2, FirstOp
<1>9. ops \in [Calls -> UserOps(g, s, d) \cup {NoOp, Done}]
  BY DEF Typed, OpsTyped
<1> HIDE DEF n
<1>13. /\ ~Saving(ops'[n]) /\ \A m \in Calls : m # n => ops'[m] = ops[m]
  <2>1. CASE Writes(n)
    BY <1>4, <1>9, <2>1 DEF Writes, Saving, Done
  <2>2. CASE ~OneSection(ops[n]) /\ ops[n].step # "write" /\ Reads(n)
    <3>1. ~Saving(ops'[n]) /\ ops' = [ops EXCEPT ![n] = ops'[n]]
      BY <1>4, <2>2, ReadTyped
    <3> QED
      BY <1>4, <1>9, <3>1
  <2> QED
    BY <2>1, <2>2 DEF OpSection, n
<1>14. Born \subseteq Born'
  BY <1>2, <1>13, BornStays
<1>5. Grows(g, g, s, s, d)
  BY <1>2, <1>14, StandsStill
<1>6. /\ RemoteTyped(g, s, d)' /\ ListedTyped(g, s, d)'
      /\ FetchedTyped(g, s, d)'
      /\ SyncTyped(g, s, d)'
      /\ local' = local => LocalTyped(g, s, d)'
  BY <1>2, <1>5, StaysTyped
<1>7. S \subseteq T /\ Seq(S) \subseteq Seq(T)
  BY <1>5, QueueGrows
<1>8. UserOps(g, s, d) \subseteq UserOps(g, s, d)'
  BY <1>5, OpsGrow
<1>15. \A j, m \in Calls : Saving(ops'[j]) /\ Saving(ops'[m])
                             /\ ops'[j].id = ops'[m].id => j = m
  BY <1>13 DEF Queued
<1>16. \A i \in Ids : Shield(queue, i, ops) => Shield(Tail(queue), i, ops')
  <2>1. PICK q \in Seq(S) : q = Tail(queue)
    BY <1>4
  <2>2. ASSUME NEW k \in 1..Len(q), q[k].name = "op"
        PROVE  ops'[q[k].todo] = ops[q[k].todo]
    <3>1. q[k] \in S
      OBVIOUS
    <3>2. q[k].todo \in Calls
      BY <2>2, <3>1 DEF Sections
    <3>3. q[k].todo # n
      BY <1>4, <2>1, <2>2 DEF Waits
    <3> QED
      BY <1>13, <3>2, <3>3
  <2> HIDE DEF S
  <2>3. ASSUME NEW i \in Ids, Shield(queue, i, ops) PROVE Shield(q, i, ops')
    BY <1>4, <2>1, <2>2, <2>3, ShrinkShield
  <2> QED
    BY <2>1, <2>3
<1> HIDE DEF S, T
<1>10. CASE Writes(n) /\ queue' = Tail(queue)
              /\ (OneSection(ops[n]) \/ ops[n].step = "write")
  <2>0. PICK op : op = ops[n]
    OBVIOUS
  <2>1. ops' = [ops EXCEPT ![n] = Done]
    BY <1>10 DEF Writes
  <2>2. OpsTyped(g, s, d)'
    BY <1>4, <1>8, <1>9, <2>1 DEF OpsTyped
  <2>3. QueueTyped(g, s, d)'
    BY <1>4, <1>7, <1>10 DEF QueueTyped, T
  <2>4. Queued'
    BY <1>2, <1>4, <1>10, <1>13, <1>15 DEF Queued
  <2>5. /\ local' = [i \in Ids |-> local'[i]]
        /\ \A i \in Ids : local'[i] \in Copies(i, g, s, d) \cup {Absent}
        /\ \A i \in d : ~Exists(local'[i]) => ~Exists(local[i])
        /\ \A i \in Ids : Exists(local'[i]) =>
             \/ Exists(local[i])
             \/ op.kind = "copy" /\ i = op.new
             \/ op.kind # "copy" /\ i = op.id
    <3>1. CASE op.kind = "copy"
      <4>1. local' = Copied(op)
        BY <1>10, <2>0, <3>1 DEF Writes
      <4>2. /\ local' = [i \in Ids |-> local'[i]]
            /\ \A i \in Ids :
                 /\ local'[i] \in Copies(i, g, s, d) \cup {Absent}
                 /\ Exists(local[i]) => Exists(local'[i])
                 /\ i # op.new => (Exists(local'[i]) => Exists(local[i]))
        <5>1. op \in UserOps(g, s, d)
          BY <1>4, <2>0
        <5> QED
          BY <3>1, <4>1, <5>1, CopiedTyped
      <4>3. \A i \in d : ~Exists(local'[i]) => ~Exists(local[i])
        BY <4>2
      <4>4. \A i \in Ids : local'[i] \in Copies(i, g, s, d) \cup {Absent}
        BY <4>2
      <4>5. \A i \in Ids :
              i # op.new => (Exists(local'[i]) => Exists(local[i]))
        BY <4>2
      <4> QED
        BY <3>1, <4>2, <4>3, <4>4, <4>5
    <3>2. CASE op.kind # "copy"
      <4> DEFINE id == op.id
                 w == Written(op)
      <4>1. local' = [local EXCEPT ![id] = w]
        BY <1>10, <2>0, <3>2 DEF Writes
      <4>2. w \in Copies(id, g, s, d) \cup {Absent} /\ id \in Ids \ d
        <5>1. w \in Copies(id, g, s, d) \cup {Absent} /\ id \notin d
          BY <1>4, <1>10, <2>0, <3>2, WrittenTyped
        <5> QED
          BY <1>4, <2>0, <5>1 DEF UserOps, OpRecord
      <4> HIDE DEF w
      <4>3. /\ local' = [i \in Ids |-> local'[i]]
            /\ \A i \in Ids : local'[i] \in Copies(i, g, s, d) \cup {Absent}
            /\ \A i \in Ids : i # id => local'[i] = local[i]
        BY <4>1, <4>2 DEF Typed, LocalTyped
      <4> QED
        BY <3>2, <4>2, <4>3
    <3> QED
      BY <3>1, <3>2
  <2>6. LocalTyped(g, s, d)'
    <3>1. \A i \in d : ~Exists(local[i]) => Safe(i)
      BY DEF Typed, LocalTyped
    <3>2. \A i \in d : ~Exists(local'[i]) => Safe(i)'
      BY <1>5, <2>5, <3>1 DEF Grows
    <3> QED
      BY <1>5, <2>5, <3>2, RecordsGrow DEF LocalTyped
  <2>7. Typed(g, s, d)'
    BY <1>6, <2>2, <2>3, <2>6 DEF Typed
  <2>8. ASSUME NEW i \in Ids, Missed(i), s[i]
        PROVE  Missed(i)'
    <3>1. ASSUME ListWaits(queue'), Exists(local'[i]), ~Exists(local[i])
          PROVE  FALSE
      <4>1. ListWaits(queue) /\ Shield(queue, i, ops)
        BY <1>4, <1>10, <2>8, <3>1 DEF Missed
      <4>2. Harmless(Section("op", n), i, ops)
        BY <1>2, <1>4, <4>1, HeadHarmless
      <4>3. op.id = i => op.step = "local"
        BY <2>0, <4>2 DEF Harmless, Section
      <4>4. op \in UserOps(g, s, d)
        BY <1>4, <2>0
      <4>5. CASE op.kind = "copy" /\ i = op.new
        BY <2>8, <4>4, <4>5 DEF UserOps
      <4>6. CASE op.kind # "copy" /\ i = op.id
        <5>1. op.step = "local" /\ op.kind \in {"save", "revert"}
          BY <1>10, <2>0, <4>3, <4>6 DEF OneSection
        <5>2. CASE op.kind = "save"
          BY <2>8, <4>4, <4>6, <5>1, <5>2 DEF UserOps
        <5>3. CASE op.kind = "revert"
          <6>1. Written(op) = Absent
            BY <3>1, <4>6, <5>3 DEF Written
          <6>2. local' = [local EXCEPT ![i] = Absent]
            BY <1>10, <2>0, <4>6, <6>1 DEF Writes
          <6> QED
            BY <2>8, <3>1, <6>2 DEF Exists, Typed, LocalTyped
        <5> QED
          BY <5>1, <5>2, <5>3
      <4> QED
        BY <2>5, <3>1, <4>5, <4>6
    <3>2. ListWaits(queue') =>
            /\ ListWaits(queue) /\ (Exists(local'[i]) => Exists(local[i]))
            /\ Shield(queue, i, ops) => Shield(queue', i, ops')
      BY <1>4, <1>10, <1>16, <3>1
    <3> QED
      BY <1>2, <2>8, <3>2, MissedStays
  <2>9. Unlisted(s)'
    BY <1>2, <1>5, <2>8, UnlistedStays
  <2> QED
    BY <2>4, <2>7, <2>9
<1>11. CASE /\ ~OneSection(ops[n]) /\ ops[n].step # "write" /\ Reads(n)
            /\ queue' = IF ops'[n].step = "write"
                        THEN Append(Tail(queue), Head(queue)) ELSE Tail(queue)
            /\ local' = local
  <2>1. /\ ops'[n] \in UserOps(g, s, d) \cup {Done}
        /\ ops' = [ops EXCEPT ![n] = ops'[n]]
    BY <1>4, <1>11, ReadTyped
  <2>2. OpsTyped(g, s, d)'
    BY <1>4, <1>8, <1>9, <2>1 DEF OpsTyped
  <2>6. /\ queue' \in Seq(S) /\ Queued'
        /\ ListWaits(queue') => ListWaits(queue)
        /\ \A i \in Ids : Shield(queue, i, ops) => Shield(queue', i, ops')
    <3>1. CASE ops'[n].step = "write"
      <4> DEFINE q == Tail(queue)
      <4>1. /\ queue' = Append(q, Section("op", n))
            /\ q \in Seq(S) /\ Once(q) /\ ~Waits(n, q)
        BY <1>4, <1>11, <3>1
      <4> HIDE DEF q
      <4>2. /\ queue' \in Seq(S) /\ Once(queue')
            /\ ListWaits(queue') <=> ListWaits(q)
            /\ \A m : Waits(m, queue') <=> Waits(m, q) \/ m = n
        BY <1>4, <4>1, AppendOp
      <4>3. Queued'
        BY <1>2, <1>4, <1>13, <1>15, <3>1, <4>2 DEF Queued, q
      <4>4. ASSUME NEW i \in Ids, Shield(queue, i, ops)
            PROVE  Shield(queue', i, ops')
        <5>1. PICK y : y = Section("op", n)
          OBVIOUS
        <5>2. Shield(q, i, ops') /\ y.name # "list"
          BY <1>16, <4>4, <5>1 DEF q, Section
        <5>3. Shield(Append(q, y), i, ops')
          BY <4>1, <5>2, AppendShield
        <5> QED
          BY <4>1, <5>1, <5>3
      <4> QED
        BY <1>4, <4>2, <4>3, <4>4 DEF q
    <3>2. CASE ops'[n].step # "write"
      <4>1. queue' = Tail(queue)
        BY <1>11, <3>2
      <4>2. Queued'
        BY <1>2, <1>4, <1>13, <1>15, <4>1 DEF Queued
      <4> QED
        BY <1>4, <1>16, <4>1, <4>2
    <3> QED
      BY <3>1, <3>2
  <2>3. QueueTyped(g, s, d)'
    BY <1>7, <2>6 DEF QueueTyped, T
  <2>4. Typed(g, s, d)'
    BY <1>6, <1>11, <2>2, <2>3 DEF Typed
  <2>5. Unlisted(s)'
    <3>1. \A i \in Ids : Missed(i) => Missed(i)'
      BY <1>2, <1>11, <2>6, MissedStays
    <3> QED
      BY <1>2, <1>5, <3>1, UnlistedStays
  <2> QED
    BY <2>4, <2>5, <2>6
<1> QED
  BY <1>10, <1>11 DEF OpSection, n

(* A layout that nothing concerns any more but itself is deleted for good.  *)
LEMMA NewlyDeleted ==
  ASSUME NEW g, NEW s, NEW d, NEW id \in Ids, NEW e, e = d \cup {id},
         Places', Typed(g, s, d)', sync' = "off", queue' = <<>>,
         orphans' = {}, \A m \in Calls : ops'[m] \in {NoOp, Done},
         \/ local'[id] = Absent /\ Safe(id)'
         \/ Exists(local'[id]) /\ local'[id].status = "locally-deleted"
  PROVE  Typed(g, s, e)'
<1>1. /\ listed' = NotYet /\ fetched' = NotYet
      /\ uploads' = {} /\ cleanups' = {}
  BY DEF Places
<1>2. LocalTyped(g, s, e)'
  <2>1. /\ local' = [i \in Ids |-> local'[i]]
        /\ \A i \in Ids : /\ local'[i] \in Copies(i, g, s, d)' \cup {Absent}
                          /\ i \in d /\ ~Exists(local'[i]) => Safe(i)'
    BY DEF Typed, LocalTyped
  <2>2. ASSUME NEW i \in Ids
        PROVE  local'[i] \in Copies(i, g, s, e)' \cup {Absent}
    BY <2>1 DEF Copies, Exists
  <2>3. ASSUME NEW i \in Ids, i \in e, ~Exists(local'[i]) PROVE Safe(i)'
    BY <2>1, <2>3 DEF Exists
  <2> QED
    BY <2>1, <2>2, <2>3 DEF LocalTyped
<1>3. RemoteTyped(g, s, e)'
  BY DEF Typed, RemoteTyped, Saveds
<1>4. OpsTyped(g, s, e)'
  BY DEF Typed, OpsTyped
<1>5. QueueTyped(g, s, e)' /\ ListedTyped(g, s, e)' /\ FetchedTyped(g, s, e)'
      /\ SyncTyped(g, s, e)'
  BY <1>1 DEF QueueTyped, ListedTyped, FetchedTyped, SyncTyped
<1> QED
  BY <1>2, <1>3, <1>4, <1>5 DEF Typed

(* A deletion with nothing else under way adds to the ids that are deleted. *)
LEMMA OpSectionKeeps == IInv /\ OpSection => IInv'
<1> SUFFICES ASSUME IInv, OpSection PROVE IInv'
  OBVIOUS
<1>1. PICK g \in Given, s \in Shares, d \in SUBSET Ids :
        d = deleted /\ Typed(g, s, d) /\ Unlisted(s)
  BY DEF IInv
<1>2. Queued' /\ Typed(g, s, d)' /\ Unlisted(s)'
  BY <1>1, OpSectionTyped DEF IInv
<1> DEFINE n == Head(queue).todo
<1>3. PICK op : op = ops[n]
  OBVIOUS
<1>4. /\ queue # <<>> /\ Head(queue).name = "op"
      /\ UNCHANGED <<hasRemote, taken, remote, serverTime, sync, aborted,
                     listed, fetched, uploads, cleanups, orphans>>
      /\ deleted' = IF op.kind = "delete" /\ Alone
                    THEN deleted \cup {op.id} ELSE deleted
  BY <1>3 DEF OpSection, server, syncing
<1>5. /\ n \in Calls /\ op \in UserOps(g, s, d)
      /\ queue \in Seq(Sections(g, s, d))
  BY <1>1, <1>3, <1>4, FirstOp DEF IInv
<1>6. op.kind # "get" => op.id \in taken /\ op.id \in Ids
  BY <1>5 DEF UserOps, OpRecord
<1>7. Places'
  BY <1>4, <1>6 DEF IInv, Places
<1>8. CASE ~(op.kind = "delete" /\ Alone)
  <2>1. d = deleted'
    BY <1>1, <1>4, <1>8
  <2> QED
    BY <1>2, <1>7, <2>1 DEF IInv
<1>9. CASE op.kind = "delete" /\ Alone
  <2> DEFINE id == op.id
             l == op.read
  <2>1. /\ op.step = "write" /\ Cardinality(Active) = 1
        /\ sync = "off" /\ Len(queue) = 1 /\ orphans = {}
    BY <1>3, <1>9 DEF Alone
  <2>2. \A m \in Calls : m # n => ops[m] \in {NoOp, Done}
    <3>1. n \in Active
      BY <1>3, <1>5, <2>1 DEF Active, NoOp, Done
    <3>2. IsFiniteSet(Active)
      <4>1. IsFiniteSet(Calls)
        BY FS_Interval DEF Calls, LayoutAssumption
      <4> QED
        BY <4>1, FS_Subset DEF Active
    <3>3. PICK x : Active = {x}
      BY <2>1, <3>2, FS_Singleton
    <3> QED
      BY <3>1, <3>3 DEF Active
  <2>3. /\ ops' = [ops EXCEPT ![n] = Done] /\ queue' = Tail(queue)
        /\ local' = [local EXCEPT ![id] = Written(op)]
    BY <1>3, <1>9, <2>1 DEF OpSection, Writes, n
  <2>4. \A m \in Calls : ops'[m] \in {NoOp, Done}
    BY <1>1, <1>5, <2>2, <2>3 DEF Typed, OpsTyped
  <2>5. queue' = <<>>
    BY <1>5, <2>1, <2>3
  <2>6. /\ id \in Ids /\ id \in Born /\ l \in Copies(id, g, s, d)
        /\ s[id] => Gone(id, s)
    BY <1>5, <1>6, <1>9, <2>1 DEF UserOps, Saving, Exists
  <2>7. /\ local'[id] = Written(op)
        /\ remote[id] \in Saveds(id, g, s, d) \cup {Absent}
    BY <1>1, <2>3, <2>6 DEF Typed, LocalTyped, RemoteTyped
  <2>8. \/ local'[id] = Absent /\ Safe(id)'
        \/ Exists(local'[id]) /\ local'[id].status = "locally-deleted"
    <3>1. CASE hasRemote /\ ~l.shared
      <4>1. local'[id] = [l EXCEPT !.working = Edited(l),
                                   !.status = "locally-deleted"]
        BY <1>9, <2>7, <3>1 DEF Written
      <4>2. l \in Copy
        BY <2>6 DEF Copies
      <4>3. local'[id].status = "locally-deleted"
        BY <4>1, <4>2 DEF Copy
      <4> QED
        BY <4>3 DEF Exists, Absent
    <3>2. CASE ~(hasRemote /\ ~l.shared)
      <4>1. local'[id] = Absent
        BY <1>9, <2>7, <3>2 DEF Written
      <4>2. ~Exists(remote[id])
        BY <2>6, <2>7, <3>2 DEF Copies, Saveds, Gone, Exists
      <4> QED
        BY <1>4, <1>7, <2>1, <4>1, <4>2 DEF Safe, Places
    <3> QED
      BY <3>1, <3>2
  <2>9. PICK e \in SUBSET Ids : e = d \cup {id}
    BY <2>6
  <2>10. Typed(g, s, e)'
    BY <1>2, <1>4, <1>7, <2>1, <2>4, <2>5, <2>6, <2>8, <2>9, NewlyDeleted
  <2>11. e = deleted'
    BY <1>1, <1>4, <1>9, <2>9
  <2> QED
    BY <1>2, <1>7, <2>10, <2>11 DEF IInv
<1> QED
  BY <1>8, <1>9

-----------------------------------------------------------------------------
(* Answers of the server.                                                   *)

(* A call that lands, with what the server answers.                         *)
LEMMA AnswerTyped ==
  ASSUME NEW g \in Given, NEW s \in Shares, NEW d, Places, Typed(g, s, d),
         UNCHANGED <<hasRemote, taken, fetched>>, Born \subseteq Born',
         NEW q, Sent(q, s, d), q.call = "save" => q.id \in Born',
         NEW o \in Outcomes(q), Lands(o)
  PROVE  \E h \in Given :
           /\ Grows(g, h, s, s, d) /\ RemoteTyped(h, s, d)'
           /\ o.reply \in Saveds(q.id, h, s, d)' \cup {Absent}
           /\ q.call \in {"save", "update"} =>
                /\ Exists(o.reply)
                /\ ~Conflicts /\ q.data # None => o.reply.data = q.data
           /\ q.call = "get" => o.reply = remote[q.id]
           /\ q.call = "delete" => ~Exists(remote'[q.id])
<1>1. PICK r : /\ o = Outcome(q, r, r)
               /\ r = Absent \/ r = remote[q.id] \/ Fresh(r, q.id, s)
               /\ q.call \in {"save", "update"} =>
                    /\ Exists(r)
                    /\ ~Conflicts /\ q.data # None => r.data = q.data
               /\ Exists(r) /\ ~Exists(remote[q.id]) => q.call = "save"
               /\ q.call = "get" => r = remote[q.id]
               /\ q.call = "delete" => r = Absent
  BY OutcomeFacts
<1>2. /\ o.reply = r /\ remote' = [remote EXCEPT ![q.id] = r]
      /\ serverTime' = serverTime + (IF remote' = remote THEN 0 ELSE 1)
  BY <1>1 DEF Lands, Outcome
<1> DEFINE id == q.id
<1>3. id \in Ids
  BY DEF Sent
<1>4. \A i \in taken : s[i] = s[i]
  OBVIOUS
<1>5. /\ r = Absent \/ r = remote[id] \/ Fresh(r, id, s)
      /\ Exists(r) /\ ~Exists(remote[id]) =>
           id \notin d /\ (s[id] => id \notin Born)
  BY <1>1 DEF Sent
<1> HIDE DEF id
<1>6. PICK h \in Given : /\ Grows(g, h, s, s, d) /\ RemoteTyped(h, s, d)'
                         /\ r \in Saveds(id, h, s, d)' \cup {Absent}
  <2>1. remote' = [remote EXCEPT ![id] = r]
    BY <1>2 DEF id
  <2> QED
    BY <1>2, <1>3, <1>4, <1>5, <2>1, LandsTyped
<1>7. remote'[id] = r
  BY <1>2, <1>3 DEF id, Typed, RemoteTyped
<1> QED
  BY <1>1, <1>2, <1>6, <1>7 DEF id, Exists

(* A call that rejects, whether it was carried out or not.                  *)
LEMMA RejectionTyped ==
  ASSUME NEW g \in Given, NEW s \in Shares, NEW d, Places, Typed(g, s, d),
         UNCHANGED <<hasRemote, taken, fetched>>, Born \subseteq Born',
         NEW q, Sent(q, s, d), q.call = "save" => q.id \in Born',
         UNCHANGED server \/ \E o \in Outcomes(q) : Lands(o)
  PROVE  \E h \in Given : Grows(g, h, s, s, d) /\ RemoteTyped(h, s, d)'
<1>1. CASE UNCHANGED server
  <2>1. remote' = remote /\ serverTime' = serverTime
    BY <1>1 DEF server
  <2>2. Grows(g, g, s, s, d)
    BY <1>1, StandsStill
  <2> QED
    BY <2>1, <2>2, StaysTyped
<1>2. CASE \E o \in Outcomes(q) : Lands(o)
  BY <1>2, AnswerTyped
<1> QED
  BY <1>1, <1>2

(* What an operation asks of the server.                                    *)
LEMMA RequestSent ==
  ASSUME NEW g, NEW s, NEW d, NEW n \in Calls, NEW op \in UserOps(g, s, d),
         op = ops[n], op.step = "remote"
  PROVE  /\ Sent(RequestOf(op), s, d) /\ RequestOf(op).id = op.id
         /\ RequestOf(op).call = "save" <=> op.kind = "save"
         /\ op.kind \in {"get", "delete"} => RequestOf(op).call = op.kind
<1> DEFINE q == RequestOf(op)
<1>1. /\ op \in OpRecord /\ op.id \in Ids
      /\ op.name \in Names \cup {None} /\ op.data \in Data \cup {None}
      /\ op.kind \in {"save", "get", "update", "overwrite", "delete"}
  BY DEF UserOps, OpRecord, Kinds
<1>2. CASE op.kind = "save"
  <2>1. q = Request("save", op.id, op.name, op.data, op.shared, None)
    BY <1>2 DEF RequestOf
  <2> HIDE DEF q
  <2>2. hasRemote /\ op.id \in taken /\ op.shared = s[op.id]
        /\ op.name \in Names /\ op.data \in Data /\ op.id \notin d
    BY <1>2 DEF UserOps
  <2>3. op.id \notin Born
    BY <1>2 DEF Born, Saving
  <2>4. Sent(q, s, d) /\ q.id = op.id /\ q.call = "save"
    BY <1>1, <2>1, <2>2, <2>3 DEF Sent, Request
  <2> QED
    BY <1>2, <2>4 DEF q
<1>3. CASE op.kind = "get" \/ op.kind = "delete"
  <2>1. q = Request(op.kind, op.id, None, None, FALSE, None)
    BY <1>3 DEF RequestOf
  <2> HIDE DEF q
  <2>2. Sent(q, s, d) /\ q.id = op.id /\ q.call = op.kind
    BY <1>1, <1>3, <2>1 DEF Sent, Request
  <2> QED
    BY <1>3, <2>2 DEF q
<1>4. CASE op.kind = "update" \/ op.kind = "overwrite"
  <2>1. op.read \in Copy
    BY <1>4 DEF UserOps, Exists, Copies
  <2>2. Edited(op.read) \in Data
    BY <2>1 DEF Edited, Copy
  <2>3. PICK name \in Names \cup {None}, data \in Data \cup {None} :
          q = Request("update", op.id, name, data, FALSE, op.read.last)
    <3>1. CASE op.kind = "update"
      BY <1>1, <3>1 DEF RequestOf
    <3>2. CASE op.kind = "overwrite"
      BY <2>2, <3>2 DEF RequestOf
    <3> QED
      BY <1>4, <3>1, <3>2
  <2> HIDE DEF q
  <2>4. Sent(q, s, d) /\ q.id = op.id /\ q.call = "update"
    BY <1>1, <2>3 DEF Sent, Request
  <2> QED
    BY <1>4, <2>4 DEF q
<1> QED
  BY <1>1, <1>2, <1>3, <1>4

(* An operation that goes on while it does not wait disturbs nobody who does*)
LEMMA OthersWait ==
  ASSUME NEW g, NEW s, NEW d, Typed(g, s, d), NEW n \in Calls,
         ~Waits(n, queue), \A m \in Calls : m # n => ops'[m] = ops[m]
  PROVE  /\ \A k \in 1..Len(queue) :
              queue[k].name = "op" => ops'[queue[k].todo] = ops[queue[k].todo]
         /\ \A i : Shield(queue, i, ops) => Shield(queue, i, ops')
<1>1. queue \in Seq(Sections(g, s, d)) /\ Len(queue) \in Nat
  BY DEF Typed, QueueTyped
<1>2. ASSUME NEW k \in 1..Len(queue), queue[k].name = "op"
      PROVE  ops'[queue[k].todo] = ops[queue[k].todo]
  <2>1. queue[k] \in Sections(g, s, d)
    BY <1>1
  <2>2. queue[k].todo \in Calls /\ queue[k].todo # n
    BY <1>2, <2>1 DEF Waits, Sections
  <2> QED
    BY <2>2
<1>3. \A k \in 1..Len(queue) : \A j \in 1..(k - 1) : j \in 1..Len(queue)
  BY <1>1
<1>4. \A i : Shield(queue, i, ops) => Shield(queue, i, ops')
  BY <1>2, <1>3 DEF Shield, Harmless
<1> QED
  BY <1>2, <1>4

(* One that goes on after the server's answer is no longer new.             *)
LEMMA AnsweredBorn ==
  ASSUME Queued, NEW n \in Calls, taken' = taken, ~Saving(ops'[n]),
         \A m \in Calls : m # n => ops'[m] = ops[m]
  PROVE  /\ Born \subseteq Born'
         /\ Saving(ops[n]) /\ ops[n].id \in taken => ops[n].id \in Born'
         /\ \A i, m \in Calls : Saving(ops'[i]) /\ Saving(ops'[m])
                                  /\ ops'[i].id = ops'[m].id => i = m
<1>1. Born \subseteq Born'
  BY BornStays
<1>2. ASSUME Saving(ops[n]), ops[n].id \in taken PROVE ops[n].id \in Born'
  <2>1. ASSUME NEW m \in Calls, Saving(ops'[m]) PROVE ops'[m].id # ops[n].id
    <3>1. m # n /\ ops'[m] = ops[m]
      BY <2>1
    <3>2. Saving(ops[m])
      BY <2>1, <3>1
    <3>3. ops[m].id # ops[n].id
      BY <1>2, <3>1, <3>2 DEF Queued
    <3> QED
      BY <3>1, <3>3
  <2> QED
    BY <1>2, <2>1 DEF Born
<1>3. \A i, m \in Calls : Saving(ops'[i]) /\ Saving(ops'[m])
                            /\ ops'[i].id = ops'[m].id => i = m
  BY DEF Queued
<1> QED
  BY <1>1, <1>2, <1>3

(* The server answers an operation.                                         *)
LEMMA OpRepliesKeeps ==
  ASSUME IInv, NEW n \in Calls, OpReplies(n)
  PROVE  IInv'
<1>1. PICK g \in Given, s \in Shares, d \in SUBSET Ids :
        d = deleted /\ Typed(g, s, d) /\ Unlisted(s)
  BY DEF IInv
<1>0. PICK op, q : op = ops[n] /\ q = RequestOf(op)
  OBVIOUS
<1>2. PICK o \in Outcomes(q) :
        /\ Lands(o)
        /\ IF op.kind = "get" /\ ~Exists(o.reply)
           THEN ops' = [ops EXCEPT ![n] = Done] /\ UNCHANGED queue
           ELSE /\ ops' = [ops EXCEPT ![n].reply = o.reply,
                                      ![n].step = "write"]
                /\ queue' = Append(queue, Section("op", n))
  BY <1>0 DEF OpReplies
<1>3. /\ op.step = "remote"
      /\ UNCHANGED <<hasRemote, local, taken, sync, aborted,
                     listed, fetched, uploads, cleanups, orphans, deleted>>
  BY <1>0 DEF OpReplies, store, syncing
<1>4. Places /\ Queued
  BY DEF IInv
<1>5. ops \in [Calls -> UserOps(g, s, d) \cup {NoOp, Done}]
  BY <1>1 DEF Typed, OpsTyped
<1>6. op \in UserOps(g, s, d)
  BY <1>0, <1>3, <1>5 DEF NoOp, Done
<1>7. /\ Sent(q, s, d) /\ q.id = op.id
      /\ q.call = "save" <=> op.kind = "save"
      /\ op.kind \in {"get", "delete"} => q.call = op.kind
  BY <1>0, <1>3, <1>6, RequestSent
<1>14. ~Waits(n, queue) /\ Once(queue)
  BY <1>0, <1>3, <1>4 DEF Queued
<1> DEFINE x == [op EXCEPT !.reply = o.reply, !.step = "write"]
<1>15. /\ ops' = [ops EXCEPT ![n] = IF op.kind = "get" /\ ~Exists(o.reply)
                                    THEN Done ELSE x]
       /\ x.step = "write" /\ Done.step = "done"
  <2>1. op \in OpRecord
    BY <1>6 DEF UserOps
  <2>2. x.step = "write" /\ Done.step = "done"
    BY <2>1 DEF OpRecord, Done
  <2>3. op.kind = "get" /\ ~Exists(o.reply) => ops' = [ops EXCEPT ![n] = Done]
    BY <1>2
  <2>4. ~(op.kind = "get" /\ ~Exists(o.reply)) => ops' = [ops EXCEPT ![n] = x]
    BY <1>0, <1>2, <1>5
  <2> HIDE DEF x
  <2> QED
    BY <2>2, <2>3, <2>4
<1> HIDE DEF x
<1>16. ~Saving(ops'[n]) /\ \A m \in Calls : m # n => ops'[m] = ops[m]
  BY <1>5, <1>15 DEF Saving
<1>17. /\ Born \subseteq Born' /\ (op.kind = "save" => op.id \in Born')
       /\ \A i, m \in Calls : Saving(ops'[i]) /\ Saving(ops'[m])
                                /\ ops'[i].id = ops'[m].id => i = m
  <2>1. op.kind = "save" => Saving(ops[n]) /\ ops[n].id \in taken
    BY <1>0, <1>3, <1>6 DEF Saving, UserOps
  <2> QED
    BY <1>0, <1>3, <1>4, <1>16, <2>1, AnsweredBorn
<1>8. PICK h \in Given :
        /\ Grows(g, h, s, s, d) /\ RemoteTyped(h, s, d)'
        /\ o.reply \in Saveds(op.id, h, s, d)' \cup {Absent}
        /\ op.kind = "save" => Exists(o.reply)
        /\ op.kind = "get" => o.reply = remote[op.id]
        /\ op.kind = "delete" => ~Exists(remote'[op.id])
  <2>2. q.call = "save" => q.id \in Born'
    BY <1>7, <1>17
  <2>1. PICK h \in Given :
          /\ Grows(g, h, s, s, d) /\ RemoteTyped(h, s, d)'
          /\ o.reply \in Saveds(q.id, h, s, d)' \cup {Absent}
          /\ q.call \in {"save", "update"} => Exists(o.reply)
          /\ q.call = "get" => o.reply = remote[q.id]
          /\ q.call = "delete" => ~Exists(remote'[q.id])
    BY <1>1, <1>2, <1>3, <1>4, <1>7, <1>17, <2>2, AnswerTyped
  <2> QED
    BY <1>7, <2>1
<1>9. /\ LocalTyped(h, s, d)' /\ ListedTyped(h, s, d)'
      /\ FetchedTyped(h, s, d)'
      /\ SyncTyped(h, s, d)'
      /\ queue' = queue => QueueTyped(h, s, d)'
  BY <1>1, <1>3, <1>8, StaysTyped
<1>10. Places' /\ d = deleted'
  BY <1>1, <1>3, <1>4, <1>8 DEF Places, Grows
<1>11. UserOps(g, s, d) \subseteq UserOps(h, s, d)'
  BY <1>8, OpsGrow
<1>18. /\ \A k \in 1..Len(queue) :
            queue[k].name = "op" => ops'[queue[k].todo] = ops[queue[k].todo]
       /\ \A i : Shield(queue, i, ops) => Shield(queue, i, ops')
  BY <1>1, <1>14, <1>16, OthersWait
<1>12. CASE op.kind = "get" /\ ~Exists(o.reply)
  <2>1. ops' = [ops EXCEPT ![n] = Done] /\ queue' = queue
    BY <1>2, <1>12
  <2>2. OpsTyped(h, s, d)'
    BY <1>5, <1>11, <2>1 DEF OpsTyped
  <2>4. Queued'
    BY <1>3, <1>4, <1>14, <1>16, <1>17, <2>1 DEF Queued
  <2>5. Typed(h, s, d)'
    BY <1>8, <1>9, <2>1, <2>2 DEF Typed
  <2>6. \A i \in Ids : Missed(i) => Missed(i)'
    BY <1>3, <1>18, <2>1, MissedStays
  <2>7. Unlisted(s)'
    BY <1>1, <1>3, <1>4, <1>8, <2>6, UnlistedStays
  <2> QED
    BY <1>10, <2>4, <2>5, <2>7 DEF IInv
<1>13. CASE ~(op.kind = "get" /\ ~Exists(o.reply))
  <2> DEFINE S == Sections(h, s, d)'
  <2>1. /\ queue' = Append(queue, Section("op", n))
        /\ ops' = [ops EXCEPT ![n] = x]
    BY <1>2, <1>13, <1>15
  <2>3. x \in UserOps(h, s, d)'
    <3>1. op \in UserOps(h, s, d)' /\ op \in OpRecord
      BY <1>6, <1>11 DEF UserOps
    <3>2. o.reply \in Saved \cup {Absent}
      BY <1>8 DEF Saveds
    <3>3. /\ x.kind = op.kind /\ x.id = op.id /\ x.new = op.new
          /\ x.name = op.name /\ x.data = op.data /\ x.shared = op.shared
          /\ x.read = op.read /\ x.reply = o.reply /\ x.step = "write"
          /\ x \in OpRecord
      BY <3>1, <3>2 DEF OpRecord, x
    <3>4. op.kind \notin {"copy", "revert"}
      BY <1>3, <1>6 DEF UserOps
    <3>5. op.kind = "save" => op.shared
      BY <1>3, <1>6 DEF UserOps
    <3>6. op.kind \in {"update", "overwrite", "delete"} => Exists(op.read)
      BY <1>3, <1>6 DEF UserOps
    <3>7. op.id \notin d
      BY <1>6, <1>8, <1>13 DEF UserOps, Safe
    <3>8. op.kind # "get" => op.id \in Born'
      BY <1>6, <1>17 DEF UserOps, Saving
    <3>9. op.kind = "delete" /\ s[op.id] => Gone(op.id, s)'
      BY <1>8, <3>8 DEF Gone
    <3> QED
      BY <1>8, <1>13, <3>1, <3>3, <3>4, <3>5, <3>6, <3>7, <3>8, <3>9
         DEF UserOps
  <2>4. OpsTyped(h, s, d)'
    BY <1>5, <1>11, <2>1, <2>3 DEF OpsTyped
  <2>6. queue \in Seq(S) /\ Section("op", n) \in S
    <3>1. queue \in Seq(S)
      BY <1>1, <1>8, QueueGrows DEF Typed, QueueTyped
    <3> QED
      BY <3>1 DEF Section, Sections
  <2> HIDE DEF S
  <2>7. /\ queue' \in Seq(S) /\ Once(queue')
        /\ ListWaits(queue') <=> ListWaits(queue)
        /\ \A m : Waits(m, queue') <=> Waits(m, queue) \/ m = n
    BY <1>14, <2>1, <2>6, AppendOp
  <2>8. ops'[n].step = "write"
    BY <1>5, <1>15, <2>1
  <2>9. Queued'
    BY <1>3, <1>4, <1>16, <1>17, <2>7, <2>8 DEF Queued
  <2>10. QueueTyped(h, s, d)'
    BY <2>7 DEF QueueTyped, S
  <2>11. Typed(h, s, d)'
    BY <1>8, <1>9, <2>4, <2>10 DEF Typed
  <2>12. ASSUME NEW i \in Ids, Shield(queue, i, ops)
         PROVE  Shield(queue', i, ops')
    <3>1. PICK y : y = Section("op", n)
      OBVIOUS
    <3>2. y.name # "list"
      BY <3>1 DEF Section
    <3>3. Shield(Append(queue, y), i, ops')
      BY <1>18, <2>6, <2>12, <3>2, AppendShield
    <3> QED
      BY <2>1, <3>1, <3>3
  <2>13. \A i \in Ids : Missed(i) => Missed(i)'
    BY <1>3, <2>7, <2>12, MissedStays
  <2>14. Unlisted(s)'
    BY <1>1, <1>3, <1>4, <1>8, <2>13, UnlistedStays
  <2> QED
    BY <1>10, <2>9, <2>11, <2>14 DEF IInv
<1> QED
  BY <1>12, <1>13

(* The call of an operation rejects: the operation is over.                 *)
LEMMA OpRejectedKeeps ==
  ASSUME IInv, NEW n \in Calls, OpRejected(n)
  PROVE  IInv'
<1>1. PICK g \in Given, s \in Shares, d \in SUBSET Ids :
        d = deleted /\ Typed(g, s, d) /\ Unlisted(s)
  BY DEF IInv
<1>0. PICK op, q : op = ops[n] /\ q = RequestOf(op)
  OBVIOUS
<1>2. /\ op.step = "remote" /\ ops' = [ops EXCEPT ![n] = Done]
      /\ UNCHANGED <<hasRemote, local, taken, queue, sync, aborted,
                     listed, fetched, uploads, cleanups, orphans, deleted>>
      /\ UNCHANGED server \/ \E o \in Outcomes(q) : Lands(o)
  BY <1>0 DEF OpRejected, Rejects, store, syncing
<1>3. Places /\ Queued
  BY DEF IInv
<1>4. ops \in [Calls -> UserOps(g, s, d) \cup {NoOp, Done}]
  BY <1>1 DEF Typed, OpsTyped
<1>5. op \in UserOps(g, s, d)
  BY <1>0, <1>2, <1>4 DEF NoOp, Done
<1>6. Sent(q, s, d) /\ q.id = op.id /\ (q.call = "save" <=> op.kind = "save")
  BY <1>0, <1>2, <1>5, RequestSent
<1>13. /\ ~Waits(n, queue) /\ ~Saving(ops'[n])
       /\ \A m \in Calls : m # n => ops'[m] = ops[m]
  BY <1>0, <1>2, <1>3, <1>4 DEF Queued, Saving, Done
<1>14. /\ Born \subseteq Born' /\ (op.kind = "save" => op.id \in Born')
       /\ \A i, m \in Calls : Saving(ops'[i]) /\ Saving(ops'[m])
                                /\ ops'[i].id = ops'[m].id => i = m
  <2>1. op.kind = "save" => Saving(ops[n]) /\ ops[n].id \in taken
    BY <1>0, <1>2, <1>5 DEF Saving, UserOps
  <2> QED
    BY <1>0, <1>2, <1>3, <1>13, <2>1, AnsweredBorn
<1>7. PICK h \in Given : Grows(g, h, s, s, d) /\ RemoteTyped(h, s, d)'
  BY <1>1, <1>2, <1>3, <1>6, <1>14, RejectionTyped
<1>8. /\ LocalTyped(h, s, d)' /\ ListedTyped(h, s, d)'
      /\ FetchedTyped(h, s, d)'
      /\ SyncTyped(h, s, d)' /\ QueueTyped(h, s, d)'
  BY <1>1, <1>2, <1>7, StaysTyped
<1>9. Places' /\ d = deleted'
  BY <1>1, <1>2, <1>3, <1>7 DEF Places, Grows
<1>10. OpsTyped(h, s, d)'
  <2>1. UserOps(g, s, d) \subseteq UserOps(h, s, d)'
    BY <1>7, OpsGrow
  <2> QED
    BY <1>2, <1>4, <2>1 DEF OpsTyped
<1>11. Queued'
  BY <1>2, <1>3, <1>4, <1>13, <1>14 DEF Queued
<1>12. Typed(h, s, d)'
  BY <1>7, <1>8, <1>10 DEF Typed
<1>15. Unlisted(s)'
  <2>1. \A i : Shield(queue, i, ops) => Shield(queue, i, ops')
    BY <1>1, <1>13, OthersWait
  <2>2. \A i \in Ids : Missed(i) => Missed(i)'
    BY <1>2, <2>1, MissedStays
  <2> QED
    BY <1>1, <1>2, <1>3, <1>7, <2>2, UnlistedStays
<1> QED
  BY <1>9, <1>11, <1>12, <1>15 DEF IInv

-----------------------------------------------------------------------------
(* Syncing.                                                                 *)

(* A step that is no operation's leaves the operations where they wait.     *)
LEMMA StillQueued ==
  ASSUME Queued, ops' = ops, Once(queue'),
         \A m : Waits(m, queue') => Waits(m, queue),
         ListWaits(queue') => sync' = "listing" /\ listed' = NotYet
  PROVE  Queued'
  BY DEF Queued

(* A step of a sync on its own changes nothing that was given or is new.    *)
LEMMA SyncStands ==
  ASSUME NEW g, NEW s, NEW d, Places, ops' = ops,
         UNCHANGED <<hasRemote, taken, server>>,
         fetched' \in {fetched, NotYet, remote}
  PROVE  Grows(g, g, s, s, d)
<1>1. Born \subseteq Born'
  BY DEF Born
<1> QED
  BY <1>1, StandsStill

(* Before a sync has fetched its layouts, none is late.                     *)
LEMMA NothingLate ==
  ASSUME NEW s, fetched' = NotYet
  PROVE  Unlisted(s)'
  BY DEF Unlisted, Late

(* A sync begins to wait for its list.                                      *)
LEMMA SyncStartsKeeps ==
  ASSUME IInv, SyncStarts
  PROVE  IInv'
<1>1. PICK g \in Given, s \in Shares, d \in SUBSET Ids :
        d = deleted /\ Typed(g, s, d) /\ Unlisted(s)
  BY DEF IInv
<1>2. /\ hasRemote /\ sync = "off" /\ sync' = "listing" /\ aborted' = FALSE
      /\ listed' = NotYet /\ fetched' = NotYet
      /\ queue' = Append(queue, Section("list", {}))
      /\ UNCHANGED <<hasRemote, local, taken, server, remote, serverTime, ops,
                     uploads, cleanups, orphans, deleted>>
  BY DEF SyncStarts, store, server
<1>3. Places /\ Queued /\ Places' /\ d = deleted'
  BY <1>1, <1>2 DEF IInv, Places
<1>4. Grows(g, g, s, s, d)
  BY <1>2, <1>3, SyncStands
<1>5. /\ LocalTyped(g, s, d)' /\ RemoteTyped(g, s, d)' /\ OpsTyped(g, s, d)'
      /\ SyncTyped(g, s, d)'
  BY <1>1, <1>2, <1>4, StaysTyped
<1>6. ListedTyped(g, s, d)' /\ FetchedTyped(g, s, d)' /\ Unlisted(s)'
  BY <1>2, NothingLate DEF ListedTyped, FetchedTyped
<1> DEFINE S == Sections(g, s, d)'
           x == Section("list", {})
<1>7. queue \in Seq(S) /\ x \in S /\ x.name = "list" /\ Once(queue)
  <2>1. queue \in Seq(S)
    BY <1>1, <1>4, QueueGrows DEF Typed, QueueTyped
  <2>2. x \in S /\ x.name = "list"
    BY DEF Section, Sections
  <2> QED
    BY <1>3, <2>1, <2>2 DEF Queued
<1> HIDE DEF S, x
<1>8. /\ queue' \in Seq(S) /\ Once(queue')
      /\ \A m : Waits(m, queue') <=> Waits(m, queue)
  <2>1. queue' = Append(queue, x) /\ ~ListWaits(queue)
    BY <1>2, <1>3 DEF x, Queued
  <2> QED
    BY <1>7, <2>1, AppendFacts
<1>9. Queued'
  BY <1>2, <1>3, <1>8, StillQueued
<1>10. QueueTyped(g, s, d)'
  BY <1>8 DEF QueueTyped, S
<1>11. Typed(g, s, d)'
  BY <1>5, <1>6, <1>10 DEF Typed
<1> QED
  BY <1>3, <1>6, <1>9, <1>11 DEF IInv

(* A section of a sync is served.                                           *)
LEMMA ServedTyped ==
  ASSUME NEW g, NEW s, NEW d, Typed(g, s, d), Queued, Grows(g, g, s, s, d),
         queue # <<>>, queue' = Tail(queue), ops' = ops,
         \/ UNCHANGED <<sync, listed>>
         \/ Head(queue).name = "list"
  PROVE  /\ QueueTyped(g, s, d)' /\ Queued'
         /\ ListWaits(queue') => ListWaits(queue)
         /\ Head(queue).name = "list" => ~ListWaits(queue')
         /\ \A i : Shield(queue, i, ops) => Shield(queue', i, ops')
<1> DEFINE S == Sections(g, s, d)
           T == Sections(g, s, d)'
<1>1. /\ queue \in Seq(S) /\ Once(queue) /\ Seq(S) \subseteq Seq(T)
  BY QueueGrows DEF Typed, QueueTyped, Queued
<1>4. \A x \in S : x.name = "list" => x.todo = {}
  BY ListTodo
<1> HIDE DEF S, T
<1>2. /\ queue' \in Seq(S) /\ Once(queue') /\ Shrinks(queue, queue')
      /\ ListWaits(queue') => ListWaits(queue)
      /\ Head(queue).name = "list" => ~ListWaits(queue')
      /\ \A m : Waits(m, queue') => Waits(m, queue)
  BY <1>1, <1>4, TailFacts
<1>3. Queued'
  <2>1. ListWaits(queue') => sync' = "listing" /\ listed' = NotYet
    BY <1>2 DEF Queued
  <2> QED
    BY <1>2, <2>1, StillQueued
<1>5. ASSUME NEW i, Shield(queue, i, ops) PROVE Shield(queue', i, ops')
  <2>1. PICK r \in Seq(S) : r = queue'
    BY <1>2
  <2>2. Shield(r, i, ops)
    BY <1>1, <1>2, <1>5, <2>1, ShrinkShield
  <2> QED
    BY <2>1, <2>2
<1> QED
  BY <1>1, <1>2, <1>3, <1>5 DEF QueueTyped, T

(* A sync reads its list.                                                   *)
LEMMA ListSectionKeeps ==
  ASSUME IInv, ListSection
  PROVE  IInv'
<1>1. PICK g \in Given, s \in Shares, d \in SUBSET Ids :
        d = deleted /\ Typed(g, s, d) /\ Unlisted(s)
  BY DEF IInv
<1>2. /\ queue # <<>> /\ listed' = local /\ queue' = Tail(queue)
      /\ Head(queue).name = "list"
      /\ UNCHANGED <<hasRemote, local, taken, server, remote, serverTime, ops,
                     sync, aborted, fetched, uploads, cleanups, orphans,
                     deleted>>
  BY DEF ListSection, store, server
<1>9. Places /\ Queued /\ d = deleted'
  BY <1>1, <1>2 DEF IInv
<1>10. ListWaits(queue)
  BY <1>1, <1>2 DEF ListWaits, Typed, QueueTyped
<1>3. Places'
  <2>1. sync = "listing"
    BY <1>9, <1>10 DEF Queued
  <2> QED
    BY <1>2, <1>9, <2>1 DEF Places
<1>4. Grows(g, g, s, s, d)
  BY <1>2, <1>9, SyncStands
<1>5. /\ LocalTyped(g, s, d)' /\ RemoteTyped(g, s, d)' /\ OpsTyped(g, s, d)'
      /\ SyncTyped(g, s, d)' /\ FetchedTyped(g, s, d)'
  BY <1>1, <1>2, <1>4, StaysTyped
<1>6. ListedTyped(g, s, d)'
  BY <1>2, <1>5 DEF ListedTyped, LocalTyped
<1>7. QueueTyped(g, s, d)' /\ Queued' /\ ~ListWaits(queue')
  BY <1>1, <1>2, <1>4, <1>9, ServedTyped
<1>8. Typed(g, s, d)'
  BY <1>5, <1>6, <1>7 DEF Typed
<1>11. Unlisted(s)'
  <2> SUFFICES ASSUME NEW id \in Ids, Late(id, s)' PROVE Missed(id)'
    BY DEF Unlisted
  <2>1. Late(id, s)
    BY <1>2 DEF Late
  <2>2. ~Exists(local[id])
    BY <1>1, <1>10, <2>1 DEF Unlisted, Missed
  <2> QED
    BY <1>2, <1>7, <2>2 DEF Missed
<1> QED
  BY <1>3, <1>7, <1>8, <1>9, <1>11 DEF IInv

(* The server answers with its layouts.                                     *)
LEMMA FetchedKeeps ==
  ASSUME IInv, Fetched
  PROVE  IInv'
<1>1. PICK g \in Given, s \in Shares, d \in SUBSET Ids :
        d = deleted /\ Typed(g, s, d) /\ Unlisted(s)
  BY DEF IInv
<1>2. /\ fetched' = remote /\ sync = "listing"
      /\ UNCHANGED <<hasRemote, local, taken, server, remote, serverTime, ops,
                     sync, aborted, listed, queue, uploads, cleanups, orphans,
                     deleted>>
  BY DEF Fetched, store, server
<1>3. Places /\ Queued /\ Places' /\ d = deleted'
  BY <1>1, <1>2 DEF IInv, Places
<1>4. Grows(g, g, s, s, d)
  BY <1>2, <1>3, SyncStands
<1>5. /\ LocalTyped(g, s, d)' /\ RemoteTyped(g, s, d)' /\ OpsTyped(g, s, d)'
      /\ SyncTyped(g, s, d)' /\ ListedTyped(g, s, d)' /\ QueueTyped(g, s, d)'
  BY <1>1, <1>2, <1>4, StaysTyped
<1>6. FetchedTyped(g, s, d)'
  <2>1. \A i \in Ids : remote'[i] \in Saveds(i, g, s, d)' \cup {Absent}
    BY <1>5 DEF RemoteTyped
  <2> QED
    BY <1>2, <2>1 DEF FetchedTyped, Safe
<1>7. Queued'
  BY <1>2, <1>3, StillQueued DEF Queued
<1>8. Typed(g, s, d)'
  BY <1>5, <1>6 DEF Typed
<1>9. Unlisted(s)'
  BY <1>2 DEF Unlisted, Late
<1> QED
  BY <1>3, <1>7, <1>8, <1>9 DEF IInv

(* A sync that is over leaves its calls of the server behind.               *)
LEMMA OverTyped ==
  ASSUME NEW g, NEW h, NEW s, NEW d, NEW calls, SyncOver(calls),
         Typed(g, s, d),
         Grows(g, h, s, s, d), calls \subseteq Uploads(g, s, d)
  PROVE  /\ ListedTyped(h, s, d)' /\ FetchedTyped(h, s, d)'
         /\ SyncTyped(h, s, d)'
         /\ Unlisted(s)'
<1>1. /\ listed' = NotYet /\ fetched' = NotYet /\ uploads' = {}
      /\ cleanups' = {} /\ orphans' = orphans \cup calls
  BY DEF SyncOver
<1>2. Uploads(g, s, d) \subseteq Uploads(h, s, d)'
  BY OpsGrow
<1>3. SyncTyped(h, s, d)'
  BY <1>1, <1>2 DEF SyncTyped, Typed
<1> QED
  BY <1>1, <1>3, NothingLate DEF ListedTyped, FetchedTyped

(* A section that waits is given up.                                        *)
LEMMA GivenUpTyped ==
  ASSUME NEW g, NEW s, NEW d, Typed(g, s, d), Queued, Grows(g, g, s, s, d),
         NEW name, queue' = QueueWithout(name), ops' = ops,
         name = "list" \/ UNCHANGED <<sync, listed>>
  PROVE  /\ QueueTyped(g, s, d)' /\ Queued'
         /\ ListWaits(queue') => ListWaits(queue)
         /\ \A i : Shield(queue, i, ops) => Shield(queue', i, ops')
<1> DEFINE S == Sections(g, s, d)
           T == Sections(g, s, d)'
<1>1. /\ queue \in Seq(S) /\ Once(queue) /\ Seq(S) \subseteq Seq(T)
  BY QueueGrows DEF Typed, QueueTyped, Queued
<1>4. \A x \in S : x.name = "list" => x.todo = {}
  BY ListTodo
<1> HIDE DEF S, T
<1>2. PICK r \in Seq(S) : /\ r = queue' /\ Shrinks(queue, r)
                          /\ name = "list" => ~ListWaits(r)
  BY <1>1, <1>4, WithoutFacts
<1>6. /\ Once(r) /\ (ListWaits(r) => ListWaits(queue))
      /\ \A m : Waits(m, r) => Waits(m, queue)
  BY <1>1, <1>2, ShrinkFacts
<1>3. Queued'
  <2>1. ListWaits(queue') => sync' = "listing" /\ listed' = NotYet
    BY <1>2, <1>6 DEF Queued
  <2> QED
    BY <1>2, <1>6, <2>1, StillQueued
<1>5. ASSUME NEW i, Shield(queue, i, ops) PROVE Shield(queue', i, ops')
  <2>1. Shield(r, i, ops)
    BY <1>1, <1>2, <1>5, ShrinkShield
  <2> QED
    BY <1>2, <2>1
<1> QED
  BY <1>1, <1>2, <1>3, <1>5, <1>6 DEF QueueTyped, T

(* The server does not answer with its layouts: the sync is over.           *)
LEMMA FetchFailsKeeps ==
  ASSUME IInv, FetchFails
  PROVE  IInv'
<1>1. PICK g \in Given, s \in Shares, d \in SUBSET Ids :
        d = deleted /\ Typed(g, s, d) /\ Unlisted(s)
  BY DEF IInv
<1>2. /\ SyncOver({}) /\ queue' = QueueWithout("list")
      /\ fetched' = NotYet
      /\ UNCHANGED <<hasRemote, local, taken, server, remote, serverTime, ops,
                     deleted>>
  BY DEF FetchFails, store, server, SyncOver
<1>3. Places /\ Queued /\ Places' /\ d = deleted'
  BY <1>1, <1>2 DEF IInv, Places, SyncOver
<1>4. Grows(g, g, s, s, d)
  BY <1>2, <1>3, SyncStands
<1>5. LocalTyped(g, s, d)' /\ RemoteTyped(g, s, d)' /\ OpsTyped(g, s, d)'
  BY <1>1, <1>2, <1>4, StaysTyped
<1>6. /\ ListedTyped(g, s, d)' /\ FetchedTyped(g, s, d)' /\ SyncTyped(g, s, d)'
      /\ Unlisted(s)'
  BY <1>1, <1>2, <1>4, OverTyped
<1>7. QueueTyped(g, s, d)' /\ Queued'
  BY <1>1, <1>2, <1>3, <1>4, GivenUpTyped
<1>8. Typed(g, s, d)'
  BY <1>5, <1>6, <1>7 DEF Typed
<1> QED
  BY <1>3, <1>6, <1>7, <1>8 DEF IInv

(* A sync is aborted: its local operations are given up if they wait.       *)
LEMMA AbortKeeps ==
  ASSUME IInv, Abort
  PROVE  IInv'
<1>1. PICK g \in Given, s \in Shares, d \in SUBSET Ids :
        d = deleted /\ Typed(g, s, d) /\ Unlisted(s)
  BY DEF IInv
<1>2. /\ aborted' = (sync # "off") /\ queue' = QueueWithout("locals")
      /\ UNCHANGED <<hasRemote, local, taken, server, remote, serverTime, ops,
                     sync, listed, fetched, uploads, cleanups, orphans,
                     deleted>>
  BY DEF Abort, store, server
<1>3. Places /\ Queued /\ Places' /\ d = deleted'
  BY <1>1, <1>2 DEF IInv, Places
<1>4. Grows(g, g, s, s, d)
  BY <1>2, <1>3, SyncStands
<1>5. /\ LocalTyped(g, s, d)' /\ RemoteTyped(g, s, d)' /\ OpsTyped(g, s, d)'
      /\ ListedTyped(g, s, d)' /\ FetchedTyped(g, s, d)' /\ SyncTyped(g, s, d)'
  BY <1>1, <1>2, <1>4, StaysTyped
<1>6. /\ QueueTyped(g, s, d)' /\ Queued'
      /\ ListWaits(queue') => ListWaits(queue)
      /\ \A i : Shield(queue, i, ops) => Shield(queue', i, ops')
  BY <1>1, <1>2, <1>3, <1>4, GivenUpTyped
<1>7. Typed(g, s, d)'
  BY <1>5, <1>6 DEF Typed
<1>8. Unlisted(s)'
  <2>1. \A i \in Ids : Missed(i) => Missed(i)'
    BY <1>2, <1>6, MissedStays
  <2> QED
    BY <1>1, <1>2, <1>3, <1>4, <2>1, UnlistedStays
<1> QED
  BY <1>3, <1>6, <1>7, <1>8 DEF IInv

(* What a sync plans for a layout.                                          *)
LEMMA PlanTyped ==
  ASSUME NEW g, NEW s \in Shares, NEW d, Places, hasRemote, NEW id \in Ids,
         NEW l \in Copies(id, g, s, d) \cup {Absent},
         NEW r \in Saveds(id, g, s, d) \cup {Absent},
         Exists(l) /\ ~Exists(r) /\ s[id] => ~Exists(remote[id]),
         id \in d /\ ~Exists(l) => ~Exists(r),
         id \in d /\ ~Exists(r) => Safe(id),
         NEW op \in PlanFor(id, l, r)
  PROVE  op \in SyncOps(g, s, d)
<1> DEFINE both == PlanForBoth(l, r)
           mine == PlanForLocal(l)
<1>1. /\ Exists(l) => /\ l \in Copy /\ id \in Born /\ l.shared = s[id]
                      /\ id \in d => l.status = "locally-deleted"
      /\ Exists(r) => r \in Saved /\ id \in Born
      /\ l \in Copy \cup {Absent} /\ r \in Saved \cup {Absent}
  BY DEF Exists, Copies, Saveds
<1>2. Exists(l) => l.status \in Statuses
  BY <1>1 DEF Copy
<1>3. Exists(l) => both \in {"none", "upload-new", "upload-updated",
                             "update-baseline", "delete-remote"}
  BY <1>2 DEF PlanForBoth, Statuses
<1>4. Exists(l) => mine \in {"none", "upload-new", "mark-deleted",
                             "delete-local"}
  BY <1>2 DEF PlanForLocal, Statuses
<1>5. PICK type : /\ op = SyncOp(type, id, l, r) /\ type # "none"
                  /\ \/ Exists(l) /\ Exists(r) /\ type = both
                     \/ Exists(l) /\ ~Exists(r) /\ type = mine
                     \/ ~Exists(l) /\ Exists(r) /\ type = "add-to-cache"
  <2> DEFINE type == CASE Exists(l) /\ Exists(r) -> both
                       [] Exists(l) /\ ~Exists(r) -> mine
                       [] ~Exists(l) /\ Exists(r) -> "add-to-cache"
                       [] OTHER -> "none"
  <2>1. op = SyncOp(type, id, l, r) /\ type # "none"
    BY DEF PlanFor
  <2> HIDE DEF both, mine
  <2>2. \/ Exists(l) /\ Exists(r) /\ type = both
        \/ Exists(l) /\ ~Exists(r) /\ type = mine
        \/ ~Exists(l) /\ Exists(r) /\ type = "add-to-cache"
    BY <2>1
  <2> QED
    BY <2>1, <2>2
<1>9. /\ Exists(l) /\ type = "mark-deleted" => l.shared
      /\ Exists(l) /\ type = "upload-new" => ~l.shared
      /\ Exists(l) /\ l.status = "locally-deleted" /\ type # "add-to-cache" =>
           type = IF Exists(r) THEN "delete-remote" ELSE "delete-local"
  BY <1>2, <1>3, <1>5 DEF PlanForBoth, PlanForLocal, Statuses
<1> HIDE DEF both, mine
<1>6. /\ op.type = type /\ op.id = id /\ op.local = l /\ op.remote = r
  BY <1>5 DEF SyncOp
<1>7. /\ type \in SyncTypes /\ id \in Born
      /\ type \in {"add-to-cache", "update-baseline"} => Exists(r)
      /\ type # "add-to-cache" => Exists(l)
  BY <1>1, <1>3, <1>4, <1>5 DEF SyncTypes
<1>8. op \in SyncRecord
  BY <1>1, <1>5, <1>7 DEF SyncRecord, SyncOp
<1>10. type = "mark-deleted" => Gone(id, s)
  BY <1>1, <1>3, <1>5, <1>7, <1>9 DEF Gone
<1>11. type = "upload-new" => ~s[id]
  BY <1>1, <1>7, <1>9
<1>12. id \in d => /\ type \in {"delete-local", "delete-remote"}
                   /\ type = "delete-local" => Safe(id)
  BY <1>1, <1>3, <1>4, <1>5, <1>7, <1>9
<1> QED
  BY <1>6, <1>7, <1>8, <1>10, <1>11, <1>12 DEF SyncOps

(* What it leaves in the local store.                                       *)
LEMMA ResultTyped ==
  ASSUME NEW g, NEW s, NEW d, Places,
         NEW op \in Locals(g, s, d) \cup Answered(g, s, d)
  PROVE  /\ op.id \in Ids
         /\ Result(op) \in Copies(op.id, g, s, d) \cup {Absent}
         /\ op.id \in d => Safe(op.id)
<1> DEFINE l == op.local
           r == op.remote
           w == Result(op)
           C == Copies(op.id, g, s, d)
<1>1. op \in SyncOps(g, s, d) /\ op \in SyncRecord
  BY DEF Locals, Answered, Uploads, SyncOps
<1>2. /\ op.id \in Ids /\ op.type \in SyncTypes /\ hasRemote
      /\ l \in C \cup {Absent} /\ r \in Saveds(op.id, g, s, d) \cup {Absent}
  BY <1>1 DEF SyncOps, SyncRecord
<1>3. Exists(l) => l \in C /\ l \in Copy
  BY <1>2 DEF Exists, Copies
<1>4. Exists(r) => /\ r \in Saveds(op.id, g, s, d) /\ r \in Saved
                   /\ r.savedAt \in Nat
                   /\ op.id \notin d => Tracked(r) \in C
  BY <1>2, TrackedTyped DEF Exists, Saveds, Saved
<1>10. /\ op.id \in d => Safe(op.id)
       /\ op.id \in d => op.type \in {"delete-local", "delete-remote"}
       /\ op.type = "mark-deleted" => Gone(op.id, s)
       /\ op.id \in Born
  BY <1>1 DEF Locals, Answered, IsLocal, SyncOps
<1> SUFFICES w \in C \cup {Absent}
  BY <1>2, <1>10
<1>5. CASE op.type = "add-to-cache"
  <2>1. w = Tracked(r)
    BY <1>5 DEF Result
  <2>2. Exists(r)
    BY <1>1, <1>5 DEF SyncOps
  <2> QED
    BY <1>2, <1>4, <1>5, <1>10, <2>1, <2>2
<1>6. CASE op.type = "update-baseline"
  <2>1. Exists(r) /\ Exists(l)
    BY <1>1, <1>6 DEF SyncOps
  <2> DEFINE t == Tracked(r)
             v == l.working
  <2>2. w = [t EXCEPT !.working = v]
    BY <1>6 DEF Result, NewBaseline
  <2>3. t \in C /\ v \in Data \cup {None}
    BY <1>3, <1>4, <1>6, <1>10, <2>1 DEF Copy
  <2> HIDE DEF w, t, v
  <2>4. /\ w \in Copy /\ w.shared = t.shared /\ w.last = t.last
        /\ w.status = t.status /\ w.base = t.base
    BY <2>2, <2>3 DEF Copies, Copy
  <2>5. w \in C
    BY <2>3, <2>4 DEF Copies
  <2> QED
    BY <1>2, <2>5 DEF w
<1>7. CASE op.type = "mark-deleted"
  <2>1. Exists(l)
    BY <1>1, <1>7 DEF SyncOps
  <2>2. w = [l EXCEPT !.status = "remotely-deleted", !.last = None]
    BY <1>7 DEF Result
  <2> HIDE DEF w
  <2>3. /\ w \in Copy /\ w.shared = l.shared /\ w.last = 0
        /\ w.status = "remotely-deleted"
    BY <1>3, <2>1, <2>2 DEF Copy, Statuses, None
  <2>4. w.last <= serverTime
    BY <2>3 DEF Places
  <2>5. w \in C
    BY <1>3, <1>7, <1>10, <2>1, <2>3, <2>4 DEF Copies
  <2> QED
    BY <1>2, <2>5 DEF w
<1>8. CASE op.type \in {"delete-local", "delete-remote"}
  <2>1. w = Absent
    BY <1>8 DEF Result
  <2> QED
    BY <1>2, <2>1
<1>9. CASE op.type = "upload-new" \/ op.type = "upload-updated"
  <2>1. op \in Answered(g, s, d)
    BY <1>9 DEF Locals, IsLocal
  <2>2. Exists(l) /\ Exists(r) /\ (~Conflicts => r.data = l.base)
    BY <1>1, <1>9, <2>1 DEF SyncOps, Answered
  <2>3. PICK n \in Names :
          w = [l EXCEPT !.name = n, !.status = "tracked", !.last = r.savedAt]
    <3>1. CASE op.type = "upload-new"
      <4>1. w = [l EXCEPT !.status = "tracked", !.last = r.savedAt]
        BY <3>1 DEF Result
      <4>2. /\ l.name \in Names
            /\ w = [l EXCEPT !.name = l.name, !.status = "tracked",
                             !.last = r.savedAt]
        BY <1>3, <2>2, <4>1 DEF Copy
      <4> QED
        BY <4>2
    <3>2. CASE op.type = "upload-updated"
      <4>1. w = [l EXCEPT !.name = r.name, !.status = "tracked",
                          !.last = r.savedAt]
        BY <3>2 DEF Result
      <4>2. r.name \in Names
        BY <1>4, <2>2 DEF Saved
      <4> QED
        BY <4>1, <4>2
    <3> QED
      BY <1>9, <3>1, <3>2
  <2> HIDE DEF w
  <2>4. /\ w \in Copy /\ w.shared = l.shared /\ w.last = r.savedAt
        /\ w.status = "tracked" /\ w.base = l.base
    BY <1>3, <1>4, <2>2, <2>3 DEF Copy, Statuses
  <2>5. w \in C
    BY <1>2, <1>3, <1>4, <1>9, <1>10, <2>2, <2>4 DEF Copies, Saveds
  <2> QED
    BY <1>2, <2>5 DEF w
<1> QED
  BY <1>2, <1>5, <1>6, <1>7, <1>8, <1>9, <1>10 DEF SyncTypes

(* What it asks of the server.                                              *)
LEMMA UploadSent ==
  ASSUME NEW g, NEW s, NEW d, NEW op \in Uploads(g, s, d)
  PROVE  /\ Sent(UploadOf(op), s, d) /\ UploadOf(op).id = op.id
         /\ UploadOf(op).call = "save" => op.id \in Born
         /\ op.type = "delete-remote" => UploadOf(op).call = "delete"
         /\ op.type # "delete-remote" =>
              /\ UploadOf(op).call \in {"save", "update"}
              /\ UploadOf(op).data # None
              /\ UploadOf(op).data = op.local.base
<1> DEFINE q == UploadOf(op)
           l == op.local
<1>1. op \in SyncOps(g, s, d) /\ op \in SyncRecord
  BY DEF Uploads, SyncOps
<1>2. op.type \in {"upload-new", "upload-updated", "delete-remote"}
  BY <1>1 DEF Uploads, IsLocal, SyncRecord, SyncTypes
<1>3. /\ l \in Copies(op.id, g, s, d) /\ l \in Copy /\ hasRemote
      /\ op.id \in Ids /\ op.id \in taken /\ op.id \in Born
      /\ op.type # "delete-remote" => op.id \notin d
      /\ op.type = "upload-new" => ~s[op.id]
  BY <1>1, <1>2 DEF SyncOps, SyncRecord, Exists, Copies, Born
<1>4. /\ l.name \in Names /\ l.base \in Data /\ l.base # None
      /\ l.shared = s[op.id]
  BY <1>3 DEF Copies, Copy, None
<1>5. CASE op.type = "delete-remote"
  <2>1. q = Request("delete", op.id, None, None, FALSE, None)
    BY <1>5 DEF UploadOf
  <2> HIDE DEF q
  <2>2. Sent(q, s, d) /\ q.id = op.id /\ q.call = "delete"
    BY <1>3, <2>1 DEF Sent, Request
  <2> QED
    BY <1>5, <2>2 DEF q
<1>6. CASE op.type = "upload-new"
  <2>1. q = Request("save", op.id, l.name, l.base, l.shared, None)
    BY <1>6 DEF UploadOf
  <2> HIDE DEF q
  <2>2. /\ Sent(q, s, d) /\ q.id = op.id /\ q.call \in {"save", "update"}
        /\ q.data # None /\ q.data = l.base
    BY <1>3, <1>4, <1>6, <2>1 DEF Sent, Request
  <2> QED
    BY <1>3, <1>6, <2>2 DEF q
<1>7. CASE op.type = "upload-updated"
  <2>1. q = Request("update", op.id, l.name, l.base, FALSE, l.last)
    BY <1>7 DEF UploadOf
  <2> HIDE DEF q
  <2>2. /\ Sent(q, s, d) /\ q.id = op.id /\ q.call \in {"save", "update"}
        /\ q.data # None /\ q.data = l.base
    BY <1>3, <1>4, <2>1 DEF Sent, Request
  <2> QED
    BY <1>3, <1>7, <2>2 DEF q
<1> QED
  BY <1>2, <1>5, <1>6, <1>7

(* The operations of a sync are planned from its lists, and those on the    *)
(* local store wait for their section.                                      *)
LEMMA PlansKeeps ==
  ASSUME IInv, Plans
  PROVE  IInv'
<1>1. PICK g \in Given, s \in Shares, d \in SUBSET Ids :
        d = deleted /\ Typed(g, s, d) /\ Unlisted(s)
  BY DEF IInv
<1> DEFINE all == UNION {PlanFor(id, listed[id], fetched[id]) : id \in Ids}
           locals == {op \in all : IsLocal(op)}
<1>2. /\ sync = "listing" /\ listed # NotYet /\ fetched # NotYet
      /\ IF aborted
         THEN SyncOver({}) /\ UNCHANGED queue
         ELSE /\ sync' = "ops"
              /\ uploads' = all \ locals
              /\ queue' = IF locals = {} THEN queue
                          ELSE Append(queue, Section("locals", locals))
              /\ listed' = NotYet /\ fetched' = NotYet
              /\ UNCHANGED <<aborted, cleanups, orphans>>
      /\ fetched' = NotYet
      /\ UNCHANGED <<hasRemote, local, taken, server, remote, serverTime, ops,
                     deleted>>
  BY DEF Plans, store, server, SyncOver
<1>3. Places /\ Queued /\ ~ListWaits(queue) /\ d = deleted'
  BY <1>1, <1>2 DEF IInv, Queued
<1>4. Grows(g, g, s, s, d)
  BY <1>2, <1>3, SyncStands
<1>5. /\ LocalTyped(g, s, d)' /\ RemoteTyped(g, s, d)' /\ OpsTyped(g, s, d)'
      /\ queue' = queue => QueueTyped(g, s, d)'
  BY <1>1, <1>2, <1>4, StaysTyped
<1>9. Unlisted(s)'
  BY <1>2, NothingLate
<1>6. all \subseteq SyncOps(g, s, d)
  <2> SUFFICES ASSUME NEW id \in Ids,
                      NEW op \in PlanFor(id, listed[id], fetched[id])
               PROVE  op \in SyncOps(g, s, d)
    OBVIOUS
  <2>1. /\ listed[id] \in Copies(id, g, s, d) \cup {Absent}
        /\ fetched[id] \in Saveds(id, g, s, d) \cup {Absent}
        /\ id \in d /\ ~Exists(listed[id]) => Safe(id)
        /\ id \in d /\ ~Exists(fetched[id]) => Safe(id)
    BY <1>1, <1>2 DEF Typed, ListedTyped, FetchedTyped
  <2>2. id \in d /\ ~Exists(listed[id]) => ~Exists(fetched[id])
    BY <1>2, <2>1 DEF Safe
  <2>3. Exists(listed[id]) /\ ~Exists(fetched[id]) /\ s[id] =>
          ~Exists(remote[id])
    BY <1>1, <1>2 DEF Unlisted, Late, Missed
  <2> QED
    BY <1>2, <1>3, <2>1, <2>2, <2>3, PlanTyped DEF Places
<1> HIDE DEF all
<1>7. CASE aborted
  <2>1. SyncOver({}) /\ queue' = queue
    BY <1>2, <1>7
  <2>2. Places'
    BY <1>2, <1>3, <2>1 DEF Places, SyncOver
  <2>3. ListedTyped(g, s, d)' /\ FetchedTyped(g, s, d)' /\ SyncTyped(g, s, d)'
    BY <1>1, <1>4, <2>1, OverTyped
  <2>4. Queued'
    BY <1>2, <1>3, <2>1, StillQueued DEF Queued
  <2>5. Typed(g, s, d)'
    BY <1>5, <2>1, <2>3 DEF Typed
  <2> QED
    BY <1>3, <1>9, <2>2, <2>4, <2>5 DEF IInv
<1>8. CASE ~aborted
  <2>1. /\ sync' = "ops" /\ aborted' = aborted
        /\ uploads' = all \ locals
        /\ queue' = IF locals = {} THEN queue
                    ELSE Append(queue, Section("locals", locals))
        /\ listed' = NotYet /\ fetched' = NotYet
        /\ cleanups' = cleanups /\ orphans' = orphans
    BY <1>2, <1>8
  <2>2. Places'
    BY <1>2, <1>3, <2>1 DEF Places
  <2>3. /\ Locals(g, s, d) \subseteq Locals(g, s, d)'
        /\ Uploads(g, s, d) \subseteq Uploads(g, s, d)'
        /\ Answered(g, s, d) \subseteq Answered(g, s, d)'
    BY <1>4, OpsGrow
  <2>4. /\ locals \subseteq Locals(g, s, d)
        /\ all \ locals \subseteq Uploads(g, s, d)
    BY <1>6 DEF Locals, Uploads
  <2>5. SyncTyped(g, s, d)'
    BY <1>1, <2>1, <2>3, <2>4 DEF Typed, SyncTyped
  <2>6. ListedTyped(g, s, d)' /\ FetchedTyped(g, s, d)'
    BY <2>1 DEF ListedTyped, FetchedTyped
  <2>7. QueueTyped(g, s, d)' /\ Queued'
    <3>1. CASE locals = {}
      BY <1>2, <1>3, <1>5, <2>1, <3>1, StillQueued DEF Queued
    <3>2. CASE locals # {}
      <4> DEFINE S == Sections(g, s, d)'
                 x == Section("locals", locals)
      <4> HIDE DEF locals
      <4>1. queue \in Seq(S) /\ Once(queue)
        BY <1>1, <1>3, <1>4, QueueGrows DEF Typed, QueueTyped, Queued
      <4>2. x \in S /\ x.name \notin {"op", "list"}
        <5>1. locals \in SUBSET (Locals(g, s, d)')
          BY <2>3, <2>4
        <5> QED
          BY <5>1 DEF Section, Sections
      <4>3. queue' = Append(queue, x)
        BY <2>1, <3>2
      <4> HIDE DEF S, x
      <4>4. /\ queue' \in Seq(S) /\ Once(queue') /\ ~ListWaits(queue')
            /\ \A m : Waits(m, queue') <=> Waits(m, queue)
        BY <1>3, <4>1, <4>2, <4>3, AppendOther
      <4>5. Queued'
        BY <1>2, <1>3, <4>4, StillQueued
      <4> QED
        BY <4>4, <4>5 DEF QueueTyped, S
    <3> QED
      BY <3>1, <3>2
  <2>8. Typed(g, s, d)'
    BY <1>5, <2>5, <2>6, <2>7 DEF Typed
  <2> QED
    BY <1>3, <1>9, <2>2, <2>7, <2>8 DEF IInv
<1> QED
  BY <1>7, <1>8

(* One of the local operations of a sync; the others of its section follow. *)
LEMMA LocalsSectionKeeps ==
  ASSUME IInv, LocalsSection
  PROVE  IInv'
<1>1. PICK g \in Given, s \in Shares, d \in SUBSET Ids :
        d = deleted /\ Typed(g, s, d) /\ Unlisted(s)
  BY DEF IInv
<1>2. PICK op \in Head(queue).todo :
        /\ local' = [local EXCEPT ![op.id] = Result(op)]
        /\ queue' = IF Head(queue).todo = {op} THEN Tail(queue)
                    ELSE [queue EXCEPT ![1].todo = @ \ {op}]
  BY DEF LocalsSection
<1>3. /\ queue # <<>> /\ Head(queue).name = "locals"
      /\ UNCHANGED <<hasRemote, taken, server, remote, serverTime, ops, sync,
                     aborted, listed, fetched, uploads, cleanups, orphans,
                     deleted>>
  BY DEF LocalsSection, server, syncing
<1>4. Places /\ Queued /\ Places' /\ d = deleted'
  BY <1>1, <1>3 DEF IInv, Places
<1>5. Grows(g, g, s, s, d)
  BY <1>3, <1>4, SyncStands
<1>6. /\ RemoteTyped(g, s, d)' /\ OpsTyped(g, s, d)' /\ ListedTyped(g, s, d)'
      /\ FetchedTyped(g, s, d)' /\ SyncTyped(g, s, d)'
  BY <1>1, <1>3, <1>5, StaysTyped
<1> DEFINE S == Sections(g, s, d)
           T == Sections(g, s, d)'
           t == Head(queue).todo
           x == [name |-> "locals", todo |-> t \ {op}]
<1>7. /\ queue \in Seq(S) /\ Once(queue) /\ Head(queue) = queue[1]
      /\ 1 \in 1..Len(queue) /\ Len(queue) \in Nat
  BY <1>1, <1>3, <1>4 DEF Queued, Typed, QueueTyped
<1>8. t \subseteq Locals(g, s, d) /\ queue[1] = [name |-> "locals", todo |-> t]
  <2>1. Head(queue) \in S
    BY <1>7
  <2> QED
    BY <1>3, <1>7, <2>1 DEF Sections
<1>9. S \subseteq T /\ Seq(S) \subseteq Seq(T)
  BY <1>5, QueueGrows
<1>13. /\ local' = [i \in Ids |-> local'[i]]
       /\ \A i \in Ids : local'[i] \in Copies(i, g, s, d) \cup {Absent}
       /\ \A i \in Ids : i # op.id => local'[i] = local[i]
       /\ op.id \in Ids /\ (op.id \in d => Safe(op.id))
  <2> DEFINE id == op.id
             w == Result(op)
  <2>1. /\ id \in Ids /\ w \in Copies(id, g, s, d) \cup {Absent}
        /\ id \in d => Safe(id)
    BY <1>2, <1>4, <1>8, ResultTyped
  <2>2. local' = [local EXCEPT ![id] = w]
    BY <1>2
  <2> HIDE DEF id, w
  <2>3. /\ local' = [i \in Ids |-> local'[i]]
        /\ \A i \in Ids : local'[i] \in Copies(i, g, s, d) \cup {Absent}
        /\ \A i \in Ids : i # id => local'[i] = local[i]
    BY <1>1, <2>1, <2>2 DEF Typed, LocalTyped
  <2> QED
    BY <2>1, <2>3 DEF id
<1>10. LocalTyped(g, s, d)'
  <2>1. \A i \in Ids : local'[i] \in Copies(i, g, s, d)' \cup {Absent}
    BY <1>5, <1>13, RecordsGrow
  <2>2. \A i \in Ids : i \in d /\ ~Exists(local'[i]) => Safe(i)'
    BY <1>1, <1>5, <1>13 DEF Grows, Typed, LocalTyped
  <2> QED
    BY <1>13, <2>1, <2>2 DEF LocalTyped
<1>11. /\ QueueTyped(g, s, d)' /\ Queued'
       /\ ListWaits(queue') => ListWaits(queue)
       /\ \A i : Shield(queue, i, ops) => Shield(queue', i, ops')
  <2>1. CASE t = {op}
    <3>1. queue' = Tail(queue) /\ queue # <<>> /\ ops' = ops
      BY <1>2, <1>3, <2>1
    <3> QED
      BY <1>1, <1>3, <1>4, <1>5, <3>1, ServedTyped
  <2>2. CASE t # {op}
    <3>1. x \in S
      <4>1. t \ {op} \in SUBSET Locals(g, s, d)
        BY <1>8
      <4> QED
        BY <4>1 DEF Sections
    <3>2. queue' = [queue EXCEPT ![1] = x]
      <4>1. queue' = [queue EXCEPT ![1] = [queue[1] EXCEPT !.todo = t \ {op}]]
        BY <1>2, <1>7, <2>2
      <4>2. [queue[1] EXCEPT !.todo = t \ {op}] = x
        BY <1>8
      <4> QED
        BY <4>1, <4>2
    <3>3. Under(x, queue[1])
      BY <1>8 DEF Under
    <3> HIDE DEF S, x, t
    <3>4. PICK r \in Seq(S) : r = queue'
      BY <1>7, <3>1, <3>2
    <3>5. /\ Len(r) = Len(queue) /\ r[1] = x
          /\ \A k \in 1..Len(queue) : k # 1 => r[k] = queue[k]
      BY <1>7, <3>1, <3>2, <3>4
    <3>6. Shrinks(queue, r)
      <4>1. PICK f \in [1..Len(r) -> 1..Len(queue)] :
              f = [k \in 1..Len(r) |-> k]
        BY <3>5
      <4>2. \A k \in 1..Len(r) : Under(r[k], queue[f[k]])
        BY <3>3, <3>5, <4>1 DEF Under
      <4>3. \A k, l \in 1..Len(r) : k < l => f[k] < f[l]
        BY <4>1
      <4> QED
        BY <4>2, <4>3 DEF Shrinks
    <3>7. /\ Once(r) /\ (ListWaits(r) => ListWaits(queue))
          /\ \A m : Waits(m, r) => Waits(m, queue)
      BY <1>7, <3>6, ShrinkFacts
    <3>8. Queued'
      <4>1. ListWaits(queue') => sync' = "listing" /\ listed' = NotYet
        BY <1>3, <1>4, <3>4, <3>7 DEF Queued
      <4> QED
        BY <1>3, <1>4, <3>4, <3>7, <4>1, StillQueued
    <3>9. ASSUME NEW i, Shield(queue, i, ops) PROVE Shield(queue', i, ops')
      <4>1. Shield(r, i, ops)
        BY <1>7, <3>6, <3>9, ShrinkShield
      <4> QED
        BY <1>3, <3>4, <4>1
    <3> QED
      BY <1>9, <3>4, <3>7, <3>8, <3>9 DEF QueueTyped, T, S
  <2> QED
    BY <2>1, <2>2
<1>12. Typed(g, s, d)'
  BY <1>6, <1>10, <1>11 DEF Typed
<1>14. Unlisted(s)'
  <2>1. ASSUME NEW i \in Ids, Missed(i) PROVE Missed(i)'
    <3>1. ASSUME ListWaits(queue') PROVE local'[i] = local[i]
      <4>1. ListWaits(queue) /\ Shield(queue, i, ops)
        BY <1>11, <2>1, <3>1 DEF Missed
      <4>2. Harmless(Head(queue), i, ops)
        BY <1>3, <1>7, <4>1, HeadHarmless
      <4>3. op.id # i
        BY <1>2, <1>3, <4>2 DEF Harmless
      <4> QED
        BY <1>13, <4>3
    <3> QED
      BY <1>3, <1>11, <2>1, <3>1, MissedStays
  <2> QED
    BY <1>1, <1>3, <1>4, <1>5, <2>1, UnlistedStays
<1> QED
  BY <1>4, <1>11, <1>12, <1>14 DEF IInv

(* The server answers a call of a sync; after the last answer the cleanups  *)
(* wait for their section.                                                  *)
LEMMA UploadRepliesKeeps ==
  ASSUME IInv, NEW op \in uploads, UploadReplies(op)
  PROVE  IInv'
<1>0. PICK up : up = op
  OBVIOUS
<1>1. PICK g \in Given, s \in Shares, d \in SUBSET Ids :
        d = deleted /\ Typed(g, s, d) /\ Unlisted(s)
  BY DEF IInv
<1>2. PICK q : q = UploadOf(up)
  OBVIOUS
<1>3. PICK o \in Outcomes(q) :
        /\ Lands(o)
        /\ cleanups' = cleanups \cup {[up EXCEPT !.remote = o.reply]}
  BY <1>0, <1>2 DEF UploadReplies
<1>4. /\ uploads' = uploads \ {up}
      /\ IF uploads' = {}
         THEN queue' = Append(queue, Section("cleanups", cleanups'))
         ELSE UNCHANGED queue
      /\ UNCHANGED <<hasRemote, local, taken, ops, sync, aborted, listed,
                     fetched, orphans, deleted>>
  BY <1>0 DEF UploadReplies, store
<1>5. /\ Places /\ Queued /\ d = deleted'
      /\ sync = "ops" /\ fetched = NotYet /\ ~ListWaits(queue)
  BY <1>1, <1>4 DEF IInv, Places, Queued
<1>16. Born \subseteq Born'
  BY <1>4 DEF Born
<1>6. up \in Uploads(g, s, d)
  BY <1>0, <1>1 DEF Typed, SyncTyped
<1>7. /\ Sent(q, s, d) /\ q.id = up.id
      /\ q.call = "save" => q.id \in Born'
      /\ up.type = "delete-remote" => q.call = "delete"
      /\ up.type # "delete-remote" =>
           /\ q.call \in {"save", "update"} /\ q.data # None
           /\ q.data = up.local.base
  BY <1>2, <1>6, <1>16, UploadSent
<1>8. PICK h \in Given :
        /\ Grows(g, h, s, s, d) /\ RemoteTyped(h, s, d)'
        /\ o.reply \in Saveds(up.id, h, s, d)' \cup {Absent}
        /\ up.type # "delete-remote" =>
             /\ Exists(o.reply)
             /\ ~Conflicts => o.reply.data = up.local.base
        /\ up.type = "delete-remote" => ~Exists(remote'[up.id])
  <2>1. PICK h \in Given :
          /\ Grows(g, h, s, s, d) /\ RemoteTyped(h, s, d)'
          /\ o.reply \in Saveds(q.id, h, s, d)' \cup {Absent}
          /\ q.call \in {"save", "update"} =>
               /\ Exists(o.reply)
               /\ ~Conflicts /\ q.data # None => o.reply.data = q.data
          /\ q.call = "delete" => ~Exists(remote'[q.id])
    BY <1>1, <1>3, <1>4, <1>5, <1>7, <1>16, AnswerTyped
  <2> QED
    BY <1>7, <2>1
<1>9. /\ LocalTyped(h, s, d)' /\ ListedTyped(h, s, d)'
      /\ FetchedTyped(h, s, d)'
      /\ OpsTyped(h, s, d)'
      /\ queue' = queue => QueueTyped(h, s, d)'
  BY <1>1, <1>4, <1>8, StaysTyped
<1>10. /\ Uploads(g, s, d) \subseteq Uploads(h, s, d)'
       /\ Answered(g, s, d) \subseteq Answered(h, s, d)'
  BY <1>8, OpsGrow
<1> DEFINE x == [up EXCEPT !.remote = o.reply]
<1>11. x \in Answered(h, s, d)'
  <2>1. /\ up \in Uploads(h, s, d)' /\ up \in SyncOps(h, s, d)'
        /\ up \in SyncRecord
    BY <1>6, <1>10 DEF Uploads, SyncOps
  <2>2. o.reply \in Saved \cup {Absent}
    BY <1>8 DEF Saveds
  <2>3. /\ x.type = up.type /\ x.id = up.id /\ x.local = up.local
        /\ x.remote = o.reply /\ x \in SyncRecord
    BY <2>1, <2>2 DEF SyncRecord
  <2> HIDE DEF x
  <2>4. up.type \notin {"add-to-cache", "update-baseline"}
    BY <1>6 DEF Uploads, IsLocal
  <2>5. x \in SyncOps(h, s, d)'
    BY <1>8, <2>1, <2>3, <2>4 DEF SyncOps
  <2>6. x \in Uploads(h, s, d)'
    BY <2>1, <2>3, <2>5 DEF Uploads, IsLocal
  <2>7. up.id \in d => up.type = "delete-remote"
    BY <1>6 DEF Uploads, IsLocal, SyncOps
  <2>8. up.id \in d => Safe(up.id)'
    BY <1>4, <1>5, <1>8, <2>7 DEF Safe
  <2> QED
    BY <1>8, <2>3, <2>6, <2>8 DEF Answered
<1> HIDE DEF x
<1>12. SyncTyped(h, s, d)' /\ cleanups' \subseteq Answered(h, s, d)'
  <2>1. /\ uploads' \subseteq Uploads(h, s, d)'
        /\ orphans' \subseteq Uploads(h, s, d)'
        /\ cleanups' \subseteq Answered(h, s, d)'
    BY <1>1, <1>3, <1>4, <1>10, <1>11 DEF Typed, SyncTyped, x
  <2> QED
    BY <2>1 DEF SyncTyped
<1>13. Places'
  <2>1. sync = "ops"
    BY <1>5 DEF Places
  <2> QED
    BY <1>4, <1>5, <1>8, <2>1 DEF Places, Grows
<1>14. QueueTyped(h, s, d)' /\ Queued'
  <2>1. CASE uploads' # {}
    <3>1. queue' = queue
      BY <1>4, <2>1
    <3> QED
      BY <1>4, <1>5, <1>9, <3>1, StillQueued DEF Queued
  <2>2. CASE uploads' = {}
    <3> DEFINE S == Sections(h, s, d)'
               c == cleanups'
    <3>1. queue \in Seq(S) /\ Once(queue)
      BY <1>1, <1>5, <1>8, QueueGrows DEF Typed, QueueTyped, Queued
    <3>2. /\ Section("cleanups", c) \in S
          /\ Section("cleanups", c).name \notin {"op", "list"}
      <4>1. c \in SUBSET (Answered(h, s, d)')
        BY <1>12
      <4> HIDE DEF c
      <4> QED
        BY <4>1 DEF Section, Sections
    <3>3. queue' = Append(queue, Section("cleanups", c))
      BY <1>4, <2>2
    <3> HIDE DEF S, c
    <3>4. PICK z : z = Section("cleanups", c)
      OBVIOUS
    <3>5. /\ queue' \in Seq(S) /\ Once(queue') /\ ~ListWaits(queue')
          /\ \A m : Waits(m, queue') <=> Waits(m, queue)
      BY <1>5, <3>1, <3>2, <3>3, <3>4, AppendOther
    <3>6. Queued'
      BY <1>4, <1>5, <3>5, StillQueued
    <3> QED
      BY <3>5, <3>6 DEF QueueTyped, S
  <2> QED
    BY <2>1, <2>2
<1>15. Typed(h, s, d)'
  BY <1>8, <1>9, <1>12, <1>14 DEF Typed
<1>17. Unlisted(s)'
  BY <1>4, <1>5, NothingLate
<1> QED
  BY <1>5, <1>13, <1>14, <1>15, <1>17 DEF IInv

(* A call of a sync rejects: the sync is over.                              *)
LEMMA UploadRejectedKeeps ==
  ASSUME IInv, NEW op \in uploads, UploadRejected(op)
  PROVE  IInv'
<1>1. PICK g \in Given, s \in Shares, d \in SUBSET Ids :
        d = deleted /\ Typed(g, s, d) /\ Unlisted(s)
  BY DEF IInv
<1>2. PICK q, left : q = UploadOf(op) /\ left = uploads \ {op}
  OBVIOUS
<1>3. /\ SyncOver(left)
      /\ UNCHANGED <<hasRemote, local, taken, queue, ops, deleted>>
      /\ UNCHANGED server \/ \E o \in Outcomes(q) : Lands(o)
  BY <1>2 DEF UploadRejected, Rejects, store
<1>4. /\ Places /\ Queued /\ d = deleted'
      /\ fetched' = fetched /\ ~ListWaits(queue)
  <2>1. sync = "ops"
    BY DEF IInv, Places
  <2> QED
    BY <1>1, <1>3, <2>1 DEF IInv, Places, Queued, SyncOver
<1>13. Born \subseteq Born'
  BY <1>3 DEF Born
<1>5. op \in Uploads(g, s, d) /\ left \subseteq Uploads(g, s, d)
  BY <1>1, <1>2 DEF Typed, SyncTyped
<1>6. Sent(q, s, d) /\ (q.call = "save" => q.id \in Born')
  BY <1>2, <1>5, <1>13, UploadSent
<1>7. PICK h \in Given : Grows(g, h, s, s, d) /\ RemoteTyped(h, s, d)'
  BY <1>1, <1>3, <1>4, <1>6, <1>13, RejectionTyped
<1>8. LocalTyped(h, s, d)' /\ OpsTyped(h, s, d)' /\ QueueTyped(h, s, d)'
  BY <1>1, <1>3, <1>7, StaysTyped
<1>9. /\ ListedTyped(h, s, d)' /\ FetchedTyped(h, s, d)' /\ SyncTyped(h, s, d)'
      /\ Unlisted(s)'
  BY <1>1, <1>3, <1>5, <1>7, OverTyped
<1>10. Places'
  BY <1>3, <1>4, <1>7 DEF Places, Grows, SyncOver
<1>11. Queued'
  BY <1>3, <1>4, StillQueued DEF Queued
<1>12. Typed(h, s, d)'
  BY <1>7, <1>8, <1>9 DEF Typed
<1> QED
  BY <1>4, <1>9, <1>10, <1>11, <1>12 DEF IInv

(* What is left to do locally after the answers of the server.              *)
LEMMA CleanupsSectionKeeps ==
  ASSUME IInv, CleanupsSection
  PROVE  IInv'
<1>1. PICK g \in Given, s \in Shares, d \in SUBSET Ids :
        d = deleted /\ Typed(g, s, d) /\ Unlisted(s)
  BY DEF IInv
<1> DEFINE todo == {op \in Head(queue).todo :
                      ~(aborted /\ op.type = "delete-remote")}
<1>2. /\ queue # <<>> /\ Head(queue).name = "cleanups" /\ queue' = Tail(queue)
      /\ local' = [id \in Ids |->
                     IF \E op \in todo : op.id = id
                     THEN Result(CHOOSE op \in todo : op.id = id)
                     ELSE local[id]]
      /\ UNCHANGED <<hasRemote, taken, server, remote, serverTime, ops, sync,
                     aborted, listed, fetched, uploads, cleanups, orphans,
                     deleted>>
  BY DEF CleanupsSection, server, syncing
<1>3. Places /\ Queued /\ Places' /\ d = deleted'
  BY <1>1, <1>2 DEF IInv, Places
<1>4. Grows(g, g, s, s, d)
  BY <1>2, <1>3, SyncStands
<1>5. /\ RemoteTyped(g, s, d)' /\ OpsTyped(g, s, d)' /\ ListedTyped(g, s, d)'
      /\ FetchedTyped(g, s, d)' /\ SyncTyped(g, s, d)'
  BY <1>1, <1>2, <1>4, StaysTyped
<1>6. /\ QueueTyped(g, s, d)' /\ Queued'
      /\ ListWaits(queue') => ListWaits(queue)
      /\ \A i : Shield(queue, i, ops) => Shield(queue', i, ops')
  BY <1>1, <1>2, <1>3, <1>4, ServedTyped
<1>7. todo \subseteq Answered(g, s, d)
  <2>1. Head(queue) \in Sections(g, s, d)
    BY <1>1, <1>2 DEF Typed, QueueTyped
  <2>2. Head(queue).todo \subseteq Answered(g, s, d)
    BY <1>2, <2>1 DEF Sections
  <2> QED
    BY <2>2
<1> HIDE DEF todo
<1>8. \A i \in Ids : /\ local'[i] \in Copies(i, g, s, d) \cup {Absent}
                     /\ i \in d /\ ~Exists(local'[i]) => Safe(i)
  <2> SUFFICES ASSUME NEW i \in Ids
               PROVE  /\ local'[i] \in Copies(i, g, s, d) \cup {Absent}
                      /\ i \in d /\ ~Exists(local'[i]) => Safe(i)
    OBVIOUS
  <2>1. CASE \E op \in todo : op.id = i
    <3> DEFINE op == CHOOSE op \in todo : op.id = i
    <3>1. op \in todo /\ op.id = i
      BY <2>1
    <3>2. local'[i] = Result(op)
      BY <1>2, <2>1
    <3> HIDE DEF op
    <3>3. /\ Result(op) \in Copies(op.id, g, s, d) \cup {Absent}
          /\ op.id \in d => Safe(op.id)
      BY <1>3, <1>7, <3>1, ResultTyped
    <3> QED
      BY <3>1, <3>2, <3>3
  <2>2. CASE ~\E op \in todo : op.id = i
    <3>1. local'[i] = local[i]
      BY <1>2, <2>2
    <3> QED
      BY <1>1, <3>1 DEF Typed, LocalTyped
  <2> QED
    BY <2>1, <2>2
<1>9. LocalTyped(g, s, d)'
  <2>1. \A i \in Ids : local'[i] \in Copies(i, g, s, d)' \cup {Absent}
    BY <1>4, <1>8, RecordsGrow
  <2>2. \A i \in Ids : i \in d /\ ~Exists(local'[i]) => Safe(i)'
    BY <1>4, <1>8 DEF Grows
  <2>3. local' = [i \in Ids |-> local'[i]]
    BY <1>2
  <2> QED
    BY <2>1, <2>2, <2>3 DEF LocalTyped
<1>10. Typed(g, s, d)'
  BY <1>5, <1>6, <1>9 DEF Typed
<1>11. Unlisted(s)'
  <2>1. ASSUME NEW i \in Ids, Missed(i) PROVE Missed(i)'
    <3>1. ASSUME ListWaits(queue') PROVE local'[i] = local[i]
      <4>1. ListWaits(queue) /\ Shield(queue, i, ops)
        BY <1>6, <2>1, <3>1 DEF Missed
      <4>2. queue \in Seq(Sections(g, s, d))
        BY <1>1 DEF Typed, QueueTyped
      <4>3. Harmless(Head(queue), i, ops)
        BY <1>2, <4>1, <4>2, HeadHarmless
      <4>4. ~\E op \in todo : op.id = i
        BY <1>2, <4>3 DEF Harmless, todo
      <4> QED
        BY <1>2, <4>4
    <3> QED
      BY <1>2, <1>6, <2>1, <3>1, MissedStays
  <2> QED
    BY <1>1, <1>2, <1>3, <1>4, <2>1, UnlistedStays
<1> QED
  BY <1>3, <1>6, <1>10, <1>11 DEF IInv

(* A sync with nothing left to do is over.                                  *)
LEMMA SyncEndsKeeps ==
  ASSUME IInv, SyncEnds
  PROVE  IInv'
<1>1. PICK g \in Given, s \in Shares, d \in SUBSET Ids :
        d = deleted /\ Typed(g, s, d) /\ Unlisted(s)
  BY DEF IInv
<1>2. /\ SyncOver({})
      /\ sync = "ops" /\ fetched' = NotYet
      /\ UNCHANGED <<hasRemote, local, taken, server, remote, serverTime, ops,
                     queue, deleted>>
  BY DEF SyncEnds, SyncOver, store, server
<1>3. Places /\ Queued /\ Places' /\ d = deleted'
  BY <1>1, <1>2 DEF IInv, Places, SyncOver
<1>4. Grows(g, g, s, s, d)
  BY <1>2, <1>3, SyncStands
<1>5. /\ LocalTyped(g, s, d)' /\ RemoteTyped(g, s, d)' /\ OpsTyped(g, s, d)'
      /\ QueueTyped(g, s, d)'
  BY <1>1, <1>2, <1>4, StaysTyped
<1>6. /\ ListedTyped(g, s, d)' /\ FetchedTyped(g, s, d)' /\ SyncTyped(g, s, d)'
      /\ Unlisted(s)'
  BY <1>1, <1>2, <1>4, OverTyped
<1>7. Queued'
  BY <1>2, <1>3, StillQueued DEF Queued
<1>8. Typed(g, s, d)'
  BY <1>5, <1>6 DEF Typed
<1> QED
  BY <1>3, <1>6, <1>7, <1>8 DEF IInv

(* A call that a failed sync left behind is carried out after all, or not.  *)
LEMMA OrphanLandsKeeps ==
  ASSUME IInv, NEW op \in orphans, OrphanLands(op)
  PROVE  IInv'
<1>1. PICK g \in Given, s \in Shares, d \in SUBSET Ids :
        d = deleted /\ Typed(g, s, d) /\ Unlisted(s)
  BY DEF IInv
<1>2. PICK q : q = UploadOf(op)
  OBVIOUS
<1>3. /\ orphans' = orphans \ {op}
      /\ UNCHANGED server \/ \E o \in Outcomes(q) : Lands(o)
      /\ UNCHANGED <<hasRemote, local, taken, queue, ops, sync, aborted,
                     listed, fetched, uploads, cleanups, deleted>>
  BY <1>2 DEF OrphanLands, store
<1>4. Places /\ Queued /\ d = deleted' /\ Born \subseteq Born'
  BY <1>1, <1>3 DEF IInv, Born
<1>5. op \in Uploads(g, s, d)
  BY <1>1 DEF Typed, SyncTyped
<1>6. Sent(q, s, d) /\ (q.call = "save" => q.id \in Born')
  BY <1>2, <1>4, <1>5, UploadSent
<1>7. PICK h \in Given : Grows(g, h, s, s, d) /\ RemoteTyped(h, s, d)'
  BY <1>1, <1>3, <1>4, <1>6, RejectionTyped
<1>8. /\ LocalTyped(h, s, d)' /\ OpsTyped(h, s, d)' /\ QueueTyped(h, s, d)'
      /\ ListedTyped(h, s, d)' /\ FetchedTyped(h, s, d)'
  BY <1>1, <1>3, <1>7, StaysTyped
<1>9. SyncTyped(h, s, d)'
  <2>1. /\ Uploads(g, s, d) \subseteq Uploads(h, s, d)'
        /\ Answered(g, s, d) \subseteq Answered(h, s, d)'
    BY <1>7, OpsGrow
  <2> QED
    BY <1>1, <1>3, <2>1 DEF Typed, SyncTyped
<1>10. Places'
  BY <1>3, <1>4, <1>7 DEF Places, Grows
<1>11. Queued'
  BY <1>3, <1>4, StillQueued DEF Queued
<1>12. Typed(h, s, d)'
  BY <1>7, <1>8, <1>9 DEF Typed
<1>13. Unlisted(s)'
  <2>1. \A i \in Ids : Missed(i) => Missed(i)'
    BY <1>3, MissedStays
  <2> QED
    BY <1>1, <1>3, <1>4, <1>7, <2>1, UnlistedStays
<1> QED
  BY <1>4, <1>10, <1>11, <1>12, <1>13 DEF IInv

(* Another client changes a layout, deletes it or adds one, of a new id.    *)
LEMMA OtherKeeps ==
  ASSUME IInv, NEW id \in Ids, Other(id)
  PROVE  IInv'
<1>1. PICK g \in Given, s \in Shares, d \in SUBSET Ids :
        d = deleted /\ Typed(g, s, d) /\ Unlisted(s)
  BY DEF IInv
<1>3. /\ hasRemote
      /\ UNCHANGED <<hasRemote, local, queue, ops, sync, aborted, listed,
                     fetched, uploads, cleanups, orphans, deleted>>
  BY DEF Other, syncing
<1>2. /\ Places /\ Queued /\ d = deleted' /\ Born \subseteq taken
      /\ d \subseteq taken
  BY <1>1, <1>3 DEF IInv, Places, Born
<1>10. \A n \in Calls : Saving(ops[n]) => ops[n].id \in taken
  BY <1>1 DEF Typed, OpsTyped, UserOps, Saving, NoOp, Done
<1>4. PICK u \in Shares :
        /\ taken \subseteq taken' /\ taken' \subseteq Ids
        /\ Born \subseteq Born'
        /\ \A i \in taken : u[i] = s[i]
        /\ serverTime' = serverTime + (IF remote' = remote THEN 0 ELSE 1)
        /\ \E r : /\ remote' = [remote EXCEPT ![id] = r]
                  /\ r = Absent \/ Fresh(r, id, u)
                  /\ Exists(remote[id]) \/ id \notin taken
  <2>1. CASE Exists(remote[id]) /\ taken' = taken
    <3>1. remote[id] \in Saveds(id, g, s, d) /\ remote[id] \in Saved
      BY <1>1, <2>1 DEF Typed, RemoteTyped, Exists, Saveds
    <3> DEFINE r(v) == OnServer(remote[id].name, v, remote[id].shared)
    <3>0. Born \subseteq Born'
      BY <1>3, <2>1 DEF Born
    <3>2. ASSUME NEW v \in Data PROVE Fresh(r(v), id, s)
      <4>1. r(v) \in Saved /\ r(v).savedAt = serverTime + 1
            /\ r(v).shared = remote[id].shared
        BY <1>2, <3>1 DEF OnServer, Saved, Places
      <4> HIDE DEF r
      <4> QED
        BY <1>3, <2>1, <3>0, <3>1, <4>1 DEF Fresh, Saveds
    <3>3. PICK x \in {r(v) : v \in Data} \cup {Absent} :
            Lands(Outcome([id |-> id], x, Absent))
      BY <2>1 DEF Other
    <3>4. /\ remote' = [remote EXCEPT ![id] = x]
          /\ serverTime' = serverTime + (IF remote' = remote THEN 0 ELSE 1)
      BY <3>3 DEF Lands, Outcome
    <3>5. x = Absent \/ Fresh(x, id, s)
      BY <3>2, <3>3
    <3>6. taken \subseteq taken' /\ taken' \subseteq Ids
      BY <1>2, <2>1 DEF Places
    <3> QED
      BY <2>1, <3>0, <3>4, <3>5, <3>6
  <2>2. CASE id \notin taken /\ taken' = taken \cup {id}
    <3>1. PICK n \in Names, v \in Data :
            Lands(Outcome([id |-> id], OnServer(n, v, TRUE), Absent))
      BY <2>2 DEF Other
    <3>2. PICK u \in Shares : u = [s EXCEPT ![id] = TRUE]
      BY DEF Shares
    <3>3. u[id] = TRUE /\ \A i \in taken : u[i] = s[i]
      BY <1>2, <2>2, <3>2 DEF Shares, Places
    <3> DEFINE x == OnServer(n, v, TRUE)
    <3>4. x \in Saved /\ x.savedAt = serverTime + 1 /\ x.shared = TRUE
      BY <1>2 DEF OnServer, Saved, Places
    <3>5. /\ remote' = [remote EXCEPT ![id] = x]
          /\ serverTime' = serverTime + (IF remote' = remote THEN 0 ELSE 1)
      BY <3>1 DEF Lands, Outcome
    <3> HIDE DEF x
    <3>8. Born \subseteq Born' /\ id \in Born'
      BY <1>3, <1>10, <2>2 DEF Born
    <3>6. Fresh(x, id, u)
      BY <1>3, <2>2, <3>3, <3>4, <3>8 DEF Fresh
    <3>7. taken \subseteq taken' /\ taken' \subseteq Ids
      BY <1>2, <2>2 DEF Places
    <3> QED
      BY <2>2, <3>3, <3>5, <3>6, <3>7, <3>8
  <2> QED
    BY <2>1, <2>2 DEF Other
<1>5. PICK h \in Given : Grows(g, h, s, u, d) /\ RemoteTyped(h, u, d)'
  BY <1>1, <1>2, <1>3, <1>4, LandsTyped
<1>6. /\ LocalTyped(h, u, d)' /\ OpsTyped(h, u, d)' /\ QueueTyped(h, u, d)'
      /\ ListedTyped(h, u, d)' /\ FetchedTyped(h, u, d)' /\ SyncTyped(h, u, d)'
  BY <1>1, <1>3, <1>5, StaysTyped
<1>7. Places'
  BY <1>2, <1>3, <1>4, <1>5 DEF Places, Grows
<1>8. Queued'
  BY <1>2, <1>3, StillQueued DEF Queued
<1>9. Typed(h, u, d)'
  BY <1>5, <1>6 DEF Typed
<1>11. Unlisted(u)'
  <2>1. \A i \in Ids : Missed(i) => Missed(i)'
    BY <1>3, MissedStays
  <2> QED
    BY <1>1, <1>2, <1>3, <1>5, <2>1, UnlistedStays
<1> QED
  BY <1>2, <1>7, <1>8, <1>9, <1>11 DEF IInv

-----------------------------------------------------------------------------
(* The theorems.                                                            *)

(* Every call of the user keeps the invariant.                              *)
LEMMA UserCallsKeep ==
  ASSUME IInv, UserCalls
  PROVE  IInv'
<1>1. PICK id \in Ids :
        \/ \E n \in Names, v \in Data, shared \in BOOLEAN :
             Call("save", id, n, v, shared)
        \/ \E n \in Names \cup {None}, v \in Data \cup {None} :
             (n # None \/ v # None) /\ Call("update", id, n, v, FALSE)
        \/ \E n \in Names : Call("copy", id, n, None, FALSE)
        \/ \E kind \in {"get", "delete", "overwrite", "revert"} :
             Call(kind, id, None, None, FALSE)
  BY DEF UserCalls
<1>2. CASE \E n \in Names, v \in Data, shared \in BOOLEAN :
             Call("save", id, n, v, shared)
  BY <1>2, CallKeeps DEF Kinds
<1>3. CASE \E n \in Names \cup {None}, v \in Data \cup {None} :
             (n # None \/ v # None) /\ Call("update", id, n, v, FALSE)
  BY <1>3, CallKeeps DEF Kinds
<1>4. CASE \E n \in Names : Call("copy", id, n, None, FALSE)
  BY <1>4, CallKeeps DEF Kinds
<1>5. CASE \E kind \in {"get", "delete", "overwrite", "revert"} :
             Call(kind, id, None, None, FALSE)
  BY <1>5, CallKeeps DEF Kinds
<1> QED
  BY <1>1, <1>2, <1>3, <1>4, <1>5

(* Every step keeps the invariant.                                          *)
LEMMA NextIInv == IInv /\ [Next]_vars => IInv'
<1> SUFFICES ASSUME IInv, [Next]_vars PROVE IInv'
  OBVIOUS
<1>1. CASE UserCalls
  BY <1>1, UserCallsKeep
<1>2. CASE SectionStep
  BY <1>2, OpSectionKeeps, ListSectionKeeps, LocalsSectionKeeps,
     CleanupsSectionKeeps DEF SectionStep
<1>3. CASE \E n \in Calls : OpAnswered(n)
  BY <1>3, OpRepliesKeeps, OpRejectedKeeps DEF OpAnswered
<1>4. CASE SyncStarts
  BY <1>4, SyncStartsKeeps
<1>5. CASE SyncStep
  BY <1>5, FetchedKeeps, FetchFailsKeeps, PlansKeeps, SyncEndsKeeps,
     UploadRepliesKeeps, UploadRejectedKeeps DEF SyncStep
<1>6. CASE Abort
  BY <1>6, AbortKeeps
<1>7. CASE \E op \in orphans : OrphanLands(op)
  BY <1>7, OrphanLandsKeeps
<1>8. CASE \E id \in Ids : Other(id)
  BY <1>8, OtherKeeps
<1>9. CASE UNCHANGED vars
  <2>1. UNCHANGED <<hasRemote, local, taken, remote, serverTime, queue, ops,
                    sync, aborted, listed, fetched, uploads, cleanups, orphans,
                    server, deleted>>
    BY <1>9 DEF vars, store, server, syncing
  <2>2. PICK g \in Given, s \in Shares, d \in SUBSET Ids :
          d = deleted /\ Typed(g, s, d) /\ Unlisted(s)
    BY DEF IInv
  <2>3. Places' /\ Queued' /\ d = deleted'
    BY <2>1, <2>2 DEF IInv, Places, Queued
  <2>4. Grows(g, g, s, s, d)
    BY <2>1, SyncStands DEF IInv
  <2>6. Unlisted(s)'
    BY <2>1, <2>2 DEF Unlisted, Late, Missed
  <2>5. Typed(g, s, d)'
    <3>1. /\ LocalTyped(g, s, d)' /\ RemoteTyped(g, s, d)'
          /\ QueueTyped(g, s, d)'
          /\ OpsTyped(g, s, d)' /\ ListedTyped(g, s, d)'
          /\ FetchedTyped(g, s, d)'
          /\ SyncTyped(g, s, d)'
      BY <2>1, <2>2, <2>4, StaysTyped
    <3> QED
      BY <3>1 DEF Typed
  <2> QED
    BY <2>3, <2>5, <2>6 DEF IInv
<1> QED
  BY <1>1, <1>2, <1>3, <1>4, <1>5, <1>6, <1>7, <1>8, <1>9 DEF Next

(* Everything that is kept, waits or is under way - in the local store, on  *)
(* the server, in operations, lists, uploads, cleanups and orphaned calls - *)
(* has been given by the server or made by the user here, and agrees on     *)
(* which layouts are shared; an operation waits for the mutex only once.    *)
THEOREM Inductive == Spec => []IInv
<1> QED
  BY InitIInv, NextIInv, PTL DEF Spec

(* The local store and the server hold layouts, with times that the server  *)
(* has given, of ids that were taken; only the second half of a sync has    *)
(* calls of the server and cleanups.                                        *)
THEOREM TypeCorrect == Spec => []TypeOK
<1>1. IInv => TypeOK
  <2> SUFFICES ASSUME IInv PROVE TypeOK
    OBVIOUS
  <2>1. PICK g \in Given, s \in Shares, d \in SUBSET Ids : Typed(g, s, d)
    BY DEF IInv
  <2>2. Places
    BY DEF IInv
  <2>3. ASSUME NEW id \in Ids, Exists(local[id])
        PROVE  /\ local[id].name \in Names /\ local[id].base \in Data
               /\ local[id].working \in Data \cup {None}
               /\ local[id].status \in Statuses
               /\ local[id].last \in 0..serverTime
               /\ id \in taken
    <3>1. local[id] \in Copies(id, g, s, d) /\ local[id] \in Copy
      BY <2>1, <2>3 DEF Typed, LocalTyped, Exists, Copies
    <3>2. /\ local[id].name \in Names /\ local[id].base \in Data
          /\ local[id].working \in Data \cup {None}
          /\ local[id].status \in Statuses /\ local[id].last \in Nat
      BY <3>1 DEF Copy
    <3>3. id \in taken /\ local[id].last <= serverTime
      BY <3>1 DEF Copies, Born
    <3> QED
      BY <2>2, <3>2, <3>3 DEF Places
  <2>4. ASSUME NEW id \in Ids, Exists(remote[id])
        PROVE  remote[id].savedAt \in 1..serverTime /\ id \in taken
    <3>1. remote[id] \in Saveds(id, g, s, d)
      BY <2>1, <2>4 DEF Typed, RemoteTyped, Exists
    <3>2. remote[id].savedAt \in Nat \ {0}
      BY <3>1 DEF Saveds, Saved
    <3> QED
      BY <2>2, <3>1, <3>2 DEF Saveds, Places, Born
  <2> QED
    BY <2>2, <2>3, <2>4 DEF Places, TypeOK
<1> QED
  BY <1>1, Inductive, PTL

(* If the server never refuses an update as a conflict, a layout that is in *)
(* step with the server's version has the server's data: two versions that  *)
(* the server gave at the same time are the same, and whatever takes over a *)
(* savedAt takes over the data with it.                                     *)
THEOREM StepMeansSame ==
  ASSUME ~Conflicts
  PROVE  Spec => []TrackedAgrees
<1>1. IInv => TrackedAgrees
  <2> SUFFICES ASSUME IInv, NEW id \in Ids,
                      Exists(local[id]), Exists(remote[id]),
                      local[id].status = "tracked",
                      local[id].last = remote[id].savedAt
               PROVE  local[id].base = remote[id].data
    BY DEF TrackedAgrees
  <2>1. PICK g \in Given, s \in Shares, d \in SUBSET Ids : Typed(g, s, d)
    BY DEF IInv
  <2>2. local[id] \in Copies(id, g, s, d) /\ remote[id] \in Saveds(id, g, s, d)
    BY <2>1 DEF Typed, LocalTyped, RemoteTyped, Exists
  <2> QED
    BY <2>2 DEF Copies, Saveds
<1> QED
  BY <1>1, Inductive, PTL

(* A layout that was deleted while nothing else was under way never comes   *)
(* back: it is gone, or marked as deleted, in the local store; nobody that  *)
(* will write still holds it, and once it is gone neither the server nor    *)
(* what a sync has fetched of the server has it.                            *)
THEOREM DeletedForGood == Spec => []DeletionIsFinal
<1>1. IInv => DeletionIsFinal
  <2> SUFFICES ASSUME IInv, NEW id \in deleted, Exists(local[id])
               PROVE  local[id].status = "locally-deleted"
    BY DEF DeletionIsFinal, Visible, AppearsDeleted
  <2>1. PICK g \in Given, s \in Shares, d \in SUBSET Ids :
          d = deleted /\ Typed(g, s, d)
    BY DEF IInv
  <2>2. local[id] \in Copies(id, g, s, d)
    BY <2>1 DEF Typed, LocalTyped, Exists
  <2> QED
    BY <2>1, <2>2 DEF Copies
<1> QED
  BY <1>1, Inductive, PTL

-----------------------------------------------------------------------------
(* What a sync does to layouts that are edited and not saved.               *)

(* A section of a sync.                                                     *)
IsSyncing(x) == x.name \in {"locals", "cleanups"}

(* One section of a kind at a time, and those of the sync before this one   *)
(* before its list.                                                         *)
Orderly(q) ==
  \A k, l \in 1..Len(q) : IsSyncing(q[l]) =>
    /\ q[k].name = q[l].name => k = l
    /\ q[k].name = "list" => l < k

HasSection(q, name) == \E k \in 1..Len(q) : q[k].name = name

Holds(q, op) == \E k \in 1..Len(q) : IsSyncing(q[k]) /\ op \in q[k].todo

(* What a sync has still to do in the local store.                          *)
InHand(op) ==
  op \in uploads \/ (uploads # {} /\ op \in cleanups) \/ Holds(queue, op)

(* It is not planned to drop what is edited, unless it was personal; what   *)
(* was marked as deleted is dropped.                                        *)
Sensible(op) ==
  /\ op.type = "add-to-cache" => ~Exists(op.local)
  /\ op.type \in {"delete-local", "delete-remote"} =>
       AppearsDeleted(op.local) \/ op.local.working = None \/ ~op.local.shared
  /\ op.local.status = "locally-deleted" =>
       op.type \in {"delete-local", "delete-remote"}

Unsaved(id) == id \notin late /\ Visible(id) /\ local[id].working # None
Marked(id) == id \notin late /\ local[id].status = "locally-deleted"

Stages ==
  /\ Orderly(queue)
  /\ listed # NotYet =>
       ~HasSection(queue, "locals") /\ ~HasSection(queue, "cleanups")
  /\ HasSection(queue, "cleanups") => sync = "ops" /\ uploads = {}
  /\ \A o \in uploads, p \in cleanups : o.id # p.id

(* What is in hand was planned from what is edited and not saved.           *)
UpToDate(id) ==
  /\ listed # NotYet => listed[id] = local[id]
  /\ \A op : InHand(op) /\ op.id = id => op.local = local[id]

(* ... from a layout that was marked as deleted. *)
DeletionKnown(id) ==
  /\ listed # NotYet => listed[id].status = "locally-deleted"
  /\ \A op : InHand(op) /\ op.id = id =>
                op.local.status = "locally-deleted"

(* A sync has one operation for a layout, planned from what the layout is   *)
(* still, unless the last section of an operation has stored it meanwhile.  *)
EditsInv ==
  /\ Stages
  /\ \A o, p : InHand(o) /\ InHand(p) /\ o.id = p.id => o = p
  /\ \A op : InHand(op) => Sensible(op)
  /\ \A id \in Ids : Unsaved(id) => UpToDate(id)
  /\ \A id \in Ids : Marked(id) => DeletionKnown(id)

(* Nothing is left to do for a layout.                                      *)
NotInHand(id) == listed = NotYet /\ \A op : InHand(op) => op.id # id

(* A queue with no more sync sections than another, and in order.           *)
Calms(q, r) ==
  /\ Orderly(r)
  /\ \A name : HasSection(r, name) /\ name # "op" /\ name # "list" =>
                 HasSection(q, name)
  /\ \A op : Holds(r, op) => Holds(q, op)

(* What is left of a queue is in order.                                     *)
LEMMA ShrinkCalms ==
  ASSUME NEW S, NEW q \in Seq(S), NEW r \in Seq(S), Shrinks(q, r), Orderly(q)
  PROVE  Calms(q, r) /\ (HasSection(r, "list") => HasSection(q, "list"))
<1>1. PICK f \in [1..Len(r) -> 1..Len(q)] :
        /\ \A k \in 1..Len(r) : Under(r[k], q[f[k]])
        /\ \A k, l \in 1..Len(r) : k < l => f[k] < f[l]
  BY DEF Shrinks
<1>2. /\ Len(q) \in Nat /\ Len(r) \in Nat
      /\ \A k \in 1..Len(r) : f[k] \in 1..Len(q) /\ q[f[k]].name = r[k].name
  BY <1>1 DEF Under
<1>3. Orderly(r)
  <2> SUFFICES ASSUME NEW k \in 1..Len(r), NEW l \in 1..Len(r),
                      IsSyncing(r[l])
               PROVE  /\ r[k].name = r[l].name => k = l
                      /\ r[k].name = "list" => l < k
    BY DEF Orderly
  <2>1. /\ IsSyncing(q[f[l]]) /\ f[k] \in 1..Len(q) /\ f[l] \in 1..Len(q)
        /\ q[f[k]].name = r[k].name /\ q[f[l]].name = r[l].name
    BY <1>2 DEF IsSyncing
  <2>2. /\ r[k].name = r[l].name => f[k] = f[l]
        /\ r[k].name = "list" => f[l] < f[k]
    BY <2>1 DEF Orderly
  <2>3. k < l \/ l < k \/ k = l
    BY <1>2
  <2>4. (k < l => f[k] < f[l]) /\ (l < k => f[l] < f[k])
    BY <1>1
  <2> QED
    BY <2>1, <2>2, <2>3, <2>4
<1>4. \A name : HasSection(r, name) => HasSection(q, name)
  BY <1>2 DEF HasSection
<1>5. ASSUME NEW op, Holds(r, op) PROVE Holds(q, op)
  <2>1. PICK k \in 1..Len(r) : IsSyncing(r[k]) /\ op \in r[k].todo
    BY <1>5 DEF Holds
  <2>2. IsSyncing(q[f[k]]) /\ op \in q[f[k]].todo
    BY <1>1, <1>2, <2>1 DEF Under, IsSyncing
  <2> QED
    BY <1>2, <2>2 DEF Holds
<1> QED
  BY <1>3, <1>4, <1>5 DEF Calms

(* A section of a sync joins a queue that has none of its kind, and no list. *)
LEMMA AppendOrderly ==
  ASSUME NEW S, NEW q \in Seq(S), NEW x, Orderly(q),
         IsSyncing(x) => ~HasSection(q, x.name) /\ ~HasSection(q, "list")
  PROVE  LET r == Append(q, x) IN
         /\ Orderly(r)
         /\ \A name : HasSection(r, name) <=>
                        HasSection(q, name) \/ x.name = name
         /\ \A op : Holds(r, op) <=>
                      Holds(q, op) \/ (IsSyncing(x) /\ op \in x.todo)
<1> DEFINE r == Append(q, x)
<1>1. /\ Len(r) = Len(q) + 1 /\ Len(q) \in Nat
      /\ r[Len(q) + 1] = x /\ \A k \in 1..Len(q) : r[k] = q[k]
  OBVIOUS
<1> HIDE DEF r
<1>2. ASSUME NEW k \in 1..Len(r), NEW l \in 1..Len(r), IsSyncing(r[l])
      PROVE  /\ r[k].name = r[l].name => k = l
             /\ r[k].name = "list" => l < k
  <2>1. CASE k \in 1..Len(q) /\ l \in 1..Len(q)
    <3>1. r[k] = q[k] /\ r[l] = q[l] /\ IsSyncing(q[l])
      BY <1>1, <1>2, <2>1
    <3> QED
      BY <2>1, <3>1 DEF Orderly
  <2>2. CASE k = Len(q) + 1 /\ l \in 1..Len(q)
    <3>1. r[k] = x /\ r[l] = q[l] /\ l < k
      BY <1>1, <2>2
    <3>2. HasSection(q, r[l].name)
      BY <2>2, <3>1 DEF HasSection
    <3> QED
      BY <1>2, <3>1, <3>2 DEF IsSyncing
  <2>3. CASE l = Len(q) + 1 /\ k \in 1..Len(q)
    <3>1. r[l] = x /\ r[k] = q[k]
      BY <1>1, <2>3
    <3>2. HasSection(q, r[k].name)
      BY <2>3, <3>1 DEF HasSection
    <3> QED
      BY <1>2, <3>1, <3>2
  <2>4. CASE l = Len(q) + 1 /\ k = Len(q) + 1
    BY <1>1, <1>2, <2>4 DEF IsSyncing
  <2> QED
    BY <1>1, <2>1, <2>2, <2>3, <2>4
<1>3. Orderly(r)
  BY <1>2 DEF Orderly
<1>4. \A name : HasSection(r, name) <=> HasSection(q, name) \/ x.name = name
  BY <1>1 DEF HasSection
<1>5. \A op : Holds(r, op) <=>
                Holds(q, op) \/ (IsSyncing(x) /\ op \in x.todo)
  BY <1>1 DEF Holds
<1> QED
  BY <1>3, <1>4, <1>5 DEF r

(* A section of another kind changes nothing for a running sync.            *)
LEMMA AppendCalms ==
  ASSUME NEW S, NEW q \in Seq(S), NEW x, Orderly(q), ~IsSyncing(x),
         x.name \in {"op", "list"}
  PROVE  Calms(q, Append(q, x))
<1>1. LET r == Append(q, x) IN
      /\ Orderly(r)
      /\ \A name : HasSection(r, name) <=> HasSection(q, name) \/ x.name = name
      /\ \A op : Holds(r, op) <=>
                   Holds(q, op) \/ (IsSyncing(x) /\ op \in x.todo)
  BY AppendOrderly
<1> QED
  BY <1>1 DEF Calms

(* A step after which a sync has no more to do than before, and nothing     *)
(* that is edited and not saved, or marked as deleted, is changed but what  *)
(* no sync will touch.                                                      *)
LEMMA EditsStay ==
  ASSUME EditsInv, Calms(queue, queue'), listed' \in {listed, NotYet},
         uploads' \subseteq uploads, cleanups' \subseteq cleanups,
         HasSection(queue', "cleanups") => sync' = sync,
         \A id \in Ids : Unsaved(id)' =>
           (Unsaved(id) /\ local'[id] = local[id]) \/ NotInHand(id)',
         \A id \in Ids : Marked(id)' => Marked(id) \/ NotInHand(id)'
  PROVE  EditsInv'
<1>1. ASSUME NEW op, InHand(op)' PROVE InHand(op)
  BY <1>1 DEF InHand, Calms
<1>2. Stages'
  <2>1. listed' # NotYet =>
          ~HasSection(queue', "locals") /\ ~HasSection(queue', "cleanups")
    BY DEF EditsInv, Stages, Calms
  <2>2. HasSection(queue', "cleanups") => sync' = "ops" /\ uploads' = {}
    BY DEF EditsInv, Stages, Calms
  <2> QED
    BY <2>1, <2>2 DEF EditsInv, Stages, Calms
<1>3. \A o, p : InHand(o)' /\ InHand(p)' /\ o.id = p.id => o = p
  BY <1>1 DEF EditsInv
<1>4. \A op : InHand(op)' => Sensible(op)
  BY <1>1 DEF EditsInv
<1>5. ASSUME NEW id \in Ids, Unsaved(id)' PROVE UpToDate(id)'
  <2>1. CASE Unsaved(id) /\ local'[id] = local[id]
    <3>1. UpToDate(id)
      BY <2>1 DEF EditsInv
    <3>2. listed' # NotYet => listed'[id] = local'[id]
      BY <2>1, <3>1 DEF UpToDate
    <3>3. \A op : InHand(op)' /\ op.id = id => op.local = local'[id]
      BY <1>1, <2>1, <3>1 DEF UpToDate
    <3> QED
      BY <3>2, <3>3 DEF UpToDate
  <2>2. CASE NotInHand(id)'
    BY <2>2 DEF UpToDate, NotInHand
  <2> QED
    BY <1>5, <2>1, <2>2
<1>6. ASSUME NEW id \in Ids, Marked(id)' PROVE DeletionKnown(id)'
  <2>1. CASE Marked(id)
    <3>1. DeletionKnown(id)
      BY <2>1 DEF EditsInv
    <3> QED
      BY <1>1, <3>1 DEF DeletionKnown
  <2>2. CASE NotInHand(id)'
    BY <2>2 DEF DeletionKnown, NotInHand
  <2> QED
    BY <1>6, <2>1, <2>2
<1> QED
  BY <1>2, <1>3, <1>4, <1>5, <1>6 DEF EditsInv

(* What the sections in the queue are about.                                *)
LEMMA QueueKinds ==
  ASSUME IInv
  PROVE  /\ \A op \in uploads \cup cleanups : ~IsLocal(op)
         /\ \E S : /\ queue \in Seq(S)
                   /\ \A x \in S :
                        /\ x.name \in {"op", "list", "locals", "cleanups"}
                        /\ x.name = "op" => x.todo \in Calls
                        /\ x.name = "list" => x.todo = {}
                        /\ x.name = "locals" => \A op \in x.todo : IsLocal(op)
                        /\ x.name = "cleanups" =>
                             \A op \in x.todo : ~IsLocal(op)
<1>1. PICK g \in Given, s \in Shares, d \in SUBSET Ids : Typed(g, s, d)
  BY DEF IInv
<1>2. \A op \in uploads \cup cleanups : ~IsLocal(op)
  BY <1>1 DEF Typed, SyncTyped, Uploads, Answered
<1>3. PICK S : S = Sections(g, s, d)
  OBVIOUS
<1>4. queue \in Seq(S)
  BY <1>1, <1>3 DEF Typed, QueueTyped
<1>5. ASSUME NEW x \in S
      PROVE  /\ x.name \in {"op", "list", "locals", "cleanups"}
             /\ x.name = "op" => x.todo \in Calls
             /\ x.name = "list" => x.todo = {}
             /\ x.name = "locals" => \A op \in x.todo : IsLocal(op)
             /\ x.name = "cleanups" => \A op \in x.todo : ~IsLocal(op)
  <2>1. CASE x \in [name : {"op"}, todo : Calls]
    BY <2>1
  <2>2. CASE x \in [name : {"list"}, todo : {{}}]
    BY <2>2
  <2>3. CASE x \in [name : {"locals"}, todo : SUBSET Locals(g, s, d)]
    BY <2>3 DEF Locals
  <2>4. CASE x \in [name : {"cleanups"}, todo : SUBSET Answered(g, s, d)]
    BY <2>4 DEF Answered, Uploads
  <2> QED
    BY <1>3, <1>5, <2>1, <2>2, <2>3, <2>4 DEF Sections
<1> QED
  BY <1>2, <1>4, <1>5

(* A section is taken out.                                                  *)
LEMMA WithoutCalms ==
  ASSUME IInv, EditsInv, NEW name
  PROVE  Calms(queue, QueueWithout(name))
<1>1. PICK S : /\ queue \in Seq(S)
               /\ \A x \in S : x.name = "list" => x.todo = {}
  BY QueueKinds
<1>2. Once(queue) /\ Orderly(queue)
  BY DEF IInv, Queued, EditsInv, Stages
<1>3. QueueWithout(name) \in Seq(S) /\ Shrinks(queue, QueueWithout(name))
  BY <1>1, <1>2, WithoutFacts
<1> QED
  BY <1>1, <1>2, <1>3, ShrinkCalms

(* A step that leaves alone the local store and what was stored late.       *)
LEMMA QuietEdits ==
  ASSUME EditsInv, Calms(queue, queue'), listed' \in {listed, NotYet},
         uploads' \subseteq uploads, cleanups' \subseteq cleanups,
         HasSection(queue', "cleanups") => sync' = sync,
         local' = local, late' = late
  PROVE  EditsInv'
<1>1. \A id \in Ids : Unsaved(id)' => Unsaved(id) /\ local'[id] = local[id]
  BY DEF Unsaved, Visible
<1>2. \A id \in Ids : Marked(id)' => Marked(id)
  BY DEF Marked
<1> QED
  BY <1>1, <1>2, EditsStay

(* The queue stays as it is.                                               *)
LEMMA SameCalms ==
  ASSUME EditsInv
  PROVE  Calms(queue, queue)
  BY DEF EditsInv, Stages, Calms

(* A sync starts when no cleanups wait.                                     *)
LEMMA SyncStartsEdits == IInv /\ EditsInv /\ SyncStarts => EditsInv'
<1> SUFFICES ASSUME IInv, EditsInv, SyncStarts PROVE EditsInv'
  OBVIOUS
<1>1. PICK S : queue \in Seq(S)
  BY QueueKinds
<1>2. PICK x : x = Section("list", {})
  OBVIOUS
<1>3. ~IsSyncing(x) /\ x.name = "list" /\ Orderly(queue)
  BY <1>2 DEF Section, IsSyncing, EditsInv, Stages
<1>4. queue' = Append(queue, x)
  BY <1>2 DEF SyncStarts
<1>5. Calms(queue, queue')
  BY <1>1, <1>3, <1>4, AppendCalms
<1>6. ~HasSection(queue', "cleanups")
  BY <1>5 DEF Calms, EditsInv, Stages, SyncStarts
<1> QED
  BY <1>5, <1>6, QuietEdits DEF SyncStarts, store

(* Steps that only read, fail, end or happen elsewhere.                     *)
LEMMA FetchedEdits == EditsInv /\ Fetched => EditsInv'
  BY SameCalms, QuietEdits DEF Fetched, store

(* The list is given up.                                                    *)
LEMMA FetchFailsEdits == IInv /\ EditsInv /\ FetchFails => EditsInv'
<1> SUFFICES ASSUME IInv, EditsInv, FetchFails PROVE EditsInv'
  OBVIOUS
<1>1. Calms(queue, queue')
  BY WithoutCalms DEF FetchFails
<1>2. ~HasSection(queue', "cleanups")
  BY <1>1 DEF Calms, EditsInv, Stages, FetchFails
<1> QED
  BY <1>1, <1>2, QuietEdits DEF FetchFails, SyncOver, store

(* Local operations that wait are given up.                                 *)
LEMMA AbortEdits == IInv /\ EditsInv /\ Abort => EditsInv'
<1> SUFFICES ASSUME IInv, EditsInv, Abort PROVE EditsInv'
  OBVIOUS
<1>1. Calms(queue, queue')
  BY WithoutCalms DEF Abort
<1> QED
  BY <1>1, QuietEdits DEF Abort, store

(* No cleanups are left when a sync ends.                                   *)
LEMMA SyncEndsEdits == EditsInv /\ SyncEnds => EditsInv'
<1> SUFFICES ASSUME EditsInv, SyncEnds PROVE EditsInv'
  OBVIOUS
<1>1. Calms(queue, queue') /\ ~HasSection(queue', "cleanups")
  BY SameCalms DEF SyncEnds, HasSection
<1> QED
  BY <1>1, QuietEdits DEF SyncEnds, SyncOver, store

(* No cleanups wait yet when a call of the sync is rejected.                *)
LEMMA UploadRejectedEdits ==
  ASSUME EditsInv, NEW op \in uploads, UploadRejected(op)
  PROVE  EditsInv'
<1>1. Calms(queue, queue')
  BY SameCalms DEF UploadRejected
<1>2. ~HasSection(queue', "cleanups")
  BY DEF EditsInv, Stages, UploadRejected
<1> QED
  BY <1>1, <1>2, QuietEdits DEF UploadRejected, SyncOver, store

(* What happens on the server alone.                                        *)
LEMMA OrphanLandsEdits ==
  ASSUME EditsInv, NEW op \in orphans, OrphanLands(op)
  PROVE  EditsInv'
  BY SameCalms, QuietEdits DEF OrphanLands, store

(* ... or another client does.                                              *)
LEMMA OtherEdits ==
  ASSUME EditsInv, NEW id \in Ids, Other(id)
  PROVE  EditsInv'
  BY SameCalms, QuietEdits DEF Other, syncing

(* What is under way is an operation with an id.                            *)
LEMMA OpKinds ==
  ASSUME IInv
  PROVE  /\ ops = [n \in Calls |-> ops[n]]
         /\ \A n \in Active : ops[n] \in OpRecord
<1>1. PICK g \in Given, s \in Shares, d \in SUBSET Ids : Typed(g, s, d)
  BY DEF IInv
<1>2. ops \in [Calls -> UserOps(g, s, d) \cup {NoOp, Done}]
  BY <1>1 DEF Typed, OpsTyped
<1> QED
  BY <1>2 DEF UserOps, Active

(* The section of an operation waits for the mutex.                         *)
LEMMA WaitCalms ==
  ASSUME IInv, EditsInv, NEW n
  PROVE  Calms(queue, Append(queue, Section("op", n)))
<1>1. PICK S : queue \in Seq(S)
  BY QueueKinds
<1>2. PICK x : x = Section("op", n)
  OBVIOUS
<1>3. ~IsSyncing(x) /\ x.name = "op" /\ Orderly(queue)
  BY <1>2 DEF Section, IsSyncing, EditsInv, Stages
<1>4. Calms(queue, Append(queue, x))
  BY <1>1, <1>3, AppendCalms
<1> QED
  BY <1>2, <1>4

(* A call only waits. *)
LEMMA CallEdits ==
  ASSUME IInv, EditsInv, NEW kind, NEW id \in Ids, NEW name, NEW data,
         NEW shared, Call(kind, id, name, data, shared)
  PROVE  EditsInv'
<1>1. PICK n : queue' = queue \/ queue' = Append(queue, Section("op", n))
  BY DEF Call
<1>2. late' = late /\ local' = local /\ UNCHANGED syncing
  BY DEF Call
<1>3. Calms(queue, queue')
  BY <1>1, WaitCalms, SameCalms
<1> QED
  BY <1>2, <1>3, QuietEdits DEF syncing

(* An operation ends as its call is rejected.                               *)
LEMMA OpRejectedEdits ==
  ASSUME EditsInv, NEW n \in Calls, OpRejected(n)
  PROVE  EditsInv'
<1>1. /\ Calms(queue, queue') /\ UNCHANGED syncing
      /\ late' = late /\ local' = local
  BY SameCalms DEF OpRejected, store
<1> QED
  BY <1>1, QuietEdits DEF syncing

(* ... or gets its answer, and waits for its last section.                  *)
LEMMA OpRepliesEdits ==
  ASSUME IInv, EditsInv, NEW n \in Calls, OpReplies(n)
  PROVE  EditsInv'
<1>1. queue' = queue \/ queue' = Append(queue, Section("op", n))
  BY DEF OpReplies
<1>2. UNCHANGED syncing /\ late' = late /\ local' = local
  BY DEF OpReplies, store
<1>3. Calms(queue, queue')
  BY <1>1, WaitCalms, SameCalms
<1> QED
  BY <1>2, <1>3, QuietEdits DEF syncing

(* The head of the queue is its first section.                              *)
LEMMA HeadOfQueue ==
  ASSUME IInv, queue # <<>>
  PROVE  /\ \A S : queue \in Seq(S) => Head(queue) \in S
         /\ Head(queue) = queue[1] /\ 1 \in 1..Len(queue)
<1>1. PICK S : queue \in Seq(S)
  BY QueueKinds
<1> QED
  BY <1>1

(* There is a layout, or none, for each id.                                 *)
LEMMA LocalDomain ==
  ASSUME IInv
  PROVE  local = [id \in Ids |-> local[id]]
<1>1. PICK g \in Given, s \in Shares, d \in SUBSET Ids : Typed(g, s, d)
  BY DEF IInv
<1> QED
  BY <1>1 DEF Typed, LocalTyped

(* What an operation stores with its only section has no edits, and is not  *)
(* marked as deleted unless it was.                                         *)
Bare(id) ==
  /\ Exists(local'[id]) => local'[id].working = None
  /\ local'[id].status = "locally-deleted" =>
       local[id].status = "locally-deleted"

LEMMA OnceStored ==
  ASSUME IInv, NEW n \in Active, Writes(n), NEW id \in Ids,
         IF ops[n].kind = "copy" THEN id \in {ops[n].id, ops[n].new}
         ELSE ops[n].kind \in {"save", "revert"} /\ id = ops[n].id
  PROVE  local'[id] = local[id] \/ Bare(id)
<1>1. local[id] \in Copy \cup {Absent}
  <2>1. PICK g \in Given, s \in Shares, d \in SUBSET Ids : Typed(g, s, d)
    BY DEF IInv
  <2> QED
    BY <2>1 DEF Typed, LocalTyped, Copies
<1>2. PICK l, op : l = local[id] /\ op = ops[n]
  OBVIOUS
<1>3. PICK e : e = [l EXCEPT !.working = None]
  OBVIOUS
<1>4. l \in Copy => e.working = None /\ e.status = l.status
  BY <1>3 DEF Copy
<1>5. ~Exists(l) => l.status = "absent"
  BY DEF Exists, Absent
<1>6. local = [i \in Ids |-> local[i]] /\ op \in OpRecord
  BY <1>2, LocalDomain, OpKinds
<1>7. CASE op.kind = "copy" /\ Exists(local[op.id])
  <2>1. PICK c : /\ c.working = None /\ c.status = "new"
                 /\ local' = [local EXCEPT ![op.new] = c,
                                          ![op.id].working = None]
    BY <1>2, <1>7 DEF Writes, Copied, Layout
  <2>2. CASE id = op.new /\ op.new # op.id
    BY <1>6, <2>1, <2>2 DEF Bare
  <2>3. CASE id = op.id /\ op.new # op.id
    <3>1. local'[id] = e
      BY <1>2, <1>3, <1>6, <2>1, <2>3
    <3>2. l \in Copy
      BY <1>1, <1>2, <1>7, <2>3 DEF Exists
    <3> QED
      BY <1>2, <1>4, <3>1, <3>2 DEF Bare
  <2>4. CASE op.new = op.id
    BY <1>6, <2>1, <2>4 DEF Bare
  <2> QED
    BY <1>2, <1>7, <2>2, <2>3, <2>4
<1>8. CASE op.kind = "copy" /\ ~Exists(local[op.id])
  BY <1>2, <1>8 DEF Writes, Copied
<1>9. CASE op.kind = "save"
  <2>1. local'[id] = Written(op)
    BY <1>2, <1>6, <1>9 DEF Writes
  <2>2. \/ Written(op) = Tracked(op.reply)
        \/ \E status \in {"new", "unset"} :
              Written(op) = Layout(op.name, FALSE, op.data, status, None)
    BY <1>9 DEF Written
  <2>3. Written(op).working = None /\ Written(op).status # "locally-deleted"
    BY <2>2 DEF Tracked, Layout
  <2> QED
    BY <2>1, <2>3 DEF Bare
<1>10. CASE op.kind = "revert"
  <2>1. local'[id] = Written(op)
    BY <1>2, <1>6, <1>10 DEF Writes
  <2>2. Written(op) = IF Exists(l) THEN e ELSE Absent
    BY <1>2, <1>3, <1>10 DEF Written
  <2>3. CASE Exists(l)
    BY <1>1, <1>2, <1>4, <2>1, <2>2, <2>3 DEF Bare, Exists
  <2>4. CASE ~Exists(l)
    BY <1>2, <2>1, <2>2, <2>4 DEF Exists
  <2> QED
    BY <2>3, <2>4
<1> QED
  BY <1>2, <1>7, <1>8, <1>9, <1>10

(* The last of two sections stores late, an only one without edits.         *)
LEMMA OpSectionEdits == IInv /\ EditsInv /\ OpSection => EditsInv'
<1> SUFFICES ASSUME IInv, EditsInv, OpSection PROVE EditsInv'
  OBVIOUS
<1>1. PICK S : /\ queue \in Seq(S)
               /\ \A x \in S : /\ x.name = "op" => x.todo \in Calls
                               /\ x.name = "list" => x.todo = {}
  BY QueueKinds
<1>2. PICK x \in S : x = Head(queue) /\ x = queue[1] /\ x.name = "op"
  BY <1>1, HeadOfQueue DEF OpSection
<1>3. PICK n \in Calls : n = Head(queue).todo
  BY <1>1, <1>2
<1>4. n \in Active
  <2>1. Waits(n, queue)
    BY <1>2, <1>3, HeadOfQueue DEF Waits, OpSection
  <2> QED
    BY <2>1 DEF IInv, Queued, Active, NoOp, Done
<1>5. /\ UNCHANGED syncing
      /\ late' = IF ops[n].step = "write" THEN late \cup {ops[n].id} ELSE late
      /\ \/ /\ OneSection(ops[n]) \/ ops[n].step = "write"
            /\ Writes(n) /\ queue' = Tail(queue)
         \/ /\ local' = local
            /\ \/ queue' = Append(Tail(queue), Head(queue))
               \/ queue' = Tail(queue)
  BY <1>3 DEF OpSection
<1>6. Calms(queue, queue')
  <2>0. PICK r : r = Tail(queue)
    OBVIOUS
  <2>1. r \in Seq(S) /\ Shrinks(queue, r)
    BY <1>1, <2>0, TailFacts DEF OpSection, IInv, Queued
  <2>2. Calms(queue, r)
    BY <1>1, <2>1, ShrinkCalms DEF EditsInv, Stages
  <2>3. Calms(r, Append(r, x))
    BY <1>2, <2>1, <2>2, AppendCalms DEF Calms, IsSyncing
  <2>4. Calms(queue, Append(r, x))
    BY <2>2, <2>3 DEF Calms
  <2> QED
    BY <1>2, <1>5, <2>0, <2>2, <2>4
<1>7. ASSUME NEW id \in Ids, id \notin late'
      PROVE  local'[id] = local[id] \/ Bare(id)
  <2>1. CASE local' = local
    BY <2>1
  <2>2. CASE Writes(n) /\ (OneSection(ops[n]) \/ ops[n].step = "write")
    <3>1. local = [i \in Ids |-> local[i]] /\ ops[n] \in OpRecord
      BY <1>4, LocalDomain, OpKinds
    <3>2. CASE ops[n].kind # "copy" /\ id # ops[n].id
      BY <2>2, <3>1, <3>2 DEF Writes
    <3>3. CASE ops[n].kind # "copy" /\ id = ops[n].id
      <4>1. ops[n].step # "write"
        BY <1>5, <1>7, <3>3
      <4>2. ops[n].kind \in {"save", "revert"}
        BY <2>2, <3>3, <4>1 DEF OneSection
      <4> QED
        BY <1>4, <2>2, <3>3, <4>2, OnceStored
    <3>4. CASE ops[n].kind = "copy" /\ id \in {ops[n].id, ops[n].new}
      BY <1>4, <2>2, <3>4, OnceStored
    <3>5. CASE ops[n].kind = "copy" /\ id \notin {ops[n].id, ops[n].new}
      <4>1. PICK c : \/ local' = local
                     \/ local' = [local EXCEPT ![ops[n].new] = c,
                                              ![ops[n].id].working = None]
        BY <2>2, <3>5 DEF Writes, Copied
      <4> QED
        BY <3>1, <3>5, <4>1
    <3> QED
      BY <3>2, <3>3, <3>4, <3>5
  <2> QED
    BY <1>5, <2>1, <2>2
<1>8. late \subseteq late'
  BY <1>5
<1>9. ASSUME NEW id \in Ids, Unsaved(id)'
      PROVE  Unsaved(id) /\ local'[id] = local[id]
  <2>1. local'[id] = local[id]
    BY <1>7, <1>9 DEF Unsaved, Visible, Bare
  <2> QED
    BY <1>8, <1>9, <2>1 DEF Unsaved, Visible
<1>10. \A id \in Ids : Marked(id)' => Marked(id)
  BY <1>7, <1>8 DEF Marked, Bare
<1> QED
  BY <1>5, <1>6, <1>9, <1>10, EditsStay DEF syncing

(* The sync reads the local store when nothing of an earlier one is left.   *)
LEMMA ListSectionEdits == IInv /\ EditsInv /\ ListSection => EditsInv'
<1> SUFFICES ASSUME IInv, EditsInv, ListSection PROVE EditsInv'
  OBVIOUS
<1>1. /\ queue # <<>> /\ Head(queue).name = "list"
      /\ listed' = local /\ local' = local /\ queue' = Tail(queue)
      /\ uploads' = uploads /\ cleanups' = cleanups /\ sync' = sync
  BY DEF ListSection, store
<1>2. PICK S : /\ queue \in Seq(S)
               /\ \A x \in S : x.name = "list" => x.todo = {}
  BY QueueKinds
<1>3. queue[1].name = "list" /\ 1 \in 1..Len(queue)
  BY <1>1, HeadOfQueue
<1>4. Places /\ ListWaits(queue) /\ sync = "listing" /\ Orderly(queue)
  BY <1>3 DEF IInv, Queued, ListWaits, EditsInv, Stages
<1>5. \A k \in 1..Len(queue) : ~IsSyncing(queue[k])
  <2>1. \A k \in 1..Len(queue) : ~(k < 1)
    BY <1>2
  <2> QED
    BY <1>3, <1>4, <2>1 DEF Orderly
<1>6. Calms(queue, queue')
  <2>1. PICK r : r = Tail(queue)
    OBVIOUS
  <2>2. r \in Seq(S) /\ Shrinks(queue, r)
    BY <1>1, <1>2, <2>1, TailFacts DEF IInv, Queued
  <2> QED
    BY <1>1, <1>2, <1>4, <2>1, <2>2, ShrinkCalms
<1>7. /\ \A op : ~Holds(queue', op)
      /\ ~HasSection(queue', "locals") /\ ~HasSection(queue', "cleanups")
  <2>1. \A op : ~Holds(queue, op)
    BY <1>5 DEF Holds
  <2>2. ~HasSection(queue, "locals") /\ ~HasSection(queue, "cleanups")
    BY <1>5 DEF HasSection, IsSyncing
  <2> QED
    BY <1>6, <2>1, <2>2 DEF Calms
<1>8. uploads' = {} /\ cleanups' = {}
  BY <1>1, <1>4 DEF Places
<1>9. \A op : ~InHand(op)'
  BY <1>7, <1>8 DEF InHand
<1>10. Stages'
  BY <1>6, <1>7, <1>8 DEF Stages, Calms
<1>11. \A id \in Ids : UpToDate(id)' /\ (Marked(id)' => DeletionKnown(id)')
  BY <1>1, <1>9 DEF UpToDate, DeletionKnown, Marked
<1> QED
  BY <1>9, <1>10, <1>11 DEF EditsInv

(* What is planned for a layout, at most one operation.                     *)
LEMMA PlanFacts ==
  ASSUME NEW id, NEW l, NEW r, Exists(l) => l.status \in Statuses
  PROVE  /\ \A op \in PlanFor(id, l, r) :
              op.id = id /\ op.local = l /\ Sensible(op)
         /\ \A o, p \in PlanFor(id, l, r) : o = p
<1> DEFINE type == CASE Exists(l) /\ Exists(r) -> PlanForBoth(l, r)
                     [] Exists(l) /\ ~Exists(r) -> PlanForLocal(l)
                     [] ~Exists(l) /\ Exists(r) -> "add-to-cache"
                     [] OTHER -> "none"
<1>1. PlanFor(id, l, r) =
        IF type = "none" THEN {} ELSE {SyncOp(type, id, l, r)}
  BY DEF PlanFor
<1>2. /\ type = "add-to-cache" => ~Exists(l)
      /\ type \in {"delete-local", "delete-remote"} =>
           AppearsDeleted(l) \/ l.working = None \/ ~l.shared
      /\ l.status = "locally-deleted" /\ type # "none" =>
           type \in {"delete-local", "delete-remote"}
  <2>1. CASE Exists(l) /\ Exists(r)
    <3>1. type = PlanForBoth(l, r)
      BY <2>1
    <3> HIDE DEF type
    <3>2. /\ type \in {"none", "upload-new", "upload-updated",
                       "update-baseline", "delete-remote"}
          /\ type = "delete-remote" <=> l.status = "locally-deleted"
      BY <2>1, <3>1 DEF PlanForBoth, Statuses
    <3> QED
      BY <3>2 DEF AppearsDeleted
  <2>2. CASE Exists(l) /\ ~Exists(r)
    <3>1. type = PlanForLocal(l)
      BY <2>2
    <3> HIDE DEF type
    <3>2. /\ type \in {"none", "upload-new", "mark-deleted", "delete-local"}
          /\ type = "delete-local" =>
               \/ l.status = "locally-deleted"
               \/ l.working = None \/ ~l.shared
          /\ l.status = "locally-deleted" => type = "delete-local"
      BY <2>2, <3>1 DEF PlanForLocal, Statuses
    <3> QED
      BY <3>2 DEF AppearsDeleted
  <2>3. CASE ~Exists(l)
    <3>1. type \in {"add-to-cache", "none"}
      BY <2>3
    <3>2. l.status # "locally-deleted"
      BY <2>3 DEF Exists, Absent
    <3> HIDE DEF type
    <3> QED
      BY <2>3, <3>1, <3>2
  <2> QED
    BY <2>1, <2>2, <2>3
<1> HIDE DEF type
<1> QED
  BY <1>1, <1>2 DEF SyncOp, Sensible

(* A sync plans from its list, which has what is edited and not saved.      *)
LEMMA PlansEdits == IInv /\ EditsInv /\ Plans => EditsInv'
<1> SUFFICES ASSUME IInv, EditsInv, Plans PROVE EditsInv'
  OBVIOUS
<1> DEFINE all == UNION {PlanFor(id, listed[id], fetched[id]) : id \in Ids}
           locals == {op \in all : IsLocal(op)}
<1>2. /\ sync = "listing" /\ listed # NotYet
      /\ IF aborted
         THEN SyncOver({}) /\ UNCHANGED queue
         ELSE /\ uploads' = all \ locals
              /\ queue' = IF locals = {} THEN queue
                          ELSE Append(queue, Section("locals", locals))
              /\ listed' = NotYet
              /\ UNCHANGED cleanups
      /\ local' = local /\ late' = late
  BY DEF Plans, store
<1>3. ASSUME NEW id \in Ids, Exists(listed[id])
      PROVE  listed[id].status \in Statuses
  <2>1. PICK g \in Given, s \in Shares, d \in SUBSET Ids : Typed(g, s, d)
    BY DEF IInv
  <2>2. listed[id] \in Copies(id, g, s, d)
    BY <1>2, <1>3, <2>1 DEF Typed, ListedTyped, Exists
  <2> QED
    BY <2>2 DEF Copies, Copy
<1>4. /\ \A op \in all :
           op.id \in Ids /\ op.local = listed[op.id] /\ Sensible(op)
      /\ \A o, p \in all : o.id = p.id => o = p
  <2>1. ASSUME NEW op \in all
        PROVE  /\ op.id \in Ids
               /\ op \in PlanFor(op.id, listed[op.id], fetched[op.id])
               /\ op.local = listed[op.id] /\ Sensible(op)
    <3>1. PICK id \in Ids : op \in PlanFor(id, listed[id], fetched[id])
      OBVIOUS
    <3>2. op.id = id /\ op.local = listed[id] /\ Sensible(op)
      BY <1>3, <3>1, PlanFacts
    <3> QED
      BY <3>1, <3>2
  <2>2. ASSUME NEW o \in all, NEW p \in all, o.id = p.id PROVE o = p
    <3>1. PICK id \in Ids : id = o.id /\ id = p.id
      BY <2>1, <2>2
    <3>2. /\ o \in PlanFor(id, listed[id], fetched[id])
          /\ p \in PlanFor(id, listed[id], fetched[id])
      BY <2>1, <3>1
    <3> QED
      BY <1>3, <3>2, PlanFacts
  <2> QED
    BY <2>1, <2>2
<1> HIDE DEF all
<1>5. /\ \A op : ~Holds(queue, op)
      /\ ~HasSection(queue, "locals") /\ ~HasSection(queue, "cleanups")
      /\ ~HasSection(queue, "list") /\ Orderly(queue)
      /\ uploads = {} /\ cleanups = {}
  <2>1. /\ ~HasSection(queue, "locals") /\ ~HasSection(queue, "cleanups")
        /\ Orderly(queue)
    BY <1>2 DEF EditsInv, Stages
  <2>2. ~HasSection(queue, "list") /\ uploads = {} /\ cleanups = {}
    BY <1>2 DEF IInv, Queued, Places, ListWaits, HasSection
  <2> QED
    BY <2>1, <2>2 DEF Holds, HasSection, IsSyncing
<1>7. CASE aborted
  <2>1. SyncOver({}) /\ queue' = queue
    BY <1>2, <1>7
  <2> QED
    BY <1>2, <1>5, <2>1, SameCalms, QuietEdits DEF SyncOver
<1>8. CASE ~aborted
  <2>1. /\ uploads' = all \ locals /\ listed' = NotYet /\ cleanups' = {}
        /\ queue' = IF locals = {} THEN queue
                    ELSE Append(queue, Section("locals", locals))
    BY <1>2, <1>5, <1>8
  <2>2. /\ Orderly(queue') /\ ~HasSection(queue', "cleanups")
        /\ \A op : Holds(queue', op) => op \in all
    <3>1. CASE locals = {}
      BY <1>5, <2>1, <3>1
    <3>2. CASE locals # {}
      <4>1. PICK x : x = Section("locals", locals)
        OBVIOUS
      <4>2. x.name = "locals" /\ x.todo \subseteq all
        BY <4>1 DEF Section
      <4>3. queue' = Append(queue, x)
        BY <2>1, <3>2, <4>1
      <4>4. PICK S : queue \in Seq(S)
        BY QueueKinds
      <4>5. LET r == Append(queue, x) IN
            /\ Orderly(r)
            /\ \A name : HasSection(r, name) <=>
                           HasSection(queue, name) \/ x.name = name
            /\ \A op : Holds(r, op) <=>
                         Holds(queue, op) \/ (IsSyncing(x) /\ op \in x.todo)
        BY <1>5, <4>2, <4>4, AppendOrderly
      <4> QED
        BY <1>5, <4>2, <4>3, <4>5
    <3> QED
      BY <3>1, <3>2
  <2>3. \A op : InHand(op)' => op \in all
    BY <2>1, <2>2 DEF InHand
  <2>4. Stages'
    BY <2>1, <2>2 DEF Stages
  <2>5. ASSUME NEW id \in Ids, Marked(id)' PROVE DeletionKnown(id)'
    <3>1. Marked(id)
      BY <1>2, <2>5 DEF Marked
    <3>2. listed[id].status = "locally-deleted"
      BY <1>2, <3>1 DEF EditsInv, DeletionKnown
    <3>3. \A op : InHand(op)' /\ op.id = id =>
                    op.local.status = "locally-deleted"
      BY <1>4, <2>3, <3>2
    <3> QED
      BY <2>1, <3>3 DEF DeletionKnown
  <2>6. ASSUME NEW id \in Ids, Unsaved(id)' PROVE UpToDate(id)'
    <3>1. Unsaved(id)
      BY <1>2, <2>6 DEF Unsaved, Visible
    <3>2. listed[id] = local[id]
      BY <1>2, <3>1 DEF EditsInv, UpToDate
    <3>3. \A op : InHand(op)' /\ op.id = id => op.local = local'[id]
      BY <1>2, <1>4, <2>3, <3>2
    <3> QED
      BY <2>1, <3>3 DEF UpToDate
  <2>7. /\ \A o, p : InHand(o)' /\ InHand(p)' /\ o.id = p.id => o = p
        /\ \A op : InHand(op)' => Sensible(op)
    BY <1>4, <2>3
  <2> QED
    BY <2>4, <2>5, <2>6, <2>7 DEF EditsInv
<1> QED
  BY <1>7, <1>8

(* One section has less to do.                                              *)
LEMMA NarrowCalms ==
  ASSUME NEW q, NEW r, Orderly(q), Len(r) = Len(q),
         \A k \in 1..Len(q) :
           r[k].name = q[k].name /\ r[k].todo \subseteq q[k].todo
  PROVE  Calms(q, r)
<1>1. Orderly(r)
  BY DEF Orderly, IsSyncing
<1>2. \A name : HasSection(r, name) => HasSection(q, name)
  BY DEF HasSection
<1>3. \A op : Holds(r, op) => Holds(q, op)
  BY DEF Holds, IsSyncing
<1> QED
  BY <1>1, <1>2, <1>3 DEF Calms

(* What the sections of a sync have to do is theirs alone.                  *)
LEMMA OneSectionOf ==
  ASSUME IInv, EditsInv, NEW k \in 1..Len(queue), NEW l \in 1..Len(queue),
         IsSyncing(queue[k]), IsSyncing(queue[l]),
         NEW op, op \in queue[k].todo, op \in queue[l].todo
  PROVE  k = l
<1>1. PICK S : /\ queue \in Seq(S)
               /\ \A x \in S :
                    /\ x.name = "locals" => \A o \in x.todo : IsLocal(o)
                    /\ x.name = "cleanups" => \A o \in x.todo : ~IsLocal(o)
  BY QueueKinds
<1>2. queue[k] \in S /\ queue[l] \in S
  BY <1>1
<1>3. queue[k].name = queue[l].name
  BY <1>1, <1>2 DEF IsSyncing
<1> QED
  BY <1>3 DEF EditsInv, Stages, Orderly

(* A local operation was planned from the layout as it is, and what it puts *)
(* no other operation in hand is about.                                     *)
LEMMA LocalsSectionEdits == IInv /\ EditsInv /\ LocalsSection => EditsInv'
<1> SUFFICES ASSUME IInv, EditsInv, LocalsSection PROVE EditsInv'
  OBVIOUS
<1>1. PICK op \in Head(queue).todo :
        /\ local' = [local EXCEPT ![op.id] = Result(op)]
        /\ queue' = IF Head(queue).todo = {op} THEN Tail(queue)
                    ELSE [queue EXCEPT ![1].todo = @ \ {op}]
  BY DEF LocalsSection
<1>2. /\ queue # <<>> /\ Head(queue).name = "locals" /\ UNCHANGED syncing
      /\ late' = late
  BY DEF LocalsSection
<1>3. PICK S : /\ queue \in Seq(S)
               /\ \A x \in S :
                    /\ x.name = "list" => x.todo = {}
                    /\ x.name = "locals" => \A o \in x.todo : IsLocal(o)
  BY QueueKinds
<1>4. /\ Head(queue) = queue[1] /\ 1 \in 1..Len(queue) /\ queue[1] \in S
      /\ Len(queue) \in Nat
  BY <1>2, <1>3, HeadOfQueue
<1>5. /\ IsSyncing(queue[1]) /\ op \in queue[1].todo /\ IsLocal(op)
      /\ InHand(op) /\ listed = NotYet
  <2>1. IsSyncing(queue[1]) /\ op \in queue[1].todo /\ IsLocal(op)
    BY <1>2, <1>3, <1>4 DEF IsSyncing
  <2>2. HasSection(queue, "locals") /\ Holds(queue, op)
    BY <1>2, <1>4, <2>1 DEF HasSection, Holds
  <2> QED
    BY <2>1, <2>2 DEF InHand, EditsInv, Stages
<1>6. Calms(queue, queue') /\ ~Holds(queue', op)
  <2>1. CASE queue' = Tail(queue)
    <3>1. PICK r : r = Tail(queue)
      OBVIOUS
    <3>2. /\ r \in Seq(S) /\ Shrinks(queue, r)
          /\ Len(queue) = Len(r) + 1 /\ Len(r) \in Nat
          /\ \A k \in 1..Len(r) : r[k] = queue[k + 1]
      <4>1. r \in Seq(S) /\ Shrinks(queue, r)
        BY <1>2, <1>3, <3>1, TailFacts DEF IInv, Queued
      <4> QED
        BY <1>2, <1>3, <3>1, <4>1
    <3>3. Calms(queue, r)
      BY <1>3, <3>2, ShrinkCalms DEF EditsInv, Stages
    <3>4. ASSUME NEW k \in 1..Len(r), IsSyncing(r[k]), op \in r[k].todo
          PROVE  FALSE
      <4>1. PICK l \in 1..Len(queue) : l = k + 1 /\ r[k] = queue[l]
        BY <3>2
      <4>2. l = 1
        BY <1>4, <1>5, <3>4, <4>1, OneSectionOf
      <4> QED
        BY <4>1, <4>2
    <3> QED
      BY <2>1, <3>1, <3>3, <3>4 DEF Holds
  <2>2. CASE queue' = [queue EXCEPT ![1].todo = @ \ {op}]
    <3>1. PICK r : r = queue'
      OBVIOUS
    <3>2. /\ Len(r) = Len(queue)
          /\ \A k \in 1..Len(queue) : k # 1 => r[k] = queue[k]
          /\ r[1] = [queue[1] EXCEPT !.todo = @ \ {op}]
      <4>1. PICK y : y = [queue[1] EXCEPT !.todo = @ \ {op}]
        OBVIOUS
      <4>2. PICK q : q = queue
        OBVIOUS
      <4>3. q \in Seq(S) /\ r = [q EXCEPT ![1] = y] /\ 1 \in 1..Len(q)
        BY <1>3, <1>4, <2>2, <3>1, <4>1, <4>2
      <4>4. /\ DOMAIN r = DOMAIN q /\ r[1] = y
            /\ \A k \in 1..Len(q) : k # 1 => r[k] = q[k]
        BY <4>3
      <4>5. Len(r) = Len(q)
        BY <4>3, <4>4
      <4> QED
        BY <4>1, <4>2, <4>4, <4>5
    <3>3. r[1].name = "locals" /\ r[1].todo = queue[1].todo \ {op}
      <4>1. PICK g \in Given, s \in Shares, d \in SUBSET Ids : Typed(g, s, d)
        BY DEF IInv
      <4>2. queue[1] \in Sections(g, s, d)
        BY <1>4, <4>1 DEF Typed, QueueTyped
      <4>3. queue[1] \in [name : {"locals"}, todo : SUBSET Locals(g, s, d)]
        BY <1>2, <1>4, <4>2 DEF Sections
      <4> QED
        BY <3>2, <4>3
    <3>4. Calms(queue, r)
      <4>1. \A k \in 1..Len(queue) :
              r[k].name = queue[k].name /\ r[k].todo \subseteq queue[k].todo
        BY <1>2, <1>4, <3>2, <3>3
      <4> QED
        BY <3>2, <4>1, NarrowCalms DEF EditsInv, Stages
    <3>5. ASSUME NEW k \in 1..Len(r), IsSyncing(r[k]), op \in r[k].todo
          PROVE  FALSE
      <4>1. k # 1 /\ k \in 1..Len(queue) /\ r[k] = queue[k]
        BY <3>2, <3>3, <3>5
      <4> QED
        BY <1>4, <1>5, <3>5, <4>1, OneSectionOf
    <3> QED
      BY <3>1, <3>4, <3>5 DEF Holds
  <2> QED
    BY <1>1, <2>1, <2>2
<1>7. ASSUME NEW p, InHand(p)' PROVE p.id # op.id
  <2>1. InHand(p)
    BY <1>2, <1>6, <1>7 DEF InHand, Calms, syncing
  <2>2. p # op
    <3>1. op \notin uploads /\ op \notin cleanups
      BY <1>5, QueueKinds
    <3> QED
      BY <1>2, <1>6, <1>7, <3>1 DEF InHand, syncing
  <2> QED
    BY <1>5, <2>1, <2>2 DEF EditsInv
<1>8. \A id \in Ids : id # op.id => local'[id] = local[id]
  <2>1. PICK i, w : i = op.id /\ w = Result(op)
    OBVIOUS
  <2>2. local' = [local EXCEPT ![i] = w]
    BY <1>1, <2>1
  <2> QED
    BY <2>1, <2>2, LocalDomain
<1>9. ASSUME NEW id \in Ids
      PROVE  /\ Unsaved(id)' => (Unsaved(id) /\ local'[id] = local[id])
                                \/ NotInHand(id)'
             /\ Marked(id)' => Marked(id) \/ NotInHand(id)'
  <2>1. CASE id = op.id
    BY <1>2, <1>5, <1>7, <2>1 DEF NotInHand, syncing
  <2>2. CASE id # op.id
    BY <1>2, <1>8, <2>2 DEF Unsaved, Marked, Visible
  <2> QED
    BY <2>1, <2>2
<1> QED
  BY <1>2, <1>6, <1>9, EditsStay DEF syncing

(* The cleanups of a sync come after all its calls.                         *)
LEMMA CleanupsSectionEdits == IInv /\ EditsInv /\ CleanupsSection => EditsInv'
<1> SUFFICES ASSUME IInv, EditsInv, CleanupsSection PROVE EditsInv'
  OBVIOUS
<1> DEFINE todo == {op \in Head(queue).todo :
                      ~(aborted /\ op.type = "delete-remote")}
<1>1. /\ queue # <<>> /\ Head(queue).name = "cleanups" /\ UNCHANGED syncing
      /\ late' = late /\ queue' = Tail(queue)
      /\ local' = [id \in Ids |->
                     IF \E op \in todo : op.id = id
                     THEN Result(CHOOSE op \in todo : op.id = id)
                     ELSE local[id]]
  BY DEF CleanupsSection
<1>2. todo \subseteq Head(queue).todo
  OBVIOUS
<1>3. \A id \in Ids : (\A op \in todo : op.id # id) => local'[id] = local[id]
  BY <1>1
<1> HIDE DEF todo
<1>4. PICK S : /\ queue \in Seq(S)
               /\ \A x \in S : x.name = "list" => x.todo = {}
  BY QueueKinds
<1>5. /\ Head(queue) = queue[1] /\ 1 \in 1..Len(queue) /\ IsSyncing(queue[1])
      /\ Len(queue) \in Nat
  BY <1>1, <1>4, HeadOfQueue DEF IsSyncing
<1>6. uploads = {} /\ listed = NotYet
  <2>1. HasSection(queue, "cleanups")
    BY <1>1, <1>5 DEF HasSection
  <2> QED
    BY <2>1 DEF EditsInv, Stages
<1>7. PICK r : r = Tail(queue)
  OBVIOUS
<1>8. /\ Calms(queue, r) /\ Len(queue) = Len(r) + 1 /\ Len(r) \in Nat
      /\ \A k \in 1..Len(r) : r[k] = queue[k + 1]
  <2>1. r \in Seq(S) /\ Shrinks(queue, r)
    BY <1>1, <1>4, <1>7, TailFacts DEF IInv, Queued
  <2>2. Calms(queue, r)
    BY <1>4, <2>1, ShrinkCalms DEF EditsInv, Stages
  <2> QED
    BY <1>1, <1>4, <1>7, <2>1, <2>2
<1>9. ASSUME NEW p, InHand(p)', NEW op \in todo PROVE p.id # op.id
  <2>1. Holds(r, p) /\ InHand(p)
    BY <1>1, <1>6, <1>7, <1>8, <1>9 DEF InHand, Calms, syncing
  <2>2. InHand(op) /\ op \in queue[1].todo
    BY <1>2, <1>5 DEF InHand, Holds
  <2>3. PICK k \in 1..Len(r) : IsSyncing(r[k]) /\ p \in r[k].todo
    BY <2>1 DEF Holds
  <2>4. PICK l \in 1..Len(queue) : l # 1 /\ r[k] = queue[l]
    BY <1>8
  <2>5. p # op
    BY <1>5, <2>2, <2>3, <2>4, OneSectionOf
  <2> QED
    BY <2>1, <2>2, <2>5 DEF EditsInv
<1>10. ASSUME NEW id \in Ids
       PROVE  /\ Unsaved(id)' => (Unsaved(id) /\ local'[id] = local[id])
                                 \/ NotInHand(id)'
              /\ Marked(id)' => Marked(id) \/ NotInHand(id)'
  <2>1. CASE \E op \in todo : op.id = id
    BY <1>1, <1>6, <1>9, <2>1 DEF NotInHand, syncing
  <2>2. CASE \A op \in todo : op.id # id
    <3>1. local'[id] = local[id]
      BY <1>3, <2>2
    <3> QED
      BY <1>1, <3>1 DEF Unsaved, Marked, Visible
  <2> QED
    BY <2>1, <2>2
<1> QED
  BY <1>1, <1>7, <1>8, <1>10, EditsStay DEF syncing

(* An answered call of a sync is cleaned up for the layout as it was sent.  *)
LEMMA UploadRepliesEdits ==
  ASSUME IInv, EditsInv, NEW op \in uploads, UploadReplies(op)
  PROVE  EditsInv'
<1>1. PICK up \in uploads : up = op
  OBVIOUS
<1>2. PICK reply : cleanups' = cleanups \cup {[up EXCEPT !.remote = reply]}
  BY <1>1 DEF UploadReplies
<1>3. /\ uploads' = uploads \ {up}
      /\ IF uploads' = {}
         THEN queue' = Append(queue, Section("cleanups", cleanups'))
         ELSE UNCHANGED queue
      /\ local' = local /\ late' = late
      /\ sync' = sync /\ listed' = listed
  BY <1>1 DEF UploadReplies, store
<1>4. PICK new : new = [up EXCEPT !.remote = reply]
  OBVIOUS
<1>5. new.id = up.id /\ new.type = up.type /\ new.local = up.local
  <2>1. PICK g \in Given, s \in Shares, d \in SUBSET Ids : Typed(g, s, d)
    BY DEF IInv
  <2>2. up \in SyncRecord
    BY <2>1 DEF Typed, SyncTyped, Uploads, SyncOps
  <2> QED
    BY <1>4, <2>2 DEF SyncRecord
<1>6. /\ sync = "ops" /\ listed = NotYet /\ ~HasSection(queue, "list")
      /\ ~HasSection(queue, "cleanups") /\ Orderly(queue)
  <2>1. sync = "ops" /\ listed = NotYet /\ ~HasSection(queue, "list")
    BY DEF IInv, Places, Queued, ListWaits, HasSection
  <2> QED
    BY <2>1 DEF EditsInv, Stages
<1>7. InHand(up) /\ (\A p \in cleanups : InHand(p) /\ p.id # up.id)
  BY DEF InHand, EditsInv, Stages
<1>8. ~Holds(queue, up)
  <2>1. PICK S : /\ queue \in Seq(S)
                 /\ \A x \in S :
                      x.name = "locals" => \A o \in x.todo : IsLocal(o)
    BY QueueKinds
  <2>2. ~IsLocal(up)
    BY QueueKinds
  <2> QED
    BY <1>6, <2>1, <2>2 DEF Holds, HasSection, IsSyncing
<1>9. /\ Orderly(queue')
      /\ HasSection(queue', "cleanups") => uploads' = {}
      /\ \A p : Holds(queue', p) => Holds(queue, p) \/ p \in cleanups'
  <2>1. CASE uploads' = {}
    <3>1. PICK x : x = Section("cleanups", cleanups')
      OBVIOUS
    <3>2. x.name = "cleanups" /\ x.todo = cleanups' /\ IsSyncing(x)
      BY <3>1 DEF Section, IsSyncing
    <3>3. queue' = Append(queue, x)
      BY <1>3, <2>1, <3>1
    <3>4. PICK S : queue \in Seq(S)
      BY QueueKinds
    <3>5. LET r == Append(queue, x) IN
          /\ Orderly(r)
          /\ \A p : Holds(r, p) <=>
                      Holds(queue, p) \/ (IsSyncing(x) /\ p \in x.todo)
      BY <1>6, <3>2, <3>4, AppendOrderly
    <3> QED
      BY <2>1, <3>2, <3>3, <3>5
  <2>2. CASE uploads' # {}
    BY <1>3, <1>6, <2>2
  <2> QED
    BY <2>1, <2>2
<1>10. ASSUME NEW p, InHand(p)' PROVE p = new \/ (InHand(p) /\ p.id # up.id)
  <2>1. p \in uploads' \/ p \in cleanups' \/ Holds(queue, p)
    BY <1>9, <1>10 DEF InHand
  <2>2. CASE p \in cleanups'
    BY <1>2, <1>4, <1>7, <2>2
  <2>3. CASE p \in uploads' \/ Holds(queue, p)
    <3>1. InHand(p) /\ p # up
      BY <1>3, <1>8, <2>3 DEF InHand
    <3> QED
      BY <1>7, <3>1 DEF EditsInv
  <2> QED
    BY <2>1, <2>2, <2>3
<1>11. Stages'
  <2>1. ASSUME NEW o \in uploads', NEW p \in cleanups' PROVE o.id # p.id
    <3>1. InHand(o) /\ o # up
      BY <1>3 DEF InHand
    <3>2. o.id # up.id
      BY <1>7, <3>1 DEF EditsInv
    <3> QED
      BY <1>2, <1>3, <1>4, <1>5, <3>2 DEF EditsInv, Stages
  <2> QED
    BY <1>3, <1>6, <1>9, <2>1 DEF Stages
<1>12. /\ \A o, p : InHand(o)' /\ InHand(p)' /\ o.id = p.id => o = p
       /\ \A p : InHand(p)' => Sensible(p)
  <2>1. Sensible(new)
    BY <1>5, <1>7 DEF EditsInv, Sensible
  <2> QED
    BY <1>5, <1>10, <2>1 DEF EditsInv
<1>13. ASSUME NEW id \in Ids, Unsaved(id)' PROVE UpToDate(id)'
  <2>1. UpToDate(id)
    BY <1>3, <1>13 DEF Unsaved, Visible, EditsInv
  <2>2. ASSUME NEW p, InHand(p)', p.id = id PROVE p.local = local'[id]
    <3>1. CASE p = new
      BY <1>3, <1>5, <1>7, <2>1, <2>2, <3>1 DEF UpToDate
    <3>2. CASE InHand(p)
      BY <1>3, <2>1, <2>2, <3>2 DEF UpToDate
    <3> QED
      BY <1>10, <2>2, <3>1, <3>2
  <2> QED
    BY <1>3, <1>6, <2>2 DEF UpToDate
<1>14. ASSUME NEW id \in Ids, Marked(id)' PROVE DeletionKnown(id)'
  <2>1. DeletionKnown(id)
    BY <1>3, <1>14 DEF Marked, EditsInv
  <2>2. ASSUME NEW p, InHand(p)', p.id = id
        PROVE  p.local.status = "locally-deleted"
    BY <1>5, <1>7, <1>10, <2>1, <2>2 DEF DeletionKnown
  <2> QED
    BY <1>3, <1>6, <2>2 DEF DeletionKnown
<1> QED
  BY <1>11, <1>12, <1>13, <1>14 DEF EditsInv

(* Nothing is in hand at first.                                             *)
LEMMA InitEdits == Init => EditsInv
<1> SUFFICES ASSUME Init PROVE EditsInv
  OBVIOUS
<1>1. /\ queue = <<>> /\ uploads = {} /\ cleanups = {} /\ listed = NotYet
  BY DEF Init
<1>2. \A op : ~InHand(op)
  BY <1>1 DEF InHand, Holds
<1>3. Stages
  BY <1>1 DEF Stages, Orderly, HasSection
<1> QED
  BY <1>1, <1>2, <1>3 DEF EditsInv, UpToDate, DeletionKnown

(* Every step keeps what is in hand up to date.                             *)
LEMMA NextEdits == IInv /\ EditsInv /\ [Next]_vars => EditsInv'
<1> SUFFICES ASSUME IInv, EditsInv, [Next]_vars PROVE EditsInv'
  OBVIOUS
<1>1. CASE UserCalls
  BY <1>1, CallEdits DEF UserCalls
<1>2. CASE SectionStep
  BY <1>2, OpSectionEdits, ListSectionEdits, LocalsSectionEdits,
     CleanupsSectionEdits DEF SectionStep
<1>3. CASE \E n \in Calls : OpAnswered(n)
  BY <1>3, OpRepliesEdits, OpRejectedEdits DEF OpAnswered
<1>4. CASE SyncStarts \/ Abort
  BY <1>4, SyncStartsEdits, AbortEdits
<1>5. CASE SyncStep
  BY <1>5, FetchedEdits, FetchFailsEdits, PlansEdits, SyncEndsEdits,
     UploadRepliesEdits, UploadRejectedEdits DEF SyncStep
<1>6. CASE \E op \in orphans : OrphanLands(op)
  BY <1>6, OrphanLandsEdits
<1>7. CASE \E id \in Ids : Other(id)
  BY <1>7, OtherEdits
<1>8. CASE UNCHANGED vars
  BY <1>8, SameCalms, QuietEdits DEF vars, store, syncing
<1> QED
  BY <1>1, <1>2, <1>3, <1>4, <1>5, <1>6, <1>7, <1>8 DEF Next

(* What a planned operation leaves of a layout that is edited.              *)
LEMMA ResultKeeps ==
  ASSUME NEW op, Sensible(op), op.type \in SyncTypes, op.local \in Copy,
         ~AppearsDeleted(op.local), op.local.working # None
  PROVE  IF Exists(Result(op)) THEN Result(op).working = op.local.working
         ELSE ~op.local.shared
<1>0. PICK l \in Copy : l = op.local
  OBVIOUS
<1>1. Exists(l)
  BY DEF Exists, Absent, Copy, Statuses
<1>2. op.type # "add-to-cache"
  BY <1>0, <1>1 DEF Sensible
<1>3. CASE op.type \in {"delete-local", "delete-remote"}
  <2>1. ~l.shared
    BY <1>0, <1>3 DEF Sensible
  <2>2. Result(op) = Absent
    BY <1>3 DEF Result
  <2> QED
    BY <1>0, <2>1, <2>2 DEF Exists
<1>4. CASE op.type \in {"update-baseline", "mark-deleted", "upload-new",
                       "upload-updated"}
  <2>1. /\ Result(op).status \in {"tracked", "remotely-deleted"}
        /\ Result(op).working = l.working
    <3>1. CASE op.type = "update-baseline"
      <4>1. Result(op) = [Tracked(op.remote) EXCEPT !.working = l.working]
        BY <1>0, <3>1 DEF Result, NewBaseline
      <4> QED
        BY <4>1 DEF Tracked, Layout
    <3>2. CASE op.type = "mark-deleted"
      <4>1. Result(op) = [l EXCEPT !.status = "remotely-deleted",
                                   !.last = None]
        BY <1>0, <3>2 DEF Result
      <4> QED
        BY <4>1 DEF Copy
    <3>3. CASE op.type = "upload-new"
      <4>1. Result(op) = [l EXCEPT !.status = "tracked",
                                   !.last = op.remote.savedAt]
        BY <1>0, <3>3 DEF Result
      <4> QED
        BY <4>1 DEF Copy
    <3>4. CASE op.type = "upload-updated"
      <4>1. Result(op) = [l EXCEPT !.name = op.remote.name,
                                   !.status = "tracked",
                                   !.last = op.remote.savedAt]
        BY <1>0, <3>4 DEF Result
      <4> QED
        BY <4>1 DEF Copy
    <3> QED
      BY <1>4, <3>1, <3>2, <3>3, <3>4
  <2>2. Exists(Result(op))
    BY <2>1 DEF Exists, Absent
  <2> QED
    BY <1>0, <2>1, <2>2
<1> QED
  BY <1>2, <1>3, <1>4 DEF SyncTypes

(* What is in hand is of a known type.                                      *)
LEMMA InHandTyped ==
  ASSUME IInv, NEW op, InHand(op)
  PROVE  op.type \in SyncTypes /\ op.local \in Copy \cup {Absent}
<1>1. PICK g \in Given, s \in Shares, d \in SUBSET Ids : Typed(g, s, d)
  BY DEF IInv
<1>2. CASE op \in uploads \cup cleanups
  <2>1. op \in SyncRecord
    BY <1>1, <1>2 DEF Typed, SyncTyped, Uploads, Answered, SyncOps
  <2> QED
    BY <2>1 DEF SyncRecord
<1>3. CASE Holds(queue, op)
  <2>1. PICK k \in 1..Len(queue) : IsSyncing(queue[k]) /\ op \in queue[k].todo
    BY <1>3 DEF Holds
  <2>2. queue[k] \in Sections(g, s, d)
    BY <1>1 DEF Typed, QueueTyped
  <2>3. op \in SyncRecord
    BY <2>1, <2>2 DEF Sections, Locals, Answered, Uploads, SyncOps, IsSyncing
  <2> QED
    BY <2>3 DEF SyncRecord
<1> QED
  BY <1>2, <1>3 DEF InHand

(* The sections of a sync leave what was in hand.                           *)
LEMMA SectionLeaves ==
  ASSUME IInv, EditsInv, Next, SyncWrites, NEW id \in Ids
  PROVE  \/ local'[id] = local[id]
         \/ \E op : InHand(op) /\ op.id = id /\ local'[id] = Result(op)
<1>1. queue # <<>> /\ IsSyncing(Head(queue))
  BY DEF SyncWrites, IsSyncing
<1>4. Head(queue) = queue[1] /\ 1 \in 1..Len(queue)
  BY <1>1, HeadOfQueue
<1>5. CASE LocalsSection
  <2>1. PICK op \in Head(queue).todo :
          local' = [local EXCEPT ![op.id] = Result(op)]
    BY <1>5 DEF LocalsSection
  <2>2. InHand(op)
    BY <1>1, <1>4 DEF InHand, Holds
  <2>3. local'[id] = IF id = op.id THEN Result(op) ELSE local[id]
    BY <2>1, LocalDomain
  <2> QED
    BY <2>2, <2>3
<1>6. CASE CleanupsSection
  <2> DEFINE todo == {op \in Head(queue).todo :
                        ~(aborted /\ op.type = "delete-remote")}
  <2>1. local'[id] = IF \E op \in todo : op.id = id
                     THEN Result(CHOOSE op \in todo : op.id = id)
                     ELSE local[id]
    BY <1>6 DEF CleanupsSection
  <2>2. todo \subseteq Head(queue).todo
    OBVIOUS
  <2> HIDE DEF todo
  <2>3. CASE \E op \in todo : op.id = id
    <3>1. PICK op \in todo : op.id = id /\ local'[id] = Result(op)
      BY <2>1, <2>3
    <3>2. InHand(op)
      BY <1>1, <1>4, <2>2, <3>1 DEF InHand, Holds
    <3> QED
      BY <3>1, <3>2
  <2> QED
    BY <2>1, <2>3
<1>7. CASE ~LocalsSection /\ ~CleanupsSection
  <2>1. ~OpSection /\ ~ListSection
    BY <1>1 DEF OpSection, ListSection, IsSyncing
  <2>2. CASE UserCalls
    BY <2>2 DEF UserCalls, Call
  <2>3. CASE \E n \in Calls : OpAnswered(n)
    BY <2>3 DEF OpAnswered, OpReplies, OpRejected, store
  <2>4. CASE SyncStarts \/ SyncStep \/ Abort
    <3>1. CASE SyncStarts \/ Abort
      BY <3>1 DEF SyncStarts, Abort, store
    <3>2. CASE SyncStep
      BY <3>2 DEF SyncStep, Fetched, FetchFails, Plans, SyncEnds,
         UploadReplies, UploadRejected, store
    <3> QED
      BY <2>4, <3>1, <3>2
  <2>5. CASE \E op \in orphans : OrphanLands(op)
    BY <2>5 DEF OrphanLands, store
  <2>6. CASE \E i \in Ids : Other(i)
    BY <2>6 DEF Other
  <2> QED
    BY <1>7, <2>1, <2>2, <2>3, <2>4, <2>5, <2>6 DEF Next, SectionStep
<1> QED
  BY <1>5, <1>6, <1>7

(* ... which keeps what is edited and not saved, and what was deleted.      *)
LEMMA SectionKeeps ==
  ASSUME IInv, EditsInv, Next, SyncWrites, NEW id \in Ids \ late
  PROVE  Keeps(id)
<1>1. local[id] \in Copy \cup {Absent}
  <2>1. PICK g \in Given, s \in Shares, d \in SUBSET Ids : Typed(g, s, d)
    BY DEF IInv
  <2> QED
    BY <2>1 DEF Typed, LocalTyped, Copies
<1>2. CASE local'[id] = local[id]
  BY <1>2 DEF Keeps, Visible, AppearsDeleted
<1>3. ASSUME NEW op, InHand(op), op.id = id, local'[id] = Result(op)
      PROVE  Keeps(id)
  <2>1. op.type \in SyncTypes /\ Sensible(op)
    BY <1>3, InHandTyped DEF EditsInv
  <2>2. ASSUME Visible(id), local[id].working # None
        PROVE  IF Exists(local'[id]) THEN local'[id].working = local[id].working
               ELSE ~local[id].shared
    <3>1. op.local = local[id]
      BY <1>3, <2>2 DEF EditsInv, Unsaved, UpToDate
    <3>2. local[id] \in Copy /\ ~AppearsDeleted(local[id])
      BY <1>1, <2>2 DEF Visible, Exists
    <3> QED
      BY <1>3, <2>1, <2>2, <3>1, <3>2, ResultKeeps
  <2>3. ASSUME local[id].status = "locally-deleted" PROVE ~Visible(id)'
    <3>1. op.local.status = "locally-deleted"
      BY <1>3, <2>3 DEF EditsInv, Marked, DeletionKnown
    <3>2. Result(op) = Absent
      BY <2>1, <3>1 DEF Sensible, Result
    <3> QED
      BY <1>3, <3>2 DEF Visible, Exists
  <2> QED
    BY <2>2, <2>3 DEF Keeps
<1> QED
  BY <1>2, <1>3, SectionLeaves

(* What a sync has still to do in the local store was planned from the      *)
(* layouts as they are, but for those that the last section of an operation *)
(* has stored meanwhile; so what the user has edited and not saved survives *)
(* every section of every sync (a personal layout goes with its copy on the *)
(* server), and what was deleted stays so.                                  *)
THEOREM ChangesKept == Spec => SyncKeepsChanges
<1> DEFINE Kept == SyncWrites => \A id \in Ids \ late : Keeps(id)
<1>1. IInv /\ EditsInv /\ [Next]_vars => [Kept]_vars
  BY SectionKeeps
<1>2. Spec => []IInv
  BY Inductive
<1>3. SyncKeepsChanges <=> [][Kept]_vars
  BY DEF SyncKeepsChanges
<1> HIDE DEF Kept
<1> QED
  BY <1>1, <1>2, <1>3, InitEdits, NextEdits, PTL DEF Spec

=============================================================================
