----------------------------- MODULE Lifecycle ------------------------------
(***************************************************************************)
(* Organizations, users and projects over the schema the migrations make:  *)
(* what their deletion takes along is decided by the delete rules of its   *)
(* foreign keys, so a migration that changes a rule changes what a         *)
(* deletion does.  Beside the rows there are the buckets and objects of    *)
(* the object storage, which only the gateway keeps in step with the rows, *)
(* the threads that do so, and a gateway that may stop at any moment.      *)
(***************************************************************************)
EXTENDS Migrations

CONSTANTS Organizations, Users, Projects,
          MaxStops,     \* bound on stops of the gateway, failed requests and starts
          MaxUserLives  \* bound on how often a deleted user comes back

VARIABLES
  gateway,     \* "down" | "up"
  rows,        \* rows of the database, <<table, ...>>
  links,       \* <<row, column, row>>: the columns with a key that are not null
  inDeletion,  \* projects with status IN_DELETION
  buckets,     \* organizations with a bucket
  objects,     \* projects with objects in the bucket or in /inference
  creating,    \* organizations whose row is committed and bucket still missing
  deleting,    \* projects whose delete request has set the status, not more
  startup,     \* check_in_deletion_projects: [at, todo]
  cleanups,    \* projects whose __background_cleanup thread runs
  stops, lives,
  lost,        \* history: projects whose objects nobody is going to delete
  failed       \* history: projects whose deletion failed, until a restart
content == <<rows, links>>
storage == <<buckets, objects>>
threads == <<creating, deleting, startup, cleanups>>
faults == <<stops, lives, lost, failed>>
vars == <<gateway, content, inDeletion, storage, threads, faults>>

Org(o) == <<"organization", o>>
User(u) == <<"user", u>>
Proj(p) == <<"project", p>>
Rec(p) == <<"record", p>>
Task(p, u) == <<"weak_supervision_task", p, u>>
ByHand(p, u) == <<"record_label_association", p, u>>
Weak(p) == <<"record_label_association", p>>

\* The keys between these tables in the newest schema, which is the one the
\* gateway runs on, and the delete rule of the key a link is made of.
Tables == {"organization", "user", "project", "record", "weak_supervision_task",
           "record_label_association"}
Keys == {k \in SchemaAt[Newest].keys : k[1] \in Tables}
KeyRule(table, column) == (CHOOSE k \in Keys : k[1] = table /\ k[2] = column)[4]
Rule(link) == KeyRule(link[1][1], link[2])
\* What the theorems take from the migrations, computed from the scripts: neither
\* a project nor a label goes with its author.
ASSUME AuthorsAssumption ==
  \A table \in {"project", "record_label_association"} : KeyRule(table, "created_by") = "SET NULL"
\* The rows a deletion takes along: no chain of keys between the tables above is
\* longer than three.
Owns(set) == set \cup {l[1] : l \in {k \in links : k[3] \in set /\ Rule(k) = "CASCADE"}}
Delete(set) ==
  \E near \in {Owns(set)} : \E far \in {Owns(near)} : \E gone \in {Owns(far)} :
    /\ rows' = rows \ gone
    /\ links' = {l \in links : l[1] \notin gone /\ l[3] \notin gone}
    /\ inDeletion' = {p \in inDeletion : Proj(p) \notin gone}
Insert(row, refs) ==
  /\ rows' = rows \cup {row}
  /\ links' = {l \in links : l[1] # row} \cup {<<row, r[1], r[2]>> : r \in refs}

Belongs(row, o) == <<row, "organization_id", Org(o)>> \in links
\* check_project_access_dep: the project is one of the user's organization.
Access(u, p) == \E o \in Organizations : Belongs(User(u), o) /\ Belongs(Proj(p), o)

Ready == gateway = "up"
Idle == [at |-> "off", todo |-> {}]

LifecycleInit ==
  /\ gateway = "down" /\ rows = {} /\ links = {} /\ inDeletion = {}
  /\ buckets = {} /\ objects = {} /\ creating = {} /\ deleting = {} /\ cleanups = {}
  /\ startup = Idle /\ stops = 0 /\ lives = 0 /\ lost = {} /\ failed = {}

\* app.py starts the thread that takes up deletions.
Start ==
  /\ gateway = "down"
  /\ gateway' = "up" /\ startup' = [at |-> "sleep", todo |-> {}]
  /\ UNCHANGED <<content, inDeletion, storage, creating, deleting, cleanups, faults>>

\* A stop takes every thread and every request with it.
Stop ==
  /\ Ready /\ stops < MaxStops
  /\ gateway' = "down" /\ stops' = stops + 1 /\ failed' = {}
  /\ lost' = lost \cup (cleanups \cap objects)
  /\ creating' = {} /\ deleting' = {} /\ cleanups' = {} /\ startup' = Idle
  /\ UNCHANGED <<content, inDeletion, storage, lives>>

\* The row first; an existing name is refused.
create_organization(o) ==
  /\ Ready /\ Org(o) \notin rows /\ o \notin buckets
  /\ Insert(Org(o), {}) /\ creating' = creating \cup {o}
  /\ UNCHANGED <<gateway, inDeletion, storage, deleting, startup, cleanups, faults>>
create_bucket(o) ==
  /\ o \in creating /\ creating' = creating \ {o} /\ buckets' = buckets \cup {o}
  /\ UNCHANGED <<gateway, content, inDeletion, objects, deleting, startup, cleanups,
                 faults>>

\* The rows of the organization's users and projects go with it; its bucket and
\* what is in it stay.
delete_organization(o) ==
  /\ Ready /\ Org(o) \in rows /\ Delete({Org(o)})
  /\ lost' = lost \cup {p \in objects : Belongs(Proj(p), o)}
  /\ UNCHANGED <<gateway, storage, threads, stops, lives, failed>>

\* Every request of an identity the database does not know creates its user.
get_or_create_user(u) ==
  /\ Ready /\ User(u) \notin rows /\ lives < MaxUserLives
  /\ Insert(User(u), {}) /\ lives' = lives + 1
  /\ UNCHANGED <<gateway, inDeletion, storage, threads, stops, lost, failed>>
update_organization_of_user(u, o) ==
  /\ Ready /\ User(u) \in rows /\ Org(o) \in rows
  /\ \A x \in Organizations : ~Belongs(User(u), x)
  /\ Insert(User(u), {<<"organization_id", Org(o)>>})
  /\ UNCHANGED <<gateway, inDeletion, storage, threads, faults>>
remove_organization_from_user(u) ==
  /\ Ready /\ \E o \in Organizations : Belongs(User(u), o)
  /\ Insert(User(u), {})
  /\ UNCHANGED <<gateway, inDeletion, storage, threads, faults>>
\* Mutant: a user's labels are deleted, too.
delete_user_with_labels(u) ==
  /\ Ready /\ User(u) \in rows /\ Delete({User(u)} \cup {ByHand(p, u) : p \in Projects})
  /\ UNCHANGED <<gateway, storage, threads, faults>>
delete_user(u) ==
  /\ Ready /\ User(u) \in rows /\ Delete({User(u)})
  /\ UNCHANGED <<gateway, storage, threads, faults>>

\* A missing bucket is made up for here.  A project is created once (an id).
create_project(u, p) ==
  /\ Ready /\ Proj(p) \notin rows /\ p \notin objects \cup lost
  /\ \E o \in Organizations :
       /\ Belongs(User(u), o)
       /\ buckets' = buckets \cup {o}
       /\ Insert(Proj(p), {<<"organization_id", Org(o)>>, <<"created_by", User(u)>>})
  /\ UNCHANGED <<gateway, inDeletion, objects, threads, faults>>

\* Work in a project: an import writes records and files, a user labels by hand,
\* and weak supervision writes a task row and, in its thread, labels.
import_file(u, p) ==
  /\ Ready /\ Access(u, p) /\ Rec(p) \notin rows
  /\ Insert(Rec(p), {<<"project_id", Proj(p)>>}) /\ objects' = objects \cup {p}
  /\ UNCHANGED <<gateway, inDeletion, buckets, threads, faults>>
create_labels(u, p) ==
  /\ Ready /\ Access(u, p) /\ Rec(p) \in rows
  /\ Insert(ByHand(p, u), {<<"project_id", Proj(p)>>, <<"record_id", Rec(p)>>, <<"created_by", User(u)>>})
  /\ UNCHANGED <<gateway, inDeletion, storage, threads, faults>>
run_weak_supervision(u, p) ==
  /\ Ready /\ Access(u, p)
  /\ Insert(Task(p, u), {<<"project_id", Proj(p)>>, <<"created_by", User(u)>>})
  /\ UNCHANGED <<gateway, inDeletion, storage, threads, faults>>
initiate_weak_supervision(u, p) ==
  /\ Ready /\ Task(p, u) \in rows /\ Rec(p) \in rows
  /\ Insert(Weak(p), {<<"project_id", Proj(p)>>, <<"record_id", Rec(p)>>, <<"created_by", User(u)>>,
                      <<"weak_supervision_id", Task(p, u)>>})
  /\ UNCHANGED <<gateway, inDeletion, storage, threads, faults>>

\* The request of a deletion: the status is committed, then notifications, and
\* then delete_project.  It may fail in between.
delete_project_request(u, p) ==
  /\ Ready /\ Access(u, p) /\ p \notin deleting
  /\ inDeletion' = inDeletion \cup {p} /\ deleting' = deleting \cup {p}
  /\ UNCHANGED <<gateway, content, storage, creating, startup, cleanups, faults>>
RequestFails(p) ==
  /\ p \in deleting /\ stops < MaxStops /\ stops' = stops + 1
  /\ deleting' = deleting \ {p} /\ failed' = failed \cup {p}
  /\ UNCHANGED <<gateway, content, inDeletion, storage, creating, startup, cleanups,
                 lives, lost>>
update_project_status(u, p) ==
  /\ Ready /\ Access(u, p) /\ p \in inDeletion
  /\ inDeletion' = inDeletion \ {p}
  /\ UNCHANGED <<gateway, content, storage, threads, faults>>

\* Mutant: the rows only.
delete_project_rows(p) == Delete({Proj(p)}) /\ UNCHANGED cleanups
\* The organization is looked up before the rows go; without a row there is none
\* and the cleanup finds nothing.
delete_project(p) ==
  /\ Delete({Proj(p)})
  /\ cleanups' = IF Proj(p) \in rows THEN cleanups \cup {p} ELSE cleanups
DeleteByRequest(p) ==
  /\ p \in deleting /\ delete_project(p) /\ deleting' = deleting \ {p}
  /\ UNCHANGED <<gateway, storage, creating, startup, faults>>
background_cleanup(p) ==
  /\ p \in cleanups /\ cleanups' = cleanups \ {p} /\ objects' = objects \ {p}
  /\ UNCHANGED <<gateway, content, inDeletion, buckets, creating, deleting, startup,
                 faults>>

\* Mutant: the projects are not looked for.
check_in_no_projects ==
  /\ startup.at = "sleep"
  /\ startup' = [at |-> "work", todo |-> {}]
  /\ UNCHANGED <<gateway, content, inDeletion, storage, creating, deleting, cleanups,
                 faults>>
check_in_deletion_projects ==
  /\ startup.at = "sleep"
  /\ startup' = [at |-> "work", todo |-> inDeletion]
  /\ UNCHANGED <<gateway, content, inDeletion, storage, creating, deleting, cleanups,
                 faults>>
DeleteAtStartup(p) ==
  /\ p \in startup.todo /\ delete_project(p)
  /\ startup' = [startup EXCEPT !.todo = @ \ {p}]
  /\ UNCHANGED <<gateway, storage, creating, deleting, faults>>

\* The first deletion that raises is the end of the thread.
StartupFails ==
  /\ startup.todo # {} /\ stops < MaxStops /\ stops' = stops + 1
  /\ failed' = failed \cup startup.todo /\ startup' = Idle
  /\ UNCHANGED <<gateway, content, inDeletion, storage, creating, deleting, cleanups, lives, lost>>

UserActs(u) ==
  \/ get_or_create_user(u) \/ remove_organization_from_user(u) \/ delete_user(u)
  \/ \E o \in Organizations : update_organization_of_user(u, o)
  \/ \E p \in Projects :
       \/ create_project(u, p) \/ import_file(u, p) \/ create_labels(u, p)
       \/ run_weak_supervision(u, p) \/ initiate_weak_supervision(u, p)
       \/ delete_project_request(u, p) \/ update_project_status(u, p)
ThreadActs(p) ==
  DeleteByRequest(p) \/ background_cleanup(p) \/ DeleteAtStartup(p)
LifecycleNext ==
  \/ Start \/ Stop
  \/ \E o \in Organizations : create_organization(o) \/ create_bucket(o) \/ delete_organization(o)
  \/ \E u \in Users : UserActs(u)
  \/ \E p \in Projects : RequestFails(p) \/ ThreadActs(p)
  \/ check_in_deletion_projects \/ StartupFails

\* Threads of a running process go on, and a gateway that stopped is started
\* again (its container restarts).  Requests of users come or not.
LifecycleFairness ==
  /\ WF_vars(Start) /\ WF_vars(check_in_deletion_projects)
  /\ \A p \in Projects : WF_vars(DeleteByRequest(p)) /\ WF_vars(background_cleanup(p))
                         /\ WF_vars(DeleteAtStartup(p))
LifecycleSpec == LifecycleInit /\ [][LifecycleNext]_vars /\ LifecycleFairness

-----------------------------------------------------------------------------
\* Whoever is deleted, records and labels by hand go only with their project: the
\* keys to a user set null, so the work of a user outlives the user's row.
WorkOutlivesUsers ==
  [][\A r \in rows \ rows' : r[1] \in {"record", "record_label_association"} /\ r # Weak(r[2])
       => Proj(r[2]) \notin rows']_vars

\* Whatever deletion, objects without a row either have a thread that is about to
\* delete them or were lost with a stop of that thread or with the organization.
ObjectsAccountedFor ==
  \A p \in objects : Proj(p) \in rows \/ p \in cleanups \/ p \in lost

\* A deletion that has set the status ends, with the request, or after a stop with
\* the next start, unless somebody sets another status.  A request or a start
\* that fails leaves it to the next start.
DeletionEnds ==
  \A p \in Projects : (p \in inDeletion /\ p \notin failed) ~> (p \notin inDeletion \/ p \in failed)
=============================================================================
