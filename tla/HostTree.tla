------------------------------ MODULE HostTree ------------------------------
(***************************************************************************)
(* The library of hosts and groups: hosts.toml as it is read and repaired  *)
(* (opensesh-core/src/hosts/mod.rs), what a host inherits from its groups, *)
(* every edit of the Hosts singleton (bridge/hosts.rs), the hosts linked   *)
(* from ssh_config, the imports (importing.rs), the recent list, the       *)
(* detected systems and the search.  Module HostsReload has the reading    *)
(* and writing of the file, and SettingsSync its other writers.            *)
(*                                                                         *)
(* Of a host's settings one inherited value, the port, and the jump hosts  *)
(* stand for all; names, tags, colours and options behave like them.       *)
(***************************************************************************)
EXTENDS Naturals, FiniteSets, Sequences, SequencesExt

CONSTANTS
    GroupIds, HostIds,  \* ids of groups and of hosts of the file
    Asking,             \* the hosts whose connections have a secret to remember
    LinkedIds,          \* ids with LINKED_PREFIX: hosts of a linked ssh_config
    BadId,              \* an id the file may hold and valid_host_id refuses
    Ports,              \* ports a level may set; 0 is not one
    Unset,              \* a key that a level does not set; no group; no parent
    DefaultPort,        \* the protocol's own
    RawFiles,           \* what hosts.toml may hold after an edit by hand
    MaxRecent,          \* recent.rs MAX_RECENT
    MaxJobs,            \* bound: the keychain's waiting jobs
    MaxEdits            \* bound: edits

VARIABLES
    lib,       \* the published HostsFile: [groups, hosts, linked, base]
    locked,    \* read-only: the file is broken or newer than this program
    config,    \* the hosts of the linked ssh_config, in its order
    recents,   \* RecentList: hosts, last used first
    detected,  \* DetectedOs: the hosts with an icon
    keychain,  \* its worker: [holds (the hosts it holds a secret of), jobs]
    view,      \* what the Hosts singleton shows
    edits,     \* edits so far
    deleted    \* history: [hosts (those deleted here and not read again since),
               \*  kept (those whose secret the keychain could not be made to forget)]

treeVars == <<lib, locked, config, recents, detected, keychain, view, edits, deleted>>

Group(id, parent, port) == [id |-> id, parent |-> parent, port |-> port]
Host(id, group, port, jump, favorite) ==
    [id |-> id, group |-> group, port |-> port, jump |-> jump, favorite |-> favorite]
IsLinked(h) == h.id \in LinkedIds
Ids(entries) == {entries[i].id : i \in DOMAIN entries}
Get(entries, id) == entries[CHOOSE i \in DOMAIN entries : entries[i].id = id]
Update(entries, Change(_)) == [i \in DOMAIN entries |-> Change(entries[i])]

(***************************************************************************)
(* The tree                                                                *)
(***************************************************************************)
\* The walk up: where n steps from id lead, in groups with these parents.
Up(parents, id) ==
    LET up[n \in 0 .. Cardinality(DOMAIN parents)] ==
            IF n = 0 THEN id
            ELSE IF up[n - 1] \in DOMAIN parents THEN parents[up[n - 1]] ELSE Unset
    IN up
ParentsOf(groups) == [g \in Ids(groups) |-> Get(groups, g).parent]

\* group_chain: the group, its parent and so on.
GroupChain(f, group) ==
    LET up == Up(ParentsOf(f.groups), group)
    IN IF group \notin Ids(f.groups) THEN <<>>
       ELSE SelectSeq([n \in 1 .. Len(f.groups) |-> up[n - 1]], LAMBDA g : g \in Ids(f.groups))

\* subtree: the group and the groups inside it.
Subtree(f, id) == {id} \cup {g \in Ids(f.groups) : id \in ToSet(GroupChain(f, g))}

\* inherited, resolve: the nearest level that sets the key.
FirstSet(values, otherwise) ==
    LET set == SelectSeq(values, LAMBDA v : v # Unset) IN IF set = <<>> THEN otherwise ELSE set[1]
Inherited(f, group) ==
    LET chain == GroupChain(f, group)
    IN FirstSet([i \in DOMAIN chain |-> Get(f.groups, chain[i]).port],
                IF f.base # Unset THEN f.base ELSE DefaultPort)
Resolve(f, h) == IF h.port # Unset THEN h.port ELSE Inherited(f, h.group)

\* ResolvedHost::port: 0 is no port.
Port(value) == IF value = 0 THEN Unset ELSE value
Hop(host, port) == [host |-> host, port |-> IF port = Unset THEN DefaultPort ELSE port]

\* jump_hop, connect_for: the jump host, a saved one or the text as an
\* address, then the host.  A jump's own jumps are not used.
JumpHop(f, ref) ==
    IF ref \in Ids(f.hosts) THEN Hop(ref, Port(Resolve(f, Get(f.hosts, ref)))) ELSE Hop(ref, Unset)
ConnectFor(f, h) ==
    (IF h.jump = Unset THEN <<>> ELSE <<JumpHop(f, h.jump)>>) \o <<Hop(h.id, Port(Resolve(f, h)))>>

\* jump_spec, ssh_args, to_args: the same for the ssh program, which is told
\* no port that is the default one and takes that when it is told none.
Omitted(port) == IF port = DefaultPort THEN Unset ELSE port
JumpSpec(f, ref) ==
    [host |-> ref,
     port |-> IF ref \in Ids(f.hosts) THEN Omitted(Port(Resolve(f, Get(f.hosts, ref)))) ELSE Unset]
SshArgs(f, h) ==
    (IF h.jump = Unset THEN <<>> ELSE <<JumpSpec(f, h.jump)>>)
        \o <<[host |-> h.id, port |-> Omitted(Port(Resolve(f, h)))]>>
SshGoes(args) == [i \in DOMAIN args |-> Hop(args[i].host, args[i].port)]

(***************************************************************************)
(* Reading the file: from_toml_str and check                               *)
(***************************************************************************)
\* An id that is not valid is replaced, an entry with a taken one is skipped.
KeepFirst(entries, pool) ==
    FoldLeft(LAMBDA kept, e :
        LET fresh == CHOOSE id \in pool : id \notin Ids(kept)
            id == IF e.id = BadId \/ e.id \in LinkedIds THEN fresh ELSE e.id
        IN IF id \in Ids(kept) THEN kept ELSE Append(kept, [e EXCEPT !.id = id]), <<>>, entries)

\* The parents of a group in a loop: the first group met twice goes to the top.
CutLoop(parents, id) ==
    LET n == Cardinality(DOMAIN parents)
        up == Up(parents, id)
        first == CHOOSE i \in 0 .. n :
                    /\ \E j \in i + 1 .. n : up[j] = up[i]
                    /\ \A k \in 0 .. i - 1 : ~ \E j \in k + 1 .. n : up[j] = up[k]
    IN IF up[n] = Unset THEN parents ELSE [parents EXCEPT ![up[first]] = Unset]

CheckParents(groups) ==
    LET known == [i \in DOMAIN groups |->
            IF groups[i].parent \in Ids(groups) \ {groups[i].id} THEN groups[i]
            ELSE [groups[i] EXCEPT !.parent = Unset]]
        parents == FoldLeft(CutLoop, ParentsOf(known), [i \in DOMAIN known |-> known[i].id])
    IN Update(known, LAMBDA g : [g EXCEPT !.parent = parents[g.id]])

CheckHost(h, groups) ==
    [h EXCEPT !.group = IF @ \in Ids(groups) THEN @ ELSE Unset,
              !.port = IF @ = 0 THEN Unset ELSE @]

Linked(names) == [i \in DOMAIN names |-> Host(names[i], Unset, Unset, Unset, FALSE)]
Own(hosts) == SelectSeq(hosts, LAMBDA h : ~IsLinked(h))

\* load_disk: the file checked, then the linked hosts.
Check(raw) ==
    LET groups == CheckParents(KeepFirst(raw.groups, GroupIds))
        hosts == KeepFirst(raw.hosts, HostIds)
    IN [groups |-> groups, hosts |-> Update(hosts, LAMBDA h : CheckHost(h, groups)), linked |-> raw.linked]
LoadDisk(raw, names, base) ==
    LET f == Check(raw)
    IN [groups |-> f.groups, hosts |-> f.hosts \o (IF f.linked THEN Linked(names) ELSE <<>>),
        linked |-> f.linked, base |-> base]

(***************************************************************************)
(* What is shown                                                           *)
(***************************************************************************)
\* search: the hosts of a scope; sorting and the text are left out.
InScope(f, recent, scope) ==
    {h \in ToSet(f.hosts) :
        \/ scope = "all"
        \/ scope = "favorites" /\ h.favorite
        \/ scope = "recent" /\ h.id \in ToSet(recent)
        \/ scope = "ungrouped" /\ h.group = Unset /\ ~IsLinked(h)
        \/ scope = "linked" /\ IsLinked(h)
        \/ scope \in GroupIds /\ h.group \in Subtree(f, scope)}
Scopes == {"all", "favorites", "recent", "ungrouped", "linked"}

Summary(f, h, icons) ==
    [id |-> h.id, port |-> Port(Resolve(f, h)), path |-> GroupChain(f, h.group),
     favorite |-> h.favorite, icon |-> h.id \in icons]

HowMany(seq, Test(_)) == Cardinality({i \in DOMAIN seq : Test(seq[i])})
\* groups_json: a group's total is the sum over its subtree.
Total(f, g) == HowMany(f.hosts, LAMBDA h : h.group \in Subtree(f, g))

\* refresh_recent
RecentCount(f, recent) == HowMany(recent, LAMBDA id : id \in Ids(f.hosts))
Counts(f, recent) ==
    [all |-> Len(f.hosts),
     favorites |-> HowMany(f.hosts, LAMBDA h : h.favorite),
     ungrouped |-> HowMany(f.hosts, LAMBDA h : h.group = Unset /\ ~IsLinked(h)),
     linked |-> HowMany(f.hosts, LAMBDA h : IsLinked(h)),
     recent |-> RecentCount(f, recent)]
\* publish
View(f, recent, icons) ==
    [summaries |-> Update(f.hosts, LAMBDA h : Summary(f, h, icons)),
     counts |-> Counts(f, recent),
     totals |-> [g \in Ids(f.groups) |-> Total(f, g)]]

(***************************************************************************)
(* The edits                                                               *)
(***************************************************************************)
TInit ==
    /\ config = SetToSeq(LinkedIds)
    /\ \E raw \in RawFiles : lib = LoadDisk(raw, config, Unset)
    /\ locked = FALSE
    /\ recents = <<>>
    /\ detected = {} /\ keychain = [holds |-> {}, jobs |-> <<>>]
    /\ view = View(lib, recents, detected)
    /\ edits = 0
    /\ deleted = [hosts |-> {}, kept |-> {}]

Edit == edits < MaxEdits /\ edits' = edits + 1

\* modify: a copy is changed, published and saved; nothing when read-only.
Modify(f) ==
    /\ Edit
    /\ ~locked
    /\ lib' = f
    /\ view' = View(f, recents', detected)
    /\ UNCHANGED <<locked, config, detected>>

FirstLinked(hosts) == Len(Own(hosts)) + 1

\* The hosts that are there again are not deleted ones.
Again(ids) == [hosts |-> deleted.hosts \ ids, kept |-> deleted.kept \ ids]

ValidHost(f, h) ==
    /\ h.group = Unset \/ h.group \in Ids(f.groups)
    /\ h.port # 0
ValidGroup(f, g) ==
    /\ g.parent = Unset \/ (g.parent \in Ids(f.groups) /\ g.parent \notin Subtree(f, g.id))
    /\ g.port # 0

\* save_host: the entry is replaced, or inserted before the linked ones.
SaveHost(h) ==
    /\ ValidHost(lib, h)
    /\ ~IsLinked(h)
    /\ UNCHANGED <<recents, keychain>>
    /\ deleted' = Again({h.id})
    /\ Modify([lib EXCEPT !.hosts =
          IF h.id \in Ids(@) THEN Update(@, LAMBDA e : IF e.id = h.id THEN h ELSE e)
          ELSE InsertAt(@, FirstLinked(@), h)])

SaveGroup(g) ==
    /\ ValidGroup(lib, g)
    /\ UNCHANGED <<recents, keychain, deleted>>
    /\ Modify([lib EXCEPT !.groups =
          IF g.id \in Ids(@) THEN Update(@, LAMBDA e : IF e.id = g.id THEN g ELSE e)
          ELSE Append(@, g)])

\* keychain::request: a job waits for the worker.
Request(job) == [keychain EXCEPT !.jobs = Append(@, job)]
Remember(id) == [does |-> "remember", hosts |-> {id}]
Forget(ids) == [does |-> "forget", hosts |-> ids]
Waiting(does) == UNION {keychain.jobs[i].hosts : i \in {i \in DOMAIN keychain.jobs :
                                                           keychain.jobs[i].does = does}}

\* delete_hosts: linked hosts stay; the recent entries go, and the keychain is
\* asked to forget the hosts it is seen to hold a secret of (has_host_secrets),
\* which is not known yet of one it is still to remember.
DeleteHosts(ids) ==
    LET gone == {id \in ids \ LinkedIds : id \in Ids(lib.hosts)}
        saved == (ids \ LinkedIds) \cap keychain.holds
    IN /\ gone # {}
       /\ saved # {} => Len(keychain.jobs) < MaxJobs
       /\ keychain' = IF saved = {} THEN keychain ELSE Request(Forget(saved))
       /\ deleted' = [hosts |-> deleted.hosts \cup gone,
                      kept |-> deleted.kept \cup ((gone \cap Waiting("remember")) \ saved)]
       /\ recents' = SelectSeq(recents, LAMBDA id : id \notin ids)
       /\ Modify([lib EXCEPT !.hosts = SelectSeq(@, LAMBDA h : h.id \notin gone)])

\* delete_group: what was inside goes to its parent.
DeleteGroup(g) ==
    LET reparent(e) == IF e = g THEN Get(lib.groups, g).parent ELSE e
    IN /\ g \in Ids(lib.groups)
       /\ UNCHANGED <<recents, keychain, deleted>>
       /\ Modify([lib EXCEPT
            !.groups = Update(SelectSeq(@, LAMBDA e : e.id # g), LAMBDA e : [e EXCEPT !.parent = reparent(@)]),
            !.hosts = Update(@, LAMBDA h : [h EXCEPT !.group = reparent(@)])])

MoveHosts(ids, group) ==
    /\ group = Unset \/ group \in Ids(lib.groups)
    /\ UNCHANGED <<recents, keychain, deleted>>
    /\ Modify([lib EXCEPT !.hosts = Update(@, LAMBDA h :
          IF h.id \in ids /\ ~IsLinked(h) THEN [h EXCEPT !.group = group] ELSE h)])

MoveGroupAnywhere(g, parent) ==
    /\ g \in Ids(lib.groups)
    /\ parent \in Ids(lib.groups) \cup {Unset}
    /\ UNCHANGED <<recents, keychain, deleted>>
    /\ Modify([lib EXCEPT !.groups = Update(@, LAMBDA e :
          IF e.id = g THEN [e EXCEPT !.parent = parent] ELSE e)])
MoveGroup(g, parent) ==
    /\ g \in Ids(lib.groups)
    /\ ValidGroup(lib, [Get(lib.groups, g) EXCEPT !.parent = parent])
    /\ UNCHANGED <<recents, keychain, deleted>>
    /\ Modify([lib EXCEPT !.groups = Update(@, LAMBDA e :
          IF e.id = g THEN [e EXCEPT !.parent = parent] ELSE e)])

\* duplicate_host: after the host, or before the linked ones when it is one.
DuplicateHost(id, copy) ==
    /\ id \in Ids(lib.hosts)
    /\ copy \in HostIds \ Ids(lib.hosts)
    /\ UNCHANGED <<recents, keychain>>
    /\ deleted' = Again({copy})
    /\ LET at == CHOOSE i \in DOMAIN lib.hosts : lib.hosts[i].id = id
       IN Modify([lib EXCEPT !.hosts =
            InsertAt(@, IF IsLinked(@[at]) THEN FirstLinked(@) ELSE at + 1,
                     [@[at] EXCEPT !.id = copy, !.favorite = FALSE])])

SetFavorite(ids, favorite) ==
    /\ UNCHANGED <<recents, keychain, deleted>>
    /\ Modify([lib EXCEPT !.hosts = Update(@, LAMBDA h :
          IF h.id \in ids /\ ~IsLinked(h) THEN [h EXCEPT !.favorite = favorite] ELSE h)])

\* import_ssh_config with "link", unlink_source: the linked hosts are read again.
LinkSource(on) ==
    /\ lib.linked # on
    /\ UNCHANGED <<recents, keychain, deleted>>
    /\ Modify([lib EXCEPT !.linked = on, !.hosts = Own(@) \o (IF on THEN Linked(config) ELSE <<>>)])

\* importing::apply, and import_ssh_config's copy: a new group for what comes,
\* with its folders below it and its hosts before the linked ones; hosts that
\* are saved already or not valid are skipped, and nothing changes when none
\* is left.
Import(hosts, root, folders) ==
    LET fresh == SelectSeq(hosts, LAMBDA h : h.id \notin Ids(lib.hosts) /\ h.port # 0)
        placed == Update(fresh, LAMBDA h : [h EXCEPT !.group = IF @ = Unset THEN root ELSE @])
        groups == <<Group(root, Unset, Unset)>> \o [i \in DOMAIN folders |-> Group(folders[i], root, Unset)]
    IN /\ Ids(groups) \cap Ids(lib.groups) = {}
       /\ fresh # <<>>
       /\ UNCHANGED <<recents, keychain>>
       /\ deleted' = Again(Ids(fresh))
       /\ Modify([lib EXCEPT !.groups = @ \o groups,
                             !.hosts = Own(@) \o placed \o SelectSeq(@, IsLinked)])

(***************************************************************************)
(* The rest of the singleton                                               *)
(***************************************************************************)
\* touch: to the front, and the oldest falls off.
Touch(list, id) ==
    LET front == <<id>> \o SelectSeq(list, LAMBDA r : r # id)
    IN IF Len(front) > MaxRecent THEN SubSeq(front, 1, MaxRecent) ELSE front
RecordHost(id) ==
    /\ Edit
    /\ id \in Ids(lib.hosts)
    /\ recents' = Touch(recents, id)
    /\ view' = [view EXCEPT !.counts.recent = RecentCount(lib, recents')]
    /\ UNCHANGED <<lib, locked, config, detected, keychain, deleted>>

ClearRecent ==
    /\ Edit
    /\ recents # <<>>
    /\ recents' = <<>>
    /\ view' = [view EXCEPT !.counts.recent = 0]
    /\ UNCHANGED <<lib, locked, config, detected, keychain, deleted>>

\* set_detected_os: one summary is made again; hosts that are gone lose theirs.
SetDetectedOs(id) ==
    /\ Edit
    /\ id \in Ids(lib.hosts) \ detected
    /\ detected' = (detected \cup {id}) \cap Ids(lib.hosts)
    /\ LET at == CHOOSE i \in DOMAIN lib.hosts : lib.hosts[i].id = id
       IN view' = [view EXCEPT !.summaries[at] = Summary(lib, lib.hosts[at], detected')]
    /\ UNCHANGED <<lib, locked, config, recents, keychain, deleted>>

\* HostSink::remember, for a connection that may outlive its host: nobody looks
\* whether the host is still there.
RememberSecret(id) ==
    /\ Len(keychain.jobs) < MaxJobs
    /\ keychain' = Request(Remember(id))
    /\ deleted' = [deleted EXCEPT !.kept = @ \cup ({id} \cap deleted.hosts)]
    /\ UNCHANGED <<lib, locked, config, recents, detected, view, edits>>

\* The keychain's worker, Worker::run, one job after the other.
WorkerRuns ==
    /\ keychain.jobs # <<>>
    /\ LET job == Head(keychain.jobs)
       IN keychain' = [keychain EXCEPT !.jobs = Tail(@),
              !.holds = IF job.does = "forget" THEN @ \ job.hosts ELSE @ \cup job.hosts]
    /\ UNCHANGED <<lib, locked, config, recents, detected, view, edits, deleted>>

\* A job fails (keychain.toml is not ours to write or cannot be written), or there
\* is no worker: nobody tries again.
WorkerFails ==
    /\ keychain.jobs # <<>>
    /\ LET job == Head(keychain.jobs)
       IN /\ keychain' = [keychain EXCEPT !.jobs = Tail(@)]
          /\ deleted' = IF job.does = "remember" THEN deleted
                        ELSE [deleted EXCEPT !.kept = @ \cup (deleted.hosts \cap job.hosts)]
    /\ UNCHANGED <<lib, locked, config, recents, detected, view, edits>>

\* apply_disk: the file or the linked ssh_config changed.  A file that cannot be
\* read or is newer than this program locks the library; only the first is shown
\* empty.
ApplyDisk(raw, names, kind) ==
    /\ Edit
    /\ locked' = (kind # "ours")
    /\ config' = names
    /\ lib' = IF kind = "broken" THEN LoadDisk([groups |-> <<>>, hosts |-> <<>>, linked |-> FALSE], names, lib.base)
              ELSE LoadDisk(raw, names, lib.base)
    /\ view' = View(lib', recents, detected)
    /\ deleted' = Again(Ids(lib'.hosts))
    /\ UNCHANGED <<recents, detected, keychain>>

TNext ==
    \/ \E id \in HostIds, g \in GroupIds \cup {Unset}, p \in Ports \cup {Unset}, j \in HostIds \cup {Unset} :
          SaveHost(Host(id, g, p, j, FALSE))
    \/ \E id, p \in GroupIds, port \in Ports \cup {Unset} :
          SaveGroup(Group(id, p, port)) \/ SaveGroup(Group(id, Unset, port))
    \/ \E ids \in SUBSET (HostIds \cup LinkedIds) : DeleteHosts(ids) \/ SetFavorite(ids, TRUE)
    \/ \E g \in GroupIds : DeleteGroup(g)
    \/ \E id \in HostIds, g \in GroupIds \cup {Unset} : MoveHosts({id}, g)
    \/ \E g, p \in GroupIds : MoveGroup(g, p)
    \/ \E id \in HostIds \cup LinkedIds, copy \in HostIds : DuplicateHost(id, copy)
    \/ \E on \in BOOLEAN : LinkSource(on)
    \/ \E id \in HostIds, p \in Ports, root \in GroupIds :
          \/ Import(<<Host(id, Unset, p, Unset, FALSE)>>, root, <<>>)
          \/ \E sub \in GroupIds \ {root} : Import(<<Host(id, sub, p, Unset, FALSE)>>, root, <<sub>>)
    \/ \E id \in HostIds \cup LinkedIds : RecordHost(id) \/ SetDetectedOs(id)
    \/ (\E id \in Asking : RememberSecret(id)) \/ WorkerRuns \/ WorkerFails
    \/ ClearRecent
    \/ \E raw \in RawFiles, kind \in {"ours", "newer", "broken"} :
          ApplyDisk(raw, config, kind) \/ ApplyDisk(raw, Reverse(config), kind)

TSpec == TInit /\ [][TNext]_treeVars

(***************************************************************************)
(* Properties                                                              *)
(***************************************************************************)
\* The groups are a forest and every reference leads somewhere: no group is
\* inside itself, ids are used once, a host's group exists, the hosts of the
\* file come before the linked ones.
TreeSound ==
    /\ \A i, j \in DOMAIN lib.groups : lib.groups[i].id = lib.groups[j].id => i = j
    /\ \A i, j \in DOMAIN lib.hosts : lib.hosts[i].id = lib.hosts[j].id => i = j
    /\ \A i \in DOMAIN lib.groups :
          LET g == lib.groups[i]
              up == Up(ParentsOf(lib.groups), g.id)
          IN /\ g.parent \in Ids(lib.groups) \cup {Unset}
             /\ up[Len(lib.groups)] = Unset
    /\ \A i \in DOMAIN lib.hosts :
          /\ lib.hosts[i].group \in Ids(lib.groups) \cup {Unset}
          /\ \A j \in 1 .. i - 1 : IsLinked(lib.hosts[j]) => IsLinked(lib.hosts[i])

\* The list agrees with the library after every edit, reload and one-slot
\* update: row i is host i as it is now, and each number in the sidebar is
\* the number of hosts that choosing it finds.  Both ways of connecting, the
\* built-in one and the ssh program, take the same route.
ShownTrue ==
    /\ \A i \in DOMAIN lib.hosts : view.summaries[i] = Summary(lib, lib.hosts[i], detected)
    /\ Len(view.summaries) = Len(lib.hosts)
    /\ \A s \in Scopes : view.counts[s] = Cardinality(InScope(lib, recents, s))
    /\ \A g \in Ids(lib.groups) : view.totals[g] = Cardinality(InScope(lib, recents, g))
    /\ \A i \in DOMAIN lib.hosts : ConnectFor(lib, lib.hosts[i]) = SshGoes(SshArgs(lib, lib.hosts[i]))

\* A host deleted here leaves no recent entry and no way to be found, and a
\* secret only while the keychain has yet to forget it, or when it was not saved
\* yet at the deletion, was remembered after it, or could not be forgotten; the
\* recent list names a host once and keeps its bound.
DeletedForgotten ==
    /\ deleted.hosts \cap (ToSet(recents) \cup Ids(lib.hosts)) = {}
    /\ deleted.hosts \cap keychain.holds \subseteq Waiting("forget") \cup deleted.kept
    /\ IsInjective(recents) /\ Len(recents) <= MaxRecent

=============================================================================
