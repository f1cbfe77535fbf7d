-------------------------------- MODULE WikiSync --------------------------------
(***************************************************************************)
(* The synchronisation of a wiki space (core/wiki_sync.py).  Discovery     *)
(* descends into a node before it decides about the node itself: a node    *)
(* with others below it is recorded as a folder, its children are handled, *)
(* and then its own document is looked at.  A node may be a shortcut to    *)
(* another, anywhere: what is below that one is then handled as if it were *)
(* below the shortcut, and the two may contain each other.                 *)
(*                                                                         *)
(* A folder is the path of the nodes that lead to it, for the shortcuts    *)
(* may put a node under several; what a run does with a node is recorded   *)
(* under the token of the node.  All nodes are documents of a kind whose   *)
(* file name is known beforehand, and a listing has one page.              *)
(***************************************************************************)
EXTENDS LocalStore

CONSTANTS
  Branches,         \* nodes that may have others below them
  Links,            \* nodes that are shortcuts
  Origin,           \* the node each shortcut stands for
  Top,              \* where the nodes of the first level are
  Gone,             \* where a deleted node is
  Modes,            \* the ways a run may be configured
  MaxChanges,       \* bound: what users do to nodes and files
  MaxRuns           \* bound: runs

Nodes == Docs

ASSUME WikiAssumption ==
  /\ Branches \subseteq Nodes /\ Links \subseteq Nodes \ Branches
  /\ Origin \in [Links -> Nodes \ Links]
  /\ Top \notin Nodes /\ Gone \notin Nodes \cup {Top}
  /\ <<>> \in Folders
  /\ Folders \subseteq Seq(Nodes)
  /\ \A f \in Folders, n \in Branches \cup Links :
       (\A j \in 1..Len(f) : f[j] # n) => Append(f, n) \in Folders
  /\ Modes \subseteq [incremental : BOOLEAN, limit : Nat]
  /\ MaxChanges \in Nat
  /\ MaxRuns \in Nat

VARIABLES
  place,            \* the node each node is below
  version,          \* of the document of a node that is no shortcut
  pc, mode,
  stack,            \* the listings discovery is in the middle of
  visited,          \* _visited
  origins,          \* _visited_origins
  truncated,        \* _discovery_truncated
  queue,            \* _download_candidates
  fetched,          \* the version the current download has received
  runs, changes,
  kept,             \* nodes not moved since the run began, with the version
                    \* they had then (history)
  failed            \* nodes whose download failed in this run (history)

wiki == <<place, version, kept>>
discovery == <<stack, visited, origins, truncated>>
counters == <<runs, changes>>
vars == <<records, disk, wiki, pc, mode, discovery, queue, fetched, counters, failed>>

(* The document of a node; a shortcut shows that of its origin.            *)
Source(n) == IF n \in Links THEN Origin[n] ELSE n

Items == [node : Nodes, time : Nat, parent : BOOLEAN]
Listings == [item : Items \cup {None}, folder : Folders, todo : SUBSET Items]
Downloads == [node : Nodes, time : Nat, folder : Folders]

TypeOK ==
  /\ StoreTypeOK
  /\ place \in [Nodes -> Branches \cup {Top, Gone}]
  /\ version \in [Nodes \ Links -> Nat]
  /\ pc \in {"idle", "discover", "download", "open", "written"}
  /\ mode \in [incremental : BOOLEAN, limit : Nat]
  /\ stack \in Seq(Listings)
  /\ \A k \in 2..Len(stack) :
       stack[k].folder = Append(stack[k-1].folder, stack[k].item.node)
  /\ visited \subseteq Nodes /\ origins \subseteq Nodes /\ truncated \in BOOLEAN
  /\ queue \in Seq(Downloads)
  /\ pc \in {"open", "written"} => queue # <<>>
  /\ fetched \in Nat /\ runs \in Nat /\ changes \in Nat
  /\ kept \subseteq [node : Nodes, version : Nat]
  /\ failed \subseteq Nodes

NoMode == [incremental |-> FALSE, limit |-> 0]

Init ==
  /\ StoreInit
  /\ place \in [Nodes -> Branches \cup {Top}]
  /\ \A b \in Branches : place[b] = Top
  /\ version = [n \in Nodes \ Links |-> 1]
  /\ pc = "idle" /\ mode = NoMode
  /\ stack = <<>> /\ visited = {} /\ origins = {} /\ truncated = FALSE
  /\ queue = <<>> /\ fetched = 0
  /\ runs = 0 /\ changes = 0 /\ kept = {} /\ failed = {}

-----------------------------------------------------------------------------
(* The users.  Nodes with others below them stay where they are.           *)

Change == changes < MaxChanges /\ changes' = changes + 1
run == <<pc, mode, discovery, queue, fetched, runs, failed>>

HasChild(n) == \E m \in Nodes : place[m] = n

Edit(n) ==
  /\ Change
  /\ place[n] # Gone
  /\ version' = [version EXCEPT ![n] = @ + 1]
  /\ UNCHANGED <<records, disk, place, kept, run>>

Move(n, q) ==
  /\ Change
  /\ ~HasChild(n) /\ q \notin {n, place[n]}
  /\ q \in Branches => place[q] # Gone
  /\ place' = [place EXCEPT ![n] = q]
  /\ kept' = {k \in kept : k.node # n}
  /\ UNCHANGED <<records, disk, version, run>>

LoseFile(p) ==
  /\ Change
  /\ pc = "idle"
  /\ disk[p] # Absent
  /\ disk' = [disk EXCEPT ![p] = Absent]
  /\ UNCHANGED <<records, wiki, run>>

-----------------------------------------------------------------------------
(* Discovery.                                                              *)

Children(q) ==
  {[node |-> n, time |-> version[Source(n)], parent |-> HasChild(n)] :
     n \in {m \in Nodes : place[m] = q}}

Current == stack[Len(stack)]
Handled(i) == [stack EXCEPT ![Len(stack)].todo = @ \ {i}]

Begin ==
  /\ pc = "idle"
  /\ runs < MaxRuns
  /\ runs' = runs + 1
  /\ mode' \in Modes
  /\ pc' = "discover"
  /\ stack' = <<[item |-> None, folder |-> <<>>, todo |-> Children(Top)]>>
  /\ kept' = {[node |-> n, version |-> version[Source(n)]] :
                n \in {m \in Nodes : place[m] # Gone}}
  /\ UNCHANGED <<records, disk, place, version, visited, origins, truncated, queue,
                 fetched, changes, failed>>

PassOver(i) ==
  /\ i.node \in visited
  /\ stack' = Handled(i)
  /\ UNCHANGED <<records, visited, origins, truncated, queue>>

(* What becomes of the document of a node in a folder, when the listings   *)
(* to go on with are known.                                                *)
Decide(i, folder, rest) ==
  \/ /\ ~MustDownloadCloudDoc(i.node, i.time, folder, mode.incremental)
     /\ stack' = rest
     /\ UNCHANGED <<truncated, queue>>
  \/ /\ MustDownloadCloudDoc(i.node, i.time, folder, mode.incremental)
     /\ queue' = Append(queue, [node |-> i.node, time |-> i.time, folder |-> folder])
     /\ truncated' = (mode.limit > 0 /\ Len(queue') >= mode.limit)
     /\ stack' = IF truncated' THEN <<>> ELSE rest
  \/ /\ i.node \in Links                \* a shortcut that cannot be resolved
     /\ stack' = rest
     /\ UNCHANGED <<truncated, queue>>

(* Below which node the entries are that count as those of a node: a       *)
(* shortcut leads to its origin, once per origin and run, unless its       *)
(* details cannot be had.                                                  *)
LeadsTo(i, q) ==
  \/ i.node \in Links /\ q = Origin[i.node] /\ q \notin origins /\ place[q] # Gone
  \/ i.parent /\ q = i.node

Enter(i) ==
  /\ i.node \notin visited
  /\ visited' = visited \cup {i.node}
  /\ \E q \in Nodes :
       /\ LeadsTo(i, q)
       /\ LET own == Append(Current.folder, i.node) IN
            /\ MarkBranch(i.node, i.time, Current.folder, own)
            /\ stack' = Append(Handled(i), [item |-> i, folder |-> own, todo |-> Children(q)])
       /\ origins' = IF q = i.node THEN origins ELSE origins \cup {q}
  /\ UNCHANGED <<truncated, queue>>

(* Faulty variants: a node without children is not marked as visited; its  *)
(* record is written when it is planned.                                   *)
LookAtUnmarked(i) ==
  /\ i.node \notin visited
  /\ ~i.parent
  /\ Decide(i, Current.folder, Handled(i))
  /\ UNCHANGED <<records, visited, origins>>

LookAtMarksSynced(i) ==
  /\ i.node \notin visited
  /\ ~i.parent
  /\ visited' = visited \cup {i.node}
  /\ Decide(i, Current.folder, Handled(i))
  /\ MarkSynced(i.node, i.time, Current.folder)
  /\ UNCHANGED origins

LookAt(i) ==
  /\ i.node \notin visited
  /\ ~i.parent
  /\ visited' = visited \cup {i.node}
  /\ Decide(i, Current.folder, Handled(i))
  /\ UNCHANGED <<records, origins>>

Discover ==
  /\ pc = "discover"
  /\ stack # <<>>
  /\ \E i \in Current.todo : PassOver(i) \/ Enter(i) \/ LookAt(i)
  /\ UNCHANGED <<disk, wiki, pc, mode, fetched, counters, failed>>

(* Back from what is below a node to the node itself.                      *)
Return ==
  /\ pc = "discover"
  /\ Len(stack) > 1
  /\ Current.todo = {}
  /\ Decide(Current.item, stack[Len(stack) - 1].folder, SubSeq(stack, 1, Len(stack) - 1))
  /\ UNCHANGED <<records, disk, wiki, pc, mode, visited, origins, fetched, counters, failed>>

EndDiscovery ==
  /\ pc = "discover"
  /\ stack = <<>> \/ (Len(stack) = 1 /\ Current.todo = {})
  /\ stack' = <<>>
  /\ pc' = "download"
  /\ UNCHANGED <<records, disk, wiki, mode, visited, origins, truncated, queue, fetched,
                 counters, failed>>

-----------------------------------------------------------------------------
(* Downloads.                                                              *)

Item == Head(queue)
File == <<Item.folder, Item.node>>

OpenFile ==
  /\ pc = "download"
  /\ queue # <<>>
  /\ place[Source(Item.node)] # Gone
  /\ fetched' = version[Source(Item.node)]
  /\ disk' = [disk EXCEPT ![File] = Partial]
  /\ pc' = "open"
  /\ UNCHANGED <<records, wiki, mode, discovery, queue, counters, failed>>

WriteFile ==
  /\ pc = "open"
  /\ disk' = [disk EXCEPT ![File] = fetched]
  /\ pc' = "written"
  /\ UNCHANGED <<records, wiki, mode, discovery, queue, fetched, counters, failed>>

RecordDownload ==
  /\ pc = "written"
  /\ MarkSynced(Item.node, Item.time, Item.folder)
  /\ queue' = Tail(queue)
  /\ fetched' = 0
  /\ pc' = "download"
  /\ UNCHANGED <<disk, wiki, mode, discovery, counters, failed>>

(* Faulty variant: a failure goes to the end of the same document.         *)
FailDownloadInPlace ==
  /\ pc \in {"download", "open"}
  /\ queue # <<>>
  /\ queue' = Tail(queue)
  /\ failed' = failed \cup {Item.node}
  /\ fetched' = 0
  /\ UNCHANGED <<records, disk, wiki, pc, mode, discovery, counters>>

(* A failure is counted and not recorded.                                  *)
FailDownload ==
  /\ pc \in {"download", "open"}
  /\ queue # <<>>
  /\ queue' = Tail(queue)
  /\ failed' = failed \cup {Item.node}
  /\ fetched' = 0
  /\ pc' = "download"
  /\ UNCHANGED <<records, disk, wiki, mode, discovery, counters>>

Forget ==
  /\ pc' = "idle" /\ mode' = NoMode
  /\ stack' = <<>> /\ visited' = {} /\ origins' = {} /\ truncated' = FALSE
  /\ queue' = <<>> /\ fetched' = 0 /\ kept' = {} /\ failed' = {}
  /\ UNCHANGED <<records, disk, place, version, counters>>

Complete == pc = "download" /\ queue = <<>> /\ Forget

Abort == pc # "idle" /\ Forget

Next ==
  \/ \E n \in Nodes \ Links : Edit(n)
  \/ \E n \in Nodes, q \in Branches \cup {Top, Gone} : Move(n, q)
  \/ \E p \in Paths : LoseFile(p)
  \/ Begin
  \/ Discover \/ Return \/ EndDiscovery
  \/ OpenFile \/ WriteFile \/ RecordDownload \/ FailDownload
  \/ Complete \/ Abort

Spec == Init /\ [][Next]_vars

-----------------------------------------------------------------------------
(* Properties.                                                             *)

(* Discovery is never again below a node it is below, however shortcuts    *)
(* contain each other: the recursion is no deeper than there are nodes.    *)
NoReentry ==
  \A k, m \in 2..Len(stack) : stack[k].item.node = stack[m].item.node => k = m

(* A run downloads a node once, under one folder, even if it is reached    *)
(* both in its place and through a shortcut.                               *)
PlannedOnce ==
  \A m, n \in 1..Len(queue) : queue[m].node = queue[n].node => m = n

(* What shortcuts put under several folders, or inside itself, is entered   *)
(* once and downloaded once by a run.                                      *)
HandledOnce == NoReentry /\ PlannedOnce

Leaves == Nodes \ (Branches \cup Links)

(* The file of a leaf that is recorded as synchronised is lost, cut short, *)
(* or at least as new as the record.                                       *)
RecordIsNotAhead ==
  \A n \in Leaves :
    records[n].status = "ok"
      => LET content == disk[<<records[n].parent, n>>] IN
         content \in {Absent, Partial} \/ content >= records[n].time

(* A run that completes has found every node that stayed in its place, and *)
(* brought the leaves to the version they had at the beginning or a later  *)
(* one, but for files an earlier run left cut short.                       *)
UpToDate(k) ==
  LET content == disk[<<records[k.node].parent, k.node>>] IN
  /\ k.node \in visited
  /\ content = Partial \/ content >= k.version

LeavesMirroredAtEnd ==
  [][Complete /\ ~truncated
       => \A k \in kept : k.node \in Leaves \ failed => UpToDate(k)]_vars

(* "Whether an update is needed is decided by the time a node was edited": *)
(* what the documentation says, of every node that is no shortcut.         *)
EditsAreSeen ==
  [][Complete /\ ~truncated
       => \A k \in kept : k.node \in Nodes \ (Links \cup failed) => UpToDate(k)]_vars

=============================================================================
