---------------------------- MODULE SpaceSyncProofs ----------------------------
(***************************************************************************)
(* What TLAPS proves of SpaceSync, for every set of documents, every       *)
(* folder tree, every set of modes and without the bounds TLC needs: type  *)
(* correctness, that no document is downloaded twice by one run nor one    *)
(* marked as deleted that is there, and, of the documents that no shortcut *)
(* lists a second time, if none is moved under a running discovery, that   *)
(* no edit is ever lost and that a run that completes has them up to date. *)
(***************************************************************************)
EXTENDS SpaceSync, TLAPS

-----------------------------------------------------------------------------
(* Type correctness.                                                       *)

LEMMA SizeType == \A c : Size(c) \in Sizes
BY DEF Size, Sizes

(* Whatever is written to the store leaves records in it.                  *)
LEMMA MarkType ==
  ASSUME StoreTypeOK, NEW f \in Folders, NEW n \in Nat
  PROVE  /\ \A t \in Tokens : MarkDeleted(t) \/ Remove(t) => records' \in [Tokens -> Record]
         /\ \A d \in Docs : MarkSynced(d, n, f) => records' \in [Tokens -> Record]
         /\ \A d \in Docs : MarkMissing(d, n, f) => records' \in [Tokens -> Record]
         /\ \A g \in Folders, h \in Folders \cup {None} :
              MarkFolder(g, h) => records' \in [Tokens -> Record]
<1>1. ASSUME NEW d \in Docs, MarkSynced(d, n, f)
      PROVE  records' \in [Tokens -> Record]
  <2>1. [status |-> "ok", parent |-> f, path |-> <<f, d>>, time |-> n,
         size |-> Size(disk[<<f, d>>])] \in Record
    BY SizeType DEF Record, Statuses, Paths
  <2> QED
    BY <1>1, <2>1 DEF MarkSynced, StoreTypeOK
<1>2. ASSUME NEW d \in Docs, MarkMissing(d, n, f)
      PROVE  records' \in [Tokens -> Record]
  <2>1. d \in Tokens /\ records[d] \in Record
    BY DEF StoreTypeOK, Tokens
  <2>2. [records[d] EXCEPT !.status = "missing", !.parent = f, !.time = n] \in Record
    BY <2>1 DEF Record, Statuses
  <2>3. records' = [records EXCEPT ![d] =
                      [records[d] EXCEPT !.status = "missing", !.parent = f, !.time = n]]
    BY <1>2, <2>1 DEF MarkMissing, StoreTypeOK
  <2> QED
    BY <2>2, <2>3 DEF StoreTypeOK
<1>3. ASSUME NEW g \in Folders, NEW h \in Folders \cup {None}, MarkFolder(g, h)
      PROVE  records' \in [Tokens -> Record]
  BY <1>3 DEF MarkFolder, StoreTypeOK, Record, Statuses, Sizes
<1>4. ASSUME NEW t \in Tokens, MarkDeleted(t) \/ Remove(t)
      PROVE  records' \in [Tokens -> Record]
  <2>1. NoRecord \in Record
    BY DEF NoRecord, Record, Statuses, Sizes
  <2>2. [records[t] EXCEPT !.status = "deleted"] \in Record
    BY DEF StoreTypeOK, Record, Statuses
  <2>3. \/ records' = [records EXCEPT ![t] = NoRecord]
        \/ records' = [records EXCEPT ![t] = [records[t] EXCEPT !.status = "deleted"]]
    BY <1>4 DEF MarkDeleted, Remove, StoreTypeOK
  <2> QED
    BY <2>1, <2>2, <2>3 DEF StoreTypeOK
<1> QED
  BY <1>1, <1>2, <1>3, <1>4

(* Whatever a folder contains, its listing is a set of entries.            *)
LEMMA ListingType ==
  ASSUME SpaceAssumption, TypeOK, NEW f \in Folders
  PROVE  Listing(f) \subseteq Items
<1>1. \A d \in Docs : remote[d].version \in Nat
  BY DEF TypeOK
<1>2. \A s \in Links : Target[s] \in Docs
  BY DEF SpaceAssumption
<1> QED
  BY <1>1, <1>2 DEF Listing, Items

LEMMA HeadType ==
  ASSUME TypeOK, queue # <<>>
  PROVE  /\ Item \in Downloads /\ Tail(queue) \in Seq(Downloads)
         /\ Item.target \in Docs /\ Item.folder \in Folders /\ Item.time \in Nat
         /\ Item.token \in Docs \cup Folders \cup Links
         /\ File \in Paths
<1>1. queue \in Seq(Downloads)
  BY DEF TypeOK
<1>2. Item \in Downloads /\ Tail(queue) \in Seq(Downloads)
  BY <1>1 DEF Item
<1> QED
  BY <1>2 DEF Downloads, Items, File, Paths

LEMMA TypeInit == SpaceAssumption /\ Init => TypeOK
<1> SUFFICES ASSUME SpaceAssumption, Init PROVE TypeOK
  OBVIOUS
<1>1. StoreTypeOK
  <2>1. NoRecord \in Record
    BY DEF NoRecord, Record, Statuses, Sizes
  <2> QED
    BY <2>1 DEF Init, StoreInit, StoreTypeOK, Absent, Contents
<1>2. remote \in [Docs -> [folder : Folders \cup {Gone}, version : Nat]]
  <2>1. [folder : Folders \cup {Gone}, version : {1}] \subseteq
          [folder : Folders \cup {Gone}, version : Nat]
    OBVIOUS
  <2> QED
    BY <2>1 DEF Init
<1>3. mode \in [incremental : BOOLEAN, limit : Nat, clean : BOOLEAN]
  BY DEF Init, NoMode
<1>4. queue \in Seq(Downloads) /\ pc = "idle"
  BY DEF Init
<1> QED
  BY <1>1, <1>2, <1>3, <1>4 DEF Init, TypeOK, Steps

LEMMA ForgetType ==
  ASSUME TypeOK, Forget, UNCHANGED <<records, disk, remote, counters>>
  PROVE  TypeOK'
<1>1. StoreTypeOK' /\ remote' = remote /\ runs' = runs /\ changes' = changes
  BY DEF TypeOK, StoreTypeOK, counters
<1>2. mode' \in [incremental : BOOLEAN, limit : Nat, clean : BOOLEAN]
  BY DEF Forget, NoMode
<1>3. queue' \in Seq(Downloads) /\ pc' = "idle"
  BY DEF Forget
<1> QED
  BY <1>1, <1>2, <1>3 DEF TypeOK, Forget, Steps

LEMMA TypeStep ==
  ASSUME SpaceAssumption, StoreAssumption, TypeOK, [Next]_vars
  PROVE  TypeOK'
<1> USE SpaceAssumption, StoreAssumption
<1>1. ASSUME NEW d \in Docs, Edit(d) PROVE TypeOK'
  <2>1. remote[d] \in [folder : Folders \cup {Gone}, version : Nat]
    BY DEF TypeOK
  <2>2. remote' = [remote EXCEPT ![d] = [remote[d] EXCEPT !.version = @ + 1]]
    BY <1>1 DEF Edit, TypeOK
  <2>3. [remote[d] EXCEPT !.version = @ + 1] \in [folder : Folders \cup {Gone}, version : Nat]
    BY <2>1
  <2>4. remote' \in [Docs -> [folder : Folders \cup {Gone}, version : Nat]]
    BY <2>2, <2>3 DEF TypeOK
  <2> QED
    BY <1>1, <2>4 DEF TypeOK, StoreTypeOK, Edit, Change, runVars
<1>2. ASSUME NEW d \in Docs, NEW f \in Folders \cup {Gone}, Move(d, f) PROVE TypeOK'
  <2>1. remote[d] \in [folder : Folders \cup {Gone}, version : Nat]
    BY DEF TypeOK
  <2>2. remote' = [remote EXCEPT ![d] = [remote[d] EXCEPT !.folder = f]]
    BY <1>2 DEF Move, TypeOK
  <2>3. remote' \in [Docs -> [folder : Folders \cup {Gone}, version : Nat]]
    BY <2>1, <2>2 DEF TypeOK
  <2> QED
    BY <1>2, <2>3 DEF TypeOK, StoreTypeOK, Move, Change, runVars
<1>3. ASSUME NEW p \in Paths, LoseFile(p) PROVE TypeOK'
  BY SMTT(30), <1>3 DEF TypeOK, StoreTypeOK, LoseFile, Change, runVars, remoteVars, Absent, Contents
<1>4. CASE Begin
  <2>1. Listing(Root) \subseteq Items
    BY ListingType DEF SpaceAssumption
  <2>2. records' \in [Tokens -> Record]
    BY <1>4, MarkType DEF Begin, SpaceAssumption, TypeOK
  <2>3. kept' \in SUBSET [doc : Docs, version : Nat]
    BY <1>4 DEF Begin, TypeOK
  <2>4. mode' \in [incremental : BOOLEAN, limit : Nat, clean : BOOLEAN]
    BY <1>4 DEF Begin, SpaceAssumption
  <2> QED
    BY <1>4, <2>1, <2>2, <2>3, <2>4 DEF Begin, TypeOK, StoreTypeOK, Steps, SpaceAssumption
<1>5. ASSUME NEW i \in todo, DiscoverFolder(i) PROVE TypeOK'
  <2>1. i \in Items
    BY DEF TypeOK
  <2>2. i.target \in Folders /\ i.folder \in Folders
    BY <1>5, <2>1 DEF DiscoverFolder, Items
  <2>3. Listing(i.target) \subseteq Items
    BY <2>2, ListingType
  <2>4. records' \in [Tokens -> Record]
    BY <1>5, <2>2, MarkType DEF DiscoverFolder, TypeOK
  <2> QED
    BY <1>5, <2>2, <2>3, <2>4 DEF DiscoverFolder, TypeOK, StoreTypeOK, Steps, remoteVars, counters
<1>6. ASSUME NEW i \in todo, Skip(i) PROVE TypeOK'
  <2>1. i \in Items
    BY DEF TypeOK
  <2>2. i.target \in Docs /\ i.folder \in Folders /\ i.time \in Nat
        /\ i.token \in Docs \cup Folders \cup Links
    BY <1>6, <2>1 DEF Skip, Items
  <2>3. records' \in [Tokens -> Record]
    BY <1>6, <2>2, MarkType DEF Skip, TypeOK
  <2> QED
    BY SMTT(30), <1>6, <2>2, <2>3 DEF Skip, Seen, TypeOK, StoreTypeOK, Steps, remoteVars, counters
<1>7. ASSUME NEW i \in todo, Plan(i) PROVE TypeOK'
  <2>1. i \in Items
    BY DEF TypeOK
  <2>2. i.target \in Docs /\ i.token \in Docs \cup Folders \cup Links /\ i \in Downloads
    BY <1>7, <2>1 DEF Plan, Items, Downloads
  <2>3. queue' \in Seq(Downloads)
    BY <1>7, <2>2 DEF Plan, TypeOK
  <2>4. truncated' \in BOOLEAN /\ todo' \in SUBSET Items
    BY <1>7 DEF Plan, TypeOK
  <2> QED
    BY <1>7, <2>2, <2>3, <2>4 DEF Plan, Seen, TypeOK, StoreTypeOK, Steps, remoteVars, counters
<1>8. CASE EndDiscovery
  BY <1>8 DEF EndDiscovery, TypeOK, StoreTypeOK, Steps, remoteVars, counters
<1>9. CASE OpenFile
  <2>1. Item.target \in Docs /\ File \in Paths
    BY <1>9, HeadType DEF OpenFile
  <2>2. fetched' \in Nat
    BY <1>9, <2>1 DEF OpenFile, TypeOK
  <2>3. disk' \in [Paths -> Contents]
    BY <1>9, <2>1 DEF OpenFile, TypeOK, StoreTypeOK, Partial, Contents
  <2> QED
    BY <1>9, <2>2, <2>3 DEF OpenFile, TypeOK, StoreTypeOK, Steps, remoteVars, counters
<1>10. CASE WriteFile
  <2>1. File \in Paths
    BY <1>10, HeadType DEF WriteFile, TypeOK
  <2>2. disk' \in [Paths -> Contents]
    BY <1>10, <2>1 DEF WriteFile, TypeOK, StoreTypeOK, Contents
  <2> QED
    BY <1>10, <2>2 DEF WriteFile, TypeOK, StoreTypeOK, Steps, remoteVars, counters
<1>11. CASE RecordDownload
  <2>1. queue # <<>>
    BY <1>11 DEF RecordDownload, TypeOK
  <2>2. records' \in [Tokens -> Record]
    BY <1>11, <2>1, HeadType, MarkType DEF RecordDownload, TypeOK
  <2> QED
    BY <1>11, <2>1, <2>2, HeadType
    DEF RecordDownload, TypeOK, StoreTypeOK, Steps, remoteVars, counters
<1>12. CASE FailDownload
  <2>1. queue # <<>>
    BY <1>12 DEF FailDownload
  <2>2. records' \in [Tokens -> Record]
    BY <1>12, <2>1, HeadType, MarkType DEF FailDownload, TypeOK
  <2>3. /\ queue' \in Seq(Downloads)
        /\ failed' \in SUBSET Docs
        /\ current' \in SUBSET (Docs \cup Folders \cup Links)
    BY <1>12, <2>1, HeadType DEF FailDownload, TypeOK
  <2> QED
    BY <1>12, <2>2, <2>3
    DEF FailDownload, TypeOK, StoreTypeOK, Steps, remoteVars, counters
<1>13. CASE EndDownloads
  BY <1>13 DEF EndDownloads, TypeOK, StoreTypeOK, Steps, Known, remoteVars, counters
<1>14. ASSUME NEW t \in stale, DropStale(t) PROVE TypeOK'
  <2>1. t \in Tokens
    BY DEF TypeOK
  <2>2. records' \in [Tokens -> Record]
    BY <1>14, <2>1, MarkType DEF DropStale, TypeOK, SpaceAssumption
  <2>3. disk' \in [Paths -> Contents]
    BY <1>14 DEF DropStale, TypeOK, StoreTypeOK, Absent, Contents
  <2> QED
    BY <1>14, <2>2, <2>3 DEF DropStale, TypeOK, StoreTypeOK, Steps, remoteVars, counters
<1>15. CASE Complete
  BY <1>15, ForgetType DEF Complete
<1>16. CASE Abort
  BY <1>16, ForgetType DEF Abort
<1>17. CASE UNCHANGED vars
  BY <1>17 DEF TypeOK, StoreTypeOK, vars, remoteVars, runVars, counters
<1> QED
  BY <1>1, <1>2, <1>3, <1>4, <1>5, <1>6, <1>7, <1>8, <1>9, <1>10, <1>11, <1>12, <1>13,
     <1>14, <1>15, <1>16, <1>17 DEF Next

(* Every state of every run has the type TypeOK says.                      *)
THEOREM SpaceTypeCorrect == Spec => []TypeOK
<1>1. Init => TypeOK
  BY TypeInit, SpaceAssumption
<1>2. TypeOK /\ [Next]_vars => TypeOK'
  BY TypeStep, SpaceAssumption, StoreAssumption
<1> QED
  BY <1>1, <1>2, PTL DEF Spec

-----------------------------------------------------------------------------
(* A run downloads a document once: what is planned has been visited, and  *)
(* what has been visited is not planned.                                   *)

IdleIsEmpty == pc = "idle" => queue = <<>> /\ todo = {} /\ visited = {}

PlannedIsVisited == \A n \in 1..Len(queue) : queue[n].target \in visited

(* The invariant of discovery, of folders and of documents that no         *)
(* shortcut lists a second time: the folders visited hang together, and an *)
(* entry still to be handled is one of a visited folder, is the only one   *)
(* for its document, and has not been visited itself.                      *)

Once == Plain \cup Folders

ListedOnce ==
  /\ pc = "discover" => Root \in visited
  /\ \A i \in todo : i.token \in Links \cup {i.target}
  /\ \A i \in todo : i.target \in Once =>
       /\ i.token = i.target
       /\ i.target \notin visited
       /\ i.folder \in visited
       /\ i.target \in Docs => remote[i.target].folder \in {i.folder, Gone}
       /\ i.target \in Folders => i.target # Root /\ Parent[i.target] = i.folder
  /\ \A i, j \in todo : i.target \in Once /\ i.target = j.target => i = j
  /\ \A d \in Plain \cap visited : remote[d].folder \in visited \cup {Gone}
  /\ \A f \in (Folders \ {Root}) \cap visited : Parent[f] \in visited

(* Nothing is younger than the document it was taken from.                 *)

NoneFromTheFuture ==
  /\ \A d \in Docs : 1 <= remote[d].version /\ records[d].time <= remote[d].version
  /\ \A i \in todo : i.target \in Docs => i.time <= remote[i.target].version
  /\ \A n \in 1..Len(queue) : queue[n].time <= remote[queue[n].target].version

(* The download under way writes what it fetched, and that is as new as    *)
(* the record says and as the one that will be written.                    *)

FetchedIsNewer ==
  /\ pc \in {"open", "written"} =>
       fetched >= 1 /\ fetched >= Item.time /\ fetched >= records[Item.target].time
  /\ pc = "written" => disk[File] = fetched

(* A plain document recorded as synchronised has been written completely,  *)
(* and if its file is complete now, it holds the recorded version or a     *)
(* later one.                                                              *)

OkIsBacked ==
  /\ \A p \in Paths : disk[p] >= Partial
  /\ \A d \in Plain : records[d].status = "ok" =>
       /\ records[d].parent \in Folders
       /\ records[d].size = "full"
       /\ disk[<<records[d].parent, d>>] > 0
            => disk[<<records[d].parent, d>>] >= records[d].time

DiscoveryInv == TypeOK /\ IdleIsEmpty /\ ListedOnce

Inv == DiscoveryInv /\ NoneFromTheFuture /\ FetchedIsNewer /\ OkIsBacked

LEMMA PlainIs == Plain \subseteq Docs
BY DEF Plain

-----------------------------------------------------------------------------
LEMMA PlannedStep ==
  ASSUME TypeOK, IdleIsEmpty, PlannedIsVisited, PlannedOnce, [Next]_vars
  PROVE  IdleIsEmpty' /\ PlannedIsVisited' /\ PlannedOnce'
<1> USE DEF IdleIsEmpty, PlannedIsVisited, PlannedOnce
<1>q. queue \in Seq(Downloads)
  BY DEF TypeOK
<1>1. ASSUME UNCHANGED <<pc, todo, visited, queue>>
      PROVE  IdleIsEmpty' /\ PlannedIsVisited' /\ PlannedOnce'
  BY <1>1
<1>2. ASSUME queue' = <<>>, pc' # "idle" \/ (todo' = {} /\ visited' = {})
      PROVE  IdleIsEmpty' /\ PlannedIsVisited' /\ PlannedOnce'
  BY <1>2
<1>3. ASSUME queue # <<>>, queue' = Tail(queue), visited' = visited, pc' # "idle"
      PROVE  IdleIsEmpty' /\ PlannedIsVisited' /\ PlannedOnce'
  <2>1. Len(queue') = Len(queue) - 1 /\ \A n \in 1..Len(queue') : queue'[n] = queue[n + 1]
    BY <1>3, <1>q
  <2>2. \A n \in 1..Len(queue') : n + 1 \in 1..Len(queue)
    BY <2>1, <1>q
  <2> QED
    BY <1>3, <2>1, <2>2
<1>4. ASSUME queue' = queue, visited \subseteq visited', pc' # "idle"
      PROVE  IdleIsEmpty' /\ PlannedIsVisited' /\ PlannedOnce'
  BY <1>4
<1>5. ASSUME NEW i \in todo, Plan(i)
      PROVE  IdleIsEmpty' /\ PlannedIsVisited' /\ PlannedOnce'
  <2>1. /\ i \in Downloads /\ i.target \notin visited
        /\ queue' = Append(queue, i) /\ pc' = "discover"
        /\ visited' = visited \cup {i.token, i.target}
    BY <1>5 DEF Plan, Seen, TypeOK, Downloads
  <2>2. /\ Len(queue') = Len(queue) + 1 /\ queue'[Len(queue) + 1] = i
        /\ \A n \in 1..Len(queue) : queue'[n] = queue[n]
    BY <2>1, <1>q
  <2>3. 1..Len(queue') = 1..Len(queue) \cup {Len(queue) + 1}
    BY <2>2, <1>q
  <2> QED
    BY <2>1, <2>2, <2>3
<1>6. ASSUME NEW d \in Docs, Edit(d) \/ \E f \in Folders \cup {Gone} : Move(d, f)
      PROVE  UNCHANGED <<pc, todo, visited, queue>>
  BY <1>6 DEF Edit, Move, runVars
<1>7. ASSUME NEW p \in Paths, LoseFile(p)
      PROVE  UNCHANGED <<pc, todo, visited, queue>>
  BY <1>7 DEF LoseFile, runVars
<1>8. Begin => queue' = <<>> /\ pc' # "idle"
  BY DEF Begin
<1>9. \A i \in todo : DiscoverFolder(i) \/ Skip(i)
        => queue' = queue /\ visited \subseteq visited' /\ pc' # "idle"
  BY DEF DiscoverFolder, Skip, Seen
<1>10. EndDiscovery \/ OpenFile \/ WriteFile \/ EndDownloads
        => queue' = queue /\ visited \subseteq visited' /\ pc' # "idle"
  BY DEF EndDiscovery, OpenFile, WriteFile, EndDownloads
<1>11. \A t \in stale : DropStale(t)
        => UNCHANGED <<pc, todo, visited, queue>>
  BY DEF DropStale
<1>12. RecordDownload \/ FailDownload
        => queue # <<>> /\ queue' = Tail(queue) /\ visited' = visited /\ pc' # "idle"
  BY DEF RecordDownload, FailDownload, TypeOK
<1>13. Complete \/ Abort => queue' = <<>> /\ todo' = {} /\ visited' = {}
  BY DEF Complete, Abort, Forget
<1>14. UNCHANGED vars => UNCHANGED <<pc, todo, visited, queue>>
  BY DEF vars, runVars
<1> QED
  BY <1>1, <1>2, <1>3, <1>4, <1>5, <1>6, <1>7, <1>8, <1>9, <1>10, <1>11, <1>12, <1>13, <1>14
  DEF Next

(* However often a document is listed, by itself and by any number of      *)
(* shortcuts, and whatever moves during the discovery, the queue of a run  *)
(* holds it once.                                                          *)
THEOREM DownloadedOnce == Spec => []PlannedOnce
<1>1. Init => IdleIsEmpty /\ PlannedIsVisited /\ PlannedOnce
  BY DEF Init, IdleIsEmpty, PlannedIsVisited, PlannedOnce
<1>2. TypeOK /\ IdleIsEmpty /\ PlannedIsVisited /\ PlannedOnce /\ [Next]_vars
        => (IdleIsEmpty /\ PlannedIsVisited /\ PlannedOnce)'
  BY PlannedStep
<1> QED
  BY <1>1, <1>2, SpaceTypeCorrect, PTL DEF Spec

-----------------------------------------------------------------------------
(* Discovery.                                                              *)

LEMMA ListingIs ==
  ASSUME SpaceAssumption, StoreAssumption, TypeOK, NEW f \in Folders, NEW i \in Listing(f)
  PROVE  /\ i.folder = f /\ i.token \in Links \cup {i.target}
         /\ i.target \in Docs => i.time <= remote[i.target].version
         /\ i.target \in Once =>
              /\ i.token = i.target
              /\ i.target \in Docs => remote[i.target].folder = f /\ i.time = remote[i.target].version
              /\ i.target \in Folders => i.target # Root /\ Parent[i.target] = f
              /\ \A j \in Listing(f) : i.target = j.target => i = j
<1>1. \A d \in Docs : remote[d].version \in Nat
  BY DEF TypeOK
<1> QED
  BY <1>1 DEF Listing, SpaceAssumption, StoreAssumption, Once, Plain

LEMMA ListedFolder ==
  ASSUME SpaceAssumption, StoreAssumption, DiscoveryInv,
         NEW i \in todo, DiscoverFolder(i)
  PROVE  ListedOnce'
<1> DEFINE g == i.target
<1>p. Plain \subseteq Docs /\ Once = Plain \cup Folders /\ Docs \cap Folders = {}
  BY DEF Plain, Once, StoreAssumption
<1>1. /\ g \in Folders /\ g \notin visited /\ g # Root
      /\ Parent[g] = i.folder /\ i.folder \in visited
      /\ pc = "discover" /\ Root \in visited
  BY <1>p DEF DiscoveryInv, ListedOnce, DiscoverFolder
<1>2. /\ todo' = (todo \ {i}) \cup Listing(g)
      /\ visited' = visited \cup {g} /\ remote' = remote /\ pc' = pc
  BY DEF DiscoverFolder, remoteVars
<1>3. \A j \in Listing(g) :
        /\ j.folder = g /\ j.token \in Links \cup {j.target}
        /\ j.target \in Once =>
             /\ j.token = j.target
             /\ j.target \in Docs => remote[j.target].folder = g
             /\ j.target \in Folders => j.target # Root /\ Parent[j.target] = g
             /\ \A k \in Listing(g) : j.target = k.target => j = k
  BY <1>1, ListingIs DEF DiscoveryInv
<1>4. \A j \in Listing(g) : j.target \in Once => j.target \notin visited'
  <2> SUFFICES ASSUME NEW j \in Listing(g), j.target \in Once, j.target \in visited \cup {g}
               PROVE FALSE
    BY <1>2
  <2>1. CASE j.target \in Plain
    <3>1. remote[j.target].folder = g /\ j.target # g
      BY <2>1, <1>1, <1>3, <1>p
    <3>2. g \in visited \cup {Gone}
      BY <2>1, <3>1 DEF DiscoveryInv, ListedOnce
    <3> QED
      BY <3>2, <1>1 DEF SpaceAssumption
  <2>2. CASE j.target \in Folders
    <3>1. Parent[j.target] = g /\ j.target # Root
      BY <2>2, <1>3
    <3>2. j.target # g
      BY <3>1, <1>1
    <3>3. g \in visited
      BY <2>2, <3>1, <3>2 DEF DiscoveryInv, ListedOnce
    <3> QED
      BY <3>3, <1>1
  <2> QED
    BY <2>1, <2>2, <1>p
<1>5. \A j \in todo, k \in Listing(g) : k.target \in Once => j.target # k.target
  <2> SUFFICES ASSUME NEW j \in todo, NEW k \in Listing(g), k.target \in Once, j.target = k.target
               PROVE FALSE
    OBVIOUS
  <2>1. j.folder \in visited
    BY DEF DiscoveryInv, ListedOnce
  <2>2. CASE k.target \in Plain
    <3>1. g \in {j.folder, Gone}
      BY <2>2, <1>3, <1>p DEF DiscoveryInv, ListedOnce
    <3> QED
      BY <3>1, <2>1, <1>1 DEF SpaceAssumption
  <2>3. CASE k.target \in Folders
    BY <2>3, <2>1, <1>1, <1>3 DEF DiscoveryInv, ListedOnce
  <2> QED
    BY <2>2, <2>3, <1>p
<1>6. \A j \in todo \ {i} : j.target # g
  BY <1>1, <1>p DEF DiscoveryInv, ListedOnce
<1>7. \A j \in todo' : j.target \in Once =>
        /\ j.token = j.target
        /\ j.target \notin visited'
        /\ j.folder \in visited'
        /\ j.target \in Docs => remote'[j.target].folder \in {j.folder, Gone}
        /\ j.target \in Folders => j.target # Root /\ Parent[j.target] = j.folder
  <2>1. ASSUME NEW j \in todo \ {i}, j.target \in Once
        PROVE  /\ j.token = j.target
               /\ j.target \notin visited'
               /\ j.folder \in visited'
               /\ j.target \in Docs => remote'[j.target].folder \in {j.folder, Gone}
               /\ j.target \in Folders => j.target # Root /\ Parent[j.target] = j.folder
    BY <1>2, <1>6, <2>1 DEF DiscoveryInv, ListedOnce
  <2> QED
    BY <2>1, <1>2, <1>3, <1>4
<1>8. \A j, k \in todo' : j.target \in Once /\ j.target = k.target => j = k
  BY <1>2, <1>3, <1>5 DEF DiscoveryInv, ListedOnce
<1>9. \A d \in Plain \cap visited' : remote'[d].folder \in visited' \cup {Gone}
  BY <1>1, <1>2, <1>p DEF DiscoveryInv, ListedOnce
<1>10. \A f \in (Folders \ {Root}) \cap visited' : Parent[f] \in visited'
  BY <1>1, <1>2 DEF DiscoveryInv, ListedOnce
<1>11. \A j \in todo' : j.token \in Links \cup {j.target}
  BY <1>2, <1>3 DEF DiscoveryInv, ListedOnce
<1> QED
  BY <1>1, <1>2, <1>7, <1>8, <1>9, <1>10, <1>11 DEF ListedOnce

(* A document is handled: it leaves the list and has been visited.         *)
LEMMA ListedDocument ==
  ASSUME SpaceAssumption, StoreAssumption, DiscoveryInv, pc = "discover",
         NEW i \in todo, i.target \in Docs, Seen(i), remote' = remote, pc' = pc,
         todo' = {} \/ todo' = todo \ {i}
  PROVE  ListedOnce'
<1>p. Plain \subseteq Docs /\ Once = Plain \cup Folders /\ Docs \cap Folders = {}
  BY DEF Plain, Once, StoreAssumption
<1>1. /\ visited' = visited \cup {i.token, i.target}
      /\ i.token = i.target \/ i.token \notin Once
  <2>1. i.token = i.target \/ i.token \notin Once
    BY <1>p DEF DiscoveryInv, ListedOnce, SpaceAssumption
  <2> QED
    BY <2>1 DEF Seen
<1>2. todo' \subseteq todo \ {i}
  OBVIOUS
<1>3. \A j \in todo \ {i} : j.target \in Once => j.target # i.target
  BY DEF DiscoveryInv, ListedOnce
<1>4. i.target \in Plain => remote[i.target].folder \in visited \cup {Gone}
  BY <1>p DEF DiscoveryInv, ListedOnce
<1>5. \A j \in todo' : j.target \in Once =>
        /\ j.token = j.target
        /\ j.target \notin visited'
        /\ j.folder \in visited'
        /\ j.target \in Docs => remote'[j.target].folder \in {j.folder, Gone}
        /\ j.target \in Folders => j.target # Root /\ Parent[j.target] = j.folder
  BY <1>1, <1>2, <1>3 DEF DiscoveryInv, ListedOnce
<1>6. \A d \in Plain \cap visited' : remote'[d].folder \in visited' \cup {Gone}
  BY <1>1, <1>4, <1>p DEF DiscoveryInv, ListedOnce
<1>7. \A f \in (Folders \ {Root}) \cap visited' : Parent[f] \in visited'
  BY <1>1, <1>p DEF DiscoveryInv, ListedOnce
<1> QED
  BY <1>1, <1>2, <1>5, <1>6, <1>7 DEF ListedOnce, DiscoveryInv

LEMMA ListedStep ==
  ASSUME SpaceAssumption, StoreAssumption, ~LiveMoves, DiscoveryInv, [Next]_vars
  PROVE  ListedOnce'
<1>p. Plain \subseteq Docs
  BY DEF Plain
<1>1. ASSUME UNCHANGED <<todo, visited, remote>>, pc' = "discover" => pc = "discover"
      PROVE  ListedOnce'
  BY <1>1 DEF DiscoveryInv, ListedOnce
<1>2. ASSUME todo' = {}, visited' = {}, pc' # "discover"
      PROVE  ListedOnce'
  BY <1>2 DEF ListedOnce
<1>3. ASSUME NEW d \in Docs, Edit(d)
      PROVE  ListedOnce'
  <2>1. \A x \in Docs : remote'[x].folder = remote[x].folder
    BY <1>3 DEF Edit, DiscoveryInv, TypeOK
  <2> QED
    BY <1>3, <1>p, <2>1 DEF Edit, runVars, DiscoveryInv, ListedOnce
<1>4. ASSUME NEW d \in Docs, NEW f \in Folders \cup {Gone}, Move(d, f)
      PROVE  ListedOnce'
  <2>1. CASE pc = "idle"
    BY <1>4, <2>1 DEF Move, runVars, DiscoveryInv, IdleIsEmpty, ListedOnce
  <2>2. CASE f = Gone
    <3>1. \A x \in Docs : remote'[x].folder \in {remote[x].folder, Gone}
      BY <1>4, <2>2 DEF Move, DiscoveryInv, TypeOK
    <3> QED
      BY <1>4, <1>p, <3>1 DEF Move, runVars, DiscoveryInv, ListedOnce
  <2> QED
    BY <1>4, <2>1, <2>2 DEF Move
<1>5. ASSUME NEW p \in Paths, LoseFile(p)
      PROVE  UNCHANGED <<todo, visited, remote, pc>>
  BY <1>5 DEF LoseFile, runVars, remoteVars
<1>6. CASE Begin
  <2>1. /\ todo' = Listing(Root) /\ visited' = {Root} /\ remote' = remote
    BY <1>6 DEF Begin
  <2>2. \A j \in Listing(Root) :
          /\ j.folder = Root /\ j.token \in Links \cup {j.target}
          /\ j.target \in Once =>
               /\ j.token = j.target
               /\ j.target \in Docs => remote[j.target].folder = Root
               /\ j.target \in Folders => j.target # Root /\ Parent[j.target] = Root
               /\ \A k \in Listing(Root) : j.target = k.target => j = k
    BY ListingIs DEF SpaceAssumption, DiscoveryInv
  <2>3. Root \in Folders /\ Root \notin Docs
    BY DEF SpaceAssumption, StoreAssumption
  <2>4. \A j \in Listing(Root) : j.target \in Once => j.target # Root
    BY <2>2, <2>3, <1>p DEF Once
  <2> QED
    BY <1>p, <2>1, <2>2, <2>3, <2>4 DEF ListedOnce
<1>7. ASSUME NEW i \in todo, DiscoverFolder(i)
      PROVE  ListedOnce'
  BY <1>7, ListedFolder
<1>8. ASSUME NEW i \in todo, Skip(i) \/ Plan(i)
      PROVE  ListedOnce'
  <2>1. /\ i.target \in Docs /\ Seen(i) /\ remote' = remote /\ pc' = pc /\ pc = "discover"
        /\ todo' = {} \/ todo' = todo \ {i}
    BY <1>8 DEF Skip, Plan, remoteVars
  <2> QED
    BY <2>1, ListedDocument
<1>9. EndDiscovery \/ OpenFile \/ WriteFile \/ RecordDownload \/ FailDownload \/ EndDownloads
        => UNCHANGED <<todo, visited, remote>> /\ pc' # "discover"
  BY DEF EndDiscovery, OpenFile, WriteFile, RecordDownload, FailDownload, EndDownloads, remoteVars
<1>10. \A t \in stale : DropStale(t) => UNCHANGED <<todo, visited, remote, pc>>
  BY DEF DropStale, remoteVars
<1>11. Complete \/ Abort => todo' = {} /\ visited' = {} /\ pc' # "discover"
  BY DEF Complete, Abort, Forget
<1>12. UNCHANGED vars => UNCHANGED <<todo, visited, remote, pc>>
  BY DEF vars, runVars, remoteVars
<1> QED
  BY <1>1, <1>2, <1>3, <1>4, <1>5, <1>6, <1>7, <1>8, <1>9, <1>10, <1>11, <1>12 DEF Next

-----------------------------------------------------------------------------
(* Versions.                                                               *)

LEMMA FutureOfRemote ==
  ASSUME TypeOK, NoneFromTheFuture, records' = records, todo' = todo, queue' = queue,
         NEW d \in Docs, Edit(d) \/ \E f \in Folders \cup {Gone} : Move(d, f)
  PROVE  NoneFromTheFuture'
<1>1. \A x \in Docs : remote[x].version \in Nat /\ remote'[x].version \in Nat
                      /\ remote'[x].version >= remote[x].version
  <2>1. \A x \in Docs : remote[x] \in [folder : Folders \cup {Gone}, version : Nat]
    BY DEF TypeOK
  <2>2. CASE Edit(d)
    <3>1. /\ \A x \in Docs \ {d} : remote'[x] = remote[x]
          /\ remote'[d].version = remote[d].version + 1
      BY <2>2, <2>1 DEF Edit, TypeOK
    <3> QED
      BY <2>1, <3>1
  <2>3. CASE \E f \in Folders \cup {Gone} : Move(d, f)
    <3>1. \A x \in Docs : remote'[x].version = remote[x].version
      BY <2>3, <2>1 DEF Move, TypeOK
    <3> QED
      BY <2>1, <3>1
  <2> QED
    BY <2>2, <2>3
<1>2. \A x \in Docs : records[x].time \in Nat
  BY DEF TypeOK, StoreTypeOK, Record, Tokens
<1>3. \A i \in todo : i.time \in Nat
  BY DEF TypeOK, Items
<1>4. \A n \in 1..Len(queue) : queue[n].time \in Nat /\ queue[n].target \in Docs
  <2>1. \A n \in 1..Len(queue) : queue[n] \in Downloads
    BY DEF TypeOK
  <2> QED
    BY <2>1 DEF Downloads, Items
<1>5. \A x \in Docs : 1 <= remote'[x].version /\ records'[x].time <= remote'[x].version
  BY <1>1, <1>2 DEF NoneFromTheFuture
<1>6. \A i \in todo' : i.target \in Docs => i.time <= remote'[i.target].version
  BY <1>1, <1>3 DEF NoneFromTheFuture
<1>7. \A n \in 1..Len(queue') : queue'[n].time <= remote'[queue'[n].target].version
  BY <1>1, <1>4 DEF NoneFromTheFuture
<1> QED
  BY <1>5, <1>6, <1>7 DEF NoneFromTheFuture

LEMMA FutureStep ==
  ASSUME SpaceAssumption, StoreAssumption, TypeOK, NoneFromTheFuture, [Next]_vars
  PROVE  NoneFromTheFuture'
<1>q. TypeOK /\ queue \in Seq(Downloads)
  BY DEF TypeOK
<1>0. \A d \in Docs : d \in Tokens /\ d \notin Folders /\ records[d].time \in Nat
  BY <1>q DEF TypeOK, StoreTypeOK, StoreAssumption, Tokens, Record
<1>r. ASSUME \A d \in Docs : records'[d].time <= remote[d].version,
             remote' = remote, todo' \subseteq todo,
             queue' = queue \/ (queue # <<>> /\ queue' = Tail(queue)) \/ queue' = <<>>
      PROVE  NoneFromTheFuture'
  <2>1. \A i \in todo' : i.target \in Docs => i.time <= remote'[i.target].version
    BY <1>r DEF NoneFromTheFuture
  <2>2. \A n \in 1..Len(queue') : \E m \in 1..Len(queue) : queue'[n] = queue[m]
    <3>1. CASE queue' = queue
      BY <3>1
    <3>2. CASE queue # <<>> /\ queue' = Tail(queue)
      <4>1. \A n \in 1..Len(queue') : queue'[n] = queue[n + 1] /\ n + 1 \in 1..Len(queue)
        BY <3>2, <1>q
      <4> QED
        BY <4>1
    <3>3. CASE queue' = <<>>
      BY <3>3
    <3> QED
      BY <1>r, <3>1, <3>2, <3>3
  <2>3. \A n \in 1..Len(queue') : queue'[n].time <= remote'[queue'[n].target].version
    BY <1>r, <2>2 DEF NoneFromTheFuture
  <2> QED
    BY <1>r, <2>1, <2>3 DEF NoneFromTheFuture
<1>1. ASSUME NEW d \in Docs, Edit(d) \/ \E f \in Folders \cup {Gone} : Move(d, f)
      PROVE  NoneFromTheFuture'
  <2>1. records' = records /\ todo' = todo /\ queue' = queue
    BY <1>1 DEF Edit, Move, runVars
  <2> QED
    BY <1>1, <1>q, <2>1, FutureOfRemote
<1>2. ASSUME NEW f \in Folders, NEW h, MarkFolder(f, h)
      PROVE  \A d \in Docs : records'[d].time <= remote[d].version
  BY <1>0, <1>2, <1>q DEF MarkFolder, NoneFromTheFuture, TypeOK, StoreTypeOK
<1>3. ASSUME NEW x \in Docs, NEW n, NEW f, n <= remote[x].version,
             MarkSynced(x, n, f) \/ MarkMissing(x, n, f)
      PROVE  \A d \in Docs : records'[d].time <= remote[d].version
  <2>1. /\ \A d \in Docs \ {x} : records'[d] = records[d]
        /\ records'[x].time = n
    <3>1. CASE MarkSynced(x, n, f)
      BY <3>1, <1>0, <1>q DEF MarkSynced, TypeOK, StoreTypeOK
    <3>2. CASE MarkMissing(x, n, f)
      <4>1. records[x] \in Record
        BY <1>0, <1>q DEF TypeOK, StoreTypeOK
      <4>2. records' = [records EXCEPT ![x] =
                          [records[x] EXCEPT !.status = "missing", !.parent = f, !.time = n]]
        BY <3>2, <1>0, <1>q DEF MarkMissing, TypeOK, StoreTypeOK
      <4> QED
        BY <4>1, <4>2, <1>0, <1>q DEF TypeOK, StoreTypeOK, Record
    <3> QED
      BY <1>3, <3>1, <3>2
  <2> QED
    BY <1>3, <2>1 DEF NoneFromTheFuture
<1>4. CASE Begin
  <2>1. /\ \A d \in Docs : records'[d].time <= remote[d].version
        /\ todo' = Listing(Root) /\ remote' = remote /\ queue' = queue
    BY <1>4, <1>2 DEF Begin, SpaceAssumption
  <2>2. \A i \in Listing(Root) : i.target \in Docs => i.time <= remote[i.target].version
    BY ListingIs DEF SpaceAssumption
  <2>3. \A i \in todo' : i.target \in Docs => i.time <= remote[i.target].version
    BY <2>1, <2>2
  <2> QED
    BY <2>1, <2>3 DEF NoneFromTheFuture
<1>5. ASSUME NEW i \in todo, DiscoverFolder(i)
      PROVE  NoneFromTheFuture'
  <2>1. /\ \A d \in Docs : records'[d].time <= remote[d].version
        /\ todo' = (todo \ {i}) \cup Listing(i.target) /\ remote' = remote /\ queue' = queue
    BY <1>5, <1>2 DEF DiscoverFolder, remoteVars
  <2>2. \A j \in Listing(i.target) : j.target \in Docs => j.time <= remote[j.target].version
    BY <1>5, ListingIs DEF DiscoverFolder
  <2>3. \A j \in todo' : j.target \in Docs => j.time <= remote[j.target].version
    BY <2>1, <2>2 DEF NoneFromTheFuture
  <2> QED
    BY <2>1, <2>3 DEF NoneFromTheFuture
<1>6. ASSUME NEW i \in todo, Skip(i)
      PROVE  NoneFromTheFuture'
  <2>1. /\ i.target \in Docs /\ i.time <= remote[i.target].version
        /\ MarkSynced(i.target, i.time, i.folder)
        /\ todo' \subseteq todo /\ remote' = remote /\ queue' = queue
    BY <1>6 DEF Skip, remoteVars, NoneFromTheFuture
  <2> QED
    BY <2>1, <1>3, <1>r
<1>7. ASSUME NEW i \in todo, Plan(i)
      PROVE  NoneFromTheFuture'
  <2>1. /\ i.target \in Docs /\ i.time <= remote[i.target].version /\ i \in Downloads
        /\ queue' = Append(queue, i)
        /\ todo' \subseteq todo /\ remote' = remote /\ records' = records
    BY <1>7, <1>q DEF Plan, remoteVars, NoneFromTheFuture, TypeOK, Downloads
  <2>2. \A n \in 1..Len(queue') : queue'[n] = i \/ \E m \in 1..Len(queue) : queue'[n] = queue[m]
    BY <2>1, <1>q
  <2>3. \A n \in 1..Len(queue') : queue'[n].time <= remote'[queue'[n].target].version
    BY <2>1, <2>2 DEF NoneFromTheFuture
  <2> QED
    BY <2>1, <2>3 DEF NoneFromTheFuture
<1>8. CASE RecordDownload \/ FailDownload
  <2>1. queue # <<>>
    BY <1>8, <1>q DEF RecordDownload, FailDownload, TypeOK
  <2>2. Item.target \in Docs /\ Item.time <= remote[Item.target].version
    <3>1. Item = queue[1] /\ 1 \in 1..Len(queue)
      BY <2>1, <1>q DEF Item
    <3> QED
      BY <2>1, <3>1, <1>q, HeadType DEF NoneFromTheFuture
  <2>3. /\ \/ MarkSynced(Item.target, Item.time, Item.folder)
           \/ MarkMissing(Item.target, Item.time, Item.folder)
        /\ todo' = todo /\ remote' = remote /\ queue' = Tail(queue)
    BY <1>8 DEF RecordDownload, FailDownload, remoteVars
  <2>4. \A d \in Docs : records'[d].time <= remote[d].version
    BY <2>2, <2>3, <1>3
  <2> QED
    BY <2>1, <2>3, <2>4, <1>r
<1>9. ASSUME NEW t \in stale, DropStale(t)
      PROVE  NoneFromTheFuture'
  <2>1. todo' = todo /\ remote' = remote /\ queue' = queue
    BY <1>9 DEF DropStale, remoteVars
  <2>2. t \in Tokens
    BY <1>q DEF TypeOK
  <2>3. \A d \in Docs : remote[d].version \in Nat
    BY <1>q DEF TypeOK
  <2>4. \A d \in Docs : records'[d].time <= remote[d].version
    <3>1. CASE MarkDeleted(t)
      BY <3>1, <1>0, <1>q, <2>2 DEF MarkDeleted, NoneFromTheFuture, TypeOK, StoreTypeOK, Record
    <3>2. CASE Remove(t)
      BY <3>2, <1>0, <1>q, <2>2, <2>3 DEF Remove, NoRecord, NoneFromTheFuture, TypeOK, StoreTypeOK
    <3> QED
      BY <1>9, <3>1, <3>2 DEF DropStale
  <2> QED
    BY <2>1, <2>4, <1>r
<1>10. Complete \/ Abort => records' = records /\ remote' = remote /\ todo' = {} /\ queue' = <<>>
  BY DEF Complete, Abort, Forget
<1>11. ASSUME NEW p \in Paths, LoseFile(p)
       PROVE  UNCHANGED <<records, remote, todo, queue>>
  BY <1>11 DEF LoseFile, runVars, remoteVars
<1>12. EndDiscovery \/ OpenFile \/ WriteFile \/ EndDownloads \/ UNCHANGED vars
         => UNCHANGED <<records, remote, todo, queue>>
  BY DEF EndDiscovery, OpenFile, WriteFile, EndDownloads, vars, runVars, remoteVars
<1>13. UNCHANGED records => \A d \in Docs : records'[d].time <= remote[d].version
  BY DEF NoneFromTheFuture
<1> QED
  BY <1>r, <1>1, <1>4, <1>5, <1>6, <1>7, <1>8, <1>9, <1>10, <1>11, <1>12, <1>13 DEF Next

-----------------------------------------------------------------------------
(* Records and files.                                                      *)

LEMMA FetchedStep ==
  ASSUME SpaceAssumption, StoreAssumption, Inv, [Next]_vars
  PROVE  FetchedIsNewer'
<1>q. TypeOK /\ queue \in Seq(Downloads)
  BY DEF Inv, DiscoveryInv, TypeOK
<1>r. ASSUME UNCHANGED <<pc, queue, fetched, records, disk>>
      PROVE  FetchedIsNewer'
  <2>1. Item' = Item /\ File' = File
    BY <1>r DEF Item, File
  <2> QED
    BY <1>r, <2>1 DEF Inv, FetchedIsNewer
<1>1. CASE OpenFile
  <2>1. Item = queue[1] /\ 1 \in 1..Len(queue) /\ Item.target \in Docs
    BY <1>1, <1>q, HeadType DEF OpenFile, Item
  <2>2. /\ Item.time <= remote[Item.target].version
        /\ records[Item.target].time <= remote[Item.target].version
        /\ 1 <= remote[Item.target].version
    BY <2>1 DEF Inv, NoneFromTheFuture
  <2>3. Item' = Item /\ records' = records /\ pc' = "open" /\ fetched' = remote[Item.target].version
    BY <1>1 DEF OpenFile, Item
  <2>4. /\ remote[Item.target].version \in Nat /\ Item.time \in Nat
        /\ records[Item.target].time \in Nat
    BY SMTT(30), <1>1, <2>1, <1>q, HeadType DEF OpenFile, TypeOK, StoreTypeOK, Tokens, Record
  <2> QED
    BY <2>2, <2>3, <2>4 DEF FetchedIsNewer
<1>2. CASE WriteFile
  <2>1. /\ Item' = Item /\ File' = File /\ records' = records /\ pc' = "written"
        /\ fetched' = fetched
    BY <1>2 DEF WriteFile, Item, File
  <2>2. File \in Paths
    BY <1>2, <1>q, HeadType DEF WriteFile, TypeOK
  <2>3. disk'[File] = fetched
    BY <1>2, <1>q, <2>2 DEF WriteFile, TypeOK, StoreTypeOK
  <2> QED
    BY <1>2, <2>1, <2>3 DEF WriteFile, Inv, FetchedIsNewer
<1>3. ASSUME NEW d \in Docs, Edit(d) \/ \E f \in Folders \cup {Gone} : Move(d, f)
      PROVE  UNCHANGED <<pc, queue, fetched, records, disk>>
  BY <1>3 DEF Edit, Move, runVars
<1>4. ASSUME NEW p \in Paths, LoseFile(p)
      PROVE  pc' \notin {"open", "written"}
  BY <1>4 DEF LoseFile, runVars
<1>5. ASSUME NEW i \in todo, DiscoverFolder(i) \/ Skip(i) \/ Plan(i)
      PROVE  pc' \notin {"open", "written"}
  BY <1>5 DEF DiscoverFolder, Skip, Plan
<1>6. ASSUME NEW t \in stale, DropStale(t)
      PROVE  pc' \notin {"open", "written"}
  BY <1>6 DEF DropStale
<1>7. Begin \/ EndDiscovery \/ RecordDownload \/ FailDownload \/ EndDownloads \/ Complete \/ Abort
        => pc' \notin {"open", "written"}
  BY DEF Begin, EndDiscovery, RecordDownload, FailDownload, EndDownloads, Complete, Abort, Forget
<1>8. UNCHANGED vars => UNCHANGED <<pc, queue, fetched, records, disk>>
  BY DEF vars, runVars
<1>9. pc' \notin {"open", "written"} => FetchedIsNewer'
  BY DEF FetchedIsNewer
<1> QED
  BY <1>r, <1>1, <1>2, <1>3, <1>4, <1>5, <1>6, <1>7, <1>8, <1>9 DEF Next

(* A file that is removed or begun again is no evidence of anything.       *)
LEMMA BackedByLess ==
  ASSUME TypeOK, OkIsBacked,
         \A d \in Docs : records'[d] = records[d] \/ records'[d].status # "ok",
         \A p \in Paths : disk'[p] \in {disk[p], Absent, Partial}
  PROVE  OkIsBacked'
<1>1. \A r \in Paths : disk[r] \in Int /\ disk'[r] \in Int /\ disk'[r] >= Partial
                       /\ (disk'[r] > 0 => disk'[r] = disk[r])
  BY DEF TypeOK, StoreTypeOK, OkIsBacked, Absent, Partial, Contents
<1>2. ASSUME NEW d \in Plain, records'[d].status = "ok"
      PROVE  /\ records'[d].parent \in Folders
             /\ records'[d].size = "full"
             /\ disk'[<<records'[d].parent, d>>] > 0
                  => disk'[<<records'[d].parent, d>>] >= records'[d].time
  <2>0. records'[d] = records[d]
    BY <1>2, PlainIs
  <2>1. <<records[d].parent, d>> \in Paths
    BY <1>2, <2>0, PlainIs DEF OkIsBacked, Paths
  <2> QED
    BY <1>1, <1>2, <2>0, <2>1 DEF OkIsBacked
<1> QED
  BY <1>1, <1>2 DEF OkIsBacked

(* A record written over complete content that is new enough is backed.    *)
LEMMA BackedByMark ==
  ASSUME TypeOK, OkIsBacked, disk' = disk, NEW x \in Docs, NEW f \in Folders, NEW n \in Nat,
         \/ MarkMissing(x, n, f)
         \/ /\ MarkSynced(x, n, f)
            /\ x \in Plain => Size(disk[<<f, x>>]) = "full"
                              /\ (disk[<<f, x>>] > 0 => disk[<<f, x>>] >= n)
  PROVE  OkIsBacked'
<1>0. x \in Tokens /\ records \in [Tokens -> Record] /\ records[x] \in Record
      /\ \A d \in Docs : d \in Tokens
  BY DEF TypeOK, StoreTypeOK, Tokens
<1>1. CASE MarkMissing(x, n, f)
  <2>1. /\ \A d \in Docs \ {x} : records'[d] = records[d]
        /\ records'[x].status = "missing"
    <3>1. records' = [records EXCEPT ![x] =
                        [records[x] EXCEPT !.status = "missing", !.parent = f, !.time = n]]
      BY <1>0, <1>1 DEF MarkMissing
    <3> QED
      BY <1>0, <3>1 DEF Record
  <2> QED
    BY <2>1, PlainIs DEF OkIsBacked
<1>2. CASE /\ MarkSynced(x, n, f)
           /\ x \in Plain => Size(disk[<<f, x>>]) = "full"
                             /\ (disk[<<f, x>>] > 0 => disk[<<f, x>>] >= n)
  <2>1. /\ \A d \in Docs \ {x} : records'[d] = records[d]
        /\ records'[x] = [status |-> "ok", parent |-> f, path |-> <<f, x>>, time |-> n,
                          size |-> Size(disk[<<f, x>>])]
    BY <1>0, <1>2 DEF MarkSynced
  <2>2. /\ records'[x].parent = f /\ records'[x].time = n
        /\ x \in Plain => records'[x].size = "full"
    BY <1>2, <2>1
  <2>3. x \in Plain /\ disk'[<<records'[x].parent, x>>] > 0
          => disk'[<<records'[x].parent, x>>] >= records'[x].time
    BY <1>2, <2>2
  <2> QED
    BY <2>1, <2>2, <2>3, PlainIs DEF OkIsBacked
<1> QED
  BY <1>1, <1>2

LEMMA BackedStep ==
  ASSUME SpaceAssumption, StoreAssumption, ForceOnMissing, Inv, [Next]_vars
  PROVE  OkIsBacked'
<1>q. TypeOK /\ OkIsBacked
  BY DEF Inv, DiscoveryInv
<1>0. \A d \in Docs : d \in Tokens /\ d \notin Folders
  BY DEF Tokens, StoreAssumption
<1>r. ASSUME NEW f, NEW h, f \in Folders, MarkFolder(f, h)
      PROVE  \A d \in Docs : records'[d] = records[d]
  BY <1>r, <1>0, <1>q DEF MarkFolder, TypeOK, StoreTypeOK
<1>1. CASE Begin
  <2>1. disk' = disk /\ \A d \in Docs : records'[d] = records[d]
    BY <1>1, <1>r DEF Begin, SpaceAssumption
  <2> QED
    BY <2>1, <1>q, BackedByLess
<1>2. ASSUME NEW i \in todo, DiscoverFolder(i)
      PROVE  OkIsBacked'
  <2>1. disk' = disk /\ \A d \in Docs : records'[d] = records[d]
    BY <1>2, <1>r DEF DiscoverFolder
  <2> QED
    BY <2>1, <1>q, BackedByLess
<1>3. ASSUME NEW i \in todo, Skip(i)
      PROVE  OkIsBacked'
  <2>1. i \in Items /\ i.target \in Docs /\ (i.target \in Plain => i.target \notin visited)
    BY <1>3, <1>q DEF Skip, TypeOK, Inv, DiscoveryInv, ListedOnce, Once
  <2>2. /\ disk' = disk /\ MarkSynced(i.target, i.time, i.folder)
        /\ i.target \in Plain => ~MustDownload(i.target, i.time, i.folder, mode.incremental)
    BY <1>3, <2>1 DEF Skip
  <2>3. i.folder \in Folders /\ i.time \in Nat /\ <<i.folder, i.target>> \in Paths
    BY <2>1 DEF Items, Paths
  <2> DEFINE c == disk[<<i.folder, i.target>>]
  <2>4. i.target \in Plain =>
          /\ records[i.target].status = "ok" /\ c # Absent
          /\ records[i.target].parent = i.folder /\ records[i.target].time = i.time
          /\ records[i.target].size = "unknown" \/ records[i.target].size = Size(c)
    BY <2>2 DEF MustDownload, Forced, FileChanged
  <2>5. i.target \in Plain => Size(c) = "full" /\ (c > 0 => c >= i.time)
    BY <2>1, <2>4, <1>q DEF OkIsBacked
  <2> QED
    BY <1>q, <2>1, <2>2, <2>3, <2>5, BackedByMark
<1>4. CASE RecordDownload
  <2>1. queue # <<>> /\ pc = "written" /\ disk' = disk
        /\ MarkSynced(Item.target, Item.time, Item.folder)
    BY <1>4, <1>q DEF RecordDownload, TypeOK
  <2>2. Item.target \in Docs /\ Item.folder \in Folders /\ Item.time \in Nat
    BY <2>1, <1>q, HeadType
  <2>3. disk[File] = fetched /\ fetched >= 1 /\ fetched >= Item.time /\ fetched \in Nat
    BY <2>1, <1>q DEF Inv, FetchedIsNewer, TypeOK
  <2>4. Size(disk[File]) = "full"
    BY <2>3 DEF Size, Absent, Partial
  <2>5. MarkSynced(Item.target, Item.time, Item.folder)
          /\ Size(disk[<<Item.folder, Item.target>>]) = "full"
          /\ (disk[<<Item.folder, Item.target>>] > 0 => disk[<<Item.folder, Item.target>>] >= Item.time)
    BY <2>1, <2>3, <2>4 DEF File
  <2> QED
    BY <1>q, <2>1, <2>2, <2>5, BackedByMark
<1>5. CASE FailDownload
  <2>1. /\ disk' = disk /\ MarkMissing(Item.target, Item.time, Item.folder)
        /\ Item.target \in Docs /\ Item.folder \in Folders /\ Item.time \in Nat
    BY <1>5, <1>q, HeadType DEF FailDownload
  <2> QED
    BY <1>q, <2>1, BackedByMark
<1>6. CASE OpenFile
  <2>1. records' = records /\ \A p \in Paths : disk'[p] \in {disk[p], Partial}
    BY <1>6, <1>q DEF OpenFile, TypeOK, StoreTypeOK
  <2> QED
    BY <1>q, <2>1, BackedByLess
<1>7. CASE WriteFile
  <2>1. /\ Item.target \in Docs /\ Item.folder \in Folders /\ File \in Paths
        /\ File = <<Item.folder, Item.target>>
    BY <1>7, <1>q, HeadType DEF WriteFile, TypeOK, File
  <2>2. records' = records /\ disk' = [disk EXCEPT ![File] = fetched]
    BY <1>7 DEF WriteFile
  <2>3. fetched >= records[Item.target].time /\ fetched >= 1 /\ fetched \in Nat
    BY <1>7, <1>q DEF WriteFile, Inv, FetchedIsNewer, TypeOK
  <2>4. \A p \in Paths : disk'[p] = (IF p = File THEN fetched ELSE disk[p])
    BY <2>2, <1>q DEF TypeOK, StoreTypeOK
  <2>5. \A p \in Paths : disk'[p] >= Partial
    BY <2>3, <2>4, <1>q DEF OkIsBacked, Partial
  <2>6. ASSUME NEW d \in Plain, records'[d].status = "ok"
        PROVE  /\ records'[d].parent \in Folders
               /\ records'[d].size = "full"
               /\ disk'[<<records'[d].parent, d>>] > 0
                    => disk'[<<records'[d].parent, d>>] >= records'[d].time
    <3> DEFINE p == <<records[d].parent, d>>
    <3>1. /\ records[d].parent \in Folders /\ records[d].size = "full" /\ p \in Paths
          /\ disk[p] > 0 => disk[p] >= records[d].time
      BY <2>2, <2>6, <1>q, PlainIs DEF OkIsBacked, Paths
    <3>2. CASE p = File
      <4>1. d = Item.target
        BY <3>2, <2>1
      <4> QED
        BY <2>2, <2>3, <2>4, <3>1, <3>2, <4>1
    <3>3. CASE p # File
      BY <2>2, <2>4, <3>1, <3>3
    <3> QED
      BY <3>2, <3>3
  <2> QED
    BY <2>5, <2>6 DEF OkIsBacked
<1>8. ASSUME NEW p \in Paths, LoseFile(p)
      PROVE  OkIsBacked'
  <2>1. records' = records /\ \A r \in Paths : disk'[r] \in {disk[r], Absent}
    BY <1>8, <1>q DEF LoseFile, TypeOK, StoreTypeOK
  <2> QED
    BY <1>q, <2>1, BackedByLess
<1>9. ASSUME NEW t \in stale, DropStale(t)
      PROVE  OkIsBacked'
  <2>1. t \in Tokens
    BY <1>q DEF TypeOK
  <2>2. \A p \in Paths : disk'[p] \in {disk[p], Absent}
    BY <1>9 DEF DropStale
  <2>3. \A d \in Docs : records'[d] = records[d] \/ records'[d].status # "ok"
    <3>1. CASE MarkDeleted(t)
      <4>1. records' = [records EXCEPT ![t] = [records[t] EXCEPT !.status = "deleted"]]
        BY <3>1, <2>1, <1>q DEF MarkDeleted, TypeOK, StoreTypeOK
      <4>2. [records[t] EXCEPT !.status = "deleted"].status = "deleted"
        BY <2>1, <1>q DEF TypeOK, StoreTypeOK, Record
      <4> QED
        BY <4>1, <4>2, <1>0, <2>1, <1>q DEF TypeOK, StoreTypeOK
    <3>2. CASE Remove(t)
      BY <3>2, <1>0, <2>1, <1>q DEF Remove, NoRecord, TypeOK, StoreTypeOK
    <3> QED
      BY <1>9, <3>1, <3>2 DEF DropStale
  <2> QED
    BY <1>q, <2>2, <2>3, BackedByLess
<1>10. ASSUME NEW d \in Docs, Edit(d) \/ \E f \in Folders \cup {Gone} : Move(d, f)
       PROVE  UNCHANGED <<records, disk>>
  BY <1>10 DEF Edit, Move
<1>11. ASSUME NEW i \in todo, Plan(i)
       PROVE  UNCHANGED <<records, disk>>
  BY <1>11 DEF Plan
<1>12. EndDiscovery \/ EndDownloads \/ Complete \/ Abort \/ UNCHANGED vars
         => UNCHANGED <<records, disk>>
  BY DEF EndDiscovery, EndDownloads, Complete, Abort, vars
<1>13. UNCHANGED <<records, disk>> => OkIsBacked'
  BY <1>q DEF OkIsBacked
<1> QED
  BY <1>1, <1>2, <1>3, <1>4, <1>5, <1>6, <1>7, <1>8, <1>9, <1>10, <1>11, <1>12, <1>13 DEF Next

LEMMA SkippedByInv ==
  ASSUME ForceOnMissing, Inv
  PROVE  SkippedIsCurrent
<1> SUFFICES ASSUME NEW d \in Plain, remote[d].folder # Gone,
                    ~MustDownload(d, remote[d].version, remote[d].folder, TRUE)
             PROVE  disk[<<remote[d].folder, d>>] >= remote[d].version
  BY DEF SkippedIsCurrent
<1> DEFINE f == remote[d].folder
           c == disk[<<f, d>>]
<1>1. /\ records[d].status = "ok" /\ c # Absent
      /\ records[d].parent = f /\ records[d].time = remote[d].version
      /\ records[d].size = "unknown" \/ records[d].size = Size(c)
  BY DEF MustDownload, Forced, FileChanged
<1>2. records[d].size = "full" /\ (c > 0 => c >= records[d].time)
  BY <1>1 DEF Inv, OkIsBacked
<1>3. c # Partial
  BY <1>1, <1>2 DEF Size
<1>4. c \in Int /\ c >= Partial
  <2>1. <<f, d>> \in Paths
    BY PlainIs DEF Inv, DiscoveryInv, TypeOK, Paths
  <2> QED
    BY <2>1 DEF Inv, DiscoveryInv, TypeOK, StoreTypeOK, Contents, OkIsBacked
<1> QED
  BY <1>1, <1>2, <1>3, <1>4 DEF Absent, Partial

LEMMA InvHolds == ASSUME ~LiveMoves, ForceOnMissing PROVE Spec => []Inv
<1>1. Init => Inv
  <2> SUFFICES ASSUME Init PROVE Inv
    OBVIOUS
  <2>1. TypeOK
    BY TypeInit, SpaceAssumption
  <2>2. IdleIsEmpty /\ ListedOnce
    BY DEF Init, IdleIsEmpty, ListedOnce
  <2>3. NoneFromTheFuture
    <3>1. \A d \in Docs : remote[d].version = 1 /\ records[d].time = 0
      BY DEF Init, StoreInit, NoRecord, Tokens
    <3> QED
      BY <3>1 DEF Init, NoneFromTheFuture
  <2>4. FetchedIsNewer /\ OkIsBacked
    BY PlainIs DEF Init, FetchedIsNewer, OkIsBacked, StoreInit, NoRecord, Tokens, Absent, Partial
  <2> QED
    BY <2>1, <2>2, <2>3, <2>4 DEF Inv, DiscoveryInv
<1>2. Inv /\ [Next]_vars => Inv'
  <2> SUFFICES ASSUME Inv, [Next]_vars PROVE Inv'
    OBVIOUS
  <2>1. TypeOK'
    BY TypeStep, SpaceAssumption, StoreAssumption DEF Inv, DiscoveryInv
  <2>2. IdleIsEmpty'
    <3>1. Complete \/ Abort => queue' = <<>> /\ todo' = {} /\ visited' = {}
      BY DEF Complete, Abort, Forget
    <3>2. \A d \in Docs : Edit(d) \/ (\E f \in Folders \cup {Gone} : Move(d, f))
            => UNCHANGED <<pc, queue, todo, visited>>
      BY DEF Edit, Move, runVars
    <3>3. \A p \in Paths : LoseFile(p) => UNCHANGED <<pc, queue, todo, visited>>
      BY DEF LoseFile, runVars
    <3>4. \A i \in todo : DiscoverFolder(i) \/ Skip(i) \/ Plan(i) => pc' # "idle"
      BY DEF DiscoverFolder, Skip, Plan
    <3>5. Begin \/ EndDiscovery \/ OpenFile \/ WriteFile \/ RecordDownload \/ FailDownload
            \/ EndDownloads => pc' # "idle"
      BY DEF Begin, EndDiscovery, OpenFile, WriteFile, RecordDownload, FailDownload, EndDownloads
    <3>6. \A t \in stale : DropStale(t) => pc' # "idle"
      BY DEF DropStale
    <3>7. UNCHANGED vars => UNCHANGED <<pc, queue, todo, visited>>
      BY DEF vars, runVars
    <3> QED
      BY <3>1, <3>2, <3>3, <3>4, <3>5, <3>6, <3>7 DEF Inv, DiscoveryInv, IdleIsEmpty, Next
  <2>3. ListedOnce'
    BY ListedStep, SpaceAssumption, StoreAssumption DEF Inv
  <2>4. NoneFromTheFuture'
    BY FutureStep, SpaceAssumption, StoreAssumption DEF Inv, DiscoveryInv
  <2>5. FetchedIsNewer'
    BY FetchedStep, SpaceAssumption, StoreAssumption
  <2>6. OkIsBacked'
    BY BackedStep, SpaceAssumption, StoreAssumption
  <2> QED
    BY <2>1, <2>2, <2>3, <2>4, <2>5, <2>6 DEF Inv, DiscoveryInv
<1> QED
  BY <1>1, <1>2, PTL DEF Spec

(* What an incremental run would skip is up to date on the disk, whatever  *)
(* the runs before it planned, wrote, failed to write or were aborted in:  *)
(* with missing files forced, for documents no shortcut stands for, and    *)
(* with no document moved under a discovery.                               *)
THEOREM NothingIsMissed ==
  ASSUME ~LiveMoves, ForceOnMissing
  PROVE  Spec => []SkippedIsCurrent
<1>1. Inv => SkippedIsCurrent
  BY SkippedByInv
<1> QED
  BY <1>1, InvHolds, PTL
-----------------------------------------------------------------------------
(* What a run sees.  Unless the limit cuts it short, the discovery has     *)
(* seen or still has to handle every folder below a folder it has visited, *)
(* and every document that stayed where it was.                            *)

Listed(t) == \E i \in todo : i.target = t

Reached ==
  pc # "idle" /\ ~truncated =>
    /\ Root \in visited
    /\ \A f \in Folders \ {Root} : Parent[f] \in visited => f \in visited \/ Listed(f)
    /\ \A k \in kept : remote[k.doc].folder \in visited => k.doc \in current \/ Listed(k.doc)

Looking ==
  /\ pc # "discover" \/ truncated => todo = {}
  /\ pc = "idle" => ~truncated
  /\ \A i \in todo : i.token \in Links \cup {i.target}
  /\ \A k \in kept : remote[k.doc].folder \in Folders
  /\ pc = "cleanup" => stale \cap current = {}
  /\ Reached

LEMMA ReachedKeeps ==
  ASSUME Reached, pc # "idle", visited' = visited, todo' = todo, current \subseteq current',
         truncated' = truncated, kept' \subseteq kept,
         \A k \in kept' : remote'[k.doc].folder = remote[k.doc].folder
  PROVE  Reached'
BY DEF Reached, Listed

LEMMA LookingKeeps ==
  ASSUME Looking, UNCHANGED <<pc, todo, visited, current, truncated, stale>>,
         kept' \subseteq kept,
         \A k \in kept' : remote'[k.doc].folder = remote[k.doc].folder
  PROVE  Looking'
<1>1. CASE pc = "idle"
  BY <1>1 DEF Looking, Reached
<1>2. CASE pc # "idle"
  BY <1>2, ReachedKeeps DEF Looking
<1> QED
  BY <1>1, <1>2

(* What lists a folder lists all that is in it.                            *)
LEMMA ListingLists ==
  ASSUME SpaceAssumption, NEW f \in Folders
  PROVE  /\ \A i \in Listing(f) : i.token \in Links \cup {i.target}
         /\ \A g \in Folders \ {Root} : Parent[g] = f => \E i \in Listing(f) : i.target = g
         /\ \A d \in Docs : remote[d].folder = f => \E i \in Listing(f) : i.target = d
<1>1. ASSUME NEW g \in Folders \ {Root}, Parent[g] = f
      PROVE  \E i \in Listing(f) : i.target = g
  <2>1. [token |-> g, target |-> g, folder |-> f, time |-> 0] \in Listing(f)
    BY <1>1 DEF Listing
  <2> QED
    BY <2>1
<1>2. ASSUME NEW d \in Docs, remote[d].folder = f
      PROVE  \E i \in Listing(f) : i.target = d
  <2>1. [token |-> d, target |-> d, folder |-> f, time |-> remote[d].version] \in Listing(f)
    BY <1>2 DEF Listing
  <2> QED
    BY <2>1
<1>3. \A i \in Listing(f) : i.token \in Links \cup {i.target}
  BY DEF Listing
<1> QED
  BY <1>1, <1>2, <1>3

LEMMA LookingFolder ==
  ASSUME SpaceAssumption, TypeOK, Looking, NEW i \in todo, DiscoverFolder(i)
  PROVE  Looking'
<1> DEFINE g == i.target
<1>1. /\ g \in Folders /\ pc = "discover" /\ pc' = "discover"
      /\ todo' = (todo \ {i}) \cup Listing(g)
      /\ visited' = visited \cup {g} /\ current' = current \cup {g}
      /\ truncated' = truncated /\ remote' = remote /\ kept' = kept /\ stale' = stale
  BY DEF DiscoverFolder, remoteVars
<1>2. /\ \A j \in Listing(g) : j.token \in Links \cup {j.target}
      /\ \A h \in Folders \ {Root} : Parent[h] = g => Listed(h)'
      /\ \A d \in Docs : remote[d].folder = g => Listed(d)'
  BY <1>1, ListingLists DEF Listed
<1>3. \A t : Listed(t) => Listed(t)' \/ t = g
  BY <1>1 DEF Listed
<1>4. \A k \in kept : k.doc \in Docs
  BY DEF TypeOK
<1>5. Reached'
  BY <1>1, <1>2, <1>3, <1>4 DEF Reached, Looking
<1> QED
  BY <1>1, <1>2, <1>5 DEF Looking

LEMMA LookingDocument ==
  ASSUME SpaceAssumption, StoreAssumption, TypeOK, Looking, NEW i \in todo, Skip(i) \/ Plan(i)
  PROVE  Looking'
<1>1. /\ i.target \in Docs /\ i.token \in Links \cup {i.target}
      /\ pc = "discover" /\ pc' = "discover"
      /\ todo' \subseteq todo /\ (~truncated' => todo' = todo \ {i} /\ ~truncated)
      /\ truncated' => todo' = {}
      /\ visited' = visited \cup {i.token, i.target}
      /\ current' = current \cup {i.token, i.target}
      /\ remote' = remote /\ kept' = kept /\ stale' = stale
  <2>1. CASE Skip(i)
    BY <2>1 DEF Skip, Seen, remoteVars, Looking
  <2>2. CASE Plan(i)
    <3>1. ~truncated' => ~truncated
      BY <2>2 DEF Looking, Plan
    <3> QED
      BY <2>2, <3>1 DEF Plan, Seen, remoteVars, Looking
  <2> QED
    BY <2>1, <2>2
<1>2. \A f \in Folders : f \in visited' => f \in visited
  BY <1>1 DEF SpaceAssumption, StoreAssumption
<1>3. \A f \in Folders \ {Root} : Parent[f] \in Folders
  BY DEF SpaceAssumption
<1>4. ASSUME ~truncated' PROVE \A t : Listed(t) => Listed(t)' \/ t = i.target
  BY <1>1, <1>4 DEF Listed
<1>5. Reached'
  BY <1>1, <1>2, <1>3, <1>4 DEF Reached, Looking
<1> QED
  BY <1>1, <1>5 DEF Looking

LEMMA LookingStep ==
  ASSUME SpaceAssumption, StoreAssumption, TypeOK, Looking, [Next]_vars
  PROVE  Looking'
<1> USE SpaceAssumption, StoreAssumption
<1>1. ASSUME NEW d \in Docs, Edit(d) \/ \E f \in Folders \cup {Gone} : Move(d, f)
      PROVE  Looking'
  <2>1. /\ UNCHANGED <<pc, todo, visited, current, truncated, stale>>
        /\ kept' \subseteq kept
    BY <1>1 DEF Edit, Move, runVars
  <2>2. ASSUME NEW k \in kept' PROVE remote'[k.doc].folder = remote[k.doc].folder
    <3>1. CASE Edit(d)
      BY <3>1, <2>1 DEF Edit, TypeOK
    <3>2. CASE \E f \in Folders \cup {Gone} : Move(d, f)
      BY <3>2, <2>1 DEF Move, TypeOK
    <3> QED
      BY <1>1, <3>1, <3>2
  <2> QED
    BY <2>1, <2>2, LookingKeeps
<1>2. ASSUME NEW p \in Paths, LoseFile(p)
      PROVE  Looking'
  BY <1>2, LookingKeeps DEF LoseFile, runVars, remoteVars
<1>3. CASE Begin
  <2>1. /\ pc' = "discover" /\ todo' = Listing(Root) /\ visited' = {Root} /\ remote' = remote
        /\ ~truncated'
        /\ \A k \in kept' : k.doc \in Docs /\ remote[k.doc].folder # Gone
    BY <1>3 DEF Begin, Looking
  <2>2. /\ \A i \in todo' : i.token \in Links \cup {i.target}
        /\ \A f \in Folders \ {Root} : Parent[f] = Root => Listed(f)'
        /\ \A d \in Docs : remote[d].folder = Root => Listed(d)'
    BY <2>1, ListingLists DEF SpaceAssumption, Listed
  <2>3. \A k \in kept' : remote'[k.doc].folder \in Folders
    BY <2>1 DEF TypeOK
  <2>4. Reached'
    BY <2>1, <2>2 DEF Reached
  <2> QED
    BY <2>1, <2>2, <2>3, <2>4 DEF Looking
<1>4. ASSUME NEW i \in todo, DiscoverFolder(i) \/ Skip(i) \/ Plan(i)
      PROVE  Looking'
  BY <1>4, LookingFolder, LookingDocument
<1>5. CASE EndDiscovery \/ OpenFile \/ WriteFile \/ RecordDownload \/ FailDownload \/ EndDownloads
  <2>1. /\ pc # "idle" /\ pc' \notin {"idle", "discover"} /\ todo = {}
        /\ UNCHANGED <<todo, visited, truncated, kept, remote>> /\ current \subseteq current'
        /\ pc' = "cleanup" => stale' \cap current' = {}
    BY <1>5 DEF EndDiscovery, OpenFile, WriteFile, RecordDownload, FailDownload, EndDownloads,
                remoteVars, Looking
  <2>2. Reached'
    BY <2>1, ReachedKeeps DEF Looking
  <2> QED
    BY <2>1, <2>2 DEF Looking
<1>6. ASSUME NEW t \in stale, DropStale(t)
      PROVE  Looking'
  <2>1. /\ pc # "idle" /\ stale' \subseteq stale
        /\ UNCHANGED <<pc, todo, visited, current, truncated, kept, remote>>
    BY <1>6 DEF DropStale, remoteVars
  <2>2. Reached'
    BY <2>1, ReachedKeeps DEF Looking
  <2> QED
    BY <2>1, <2>2 DEF Looking
<1>7. CASE Complete \/ Abort
  BY <1>7 DEF Complete, Abort, Forget, Looking, Reached
<1>8. CASE UNCHANGED vars
  BY <1>8, LookingKeeps DEF vars, runVars, remoteVars
<1> QED
  BY <1>1, <1>2, <1>3, <1>4, <1>5, <1>6, <1>7, <1>8 DEF Next

(* With nothing left to handle, every folder has been visited, and every   *)
(* document that stayed in its place has been seen.                        *)
LEMMA AllSeen ==
  ASSUME SpaceAssumption, TypeOK, Looking, pc \notin {"idle", "discover"}, ~truncated
  PROVE  Folders \subseteq visited /\ \A k \in kept : k.doc \in current
<1>1. /\ Root \in visited \cap Folders
      /\ \A f \in Folders \ {Root} : Parent[f] \in visited \cap Folders => f \in visited \cap Folders
  BY DEF Looking, Reached, Listed, SpaceAssumption
<1>2. visited \cap Folders = Folders
  <2>1. visited \cap Folders \in SUBSET Folders
    OBVIOUS
  <2> QED
    BY <1>1, <2>1 DEF SpaceAssumption
<1> QED
  BY <1>2 DEF Looking, Reached, Listed

(* Whatever shortcuts there are and whatever moves during the discovery,   *)
(* no run marks or removes the record of a document that was there all     *)
(* through, unless the limit cut the discovery short.                      *)
THEOREM NothingThereIsDropped == Spec => DeletedIsGone
<1>1. Init => Looking
  BY DEF Init, Looking, Reached
<1>2. TypeOK /\ Looking /\ [Next]_vars => Looking'
  BY LookingStep, SpaceAssumption, StoreAssumption
<1>3. TypeOK /\ Looking /\ [Next]_vars =>
        [\A k \in kept :
           ~truncated /\ records[k.doc].status \in {"ok", "missing"}
             => (records[k.doc].status \in {"ok", "missing"})']_vars
  <2> SUFFICES ASSUME TypeOK, Looking, [Next]_vars, NEW k \in kept, ~truncated,
                      records[k.doc].status \in {"ok", "missing"}
               PROVE  records'[k.doc].status \in {"ok", "missing"}
    OBVIOUS
  <2>0. /\ k.doc \in Docs /\ k.doc \in Tokens /\ k.doc \notin Folders
        /\ records \in [Tokens -> Record]
    BY StoreAssumption DEF TypeOK, StoreTypeOK, Tokens
  <2>1. ASSUME NEW f \in Folders, NEW h, MarkFolder(f, h)
        PROVE  records'[k.doc] = records[k.doc]
    BY <2>0, <2>1 DEF MarkFolder
  <2>2. ASSUME NEW x \in Docs, NEW n, NEW f, MarkSynced(x, n, f)
        PROVE  records'[k.doc].status \in {"ok", "missing"}
    BY <2>0, <2>2 DEF MarkSynced
  <2>3. ASSUME NEW x \in Docs, NEW n, NEW f, MarkMissing(x, n, f)
        PROVE  records'[k.doc].status \in {"ok", "missing"}
    <3>1. x \in Tokens /\ records[x] \in Record
      BY <2>0 DEF Tokens
    <3>2. records' = [records EXCEPT ![x] =
                        [records[x] EXCEPT !.status = "missing", !.parent = f, !.time = n]]
      BY <2>0, <2>3, <3>1 DEF MarkMissing
    <3> QED
      BY <2>0, <3>1, <3>2 DEF Record
  <2>4. ASSUME NEW t \in stale, DropStale(t)
        PROVE  records'[k.doc] = records[k.doc]
    <3>1. pc = "cleanup" /\ k.doc \in current
      BY <2>4, AllSeen, SpaceAssumption DEF DropStale
    <3>2. t # k.doc
      BY <3>1 DEF Looking
    <3>3. CASE MarkDeleted(t)
      BY <2>0, <3>2, <3>3 DEF MarkDeleted
    <3>4. CASE Remove(t)
      BY <2>0, <3>2, <3>4 DEF Remove
    <3> QED
      BY <2>4, <3>3, <3>4 DEF DropStale
  <2>5. CASE Begin
    BY <2>1, <2>5, SpaceAssumption DEF Begin
  <2>6. ASSUME NEW i \in todo, DiscoverFolder(i) \/ Skip(i) \/ Plan(i)
        PROVE  records'[k.doc].status \in {"ok", "missing"}
    BY <2>1, <2>2, <2>6 DEF DiscoverFolder, Skip, Plan
  <2>7. CASE RecordDownload \/ FailDownload
    <3>1. Item.target \in Docs
      BY <2>7, HeadType DEF RecordDownload, FailDownload, TypeOK
    <3> QED
      BY <2>2, <2>3, <2>7, <3>1 DEF RecordDownload, FailDownload
  <2>8. ASSUME UNCHANGED records PROVE records'[k.doc].status \in {"ok", "missing"}
    BY <2>8
  <2> QED
    BY <2>4, <2>5, <2>6, <2>7, <2>8
    DEF Next, Edit, Move, LoseFile, EndDiscovery, OpenFile, WriteFile, EndDownloads, Complete,
        Abort, vars
<1> QED
  BY <1>1, <1>2, <1>3, SpaceTypeCorrect, PTL DEF Spec, DeletedIsGone

-----------------------------------------------------------------------------
(* What a run removes (clean_deleted).  A document has no path recorded    *)
(* but that of a file of its own, and what is visited counts as seen.      *)

OwnPaths == \A d \in Docs : records[d].path \in {None} \cup (Folders \X {d})

Cleaning ==
  /\ OwnPaths
  /\ visited \subseteq current
  /\ pc = "idle" => kept = {}
  /\ \A d \in Docs : remote[d].version # Absent
  /\ pc = "open" => fetched # Absent

LEMMA OwnPathsKeep ==
  ASSUME TypeOK, OwnPaths, [Next]_vars
  PROVE  OwnPaths'
<1>1. /\ records \in [Tokens -> Record] /\ Docs \subseteq Tokens /\ Folders \subseteq Tokens
      /\ Docs \cap Folders = {} /\ NoRecord.path = None
  BY StoreAssumption DEF TypeOK, StoreTypeOK, Tokens, NoRecord
<1>2. ASSUME NEW f \in Folders, NEW h, MarkFolder(f, h) PROVE OwnPaths'
  BY <1>1, <1>2 DEF MarkFolder, OwnPaths
<1>3. ASSUME NEW x \in Docs, NEW n, NEW f \in Folders, MarkSynced(x, n, f) PROVE OwnPaths'
  BY <1>1, <1>3 DEF MarkSynced, OwnPaths
<1>4. ASSUME NEW x \in Docs, NEW n, NEW f, MarkMissing(x, n, f) PROVE OwnPaths'
  <2>1. records[x] \in Record
    BY <1>1
  <2>2. records' = [records EXCEPT ![x] =
                      [records[x] EXCEPT !.status = "missing", !.parent = f, !.time = n]]
    BY <1>1, <1>4, <2>1 DEF MarkMissing
  <2>3. \A d \in Docs : records'[d].path = records[d].path
    BY <1>1, <2>1, <2>2 DEF Record
  <2> QED
    BY <2>3 DEF OwnPaths
<1>5. ASSUME NEW t \in Tokens, MarkDeleted(t) PROVE OwnPaths'
  <2>1. records[t] \in Record
    BY <1>1
  <2>2. records' = [records EXCEPT ![t] = [records[t] EXCEPT !.status = "deleted"]]
    BY <1>1, <1>5, <2>1 DEF MarkDeleted
  <2>3. \A d \in Docs : records'[d].path = records[d].path
    BY <1>1, <2>1, <2>2 DEF Record
  <2> QED
    BY <2>3 DEF OwnPaths
<1>6. ASSUME NEW t \in Tokens, Remove(t) PROVE OwnPaths'
  BY <1>1, <1>6 DEF Remove, OwnPaths
<1>7. CASE Begin
  BY <1>2, <1>7, SpaceAssumption DEF Begin
<1>8. ASSUME NEW i \in todo, DiscoverFolder(i) \/ Skip(i) PROVE OwnPaths'
  <2>1. i \in Items
    BY DEF TypeOK
  <2> QED
    BY <1>2, <1>3, <1>8, <2>1 DEF DiscoverFolder, Skip, Items
<1>9. CASE RecordDownload \/ FailDownload
  <2>1. Item \in Downloads
    BY <1>9, HeadType DEF RecordDownload, FailDownload, TypeOK
  <2> QED
    BY <1>3, <1>4, <1>9, <2>1 DEF RecordDownload, FailDownload, Downloads, Items
<1>10. ASSUME NEW t \in stale, DropStale(t) PROVE OwnPaths'
  BY <1>5, <1>6, <1>10 DEF DropStale, TypeOK
<1>11. CASE UNCHANGED records
  BY <1>11 DEF OwnPaths
<1> QED
  BY <1>7, <1>8, <1>9, <1>10, <1>11
  DEF Next, Edit, Move, LoseFile, Plan, EndDiscovery, OpenFile, WriteFile, EndDownloads,
      Complete, Abort, vars

LEMMA CleaningStep ==
  ASSUME TypeOK, Cleaning, [Next]_vars
  PROVE  Cleaning'
<1>1. OwnPaths'
  BY OwnPathsKeep DEF Cleaning
<1>2. visited' \subseteq current'
  <2>1. CASE UNCHANGED visited /\ current \subseteq current'
    BY <2>1 DEF Cleaning
  <2>2. CASE Begin \/ Complete \/ Abort
    BY <2>2 DEF Begin, Complete, Abort, Forget
  <2>3. ASSUME NEW i \in todo, DiscoverFolder(i) \/ Skip(i) \/ Plan(i)
        PROVE  visited' \subseteq current'
    BY <2>3 DEF Cleaning, DiscoverFolder, Skip, Plan, Seen
  <2> QED
    BY <2>1, <2>2, <2>3
    DEF Next, Edit, Move, LoseFile, EndDiscovery, OpenFile, WriteFile, RecordDownload,
        FailDownload, EndDownloads, DropStale, vars, runVars
<1>3. pc' = "idle" => kept' = {}
  <2>1. CASE pc' = pc /\ kept' \subseteq kept
    BY <2>1 DEF Cleaning
  <2>2. CASE pc' # "idle"
    BY <2>2
  <2>3. CASE Complete \/ Abort
    BY <2>3 DEF Complete, Abort, Forget
  <2> QED
    BY <2>1, <2>2, <2>3
    DEF Next, Edit, Move, LoseFile, Begin, DiscoverFolder, Skip, Plan, EndDiscovery, OpenFile,
        WriteFile, RecordDownload, FailDownload, EndDownloads, DropStale, vars, runVars, remoteVars
<1>4. \A d \in Docs : remote'[d].version # Absent
  <2>1. ASSUME NEW d \in Docs, Edit(d) \/ \E f \in Folders \cup {Gone} : Move(d, f)
        PROVE  \A e \in Docs : remote'[e].version # Absent
    <3>1. /\ \A e \in Docs : remote[e].version \in Nat \ {0}
          /\ remote \in [Docs -> [folder : Folders \cup {Gone}, version : Nat]]
      BY DEF Cleaning, TypeOK, Absent
    <3>2. \A e \in Docs : remote'[e].version \in {remote[e].version, remote[e].version + 1}
      BY <2>1, <3>1 DEF Edit, Move
    <3> QED
      BY <3>1, <3>2 DEF Absent
  <2>2. CASE UNCHANGED remote
    BY <2>2 DEF Cleaning
  <2> QED
    BY <2>1, <2>2
    DEF Next, LoseFile, Begin, DiscoverFolder, Skip, Plan, EndDiscovery, OpenFile,
        WriteFile, RecordDownload, FailDownload, EndDownloads, DropStale, Complete, Abort, vars,
        remoteVars
<1>5. pc' = "open" => fetched' # Absent
  <2>1. CASE OpenFile
    <3>1. Item.target \in Docs
      BY <2>1, HeadType DEF OpenFile, TypeOK
    <3> QED
      BY <2>1, <3>1 DEF OpenFile, Cleaning
  <2>2. CASE UNCHANGED <<pc, fetched>>
    BY <2>2 DEF Cleaning
  <2>3. CASE pc' # "open"
    BY <2>3
  <2> QED
    BY <2>1, <2>2, <2>3
    DEF Next, Edit, Move, LoseFile, Begin, DiscoverFolder, Skip, Plan, EndDiscovery,
        WriteFile, RecordDownload, FailDownload, EndDownloads, DropStale, Complete, Abort, Forget,
        vars, runVars, remoteVars
<1> QED
  BY <1>1, <1>2, <1>3, <1>4, <1>5 DEF Cleaning

(* What takes files with it that are not its own: a stale record without a *)
(* path, which resolve_path takes to its folder.                           *)
StaleIsNamed == \A t \in stale : records[t].path # None

(* The only way in which clean_deleted removes the file of a document that *)
(* was there all through is the one TLC shows: as long as every record     *)
(* that a run drops has a path, what it removes belongs to what is gone,   *)
(* whatever shortcuts there are and whatever moves during the discovery.   *)
THEOREM OnlyTheNamelessTakeOthers == Spec /\ []StaleIsNamed => CleansOnlyDeleted
<1>1. Init => Looking
  BY DEF Init, Looking, Reached
<1>2. Init => Cleaning
  BY DEF Init, StoreInit, NoRecord, Cleaning, OwnPaths, Absent, Tokens
<1>3. TypeOK /\ Looking /\ [Next]_vars => Looking'
  BY LookingStep, SpaceAssumption, StoreAssumption
<1>4. TypeOK /\ Cleaning /\ [Next]_vars => Cleaning'
  BY CleaningStep
<1>5. TypeOK /\ Looking /\ Cleaning /\ StaleIsNamed /\ [Next]_vars =>
        [\A k \in kept :
           LET p == <<remote[k.doc].folder, k.doc>> IN
           ~truncated /\ disk[p] # Absent => disk'[p] # Absent]_vars
  <2> SUFFICES ASSUME TypeOK, Looking, Cleaning, StaleIsNamed, [Next]_vars, NEW k \in kept,
                      ~truncated, disk[<<remote[k.doc].folder, k.doc>>] # Absent
               PROVE  disk'[<<remote[k.doc].folder, k.doc>>] # Absent
    OBVIOUS
  <2> DEFINE p == <<remote[k.doc].folder, k.doc>>
  <2>1. /\ k.doc \in Docs /\ p \in Paths /\ disk \in [Paths -> Contents] /\ pc # "idle"
    BY DEF TypeOK, StoreTypeOK, Looking, Cleaning, Paths
  <2> HIDE DEF p
  <2>2. CASE OpenFile
    BY <2>1, <2>2 DEF OpenFile, Partial, Absent, p
  <2>3. CASE WriteFile
    BY <2>1, <2>3 DEF WriteFile, Cleaning, p
  <2>4. ASSUME NEW t \in stale, DropStale(t) PROVE disk'[p] # Absent
    <3>1. t \in Tokens /\ t \notin current /\ pc = "cleanup"
      BY <2>4 DEF TypeOK, Looking, DropStale
    <3>2. t \in Docs /\ t # k.doc
      BY <3>1, AllSeen, SpaceAssumption DEF Tokens, Cleaning
    <3>3. records[t].path \in Folders \X {t}
      BY <3>2 DEF Cleaning, OwnPaths, StaleIsNamed
    <3>4. records[t].path \in Paths /\ p # records[t].path
      BY <3>2, <3>3 DEF Paths, p
    <3>5. Resolved(records[t]) = {records[t].path}
      <4>1. records[t].path \notin Folders /\ records[t].path # None
        BY <3>4, StoreAssumption DEF Paths
      <4> QED
        BY <3>4, <4>1 DEF Resolved
    <3> QED
      BY <2>1, <2>4, <3>4, <3>5 DEF DropStale, p
  <2>5. CASE UNCHANGED disk
    BY <2>5
  <2> QED
    BY <2>1, <2>2, <2>3, <2>4, <2>5
    DEF Next, Edit, Move, LoseFile, Begin, DiscoverFolder, Skip, Plan, EndDiscovery,
        RecordDownload, FailDownload, EndDownloads, Complete, Abort, vars, p
<1> QED
  BY <1>1, <1>2, <1>3, <1>4, <1>5, SpaceTypeCorrect, PTL DEF Spec, CleansOnlyDeleted

-----------------------------------------------------------------------------
(* What a run owes.  The entries of a plain document that stays where it   *)
(* is name its folder and are as new as it was when the run began; once    *)
(* such a document has been seen, it is settled, or planned, or failed.    *)

Fits(i, k) ==
  i.target = k.doc /\ k.doc \in Plain
    => i.folder = remote[k.doc].folder /\ k.version <= i.time

Settled(k) ==
  LET r == records[k.doc] IN
  /\ r.status = "ok" /\ r.parent = remote[k.doc].folder /\ r.size = "full"
  /\ k.version <= r.time
  /\ r.time <= disk[<<r.parent, k.doc>>]

Queued(k) == \E n \in 1..Len(queue) : queue[n].target = k.doc

Fitting ==
  /\ pc = "idle" => kept = {}
  /\ pc = "cleanup" => queue = <<>>
  /\ \A n \in 1..Len(queue) : {queue[n].token, queue[n].target} \subseteq current
  /\ \A k \in kept : k.version <= remote[k.doc].version
  /\ \A k \in kept, i \in todo : Fits(i, k)
  /\ \A k \in kept, n \in 1..Len(queue) : Fits(queue[n], k)

Served ==
  ~mode.clean =>
    \A k \in kept : k.doc \in (Plain \cap current) \ failed => Settled(k) \/ Queued(k)

LEMMA FitsListed ==
  ASSUME SpaceAssumption, StoreAssumption, NEW f \in Folders, NEW i \in Listing(f),
         NEW k, k.doc \in Docs, k.version <= remote[k.doc].version
  PROVE  Fits(i, k)
<1> SUFFICES ASSUME i.target = k.doc, k.doc \in Plain
             PROVE  i.folder = remote[k.doc].folder /\ k.version <= i.time
  BY DEF Fits
<1>1. PICK d \in Docs : remote[d].folder = f
                        /\ i = [token |-> d, target |-> d, folder |-> f, time |-> remote[d].version]
  <2>1. ASSUME NEW g \in Folders,
               i = [token |-> g, target |-> g, folder |-> f, time |-> 0]
        PROVE  FALSE
    BY <2>1 DEF StoreAssumption
  <2>2. ASSUME NEW s \in Links,
               i = [token |-> s, target |-> Target[s], folder |-> f, time |-> 0]
        PROVE  FALSE
    BY <2>2 DEF Plain
  <2> QED
    BY <2>1, <2>2 DEF Listing
<1> QED
  BY <1>1

(* A step that leaves the entries, and where they lead, as they are.       *)
LEMMA FitsKeeps ==
  ASSUME TypeOK, TypeOK', Fitting, kept' \subseteq kept, todo' \subseteq todo, current \subseteq current',
         pc' # "idle" \/ pc' = pc, pc' = "cleanup" => queue' = <<>>,
         queue' = queue \/ (queue # <<>> /\ queue' = Tail(queue)),
         \A k \in kept' : /\ remote'[k.doc].folder = remote[k.doc].folder
                          /\ remote[k.doc].version <= remote'[k.doc].version
  PROVE  Fitting'
<1>1. \A k \in kept' : k.doc \in Docs /\ k.version \in Nat
  BY DEF TypeOK
<1>2. \A k \in kept' : remote[k.doc].version \in Nat
  BY <1>1 DEF TypeOK
<1>3. \A n \in 1..Len(queue') : \E m \in 1..Len(queue) : queue'[n] = queue[m]
  <2>1. CASE queue' = Tail(queue) /\ queue # <<>>
    <3>1. queue \in Seq(Downloads)
      BY DEF TypeOK
    <3>2. /\ Len(queue') = Len(queue) - 1 /\ Len(queue) \in Nat
          /\ \A n \in 1..Len(queue') : queue'[n] = queue[n + 1] /\ n + 1 \in 1..Len(queue)
      BY <2>1, <3>1
    <3> QED
      BY <3>2
  <2> QED
    BY <2>1
<1>4. \A k \in kept' : k.version <= remote'[k.doc].version
  <2>1. \A k \in kept' : remote'[k.doc].version \in Nat
    BY <1>1 DEF TypeOK
  <2> QED
    BY <1>1, <1>2, <2>1 DEF Fitting
<1>5. ASSUME NEW k \in kept', NEW i, Fits(i, k) PROVE Fits(i, k)'
  BY <1>5 DEF Fits
<1>6. \A k \in kept', i \in todo' : Fits(i, k)'
  BY <1>5 DEF Fitting
<1>7. ASSUME NEW k \in kept', NEW n \in 1..Len(queue') PROVE Fits(queue[n], k)'
  <2>1. PICK m \in 1..Len(queue) : queue'[n] = queue[m]
    BY <1>3
  <2>2. Fits(queue[m], k)
    BY DEF Fitting
  <2> QED
    BY <2>1, <2>2 DEF Fits
<1> QED
  BY <1>3, <1>4, <1>6, <1>7 DEF Fitting

LEMMA FittingStep ==
  ASSUME SpaceAssumption, StoreAssumption, TypeOK, TypeOK', IdleIsEmpty, Looking, Fitting,
         ~LiveMoves, [Next]_vars
  PROVE  Fitting'
<1>q. /\ queue \in Seq(Downloads)
      /\ \A k \in kept : k.doc \in Docs
      /\ \A d \in Docs : remote[d].version \in Nat
  BY DEF TypeOK
<1>1. ASSUME NEW d \in Docs, Edit(d) \/ \E f \in Folders \cup {Gone} : Move(d, f)
      PROVE  Fitting'
  <2>1. /\ UNCHANGED <<pc, todo, queue, current>> /\ kept' \subseteq kept
    BY <1>1 DEF Edit, Move, runVars
  <2>2. ASSUME NEW k \in kept'
        PROVE  /\ remote'[k.doc].folder = remote[k.doc].folder
               /\ remote[k.doc].version <= remote'[k.doc].version
    <3>1. k.doc \in Docs /\ remote[k.doc].version \in Nat
      BY <1>q, <2>1
    <3>2. CASE Edit(d)
      BY SMTT(30), <3>1, <3>2 DEF Edit, TypeOK
    <3>3. ASSUME NEW f \in Folders \cup {Gone}, Move(d, f)
          PROVE  remote'[k.doc] = remote[k.doc]
      BY <3>1, <3>3 DEF Move, TypeOK
    <3> QED
      BY <1>1, <3>1, <3>2, <3>3
  <2> QED
    BY <2>1, <2>2, FitsKeeps DEF Fitting
<1>2. ASSUME NEW p \in Paths, LoseFile(p)
      PROVE  Fitting'
  BY <1>2, <1>q, FitsKeeps DEF LoseFile, runVars, remoteVars, Fitting
<1>3. CASE Begin
  <2>1. /\ pc' = "discover" /\ todo' = Listing(Root) /\ remote' = remote /\ queue' = <<>>
    BY <1>3 DEF Begin, IdleIsEmpty
  <2>2. \A k \in kept' : k.doc \in Docs /\ k.version = remote[k.doc].version
    BY <1>3 DEF Begin
  <2>3. ASSUME NEW k \in kept', NEW i \in todo' PROVE Fits(i, k)'
    <3>1. Fits(i, k)
      BY <2>1, <2>2, <2>3, <1>q, FitsListed DEF SpaceAssumption
    <3> QED
      BY <2>1, <3>1 DEF Fits
  <2> QED
    BY <1>q, <2>1, <2>2, <2>3 DEF Fitting
<1>4. ASSUME NEW i \in todo, DiscoverFolder(i)
      PROVE  Fitting'
  <2>1. /\ i.target \in Folders /\ pc' = "discover" /\ todo' = (todo \ {i}) \cup Listing(i.target)
        /\ UNCHANGED <<remote, kept, queue>> /\ current \subseteq current'
    BY <1>4 DEF DiscoverFolder, remoteVars
  <2>2. ASSUME NEW k \in kept', NEW j \in todo' PROVE Fits(j, k)'
    <3>1. Fits(j, k)
      BY <1>q, <2>1, FitsListed DEF Fitting
    <3> QED
      BY <2>1, <3>1 DEF Fits
  <2> QED
    BY <2>1, <2>2 DEF Fitting, Fits
<1>5. ASSUME NEW i \in todo, Skip(i)
      PROVE  Fitting'
  BY <1>5, <1>q, FitsKeeps DEF Skip, Seen, remoteVars
<1>6. ASSUME NEW i \in todo, Plan(i)
      PROVE  Fitting'
  <2>1. /\ pc' = "discover" /\ queue' = Append(queue, i) /\ todo' \subseteq todo
        /\ UNCHANGED <<remote, kept>> /\ current' = current \cup {i.token, i.target}
    BY <1>6 DEF Plan, Seen, remoteVars
  <2>2. i \in Downloads
    BY <1>6 DEF Plan, TypeOK, Downloads
  <2>3. \A n \in 1..Len(queue') : queue'[n] = i \/ (n \in 1..Len(queue) /\ queue'[n] = queue[n])
    BY <1>q, <2>1, <2>2
  <2>4. ASSUME NEW k \in kept', NEW n \in 1..Len(queue') PROVE Fits(queue[n], k)'
    <3>1. Fits(queue'[n], k)
      BY <2>1, <2>3 DEF Fitting
    <3> QED
      BY <2>1, <3>1 DEF Fits
  <2> QED
    BY SMTT(30), <2>1, <2>3, <2>4 DEF Fitting, Fits
<1>7. CASE EndDiscovery \/ OpenFile \/ WriteFile \/ RecordDownload \/ FailDownload \/ EndDownloads
  <2>1. /\ UNCHANGED <<remote, kept, todo>> /\ pc' # "idle" /\ current \subseteq current'
        /\ pc' = "cleanup" => queue' = <<>>
        /\ queue' = queue \/ (queue # <<>> /\ queue' = Tail(queue))
    BY <1>7 DEF EndDiscovery, OpenFile, WriteFile, RecordDownload, FailDownload, EndDownloads,
                remoteVars, TypeOK
  <2> QED
    BY <1>q, <2>1, FitsKeeps
<1>8. ASSUME NEW t \in stale, DropStale(t)
      PROVE  Fitting'
  BY <1>8, <1>q, FitsKeeps DEF DropStale, remoteVars, Fitting
<1>9. CASE Complete \/ Abort
  BY <1>9 DEF Complete, Abort, Forget, Fitting
<1>10. CASE UNCHANGED vars
  BY <1>10, <1>q, FitsKeeps DEF vars, runVars, remoteVars, Fitting
<1> QED
  BY <1>1, <1>2, <1>3, <1>4, <1>5, <1>6, <1>7, <1>8, <1>9, <1>10 DEF Next

(* What is settled stays so while its record and its file do.              *)
LEMMA ServedKeeps ==
  ASSUME Served, mode' = mode, kept' \subseteq kept, current' = current, failed \subseteq failed',
         \A k \in kept' : k.doc \in (Plain \cap current) \ failed'
           => /\ Settled(k) => Settled(k)' \/ Queued(k)'
              /\ Queued(k) => Settled(k)' \/ Queued(k)'
  PROVE  Served'
BY DEF Served

LEMMA SettledKeeps ==
  ASSUME NEW k, Settled(k), records'[k.doc] = records[k.doc],
         remote'[k.doc].folder = remote[k.doc].folder,
         disk'[<<remote[k.doc].folder, k.doc>>] = disk[<<remote[k.doc].folder, k.doc>>]
  PROVE  Settled(k)'
BY DEF Settled

(* An entry that is not downloaded is up to date.                          *)
LEMMA SettledBySkip ==
  ASSUME SpaceAssumption, StoreAssumption, ForceOnMissing, Inv, Looking, Fitting,
         NEW i \in todo, Skip(i), NEW k \in kept, i.target = k.doc, k.doc \in Plain
  PROVE  Settled(k)'
<1> DEFINE f == i.folder
           c == disk[<<f, k.doc>>]
<1>1. /\ k.doc \in Docs /\ f \in Folders /\ f = remote[k.doc].folder /\ k.version <= i.time
      /\ i.target \notin visited
  BY PlainIs DEF Fitting, Fits, Inv, DiscoveryInv, ListedOnce, Once, TypeOK, Items
<1>2. ~MustDownload(k.doc, i.time, f, mode.incremental)
  BY <1>1 DEF Skip
<1>3. /\ records[k.doc].status = "ok" /\ c # Absent /\ records[k.doc].parent = f
      /\ records[k.doc].time = i.time
      /\ records[k.doc].size = "unknown" \/ records[k.doc].size = Size(c)
  BY <1>2 DEF MustDownload, Forced, FileChanged
<1>4. <<f, k.doc>> \in Paths /\ c \in Int /\ c >= Partial
  BY <1>1 DEF Inv, DiscoveryInv, TypeOK, StoreTypeOK, Paths, Contents, OkIsBacked
<1>5. records[k.doc].size = "full" /\ (c > 0 => c >= i.time)
  BY <1>3 DEF Inv, OkIsBacked
<1>6. Size(c) = "full" /\ c >= i.time
  BY <1>3, <1>4, <1>5 DEF Size, Absent, Partial
<1>7. /\ records' = [records EXCEPT ![k.doc] =
           [status |-> "ok", parent |-> f, path |-> <<f, k.doc>>, time |-> i.time, size |-> Size(c)]]
      /\ disk' = disk /\ remote' = remote
  BY DEF Skip, MarkSynced, remoteVars
<1>8. records'[k.doc].status = "ok" /\ records'[k.doc].parent = f
      /\ records'[k.doc].time = i.time /\ records'[k.doc].size = "full"
  BY <1>1, <1>6, <1>7 DEF Inv, DiscoveryInv, TypeOK, StoreTypeOK, Tokens
<1> QED
  BY <1>1, <1>6, <1>7, <1>8 DEF Settled

(* So is one that has just been downloaded.                                *)
LEMMA SettledByDownload ==
  ASSUME Inv, Fitting, RecordDownload, queue # <<>>, NEW k \in kept, Item.target = k.doc,
         k.doc \in Plain
  PROVE  Settled(k)'
<1> DEFINE i == Item
<1>q. queue \in Seq(Downloads) /\ disk \in [Paths -> Contents] /\ records \in [Tokens -> Record]
  BY DEF Inv, DiscoveryInv, TypeOK, StoreTypeOK
<1>1. /\ k.doc \in Docs /\ i.folder \in Folders /\ i.time \in Nat /\ i.target = k.doc
      /\ fetched \in Nat
  BY HeadType DEF Inv, DiscoveryInv, TypeOK
<1>2. i.folder = remote[k.doc].folder /\ k.version <= i.time
  <2>1. 1 \in 1..Len(queue) /\ i = queue[1]
    BY <1>q DEF Item
  <2> HIDE DEF i
  <2>2. Fits(i, k)
    BY <2>1 DEF Fitting
  <2> QED
    BY <1>1, <2>2 DEF Fits
<1>3. disk[<<i.folder, k.doc>>] = fetched /\ fetched >= 1 /\ fetched >= i.time
  BY <1>1 DEF RecordDownload, Inv, FetchedIsNewer, File
<1>4. Size(disk[<<i.folder, k.doc>>]) = "full"
  BY <1>1, <1>3 DEF Size, Absent, Partial
<1>5. /\ records' = [records EXCEPT ![k.doc] =
           [status |-> "ok", parent |-> i.folder, path |-> <<i.folder, k.doc>>, time |-> i.time,
            size |-> "full"]]
      /\ disk' = disk /\ remote' = remote
  BY <1>1, <1>4 DEF RecordDownload, MarkSynced, remoteVars
<1>6. records'[k.doc].status = "ok" /\ records'[k.doc].parent = i.folder
      /\ records'[k.doc].time = i.time /\ records'[k.doc].size = "full"
  BY <1>q, <1>1, <1>5 DEF Tokens
<1> HIDE DEF i
<1> QED
  BY <1>1, <1>2, <1>3, <1>5, <1>6 DEF Settled

LEMMA ServedStep ==
  ASSUME SpaceAssumption, StoreAssumption, ForceOnMissing, Inv, Looking, Fitting, Served,
         ~LiveMoves, [Next]_vars
  PROVE  Served'
<1> USE SpaceAssumption, StoreAssumption
<1>q. /\ queue \in Seq(Downloads) /\ disk \in [Paths -> Contents] /\ records \in [Tokens -> Record]
      /\ remote \in [Docs -> [folder : Folders \cup {Gone}, version : Nat]]
      /\ \A k \in kept : /\ k.doc \in Docs /\ k.doc \in Tokens /\ k.doc \notin Folders
                         /\ k.doc \notin Links
                         /\ remote[k.doc].folder \in Folders
                         /\ <<remote[k.doc].folder, k.doc>> \in Paths
  <2>1. \A k \in kept : k.doc \in Docs /\ remote[k.doc].folder \in Folders
    BY DEF Inv, DiscoveryInv, TypeOK, Looking
  <2> QED
    BY <2>1 DEF Inv, DiscoveryInv, TypeOK, StoreTypeOK, Tokens, Paths, SpaceAssumption,
                StoreAssumption
<1>s. ASSUME NEW k \in kept, UNCHANGED <<records, disk>>,
             remote'[k.doc].folder = remote[k.doc].folder
      PROVE  Settled(k) => Settled(k)'
  BY <1>s, SettledKeeps
<1>u. ASSUME queue' = queue, NEW k PROVE Queued(k) => Queued(k)'
  BY <1>u DEF Queued
<1>1. ASSUME NEW d \in Docs, Edit(d) \/ \E f \in Folders \cup {Gone} : Move(d, f)
      PROVE  Served'
  <2>1. /\ UNCHANGED <<mode, current, failed, queue, records, disk>> /\ kept' \subseteq kept
    BY <1>1 DEF Edit, Move, runVars
  <2>2. ASSUME NEW k \in kept' PROVE remote'[k.doc].folder = remote[k.doc].folder
    <3>1. CASE Edit(d)
      BY <1>q, <2>1, <3>1 DEF Edit
    <3>2. ASSUME NEW f \in Folders \cup {Gone}, Move(d, f)
          PROVE  remote'[k.doc] = remote[k.doc]
      BY <1>q, <2>1, <3>2 DEF Move
    <3> QED
      BY <1>1, <3>1, <3>2
  <2> QED
    BY <1>s, <1>u, <2>1, <2>2, ServedKeeps
<1>2. ASSUME NEW p \in Paths, LoseFile(p)
      PROVE  Served'
  BY <1>2 DEF LoseFile, remoteVars, Fitting, Served
<1>3. CASE Begin
  <2>1. \A k \in kept' : k.doc \in Docs /\ k.doc \notin current'
    BY <1>3 DEF Begin, SpaceAssumption, StoreAssumption
  <2> QED
    BY <2>1 DEF Served
<1>4. ASSUME NEW i \in todo, DiscoverFolder(i)
      PROVE  Served'
  <2>1. /\ i.target \in Folders /\ UNCHANGED <<mode, kept, failed, queue, disk, remote>>
        /\ current' = current \cup {i.target}
    BY <1>4 DEF DiscoverFolder, remoteVars
  <2>2. \A k \in kept : records'[k.doc] = records[k.doc]
    BY <1>q, <1>4, <2>1 DEF DiscoverFolder, MarkFolder
  <2>3. \A k \in kept : (Settled(k) => Settled(k)') /\ (Queued(k) => Queued(k)')
    BY <1>u, <2>1, <2>2, SettledKeeps
  <2> QED
    BY <1>q, <2>1, <2>3 DEF Served
<1>5. ASSUME NEW i \in todo, Skip(i)
      PROVE  Served'
  <2>1. /\ i.target \in Docs /\ UNCHANGED <<mode, kept, failed, queue, disk, remote>>
        /\ current' = current \cup {i.token, i.target}
        /\ i.token \in Links \cup {i.target}
    BY <1>5 DEF Skip, Seen, remoteVars, Looking
  <2>2. \A k \in kept : k.doc # i.target => records'[k.doc] = records[k.doc]
    BY <1>q, <1>5, <2>1 DEF Skip, MarkSynced
  <2>3. \A k \in kept : k.doc # i.target =>
           (Settled(k) => Settled(k)') /\ (Queued(k) => Queued(k)')
    BY <1>u, <2>1, <2>2, SettledKeeps
  <2>4. \A k \in kept : k.doc = i.target /\ k.doc \in Plain => Settled(k)'
    BY <1>5, SettledBySkip
  <2> QED
    BY <1>q, <2>1, <2>3, <2>4 DEF Served
<1>6. ASSUME NEW i \in todo, Plan(i)
      PROVE  Served'
  <2>1. /\ UNCHANGED <<mode, kept, failed, records, disk, remote>>
        /\ queue' = Append(queue, i)
        /\ current' = current \cup {i.token, i.target}
        /\ i.token \in Links \cup {i.target}
    BY <1>6 DEF Plan, Seen, remoteVars, Looking
  <2>2. i \in Downloads
    BY <1>6 DEF Plan, Inv, DiscoveryInv, TypeOK, Downloads
  <2>3. /\ Len(queue') = Len(queue) + 1 /\ Len(queue) \in Nat
        /\ \A n \in 1..Len(queue) : n \in 1..Len(queue') /\ queue'[n] = queue[n]
        /\ Len(queue') \in 1..Len(queue') /\ queue'[Len(queue')] = i
    BY <1>q, <2>1, <2>2
  <2>4. \A k \in kept : (Settled(k) => Settled(k)') /\ (Queued(k) \/ k.doc = i.target => Queued(k)')
    BY <1>s, <2>1, <2>3 DEF Queued
  <2> QED
    BY <1>q, <2>1, <2>4 DEF Served
<1>7. CASE OpenFile \/ WriteFile
  <2>1. /\ UNCHANGED <<mode, kept, failed, queue, current, records, remote>> /\ queue # <<>>
        /\ \A p \in Paths : p # File => disk'[p] = disk[p]
    BY <1>7, <1>q DEF OpenFile, WriteFile, remoteVars, Inv, DiscoveryInv, TypeOK
  <2>2. ASSUME NEW k \in kept, ~Queued(k)
        PROVE  disk'[<<remote[k.doc].folder, k.doc>>] = disk[<<remote[k.doc].folder, k.doc>>]
    <3>1. 1 \in 1..Len(queue) /\ Item = queue[1]
      BY <1>q, <2>1 DEF Item
    <3>2. File # <<remote[k.doc].folder, k.doc>>
      BY <2>2, <3>1 DEF File, Queued
    <3> QED
      BY <1>q, <2>1, <3>2
  <2>3. \A k \in kept : (Settled(k) /\ ~Queued(k) => Settled(k)') /\ (Queued(k) => Queued(k)')
    BY <1>u, <2>1, <2>2, SettledKeeps
  <2> QED
    BY <2>1, <2>3 DEF Served
<1>8. CASE RecordDownload \/ FailDownload
  <2>0. queue # <<>>
    BY <1>8 DEF RecordDownload, FailDownload, Inv, DiscoveryInv, TypeOK
  <2>1. /\ UNCHANGED <<mode, kept, disk, remote>> /\ queue' = Tail(queue)
        /\ current' = current \cup {Item.token, Item.target}
        /\ failed \subseteq failed'
        /\ FailDownload => Item.target \in failed'
    BY <1>8 DEF RecordDownload, FailDownload, remoteVars
  <2>2. 1 \in 1..Len(queue) /\ Item = queue[1] /\ Item.target \in Docs /\ Item.target \in Tokens
    BY <1>q, <2>0, HeadType DEF Item, Inv, DiscoveryInv, Tokens
  <2>3. current' = current
    BY <2>1, <2>2 DEF Fitting
  <2>4. ASSUME NEW k \in kept, k.doc # Item.target
        PROVE  (Settled(k) => Settled(k)') /\ (Queued(k) => Queued(k)')
    <3>1. records'[k.doc] = records[k.doc]
      BY <1>8, <1>q, <2>2, <2>4 DEF RecordDownload, FailDownload, MarkSynced, MarkMissing
    <3>2. Settled(k) => Settled(k)'
      BY <2>1, <3>1, SettledKeeps
    <3>3. ASSUME NEW n \in 1..Len(queue), queue[n].target = k.doc
          PROVE  n - 1 \in 1..Len(queue') /\ queue'[n - 1] = queue[n]
      <4>1. n # 1
        BY <2>2, <2>4, <3>3
      <4> QED
        BY <1>q, <2>0, <2>1, <4>1
    <3>4. Queued(k) => Queued(k)'
      BY <3>3 DEF Queued
    <3> QED
      BY <3>2, <3>4
  <2>5. ASSUME RecordDownload, NEW k \in kept, k.doc = Item.target, k.doc \in Plain
        PROVE  Settled(k)'
    BY <2>0, <2>5, SettledByDownload
  <2> QED
    BY <1>8, <2>1, <2>3, <2>4, <2>5 DEF Served
<1>9. ASSUME NEW t \in stale, DropStale(t)
      PROVE  Served'
  <2>1. /\ UNCHANGED <<mode, kept, failed, queue, current, remote>> /\ pc = "cleanup"
        /\ ~mode.clean => MarkDeleted(t) /\ disk' = disk
    BY <1>9 DEF DropStale, remoteVars
  <2>2. ASSUME ~mode.clean, NEW k \in kept, k.doc \in current
        PROVE  (Settled(k) => Settled(k)') /\ (Queued(k) => Queued(k)')
    <3>1. t # k.doc
      BY <2>1, <2>2 DEF Looking
    <3>2. records'[k.doc] = records[k.doc]
      BY <1>q, <2>1, <2>2, <3>1 DEF MarkDeleted
    <3> QED
      BY <1>u, <2>1, <2>2, <3>2, SettledKeeps
  <2> QED
    BY <2>1, <2>2 DEF Served
<1>10. CASE EndDiscovery \/ EndDownloads \/ UNCHANGED vars
  <2>1. UNCHANGED <<mode, kept, failed, queue, current, records, disk, remote>>
    BY <1>10 DEF EndDiscovery, EndDownloads, vars, runVars, remoteVars
  <2> QED
    BY <1>s, <1>u, <2>1, ServedKeeps
<1>11. CASE Complete \/ Abort
  BY <1>11 DEF Complete, Abort, Forget, Served
<1> QED
  BY <1>1, <1>2, <1>3, <1>4, <1>5, <1>6, <1>7, <1>8, <1>9, <1>10, <1>11 DEF Next

RunInv == Inv /\ Looking /\ Fitting /\ Served

LEMMA RunInvHolds == ASSUME ~LiveMoves, ForceOnMissing PROVE Spec => []RunInv
<1>1. Init => Looking /\ Fitting /\ Served
  BY DEF Init, Looking, Reached, Fitting, Served
<1>2. Inv /\ Inv' /\ Looking /\ Fitting /\ Served /\ [Next]_vars
        => (Looking /\ Fitting /\ Served)'
  <2> SUFFICES ASSUME Inv, Inv', Looking, Fitting, Served, [Next]_vars
               PROVE  (Looking /\ Fitting /\ Served)'
    OBVIOUS
  <2>1. TypeOK /\ TypeOK' /\ IdleIsEmpty
    BY DEF Inv, DiscoveryInv
  <2>2. Looking'
    BY <2>1, LookingStep, SpaceAssumption, StoreAssumption
  <2>3. Fitting'
    BY <2>1, FittingStep, SpaceAssumption, StoreAssumption
  <2>4. Served'
    BY ServedStep, SpaceAssumption, StoreAssumption
  <2> QED
    BY <2>2, <2>3, <2>4
<1> QED
  BY <1>1, <1>2, InvHolds, PTL DEF Spec, RunInv

(* When a run that saw everything completes, what it did not fail to       *)
(* download is settled.                                                    *)
LEMMA SettledByEnd ==
  ASSUME RunInv, Complete, ~truncated, ~mode.clean, NEW k \in kept, k.doc \in Plain \ failed
  PROVE  Settled(k)
<1>1. pc \in {"cleanup", "download"} /\ queue = <<>>
  BY DEF Complete, RunInv, Fitting
<1>2. k.doc \in current
  BY <1>1, AllSeen, SpaceAssumption DEF RunInv, Inv, DiscoveryInv
<1>3. ~Queued(k)
  BY <1>1 DEF Queued
<1> QED
  BY <1>2, <1>3 DEF RunInv, Served

(* A run that completes, with missing files forced and no document moved   *)
(* under the discovery, has brought every document that stayed, that no    *)
(* shortcut stands for and whose download did not fail, to the version it  *)
(* had when the run began, however often it was edited meanwhile.          *)
THEOREM CompletedRunMirrors ==
  ASSUME ~LiveMoves, ForceOnMissing
  PROVE  Spec => MirrorsAtEnd
<1>1. RunInv =>
        [Complete /\ ~truncated /\ ~mode.clean
           => \A k \in kept : k.doc \in Plain \ failed
                => disk[<<remote[k.doc].folder, k.doc>>] >= k.version]_vars
  <2> SUFFICES ASSUME RunInv, Complete, ~truncated, ~mode.clean,
                      NEW k \in kept, k.doc \in Plain \ failed
               PROVE  disk[<<remote[k.doc].folder, k.doc>>] >= k.version
    OBVIOUS
  <2>1. Settled(k)
    BY SettledByEnd
  <2>2. /\ k.version \in Nat /\ records[k.doc].time \in Nat
        /\ disk[<<remote[k.doc].folder, k.doc>>] \in Int
    <3>1. k.doc \in Docs /\ k.doc \in Tokens /\ remote[k.doc].folder \in Folders /\ k.version \in Nat
      BY DEF RunInv, Inv, DiscoveryInv, TypeOK, Looking, Tokens
    <3> QED
      BY <3>1 DEF RunInv, Inv, DiscoveryInv, TypeOK, StoreTypeOK, Record, Contents, Paths
  <2> QED
    BY <2>1, <2>2 DEF Settled
<1> QED
  BY <1>1, RunInvHolds, PTL DEF MirrorsAtEnd

(* And what has not been edited meanwhile, the next incremental run skips. *)
THEOREM CompletedRunSettles ==
  ASSUME ~LiveMoves, ForceOnMissing
  PROVE  Spec => SettledAtEnd
<1>1. RunInv =>
        [Complete /\ ~truncated /\ ~mode.clean
           => \A k \in kept : k.doc \in Plain \ failed /\ remote[k.doc].version = k.version
                => ~MustDownload(k.doc, k.version, remote[k.doc].folder, TRUE)]_vars
  <2> SUFFICES ASSUME RunInv, Complete, ~truncated, ~mode.clean,
                      NEW k \in kept, k.doc \in Plain \ failed, remote[k.doc].version = k.version
               PROVE  ~MustDownload(k.doc, k.version, remote[k.doc].folder, TRUE)
    OBVIOUS
  <2> DEFINE c == disk[<<remote[k.doc].folder, k.doc>>]
  <2>1. Settled(k)
    BY SettledByEnd
  <2>2. k.version \in Nat /\ records[k.doc].time \in Nat /\ c \in Int /\ 1 <= k.version
        /\ records[k.doc].time <= k.version
    <3>1. k.doc \in Docs /\ k.doc \in Tokens /\ remote[k.doc].folder \in Folders /\ k.version \in Nat
      BY DEF RunInv, Inv, DiscoveryInv, TypeOK, Looking, Tokens
    <3> QED
      BY <3>1 DEF RunInv, Inv, DiscoveryInv, TypeOK, StoreTypeOK, Record, Contents, Paths,
                  NoneFromTheFuture
  <2>3. c >= 1 /\ records[k.doc].time = k.version
    BY <2>1, <2>2 DEF Settled
  <2>4. Size(c) = "full" /\ c # Absent
    BY <2>2, <2>3 DEF Size, Absent, Partial
  <2> QED
    BY <2>1, <2>3, <2>4 DEF Settled, MustDownload, Forced, FileChanged
<1> QED
  BY <1>1, RunInvHolds, PTL DEF SettledAtEnd

=============================================================================
