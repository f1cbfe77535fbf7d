---------------------------- MODULE WikiSyncProofs ----------------------------
(***************************************************************************)
(* What TLAPS proves of WikiSync, for every wiki, every set of shortcuts   *)
(* and modes, and without the bounds TLC needs: type correctness, that a   *)
(* run enters and downloads no node twice, that the record of a leaf is    *)
(* never ahead of its file, and that a completed run has found every node  *)
(* that stayed in its place and brought its leaves up to date.             *)
(***************************************************************************)
EXTENDS WikiSync, SequenceTheorems, TLAPS

-----------------------------------------------------------------------------
(* How the listings change: s has the first listings of the stack, with no *)
(* more entries to be handled.                                             *)

Trims(s) ==
  /\ s \in Seq(Listings)
  /\ Len(s) <= Len(stack)
  /\ \A k \in 1..Len(s) :
       /\ s[k].item = stack[k].item /\ s[k].folder = stack[k].folder
       /\ s[k].todo \subseteq stack[k].todo

LEMMA StackType ==
  ASSUME TypeOK
  PROVE  /\ Len(stack) \in Nat /\ stack \in [1..Len(stack) -> Listings]
         /\ \A k \in 1..Len(stack) :
              /\ stack[k].item \in Items \cup {None} /\ stack[k].folder \in Folders
              /\ stack[k].todo \subseteq Items
<1>1. stack \in Seq(Listings)
  BY DEF TypeOK
<1>2. Len(stack) \in Nat /\ stack \in [1..Len(stack) -> Listings]
  BY <1>1, LenProperties
<1> QED
  BY <1>2 DEF Listings

LEMMA EmptyTrims == ASSUME TypeOK PROVE Trims(<<>>)
BY StackType, EmptySeq DEF Trims

LEMMA SameTrims == ASSUME TypeOK PROVE Trims(stack)
BY StackType DEF Trims, TypeOK

LEMMA CurrentType ==
  ASSUME TypeOK, stack # <<>>
  PROVE  /\ Len(stack) \in 1..Len(stack)
         /\ Current \in Listings /\ Current.folder \in Folders /\ Current.todo \subseteq Items
<1>1. Len(stack) \in Nat \ {0}
  BY EmptySeq DEF TypeOK
<1> QED
  BY <1>1, StackType DEF Current, Listings

LEMMA HandledTrims ==
  ASSUME TypeOK, stack # <<>>, NEW i
  PROVE  /\ Trims(Handled(i)) /\ Len(Handled(i)) = Len(stack)
         /\ \A k \in 1..Len(stack) :
              Handled(i)[k].todo = IF k = Len(stack) THEN stack[k].todo \ {i} ELSE stack[k].todo
<1> DEFINE last == stack[Len(stack)]
           less == [last EXCEPT !.todo = last.todo \ {i}]
<1>1. Len(stack) \in 1..Len(stack) /\ last \in Listings /\ stack \in Seq(Listings)
  BY CurrentType DEF Current, TypeOK
<1>2. less \in Listings /\ less.item = last.item /\ less.folder = last.folder
      /\ less.todo = last.todo \ {i}
  BY <1>1 DEF Listings
<1>3. Handled(i) = [stack EXCEPT ![Len(stack)] = less]
  BY <1>1 DEF Handled
<1> HIDE DEF less
<1>4. /\ Handled(i) \in Seq(Listings) /\ Len(Handled(i)) = Len(stack)
      /\ \A k \in 1..Len(stack) : Handled(i)[k] = IF k = Len(stack) THEN less ELSE stack[k]
  BY <1>1, <1>2, <1>3, ExceptSeq
<1>5. ASSUME NEW k \in 1..Len(stack)
      PROVE  /\ Handled(i)[k].item = stack[k].item /\ Handled(i)[k].folder = stack[k].folder
             /\ Handled(i)[k].todo = IF k = Len(stack) THEN stack[k].todo \ {i} ELSE stack[k].todo
  BY <1>2, <1>4
<1>6. Len(Handled(i)) \in Nat /\ Len(Handled(i)) <= Len(stack)
  BY <1>1, <1>4
<1> QED
  BY <1>4, <1>5, <1>6 DEF Trims

LEMMA PopTrims ==
  ASSUME TypeOK, Len(stack) > 1
  PROVE  LET rest == SubSeq(stack, 1, Len(stack) - 1) IN
         /\ Trims(rest) /\ Len(rest) = Len(stack) - 1
         /\ \A k \in 1..Len(rest) : rest[k] = stack[k]
<1> DEFINE rest == SubSeq(stack, 1, Len(stack) - 1)
<1>1. Len(stack) \in Nat /\ \A k \in 1..Len(stack) : stack[k] \in Listings
  BY StackType
<1>2. Len(stack) - 1 \in Int /\ \A k \in 1..(Len(stack) - 1) : stack[k] \in Listings
  BY <1>1
<1>3. /\ rest \in Seq(Listings) /\ Len(rest) = Len(stack) - 1
      /\ \A k \in 1..Len(rest) : rest[k] = stack[k]
  BY <1>1, <1>2, SubSeqProperties
<1> QED
  BY <1>1, <1>3 DEF Trims

(* Whichever way the document of a node is decided about, the listings are *)
(* trimmed, and at most it is planned.                                     *)
LEMMA DecideDoes ==
  ASSUME TypeOK, NEW i \in Items, NEW f \in Folders, NEW rest, Trims(rest), Decide(i, f, rest)
  PROVE  /\ Trims(stack') /\ truncated' \in BOOLEAN
         /\ \/ stack' = rest /\ queue' = queue /\ truncated' = truncated
            \/ /\ queue' = Append(queue, [node |-> i.node, time |-> i.time, folder |-> f])
               /\ [node |-> i.node, time |-> i.time, folder |-> f] \in Downloads
               /\ stack' = <<>> \/ (stack' = rest /\ ~truncated')
<1>1. [node |-> i.node, time |-> i.time, folder |-> f] \in Downloads
  BY DEF Downloads, Items
<1>2. Trims(<<>>) /\ truncated \in BOOLEAN
  BY EmptyTrims DEF TypeOK
<1> QED
  BY <1>1, <1>2 DEF Decide

-----------------------------------------------------------------------------
(* Type correctness, together with what the folders of the listings are.   *)

(* Between runs nothing is left of a run, and outside of discovery no      *)
(* listing is.                                                             *)
Quiet ==
  /\ pc = "idle" => visited = {} /\ queue = <<>> /\ kept = {} /\ failed = {} /\ ~truncated
  /\ pc # "discover" \/ truncated => stack = <<>>

(* The listings discovery is in are those of nodes it has entered, in the  *)
(* folders of nodes it has entered.                                        *)
Entered ==
  /\ \A k \in 2..Len(stack) :
       stack[k].item \in Items /\ stack[k].item.node \in visited \ Leaves
  /\ \A k \in 1..Len(stack) :
       \A j \in 1..Len(stack[k].folder) : stack[k].folder[j] \in visited
  /\ \A k \in 1..Len(stack) : \A i \in stack[k].todo : i.parent => i.node \in Branches

LEMMA MarkType ==
  ASSUME StoreTypeOK, NEW d \in Docs, NEW n \in Nat, NEW f \in Folders
  PROVE  /\ MarkSynced(d, n, f) => records' \in [Tokens -> Record]
         /\ \A g \in Folders : MarkBranch(d, n, f, g) => records' \in [Tokens -> Record]
<1>1. Size(disk[<<f, d>>]) \in Sizes
  BY DEF Size, Sizes
<1>2. [status |-> "ok", parent |-> f, path |-> <<f, d>>, time |-> n,
       size |-> Size(disk[<<f, d>>])] \in Record
  BY <1>1 DEF Record, Statuses, Paths
<1>3. \A g \in Folders : [status |-> "ok", parent |-> f, path |-> g, time |-> n,
                          size |-> "unknown"] \in Record
  BY DEF Record, Statuses, Sizes
<1> QED
  BY <1>2, <1>3 DEF MarkSynced, MarkBranch, StoreTypeOK

LEMMA SourceType ==
  ASSUME WikiAssumption, NEW n \in Nodes
  PROVE  Source(n) \in Nodes \ Links
BY DEF WikiAssumption, Source

LEMMA ChildrenType ==
  ASSUME WikiAssumption, TypeOK, NEW q \in Nodes \cup {Top}
  PROVE  /\ Children(q) \subseteq Items
         /\ \A i \in Children(q) :
              /\ place[i.node] = q /\ i.time = version[Source(i.node)]
              /\ i.parent = HasChild(i.node)
         /\ \A n \in Nodes : place[n] = q => \E i \in Children(q) : i.node = n
<1>1. \A n \in Nodes : version[Source(n)] \in Nat
  BY SourceType DEF TypeOK
<1>2. \A n \in Nodes : HasChild(n) \in BOOLEAN
  BY DEF HasChild
<1> DEFINE entry(n) == [node |-> n, time |-> version[Source(n)], parent |-> HasChild(n)]
<1>3. \A n \in Nodes : /\ entry(n) \in Items /\ entry(n).node = n
                       /\ entry(n).time = version[Source(n)] /\ entry(n).parent = HasChild(n)
  BY <1>1, <1>2 DEF Items
<1>4. Children(q) = {entry(n) : n \in {m \in Nodes : place[m] = q}}
  BY DEF Children
<1> HIDE DEF entry
<1>5. \A i \in Children(q) : \E n \in Nodes : place[n] = q /\ i = entry(n)
  BY <1>4
<1>6. \A n \in Nodes : place[n] = q => entry(n) \in Children(q)
  BY <1>4
<1> QED
  BY <1>3, <1>5, <1>6

(* Only branches have nodes below them.                                    *)
LEMMA ParentsAreBranches ==
  ASSUME WikiAssumption, TypeOK, NEW n \in Nodes, HasChild(n)
  PROVE  n \in Branches
BY DEF WikiAssumption, TypeOK, HasChild

LEMMA HeadType ==
  ASSUME TypeOK, queue # <<>>
  PROVE  /\ Item \in Downloads /\ Item = queue[1] /\ Len(queue) \in Nat \ {0}
         /\ Item.node \in Nodes /\ Item.folder \in Folders /\ Item.time \in Nat
         /\ File \in Paths
         /\ Tail(queue) \in Seq(Downloads) /\ Len(Tail(queue)) = Len(queue) - 1
         /\ \A m \in 1..Len(Tail(queue)) : Tail(queue)[m] = queue[m + 1]
<1>1. queue \in Seq(Downloads)
  BY DEF TypeOK
<1>2. /\ Item \in Downloads /\ Tail(queue) \in Seq(Downloads)
      /\ Len(Tail(queue)) = Len(queue) - 1
      /\ \A m \in 1..Len(Tail(queue)) : Tail(queue)[m] = queue[m + 1]
  BY <1>1, HeadTailProperties DEF Item
<1>3. Len(queue) \in Nat \ {0} /\ Item = queue[1]
  BY <1>1, EmptySeq DEF Item
<1> QED
  BY <1>2, <1>3 DEF Downloads, File, Paths, Nodes

(* The folders of trimmed listings are still those of the nodes they are of*)
NestedFolders(s) ==
  \A k \in 2..Len(s) : s[k].folder = Append(s[k-1].folder, s[k].item.node)

LEMMA NestedTrims ==
  ASSUME TypeOK, NEW s, Trims(s)
  PROVE  NestedFolders(s)
<1>1. \A k \in 2..Len(stack) : stack[k].folder = Append(stack[k-1].folder, stack[k].item.node)
  BY DEF TypeOK
<1>2. Len(s) \in Nat /\ Len(stack) \in Nat /\ Len(s) <= Len(stack)
  BY StackType DEF Trims
<1>3. ASSUME NEW k \in 2..Len(s) PROVE s[k].folder = Append(s[k-1].folder, s[k].item.node)
  <2>1. k \in 2..Len(stack) /\ k \in 1..Len(s) /\ k - 1 \in 1..Len(s)
    BY <1>2
  <2> QED
    BY <1>1, <2>1 DEF Trims
<1> QED
  BY <1>3 DEF NestedFolders

(* What Entered says stays true of trimmed listings.                       *)
LEMMA EnteredTrims ==
  ASSUME TypeOK, Entered, Trims(stack'), visited \subseteq visited'
  PROVE  Entered'
<1>1. Len(stack') \in Nat /\ Len(stack) \in Nat /\ Len(stack') <= Len(stack)
  BY StackType DEF Trims
<1>2. \A k \in 1..Len(stack') : k \in 1..Len(stack)
  BY <1>1
<1>3. \A k \in 2..Len(stack') : k \in 2..Len(stack) /\ k \in 1..Len(stack')
  BY <1>1
<1>4. Leaves' = Leaves
  BY DEF Leaves
<1> QED
  BY <1>2, <1>3, <1>4 DEF Entered, Trims

(* An entry of the listing that discovery is at.                           *)
LEMMA EntryType ==
  ASSUME TypeOK, Entered, stack # <<>>, NEW i \in Current.todo
  PROVE  i \in Items /\ i.node \in Nodes /\ i.time \in Nat /\ (i.parent => i.node \in Branches)
<1>1. Len(stack) \in 1..Len(stack) /\ i \in Items
  BY CurrentType
<1>2. i.parent => i.node \in Branches
  BY <1>1 DEF Entered, Current
<1> QED
  BY <1>1, <1>2 DEF Items

(* Entering a node puts its listing on top of the others.                  *)
LEMMA EnterDoes ==
  ASSUME WikiAssumption, TypeOK, Entered, stack # <<>>, NEW i \in Current.todo, Enter(i)
  PROVE  \E q \in Nodes :
           LET own   == Append(Current.folder, i.node)
               frame == [item |-> i, folder |-> own, todo |-> Children(q)]
           IN  /\ LeadsTo(i, q)
               /\ i.node \in (Nodes \ Leaves) \ visited /\ own \in Folders
               /\ frame \in Listings
               /\ MarkBranch(i.node, i.time, Current.folder, own)
               /\ stack' \in Seq(Listings) /\ Len(stack') = Len(stack) + 1
               /\ \A k \in 1..Len(stack) : stack'[k] = Handled(i)[k]
               /\ stack'[Len(stack) + 1] = frame
<1> DEFINE own == Append(Current.folder, i.node)
           frame(q) == [item |-> i, folder |-> own, todo |-> Children(q)]
<1>1. PICK q \in Nodes :
        /\ LeadsTo(i, q)
        /\ MarkBranch(i.node, i.time, Current.folder, own)
        /\ stack' = Append(Handled(i), frame(q))
  BY DEF Enter
<1>2. i \in Items /\ i.node \in Nodes /\ i.node \notin visited
  BY EntryType DEF Enter
<1>3. i.node \in Branches \cup Links
  BY <1>1, EntryType DEF LeadsTo
<1>4. own \in Folders
  <2>1. Current.folder \in Folders
    BY CurrentType
  <2>2. \A j \in 1..Len(Current.folder) : Current.folder[j] # i.node
    BY <1>2, CurrentType DEF Entered, Current
  <2> QED
    BY <1>3, <2>1, <2>2 DEF WikiAssumption
<1>5. frame(q) \in Listings
  <2>1. Children(q) \subseteq Items
    BY ChildrenType
  <2> QED
    BY <1>2, <1>4, <2>1 DEF Listings
<1>6. i.node \in Nodes \ Leaves
  BY <1>2, <1>3 DEF Leaves
<1>7. Handled(i) \in Seq(Listings) /\ Len(Handled(i)) = Len(stack)
  BY HandledTrims DEF Trims
<1> HIDE DEF own, frame
<1>8. /\ stack' \in Seq(Listings) /\ Len(stack') = Len(stack) + 1
      /\ \A k \in 1..Len(stack) : stack'[k] = Handled(i)[k]
      /\ stack'[Len(stack) + 1] = frame(q)
  BY <1>1, <1>5, <1>7, AppendProperties
<1> QED
  BY <1>1, <1>2, <1>4, <1>5, <1>6, <1>8 DEF own, frame

LEMMA EnterType ==
  ASSUME WikiAssumption, TypeOK, Entered, stack # <<>>, NEW i \in Current.todo, Enter(i)
  PROVE  /\ stack' \in Seq(Listings) /\ NestedFolders(stack')
         /\ records' \in [Tokens -> Record]
         /\ visited' \subseteq Nodes /\ origins' \subseteq Nodes
<1> DEFINE own == Append(Current.folder, i.node)
           frame(q) == [item |-> i, folder |-> own, todo |-> Children(q)]
<1>p. PICK q \in Nodes :
        /\ i.node \in (Nodes \ Leaves) \ visited /\ own \in Folders
        /\ MarkBranch(i.node, i.time, Current.folder, own)
        /\ stack' \in Seq(Listings) /\ Len(stack') = Len(stack) + 1
        /\ \A k \in 1..Len(stack) : stack'[k] = Handled(i)[k]
        /\ stack'[Len(stack) + 1] = frame(q)
  BY EnterDoes
<1>f. \A r : frame(r).item = i /\ frame(r).folder = own
  OBVIOUS
<1> HIDE DEF own, frame
<1>1. /\ i.node \in Nodes
      /\ own \in Folders
      /\ MarkBranch(i.node, i.time, Current.folder, own)
      /\ stack' \in Seq(Listings) /\ Len(stack') = Len(stack) + 1
      /\ \A k \in 1..Len(stack) : stack'[k] = Handled(i)[k]
      /\ stack'[Len(stack) + 1].item = i
      /\ stack'[Len(stack) + 1].folder = own
  BY <1>p, <1>f
<1>2. records' \in [Tokens -> Record]
  BY <1>1, MarkType, EntryType, CurrentType DEF TypeOK, Nodes
<1>3. NestedFolders(stack')
  <2>1. Len(stack) \in 1..Len(stack) /\ Len(stack) \in Nat
    BY CurrentType
  <2>2. NestedFolders(Handled(i)) /\ Len(Handled(i)) = Len(stack)
        /\ Handled(i)[Len(stack)].folder = Current.folder
    BY <2>1, HandledTrims, NestedTrims DEF Trims, Current
  <2>3. ASSUME NEW k \in 2..Len(stack')
        PROVE  stack'[k].folder = Append(stack'[k-1].folder, stack'[k].item.node)
    <3>1. CASE k = Len(stack) + 1
      <4>1. k - 1 = Len(stack) /\ stack'[k-1] = Handled(i)[Len(stack)]
        BY <1>1, <2>1, <3>1
      <4> QED
        BY <1>1, <2>2, <3>1, <4>1 DEF own
    <3>2. CASE k # Len(stack) + 1
      <4>1. k \in 2..Len(stack) /\ k \in 1..Len(stack) /\ k - 1 \in 1..Len(stack)
        BY <1>1, <2>1, <3>2
      <4> QED
        BY <1>1, <2>2, <4>1 DEF NestedFolders
    <3> QED
      BY <3>1, <3>2
  <2> QED
    BY <2>3 DEF NestedFolders
<1>4. visited' \subseteq Nodes /\ origins' \subseteq Nodes
  BY <1>1 DEF Enter, TypeOK
<1> QED
  BY <1>1, <1>2, <1>3, <1>4

LEMMA TypeInit == WikiAssumption /\ Init => TypeOK
<1> SUFFICES ASSUME WikiAssumption, Init PROVE TypeOK
  OBVIOUS
<1>1. StoreTypeOK
  <2>1. NoRecord \in Record
    BY DEF NoRecord, Record, Statuses, Sizes
  <2> QED
    BY <2>1 DEF Init, StoreInit, StoreTypeOK, Absent, Contents
<1>2. place \in [Nodes -> Branches \cup {Top, Gone}] /\ version \in [Nodes \ Links -> Nat]
  BY DEF Init
<1>3. mode \in [incremental : BOOLEAN, limit : Nat]
  BY DEF Init, NoMode
<1>4. stack \in Seq(Listings) /\ queue \in Seq(Downloads)
  BY EmptySeq DEF Init
<1>5. \A k \in 2..Len(stack) : FALSE
  BY EmptySeq DEF Init
<1> QED
  BY <1>1, <1>2, <1>3, <1>4, <1>5 DEF Init, TypeOK

LEMMA ForgetType ==
  ASSUME TypeOK, Forget
  PROVE  TypeOK'
<1>1. StoreTypeOK' /\ place' = place /\ version' = version /\ runs' = runs /\ changes' = changes
  BY DEF TypeOK, StoreTypeOK, Forget, counters
<1>2. mode' \in [incremental : BOOLEAN, limit : Nat]
  BY DEF Forget, NoMode
<1>3. stack' \in Seq(Listings) /\ queue' \in Seq(Downloads)
  BY EmptySeq DEF Forget
<1>4. \A k \in 2..Len(stack') : FALSE
  BY EmptySeq DEF Forget
<1> QED
  BY <1>1, <1>2, <1>3, <1>4 DEF TypeOK, Forget

(* A step of discovery leaves the types alone if it does so to its listings*)
LEMMA DiscoveryType ==
  ASSUME TypeOK, pc = "discover",
         UNCHANGED <<disk, wiki, pc, mode, fetched, counters, failed>>,
         records' \in [Tokens -> Record],
         stack' \in Seq(Listings), NestedFolders(stack'),
         visited' \subseteq Nodes, origins' \subseteq Nodes, truncated' \in BOOLEAN,
         queue' \in Seq(Downloads)
  PROVE  TypeOK'
BY DEF TypeOK, StoreTypeOK, NestedFolders, wiki, counters

LEMMA DecideType ==
  ASSUME TypeOK, NEW i \in Items, NEW f \in Folders, NEW rest, Trims(rest), Decide(i, f, rest)
  PROVE  /\ Trims(stack') /\ stack' \in Seq(Listings) /\ NestedFolders(stack')
         /\ truncated' \in BOOLEAN /\ queue' \in Seq(Downloads)
<1>1. Trims(stack') /\ truncated' \in BOOLEAN
  BY DecideDoes
<1>2. stack' \in Seq(Listings) /\ NestedFolders(stack')
  BY <1>1, NestedTrims DEF Trims
<1>3. queue \in Seq(Downloads)
  BY DEF TypeOK
<1> DEFINE d == [node |-> i.node, time |-> i.time, folder |-> f]
<1>4. queue' = queue \/ (queue' = Append(queue, d) /\ d \in Downloads)
  BY DecideDoes
<1> HIDE DEF d
<1>5. queue' \in Seq(Downloads)
  BY <1>3, <1>4, AppendProperties
<1> QED
  BY <1>1, <1>2, <1>5

(* What the node a listing is of, and the folder above it, are.            *)
LEMMA ReturnType ==
  ASSUME TypeOK, Entered, Len(stack) > 1
  PROVE  /\ Current.item \in Items /\ Current.item.node \in (Nodes \ Leaves) \cap visited
         /\ stack[Len(stack) - 1].folder \in Folders
         /\ Trims(SubSeq(stack, 1, Len(stack) - 1))
<1>1. Len(stack) \in Nat
  BY StackType
<1>2. Len(stack) \in 2..Len(stack) /\ Len(stack) - 1 \in 1..Len(stack)
  BY <1>1
<1>3. Current.item \in Items /\ Current.item.node \in visited \ Leaves
  BY <1>2 DEF Entered, Current
<1>4. Current.item.node \in Nodes
  BY <1>3 DEF Items
<1> QED
  BY <1>2, <1>3, <1>4, StackType, PopTrims

LEMMA TypeStep ==
  ASSUME WikiAssumption, TypeOK, Quiet, Entered, [Next]_vars
  PROVE  TypeOK'
<1> USE WikiAssumption
<1>1. ASSUME NEW n \in Nodes \ Links, Edit(n) PROVE TypeOK'
  <2>1. version' \in [Nodes \ Links -> Nat]
    BY <1>1 DEF Edit, TypeOK
  <2> QED
    BY <1>1, <2>1 DEF Edit, Change, run, discovery, TypeOK, StoreTypeOK
<1>2. ASSUME NEW n \in Nodes, NEW q \in Branches \cup {Top, Gone}, Move(n, q) PROVE TypeOK'
  <2>1. place' \in [Nodes -> Branches \cup {Top, Gone}] /\ changes' \in Nat
    BY <1>2 DEF Move, Change, TypeOK
  <2>2. kept' \subseteq [node : Nodes, version : Nat]
    BY <1>2 DEF Move, TypeOK
  <2>3. UNCHANGED <<records, disk, version, pc, mode, stack, visited, origins, truncated,
                    queue, fetched, runs, failed>>
    BY <1>2 DEF Move, run, discovery
  <2> QED
    BY <2>1, <2>2, <2>3 DEF TypeOK, StoreTypeOK
<1>3. ASSUME NEW p \in Paths, LoseFile(p) PROVE TypeOK'
  <2>1. disk' \in [Paths -> Contents]
    BY <1>3 DEF LoseFile, TypeOK, StoreTypeOK, Absent, Contents
  <2> QED
    BY <1>3, <2>1 DEF LoseFile, Change, run, wiki, discovery, TypeOK, StoreTypeOK
<1>4. CASE Begin
  <2> DEFINE frame == [item |-> None, folder |-> <<>>, todo |-> Children(Top)]
  <2>1. frame \in Listings
    BY ChildrenType DEF Listings, WikiAssumption
  <2> HIDE DEF frame
  <2>2. stack' = <<frame>>
    BY <1>4 DEF Begin, frame
  <2>3. stack' \in Seq(Listings) /\ \A k \in 2..Len(stack') : FALSE
    BY <2>1, <2>2
  <2>4. \A n \in Nodes : version[Source(n)] \in Nat
    BY SourceType DEF TypeOK
  <2>5. kept' \subseteq [node : Nodes, version : Nat]
    BY <1>4, <2>4 DEF Begin
  <2>6. mode' \in [incremental : BOOLEAN, limit : Nat]
    BY <1>4 DEF Begin, WikiAssumption
  <2> QED
    BY <1>4, <2>3, <2>5, <2>6 DEF Begin, TypeOK, StoreTypeOK
<1>5. CASE Discover
  <2>1. pc = "discover" /\ stack # <<>>
        /\ UNCHANGED <<disk, wiki, pc, mode, fetched, counters, failed>>
    BY <1>5 DEF Discover
  <2>2. PICK i \in Current.todo : PassOver(i) \/ Enter(i) \/ LookAt(i)
    BY <1>5 DEF Discover
  <2>3. i \in Items /\ i.node \in Nodes /\ Trims(Handled(i)) /\ Current.folder \in Folders
    BY <2>1, EntryType, HandledTrims, CurrentType
  <2>4. CASE PassOver(i)
    <3>1. stack' \in Seq(Listings) /\ NestedFolders(stack')
      BY <2>3, <2>4, NestedTrims DEF PassOver, Trims
    <3> QED
      BY <2>1, <2>4, <3>1, DiscoveryType DEF PassOver, TypeOK, StoreTypeOK
  <2>5. CASE Enter(i)
    <3>1. truncated' \in BOOLEAN /\ queue' \in Seq(Downloads)
      BY <2>5 DEF Enter, TypeOK
    <3> QED
      BY <2>1, <2>5, <3>1, DiscoveryType, EnterType
  <2>6. CASE LookAt(i)
    <3>1. Decide(i, Current.folder, Handled(i))
      BY <2>6 DEF LookAt
    <3>2. /\ stack' \in Seq(Listings) /\ NestedFolders(stack')
          /\ truncated' \in BOOLEAN /\ queue' \in Seq(Downloads)
      BY <2>3, <3>1, DecideType
    <3> QED
      BY <2>1, <2>3, <2>6, <3>2, DiscoveryType DEF LookAt, TypeOK, StoreTypeOK
  <2> QED
    BY <2>2, <2>4, <2>5, <2>6
<1>6. CASE Return
  <2>1. Len(stack) > 1 /\ pc = "discover"
    BY <1>6 DEF Return
  <2>2. /\ stack' \in Seq(Listings) /\ NestedFolders(stack')
        /\ truncated' \in BOOLEAN /\ queue' \in Seq(Downloads)
    BY <1>6, <2>1, ReturnType, DecideType DEF Return
  <2> QED
    BY <1>6, <2>1, <2>2, DiscoveryType DEF Return, TypeOK, StoreTypeOK
<1>7. CASE EndDiscovery
  <2>1. stack' \in Seq(Listings) /\ \A k \in 2..Len(stack') : FALSE
    BY <1>7, EmptySeq DEF EndDiscovery
  <2> QED
    BY <1>7, <2>1 DEF EndDiscovery, TypeOK, StoreTypeOK, wiki, counters
<1>8. CASE OpenFile
  <2>1. Partial \in Contents /\ File \in Paths /\ Source(Item.node) \in Nodes \ Links
    BY <1>8, HeadType, SourceType DEF OpenFile, Partial, Contents
  <2>2. disk' \in [Paths -> Contents]
    BY <1>8, <2>1 DEF OpenFile, TypeOK, StoreTypeOK
  <2>3. fetched' \in Nat
    BY <1>8, <2>1 DEF OpenFile, TypeOK
  <2> QED
    BY <1>8, <2>2, <2>3 DEF OpenFile, TypeOK, StoreTypeOK, wiki, discovery, counters
<1>9. CASE WriteFile
  <2>1. fetched \in Contents /\ File \in Paths
    BY <1>9, HeadType DEF WriteFile, TypeOK, Contents
  <2>2. disk' \in [Paths -> Contents]
    BY <1>9, <2>1 DEF WriteFile, TypeOK, StoreTypeOK
  <2> QED
    BY <1>9, <2>2 DEF WriteFile, TypeOK, StoreTypeOK, wiki, discovery, counters
<1>10. CASE RecordDownload
  <2>1. queue # <<>>
    BY <1>10 DEF RecordDownload, TypeOK
  <2>2. records' \in [Tokens -> Record]
    BY <1>10, <2>1, HeadType, MarkType DEF RecordDownload, TypeOK, Nodes
  <2> QED
    BY <1>10, <2>1, <2>2, HeadType
    DEF RecordDownload, TypeOK, StoreTypeOK, wiki, discovery, counters
<1>11. CASE FailDownload
  <2>1. queue # <<>>
    BY <1>11 DEF FailDownload
  <2> QED
    BY <1>11, <2>1, HeadType
    DEF FailDownload, TypeOK, StoreTypeOK, wiki, discovery, counters
<1>12. CASE Complete \/ Abort
  BY <1>12, ForgetType DEF Complete, Abort
<1>13. CASE UNCHANGED vars
  BY <1>13 DEF vars, TypeOK, StoreTypeOK, wiki, discovery, counters
<1> QED
  BY <1>1, <1>2, <1>3, <1>4, <1>5, <1>6, <1>7, <1>8, <1>9, <1>10, <1>11, <1>12, <1>13 DEF Next

-----------------------------------------------------------------------------
(* Discovery: no node is entered twice or planned twice.                   *)

(* What is planned was visited, and is not entered any more.               *)
PlannedIsLeft ==
  \A m \in 1..Len(queue) :
    /\ queue[m].node \in visited
    /\ \A k \in 2..Len(stack) : stack[k].item.node # queue[m].node

WalkInv == TypeOK /\ Quiet /\ Entered /\ PlannedIsLeft /\ HandledOnce

LEMMA QuietStep ==
  ASSUME TypeOK, Quiet, [Next]_vars
  PROVE  Quiet'
<1>1. ASSUME UNCHANGED <<pc, visited, queue, failed, truncated, stack>>,
             kept' \subseteq kept
      PROVE  Quiet'
  BY <1>1 DEF Quiet
<1>2. ASSUME NEW n \in Nodes \ Links, Edit(n) PROVE Quiet'
  BY <1>2, <1>1 DEF Edit, run, discovery
<1>3. ASSUME NEW n \in Nodes, NEW q \in Branches \cup {Top, Gone}, Move(n, q) PROVE Quiet'
  BY <1>3, <1>1 DEF Move, run, discovery
<1>4. ASSUME NEW p \in Paths, LoseFile(p) PROVE Quiet'
  BY <1>4, <1>1 DEF LoseFile, run, wiki, discovery
<1>5. CASE Begin
  BY <1>5 DEF Begin, Quiet
<1>6. CASE Discover
  <2>1. pc = "discover" /\ pc' = "discover" /\ stack # <<>> /\ ~truncated
    BY <1>6 DEF Discover, Quiet
  <2>2. PICK i \in Current.todo : PassOver(i) \/ Enter(i) \/ LookAt(i)
    BY <1>6 DEF Discover
  <2>3. truncated' = truncated \/ stack' = <<>> \/ ~truncated'
    BY <2>2 DEF PassOver, Enter, LookAt, Decide
  <2> QED
    BY <2>1, <2>3 DEF Quiet
<1>7. CASE Return
  <2>1. pc = "discover" /\ pc' = "discover"
    BY <1>7 DEF Return
  <2>2. ~truncated
    BY <1>7, EmptySeq DEF Return, Quiet
  <2>3. truncated' = truncated \/ stack' = <<>> \/ ~truncated'
    BY <1>7 DEF Return, Decide
  <2> QED
    BY <2>1, <2>2, <2>3 DEF Quiet
<1>8. CASE EndDiscovery
  BY <1>8 DEF EndDiscovery, Quiet
<1>9. CASE OpenFile \/ WriteFile \/ RecordDownload \/ FailDownload
  BY <1>9 DEF OpenFile, WriteFile, RecordDownload, FailDownload, Quiet, discovery, wiki
<1>10. CASE Complete \/ Abort
  BY <1>10 DEF Complete, Abort, Forget, Quiet
<1>11. CASE UNCHANGED vars
  BY <1>11 DEF vars, discovery, wiki, Quiet
<1> QED
  BY <1>2, <1>3, <1>4, <1>5, <1>6, <1>7, <1>8, <1>9, <1>10, <1>11 DEF Next

(* No step but the entering of a node adds to the listings.                *)
LEMMA OtherStepsTrim ==
  ASSUME WikiAssumption, TypeOK, Quiet, Entered, [Next]_vars,
         ~Begin, \A i \in Current.todo : ~(Discover /\ Enter(i))
  PROVE  Trims(stack') /\ (visited \subseteq visited' \/ stack' = <<>>)
<1>1. stack' = stack \/ stack' = <<>> => Trims(stack')
  BY EmptyTrims, SameTrims
<1>2. ASSUME NEW n \in Nodes \ Links, Edit(n) PROVE stack' = stack /\ visited' = visited
  BY <1>2 DEF Edit, run, discovery
<1>3. ASSUME NEW n \in Nodes, NEW q \in Branches \cup {Top, Gone}, Move(n, q)
      PROVE  stack' = stack /\ visited' = visited
  BY <1>3 DEF Move, run, discovery
<1>4. ASSUME NEW p \in Paths, LoseFile(p) PROVE stack' = stack /\ visited' = visited
  BY <1>4 DEF LoseFile, run, discovery
<1>5. ASSUME Discover PROVE Trims(stack') /\ visited \subseteq visited'
  <2>1. stack # <<>>
    BY <1>5 DEF Discover
  <2>2. PICK i \in Current.todo : PassOver(i) \/ LookAt(i)
    BY <1>5 DEF Discover
  <2>3. i \in Items /\ Current.folder \in Folders /\ Trims(Handled(i))
    BY <2>1, EntryType, CurrentType, HandledTrims
  <2>4. CASE PassOver(i)
    BY <2>3, <2>4 DEF PassOver
  <2>5. CASE LookAt(i)
    BY <2>3, <2>5, DecideType DEF LookAt
  <2> QED
    BY <2>2, <2>4, <2>5
<1>6. ASSUME Return PROVE Trims(stack') /\ visited' = visited
  BY <1>6, ReturnType, DecideType DEF Return
<1>7. ASSUME EndDiscovery \/ Complete \/ Abort PROVE stack' = <<>>
  BY <1>7 DEF EndDiscovery, Complete, Abort, Forget
<1>8. ASSUME OpenFile \/ WriteFile \/ RecordDownload \/ FailDownload \/ UNCHANGED vars
      PROVE  stack' = stack /\ visited' = visited
  BY <1>8 DEF OpenFile, WriteFile, RecordDownload, FailDownload, vars, discovery
<1> QED
  BY <1>1, <1>2, <1>3, <1>4, <1>5, <1>6, <1>7, <1>8 DEF Next

LEMMA EnteredStep ==
  ASSUME WikiAssumption, TypeOK, Quiet, Entered, [Next]_vars
  PROVE  Entered'
<1>1. CASE Begin
  <2> DEFINE frame == [item |-> None, folder |-> <<>>, todo |-> Children(Top)]
  <2>1. stack' = <<frame>>
    BY <1>1 DEF Begin
  <2>2. Len(stack') = 1 /\ stack'[1] = frame
    BY <2>1
  <2>3. stack'[1].folder = <<>> /\ stack'[1].todo = Children(Top)
    BY <2>2
  <2>4. \A i \in Children(Top) : i.parent => i.node \in Branches
    BY ChildrenType, ParentsAreBranches DEF Items
  <2>5. \A k \in 1..Len(stack') : k = 1
    BY <2>2
  <2>6. \A k \in 2..Len(stack') : FALSE
    BY <2>2
  <2>7. \A j \in 1..Len(<<>>) : FALSE
    BY EmptySeq
  <2> HIDE DEF frame
  <2> QED
    BY <2>3, <2>4, <2>5, <2>6, <2>7 DEF Entered
<1>2. ASSUME Discover, NEW i \in Current.todo, Enter(i) PROVE Entered'
  <2> DEFINE own == Append(Current.folder, i.node)
             frame(q) == [item |-> i, folder |-> own, todo |-> Children(q)]
  <2>1. stack # <<>>
    BY <1>2 DEF Discover
  <2>2. PICK q \in Nodes :
          /\ i.node \in (Nodes \ Leaves) \ visited /\ own \in Folders
          /\ stack' \in Seq(Listings) /\ Len(stack') = Len(stack) + 1
          /\ \A k \in 1..Len(stack) : stack'[k] = Handled(i)[k]
          /\ stack'[Len(stack) + 1] = frame(q)
    BY <1>2, <2>1, EnterDoes
  <2>3. frame(q).item = i /\ frame(q).folder = own /\ frame(q).todo = Children(q)
    OBVIOUS
  <2>4. visited' = visited \cup {i.node} /\ i \in Items
    BY <1>2, <2>1, EntryType DEF Enter
  <2>5. \A e \in Children(q) : e.parent => e.node \in Branches
    BY ChildrenType, ParentsAreBranches DEF Items
  <2>6. \A j \in 1..Len(own) : own[j] \in visited'
    <3>1. Current.folder \in Seq(Nodes) /\ Len(stack) \in 1..Len(stack)
      BY <2>1, CurrentType DEF WikiAssumption
    <3>2. \A j \in 1..Len(Current.folder) : Current.folder[j] \in visited
      BY <3>1 DEF Entered, Current
    <3>3. /\ Len(own) = Len(Current.folder) + 1
          /\ \A j \in 1..Len(Current.folder) : own[j] = Current.folder[j]
          /\ own[Len(Current.folder) + 1] = i.node
      BY SMTT(30), <2>2, <3>1, AppendProperties
    <3>4. Len(Current.folder) \in Nat
      BY <3>1, LenProperties
    <3> HIDE DEF own
    <3>5. \A j \in 1..Len(own) : j \in 1..Len(Current.folder) \/ j = Len(Current.folder) + 1
      BY <3>3, <3>4
    <3> QED
      BY <2>4, <3>2, <3>3, <3>5
  <2> HIDE DEF own, frame
  <2>7. /\ Len(stack) \in Nat /\ Trims(Handled(i)) /\ Len(Handled(i)) = Len(stack)
    BY <2>1, StackType, HandledTrims
  <2>8. Leaves' = Leaves
    BY DEF Leaves
  <2>9. ASSUME NEW k \in 1..Len(stack')
        PROVE  /\ k # 1 => stack'[k].item \in Items /\ stack'[k].item.node \in visited' \ Leaves
               /\ \A j \in 1..Len(stack'[k].folder) : stack'[k].folder[j] \in visited'
               /\ \A e \in stack'[k].todo : e.parent => e.node \in Branches
    <3>1. CASE k = Len(stack) + 1
      BY <2>2, <2>3, <2>4, <2>5, <2>6, <3>1
    <3>2. CASE k # Len(stack) + 1
      <4>1. k \in 1..Len(stack) /\ (k # 1 => k \in 2..Len(stack))
        BY <2>2, <2>7, <3>2
      <4>2. /\ stack'[k].item = stack[k].item /\ stack'[k].folder = stack[k].folder
            /\ stack'[k].todo \subseteq stack[k].todo
        BY <2>2, <2>7, <4>1 DEF Trims
      <4> QED
        BY <2>4, <4>1, <4>2 DEF Entered
    <3> QED
      BY <3>1, <3>2
  <2>10. \A k \in 2..Len(stack') : k \in 1..Len(stack') /\ k # 1
    BY <2>2, <2>7
  <2> QED
    BY <2>8, <2>9, <2>10 DEF Entered
<1>3. ASSUME Trims(stack'), visited \subseteq visited' \/ stack' = <<>> PROVE Entered'
  <2>1. CASE stack' = <<>>
    <3>1. (\A k \in 1..Len(stack') : FALSE) /\ (\A k \in 2..Len(stack') : FALSE)
      BY <2>1, EmptySeq
    <3> QED
      BY <3>1 DEF Entered
  <2>2. CASE visited \subseteq visited'
    BY <1>3, <2>2, EnteredTrims
  <2> QED
    BY <1>3, <2>1, <2>2
<1> QED
  BY <1>1, <1>2, <1>3, OtherStepsTrim

(* A decision about a node that was not planned and is not entered plans   *)
(* it once.                                                                *)
LEMMA DecideKeeps ==
  ASSUME TypeOK, PlannedIsLeft, HandledOnce,
         NEW i \in Items, NEW f \in Folders, NEW rest, Trims(rest), Decide(i, f, rest),
         visited \subseteq visited', i.node \in visited',
         \A m \in 1..Len(queue) : queue[m].node # i.node,
         \A k \in 2..Len(rest) : rest[k].item.node # i.node
  PROVE  PlannedIsLeft' /\ HandledOnce'
<1> DEFINE d == [node |-> i.node, time |-> i.time, folder |-> f]
<1>1. /\ Trims(stack')
      /\ stack' \in {rest, <<>>}
      /\ queue' = queue \/ (queue' = Append(queue, d) /\ d \in Downloads)
  BY DecideDoes
<1>2. d.node = i.node
  OBVIOUS
<1> HIDE DEF d
<1>3. /\ Len(stack') \in Nat
      /\ \A k \in 2..Len(stack') :
           /\ k \in 2..Len(stack) /\ stack'[k].item = stack[k].item
           /\ stack'[k].item.node # i.node
  <2>1. Len(stack') \in Nat /\ Len(stack) \in Nat /\ Len(stack') <= Len(stack)
    BY <1>1, StackType DEF Trims
  <2>2. \A k \in 2..Len(stack') : k \in 1..Len(stack') /\ k \in 2..Len(stack)
    BY <2>1
  <2>3. Len(<<>>) = 0
    BY EmptySeq
  <2> QED
    BY <1>1, <2>1, <2>2, <2>3 DEF Trims
<1>4. queue \in Seq(Downloads) /\ Len(queue) \in Nat
  BY LenProperties DEF TypeOK
<1>5. ASSUME NEW m \in 1..Len(queue')
      PROVE  \/ m \in 1..Len(queue) /\ queue'[m] = queue[m]
             \/ m = Len(queue) + 1 /\ m \notin 1..Len(queue) /\ queue'[m].node = i.node
  <2>1. CASE queue' = queue
    BY <2>1
  <2>2. CASE queue' = Append(queue, d) /\ d \in Downloads
    <3>1. /\ Len(queue') = Len(queue) + 1 /\ queue'[Len(queue) + 1] = d
          /\ \A n \in 1..Len(queue) : queue'[n] = queue[n]
      BY <1>4, <2>2, AppendProperties
    <3> QED
      BY <1>2, <1>4, <3>1
  <2> QED
    BY <1>1, <2>1, <2>2
<1>6. PlannedIsLeft'
  <2> SUFFICES ASSUME NEW m \in 1..Len(queue')
               PROVE  /\ queue'[m].node \in visited'
                      /\ \A k \in 2..Len(stack') : stack'[k].item.node # queue'[m].node
    BY DEF PlannedIsLeft
  <2>1. CASE m \in 1..Len(queue) /\ queue'[m] = queue[m]
    <3>1. /\ queue[m].node \in visited
          /\ \A k \in 2..Len(stack) : stack[k].item.node # queue[m].node
      BY <2>1 DEF PlannedIsLeft
    <3> QED
      BY <1>3, <2>1, <3>1
  <2>2. CASE queue'[m].node = i.node
    BY <1>3, <2>2
  <2> QED
    BY <1>5, <2>1, <2>2
<1>7. NoReentry'
  BY <1>3 DEF HandledOnce, NoReentry
<1>8. PlannedOnce'
  BY <1>5 DEF HandledOnce, PlannedOnce
<1> QED
  BY <1>6, <1>7, <1>8 DEF HandledOnce

(* Nothing is planned twice by a step that plans nothing.                  *)
LEMMA TrimKeeps ==
  ASSUME TypeOK, PlannedIsLeft, HandledOnce, Trims(stack'), visited \subseteq visited',
         queue' = queue \/ (queue # <<>> /\ queue' = Tail(queue))
  PROVE  PlannedIsLeft' /\ HandledOnce'
<1>1. \A k \in 2..Len(stack') : k \in 2..Len(stack) /\ stack'[k].item = stack[k].item
  <2>1. Len(stack') \in Nat /\ Len(stack) \in Nat /\ Len(stack') <= Len(stack)
    BY StackType DEF Trims
  <2>2. \A k \in 2..Len(stack') : k \in 1..Len(stack') /\ k \in 2..Len(stack)
    BY <2>1
  <2> QED
    BY <2>2 DEF Trims
<1>2. CASE queue' = queue
  BY SMTT(30), <1>1, <1>2 DEF PlannedIsLeft, HandledOnce, NoReentry, PlannedOnce
<1>3. CASE queue # <<>> /\ queue' = Tail(queue)
  <2>1. /\ Len(queue) \in Nat /\ Len(queue') = Len(queue) - 1
        /\ \A m \in 1..Len(queue') : queue'[m] = queue[m + 1]
    BY <1>3, HeadType
  <2>2. \A m \in 1..Len(queue') : m + 1 \in 1..Len(queue)
    BY <2>1
  <2>3. PlannedIsLeft'
    BY <1>1, <2>1, <2>2 DEF PlannedIsLeft
  <2>4. PlannedOnce'
    <3>1. ASSUME NEW m \in 1..Len(queue'), NEW n \in 1..Len(queue'),
                 queue'[m].node = queue'[n].node
          PROVE  m = n
      <4>1. m + 1 = n + 1
        BY <2>1, <2>2, <3>1 DEF HandledOnce, PlannedOnce
      <4> QED
        BY <2>1, <4>1
    <3> QED
      BY <3>1 DEF PlannedOnce
  <2>5. NoReentry'
    BY <1>1 DEF HandledOnce, NoReentry
  <2> QED
    BY <2>3, <2>4, <2>5 DEF HandledOnce
<1> QED
  BY <1>2, <1>3

LEMMA EnterKeeps ==
  ASSUME WikiAssumption, TypeOK, Entered, PlannedIsLeft, HandledOnce, stack # <<>>,
         NEW i \in Current.todo, Enter(i)
  PROVE  PlannedIsLeft' /\ HandledOnce'
<1> DEFINE frame(q) ==
      [item |-> i, folder |-> Append(Current.folder, i.node), todo |-> Children(q)]
<1>1. PICK q \in Nodes :
        /\ i.node \notin visited
        /\ Len(stack') = Len(stack) + 1
        /\ \A k \in 1..Len(stack) : stack'[k] = Handled(i)[k]
        /\ stack'[Len(stack) + 1] = frame(q)
  BY EnterDoes
<1>2. frame(q).item = i
  OBVIOUS
<1> HIDE DEF frame
<1>3. queue' = queue /\ visited' = visited \cup {i.node}
  BY DEF Enter
<1>4. Len(stack) \in Nat /\ Trims(Handled(i)) /\ Len(Handled(i)) = Len(stack)
  BY StackType, HandledTrims
<1>5. ASSUME NEW k \in 2..Len(stack')
      PROVE  \/ k \in 2..Len(stack) /\ stack'[k].item = stack[k].item /\ k # Len(stack) + 1
             \/ k = Len(stack) + 1 /\ stack'[k].item = i
  <2>1. CASE k = Len(stack) + 1
    BY <1>1, <1>2, <2>1
  <2>2. CASE k # Len(stack) + 1
    <3>1. k \in 2..Len(stack) /\ k \in 1..Len(stack)
      BY <1>1, <1>4, <2>2
    <3> QED
      BY <1>1, <1>4, <2>2, <3>1 DEF Trims
  <2> QED
    BY <2>1, <2>2
<1>6. \A k \in 2..Len(stack) : stack[k].item.node \in visited
  BY DEF Entered
<1>7. NoReentry'
  BY <1>1, <1>5, <1>6 DEF HandledOnce, NoReentry
<1>8. PlannedOnce' /\ PlannedIsLeft'
  BY <1>1, <1>3, <1>5 DEF HandledOnce, PlannedOnce, PlannedIsLeft
<1> QED
  BY <1>7, <1>8 DEF HandledOnce

LEMMA PlannedStep ==
  ASSUME WikiAssumption, WalkInv, [Next]_vars
  PROVE  PlannedIsLeft' /\ HandledOnce'
<1> USE WikiAssumption DEF WalkInv
<1>1. CASE Begin
  <2>1. queue' = <<>> /\ Len(stack') = 1
    BY <1>1 DEF Begin, Quiet
  <2>2. (\A m \in 1..Len(queue') : FALSE) /\ (\A k \in 2..Len(stack') : FALSE)
    BY <2>1, EmptySeq
  <2> QED
    BY <2>2 DEF PlannedIsLeft, HandledOnce, NoReentry, PlannedOnce
<1>2. CASE Discover
  <2>1. stack # <<>>
    BY <1>2 DEF Discover
  <2>2. PICK i \in Current.todo : PassOver(i) \/ Enter(i) \/ LookAt(i)
    BY <1>2 DEF Discover
  <2>3. i \in Items /\ i.node \in Nodes /\ Current.folder \in Folders
        /\ Trims(Handled(i)) /\ Len(Handled(i)) = Len(stack)
    BY <2>1, EntryType, HandledTrims, CurrentType
  <2>4. CASE PassOver(i)
    BY <2>3, <2>4, TrimKeeps DEF PassOver
  <2>5. CASE Enter(i)
    BY <2>1, <2>5, EnterKeeps
  <2>6. CASE LookAt(i)
    <3>1. /\ visited' = visited \cup {i.node} /\ i.node \notin visited
          /\ Decide(i, Current.folder, Handled(i))
      BY <2>6 DEF LookAt
    <3>2. \A m \in 1..Len(queue) : queue[m].node # i.node
      BY <3>1 DEF PlannedIsLeft
    <3>3. \A k \in 2..Len(Handled(i)) : Handled(i)[k].item.node # i.node
      <4>1. \A k \in 2..Len(stack) : k \in 1..Len(stack)
        BY StackType
      <4> QED
        BY <2>3, <3>1, <4>1 DEF Entered, Trims
    <3> QED
      BY <2>3, <3>1, <3>2, <3>3, DecideKeeps
  <2> QED
    BY <2>2, <2>4, <2>5, <2>6
<1>3. CASE Return
  <2> DEFINE i == Current.item
             rest == SubSeq(stack, 1, Len(stack) - 1)
  <2>1. Len(stack) > 1 /\ Len(stack) \in Nat /\ visited' = visited
        /\ Decide(i, stack[Len(stack) - 1].folder, rest)
    BY <1>3, StackType DEF Return
  <2>2. /\ i \in Items /\ i.node \in visited
        /\ stack[Len(stack) - 1].folder \in Folders /\ Trims(rest)
        /\ Len(rest) = Len(stack) - 1 /\ \A k \in 1..Len(rest) : rest[k] = stack[k]
    BY <2>1, ReturnType, PopTrims
  <2>3. Len(stack) \in 2..Len(stack) /\ i = stack[Len(stack)].item
    BY <2>1 DEF Current
  <2> HIDE DEF i, rest
  <2>4. \A m \in 1..Len(queue) : queue[m].node # i.node
    BY <2>3 DEF PlannedIsLeft
  <2>5. ASSUME NEW k \in 2..Len(rest) PROVE rest[k].item.node # i.node
    <3>1. k \in 2..Len(stack) /\ k # Len(stack) /\ k \in 1..Len(rest)
      BY <2>1, <2>2
    <3> QED
      BY <2>2, <2>3, <3>1 DEF HandledOnce, NoReentry
  <2> QED
    BY <2>1, <2>2, <2>4, <2>5, DecideKeeps
<1>4. CASE EndDiscovery
  BY <1>4, EmptyTrims, TrimKeeps DEF EndDiscovery
<1>5. CASE Complete \/ Abort
  <2>1. queue' = <<>> /\ stack' = <<>>
    BY <1>5 DEF Complete, Abort, Forget
  <2>2. (\A m \in 1..Len(queue') : FALSE) /\ (\A k \in 2..Len(stack') : FALSE)
    BY <2>1, EmptySeq
  <2> QED
    BY <2>2 DEF PlannedIsLeft, HandledOnce, NoReentry, PlannedOnce
<1>6. ASSUME stack' = stack, visited' = visited,
             queue' = queue \/ (queue # <<>> /\ queue' = Tail(queue))
      PROVE  PlannedIsLeft' /\ HandledOnce'
  BY <1>6, SameTrims, TrimKeeps
<1>7. ASSUME NEW n \in Nodes \ Links, Edit(n) PROVE PlannedIsLeft' /\ HandledOnce'
  BY <1>7, <1>6 DEF Edit, run, discovery
<1>8. ASSUME NEW n \in Nodes, NEW q \in Branches \cup {Top, Gone}, Move(n, q)
      PROVE  PlannedIsLeft' /\ HandledOnce'
  BY <1>8, <1>6 DEF Move, run, discovery
<1>9. ASSUME NEW p \in Paths, LoseFile(p) PROVE PlannedIsLeft' /\ HandledOnce'
  BY <1>9, <1>6 DEF LoseFile, run, discovery
<1>10. CASE OpenFile \/ WriteFile \/ UNCHANGED vars
  BY <1>10, <1>6 DEF OpenFile, WriteFile, vars, discovery
<1>11. CASE RecordDownload \/ FailDownload
  <2>1. queue # <<>>
    BY <1>11 DEF RecordDownload, FailDownload, TypeOK
  <2> QED
    BY <1>11, <2>1, <1>6 DEF RecordDownload, FailDownload, discovery
<1> QED
  BY <1>1, <1>2, <1>3, <1>4, <1>5, <1>7, <1>8, <1>9, <1>10, <1>11 DEF Next

LEMMA WalkInit == WikiAssumption /\ Init => WalkInv
<1> SUFFICES ASSUME WikiAssumption, Init PROVE WalkInv
  OBVIOUS
<1>1. TypeOK
  BY TypeInit
<1>2. stack = <<>> /\ queue = <<>>
  BY DEF Init
<1>3. /\ \A k \in 1..Len(stack) : FALSE
      /\ \A k \in 2..Len(stack) : FALSE
      /\ \A m \in 1..Len(queue) : FALSE
  BY <1>2, EmptySeq
<1>4. Quiet
  BY DEF Init, Quiet
<1> QED
  BY <1>1, <1>3, <1>4
  DEF WalkInv, Entered, PlannedIsLeft, HandledOnce, NoReentry, PlannedOnce

LEMMA WalkStep == ASSUME WikiAssumption, WalkInv, [Next]_vars PROVE WalkInv'
BY TypeStep, QuietStep, EnteredStep, PlannedStep DEF WalkInv

LEMMA WalkHolds == Spec => []WalkInv
<1>1. Init => WalkInv
  BY WalkInit, WikiAssumption
<1>2. WalkInv /\ [Next]_vars => WalkInv'
  BY WalkStep, WikiAssumption
<1> QED
  BY <1>1, <1>2, PTL DEF Spec

(* Every state of every run has the type TypeOK says.                      *)
THEOREM WikiTypeCorrect == Spec => []TypeOK
<1>1. WalkInv => TypeOK
  BY DEF WalkInv
<1> QED
  BY <1>1, WalkHolds, PTL

(* However shortcuts contain each other, a run enters a node once and      *)
(* downloads it once.                                                      *)
THEOREM NodesAreHandledOnce == Spec => []HandledOnce
<1>1. WalkInv => HandledOnce
  BY DEF WalkInv
<1> QED
  BY <1>1, WalkHolds, PTL

-----------------------------------------------------------------------------
(* Where listed entries, planned downloads and records come from.          *)

LEMMA LeafType ==
  ASSUME WikiAssumption, NEW n \in Leaves
  PROVE  n \in Nodes /\ n \notin Links /\ n \notin Branches /\ n \in Nodes \ Links
         /\ n \in Tokens /\ Source(n) = n
BY DEF WikiAssumption, Leaves, Nodes, Tokens, Source

(* An entry is one that was listed before, or is listed by this step as    *)
(* its node is now.                                                        *)
LEMMA EntriesFrom ==
  ASSUME WikiAssumption, WalkInv, [Next]_vars, NEW k \in 1..Len(stack'), NEW e \in stack'[k].todo
  PROVE  \/ ~Begin /\ \E f \in 1..Len(stack) : e \in stack[f].todo
         \/ /\ \E q \in Nodes \cup {Top} : e \in Children(q)
            /\ Begin \/ UNCHANGED <<place, version, kept, failed, pc>>
<1> USE WikiAssumption DEF WalkInv
<1>1. CASE Begin
  <2> DEFINE frame == [item |-> None, folder |-> <<>>, todo |-> Children(Top)]
  <2>1. stack' = <<frame>> /\ frame.todo = Children(Top)
    BY <1>1 DEF Begin
  <2> HIDE DEF frame
  <2>2. k = 1 /\ e \in Children(Top)
    BY <2>1
  <2> QED
    BY <1>1, <2>2
<1>2. ASSUME Discover, NEW i \in Current.todo, Enter(i)
      PROVE  \/ ~Begin /\ \E f \in 1..Len(stack) : e \in stack[f].todo
             \/ /\ \E q \in Nodes : e \in Children(q)
                /\ UNCHANGED <<place, version, kept, failed, pc>>
  <2> DEFINE frame(q) ==
        [item |-> i, folder |-> Append(Current.folder, i.node), todo |-> Children(q)]
  <2>0. stack # <<>> /\ ~Begin
    BY <1>2 DEF Discover, Begin
  <2>1. PICK q \in Nodes :
          /\ Len(stack') = Len(stack) + 1
          /\ \A j \in 1..Len(stack) : stack'[j] = Handled(i)[j]
          /\ stack'[Len(stack) + 1] = frame(q)
    BY <1>2, <2>0, EnterDoes
  <2>2. frame(q).todo = Children(q)
    OBVIOUS
  <2> HIDE DEF frame
  <2>3. Len(stack) \in Nat /\ Trims(Handled(i)) /\ Len(Handled(i)) = Len(stack)
    BY <2>0, StackType, HandledTrims
  <2>4. CASE k = Len(stack) + 1
    BY <1>2, <2>1, <2>2, <2>4 DEF Discover, wiki
  <2>5. CASE k # Len(stack) + 1
    <3>1. k \in 1..Len(stack)
      BY <2>1, <2>3, <2>5
    <3>2. e \in stack[k].todo
      BY <2>1, <2>3, <3>1 DEF Trims
    <3> QED
      BY <2>0, <3>1, <3>2
  <2> QED
    BY <2>4, <2>5
<1>3. ASSUME Trims(stack'), ~Begin
      PROVE  \E f \in 1..Len(stack) : e \in stack[f].todo
  <2>1. k \in 1..Len(stack) /\ e \in stack[k].todo
    BY <1>3, StackType DEF Trims
  <2> QED
    BY <2>1
<1> QED
  BY <1>1, <1>2, <1>3, OtherStepsTrim

(* A leaf is planned as it was listed.                                     *)
LEMMA PlannedFrom ==
  ASSUME WikiAssumption, WalkInv, [Next]_vars,
         NEW m \in 1..Len(queue'), queue'[m].node \in Leaves
  PROVE  \/ \E j \in 1..Len(queue) : queue'[m] = queue[j]
         \/ /\ \E f \in 1..Len(stack) : \E e \in stack[f].todo :
                 e.node = queue'[m].node /\ e.time = queue'[m].time
            /\ UNCHANGED <<place, version, kept, failed, pc>>
<1> USE WikiAssumption DEF WalkInv
<1>q. queue \in Seq(Downloads) /\ Len(queue) \in Nat
  BY LenProperties DEF TypeOK
<1>1. CASE queue' = queue
  BY <1>1
<1>2. CASE queue' = <<>>
  BY <1>2, EmptySeq
<1>3. CASE queue # <<>> /\ queue' = Tail(queue)
  <2>1. m + 1 \in 1..Len(queue) /\ queue'[m] = queue[m + 1]
    BY <1>3, <1>q, HeadType
  <2> QED
    BY <2>1
<1>4. ASSUME NEW i \in Items, NEW f \in Folders, NEW rest, Trims(rest), Decide(i, f, rest)
      PROVE  \/ \E j \in 1..Len(queue) : queue'[m] = queue[j]
             \/ i.node = queue'[m].node /\ i.time = queue'[m].time
  <2> DEFINE d == [node |-> i.node, time |-> i.time, folder |-> f]
  <2>1. queue' = queue \/ (queue' = Append(queue, d) /\ d \in Downloads)
    BY <1>4, DecideDoes
  <2>2. d.node = i.node /\ d.time = i.time
    OBVIOUS
  <2> HIDE DEF d
  <2>3. CASE queue' = Append(queue, d) /\ d \in Downloads
    <3>1. /\ Len(queue') = Len(queue) + 1 /\ queue'[Len(queue) + 1] = d
          /\ \A n \in 1..Len(queue) : queue'[n] = queue[n]
      BY <1>q, <2>3, AppendProperties
    <3>2. m \in 1..Len(queue) \/ m = Len(queue) + 1
      BY <1>q, <3>1
    <3> QED
      BY <2>2, <3>1, <3>2
  <2> QED
    BY <2>1, <2>3
<1>5. CASE Discover
  <2>1. stack # <<>> /\ UNCHANGED <<place, version, kept, failed, pc>>
    BY <1>5 DEF Discover, wiki
  <2>2. PICK i \in Current.todo : PassOver(i) \/ Enter(i) \/ LookAt(i)
    BY <1>5 DEF Discover
  <2>3. i \in Items /\ Current.folder \in Folders /\ Trims(Handled(i))
        /\ Len(stack) \in 1..Len(stack) /\ i \in stack[Len(stack)].todo
    BY <2>1, EntryType, HandledTrims, CurrentType DEF Current
  <2>4. CASE PassOver(i) \/ Enter(i)
    BY <1>1, <2>4 DEF PassOver, Enter
  <2>5. CASE LookAt(i)
    BY <1>4, <2>1, <2>3, <2>5 DEF LookAt
  <2> QED
    BY <2>2, <2>4, <2>5
<1>6. CASE Return
  <2>1. Len(stack) > 1
        /\ Decide(Current.item, stack[Len(stack) - 1].folder, SubSeq(stack, 1, Len(stack) - 1))
    BY <1>6 DEF Return
  <2>2. /\ Current.item \in Items /\ Current.item.node \notin Leaves
        /\ stack[Len(stack) - 1].folder \in Folders
        /\ Trims(SubSeq(stack, 1, Len(stack) - 1))
    BY <2>1, ReturnType
  <2> QED
    BY <1>4, <2>1, <2>2
<1>7. CASE Begin
  BY <1>2, <1>7 DEF Begin, Quiet
<1>8. ASSUME NEW n \in Nodes \ Links, Edit(n) PROVE queue' = queue
  BY <1>8 DEF Edit, run
<1>9. ASSUME NEW n \in Nodes, NEW q \in Branches \cup {Top, Gone}, Move(n, q) PROVE queue' = queue
  BY <1>9 DEF Move, run
<1>10. ASSUME NEW p \in Paths, LoseFile(p) PROVE queue' = queue
  BY <1>10 DEF LoseFile, run
<1>11. CASE EndDiscovery \/ OpenFile \/ WriteFile \/ UNCHANGED vars
  BY <1>1, <1>11 DEF EndDiscovery, OpenFile, WriteFile, vars
<1>12. CASE RecordDownload \/ FailDownload
  BY <1>3, <1>12 DEF RecordDownload, FailDownload, TypeOK
<1>13. CASE Complete \/ Abort
  BY <1>2, <1>13 DEF Complete, Abort, Forget
<1> QED
  BY <1>1, <1>5, <1>6, <1>7, <1>8, <1>9, <1>10, <1>11, <1>12, <1>13 DEF Next

(* The record of a leaf changes only when it has been downloaded.          *)
LEMMA RecordsFrom ==
  ASSUME WikiAssumption, WalkInv, [Next]_vars, NEW n \in Leaves
  PROVE  /\ RecordDownload /\ Item.node = n =>
              records'[n].status = "ok" /\ records'[n].parent = Item.folder
              /\ records'[n].time = Item.time
         /\ ~(RecordDownload /\ Item.node = n) => records'[n] = records[n]
<1> USE WikiAssumption DEF WalkInv
<1>1. n \in Tokens /\ records \in [Tokens -> Record]
  BY LeafType DEF TypeOK, StoreTypeOK
<1>2. CASE RecordDownload
  <2>1. queue # <<>>
    BY <1>2 DEF RecordDownload, TypeOK
  <2>2. Item.node \in Tokens /\ MarkSynced(Item.node, Item.time, Item.folder)
    BY <1>2, <2>1, HeadType DEF RecordDownload, Nodes, Tokens
  <2> QED
    BY <1>1, <1>2, <2>2 DEF MarkSynced
<1>3. ASSUME Discover PROVE records'[n] = records[n]
  <2>1. stack # <<>>
    BY <1>3 DEF Discover
  <2>2. PICK i \in Current.todo : PassOver(i) \/ Enter(i) \/ LookAt(i)
    BY <1>3 DEF Discover
  <2>3. CASE Enter(i)
    <3>1. PICK own \in Folders : MarkBranch(i.node, i.time, Current.folder, own) /\ i.node \notin Leaves
      BY <2>1, <2>3, EnterDoes
    <3> QED
      BY <1>1, <3>1 DEF MarkBranch
  <2> QED
    BY <2>2, <2>3 DEF PassOver, LookAt
<1>4. ASSUME NEW m \in Nodes \ Links, Edit(m) PROVE records' = records
  BY <1>4 DEF Edit, run
<1>5. ASSUME NEW m \in Nodes, NEW q \in Branches \cup {Top, Gone}, Move(m, q)
      PROVE  records' = records
  BY <1>5 DEF Move, run
<1>6. ASSUME NEW p \in Paths, LoseFile(p) PROVE records' = records
  BY <1>6 DEF LoseFile, run
<1>7. ASSUME Begin \/ Return \/ EndDiscovery \/ OpenFile \/ WriteFile \/ FailDownload
             \/ Complete \/ Abort
      PROVE  records' = records
  BY <1>7 DEF Begin, Return, EndDiscovery, OpenFile, WriteFile, FailDownload, Complete,
              Abort, Forget
<1>8. ASSUME UNCHANGED vars PROVE records' = records
  BY <1>8 DEF vars
<1>9. ~RecordDownload => records'[n] = records[n]
  BY <1>3, <1>4, <1>5, <1>6, <1>7, <1>8 DEF Next
<1> QED
  BY <1>2, <1>9

-----------------------------------------------------------------------------
(* Records and files: the record of a leaf is not ahead of its file.       *)

(* A leaf is recorded as downloaded to some folder.                        *)
RecordedInFolder ==
  \A n \in Leaves : records[n].status = "ok" => records[n].parent \in Folders

(* What is known of a leaf is not newer than the leaf.                     *)
NoneFromTheFuture ==
  \A n \in Leaves :
    /\ records[n].status = "ok" => records[n].time <= version[n]
    /\ \A k \in 1..Len(stack) : \A i \in stack[k].todo : i.node = n => i.time <= version[n]
    /\ \A m \in 1..Len(queue) : queue[m].node = n => queue[m].time <= version[n]

(* The download under way writes what it fetched, and for a leaf that is   *)
(* as new as the record says and as the one that will be written.          *)
FetchedIsNewer ==
  /\ pc \in {"open", "written"} /\ Item.node \in Leaves =>
       /\ fetched >= Item.time
       /\ records[Item.node].status = "ok" => fetched >= records[Item.node].time
  /\ pc = "written" => disk[File] = fetched

RecordInv ==
  WalkInv /\ RecordedInFolder /\ NoneFromTheFuture /\ FetchedIsNewer /\ RecordIsNotAhead

LEMMA VersionsGrow ==
  ASSUME TypeOK, [Next]_vars, NEW n \in Nodes \ Links
  PROVE  version[n] \in Nat /\ version'[n] \in Nat /\ version[n] <= version'[n]
<1>1. version \in [Nodes \ Links -> Nat]
  BY DEF TypeOK
<1>2. ASSUME NEW m \in Nodes \ Links, Edit(m)
      PROVE  version'[n] \in Nat /\ version[n] <= version'[n]
  BY <1>1, <1>2 DEF Edit
<1>3. ASSUME NEW m \in Nodes, NEW q \in Branches \cup {Top, Gone}, Move(m, q)
      PROVE  version' = version
  BY <1>3 DEF Move
<1>4. ASSUME NEW p \in Paths, LoseFile(p) PROVE version' = version
  BY <1>4 DEF LoseFile, wiki
<1>5. Begin \/ Discover \/ Return \/ EndDiscovery \/ OpenFile \/ WriteFile \/ RecordDownload
      \/ FailDownload \/ Complete \/ Abort \/ UNCHANGED vars => version' = version
  BY DEF Begin, Discover, Return, EndDiscovery, OpenFile, WriteFile, RecordDownload,
         FailDownload, Complete, Abort, Forget, vars, wiki
<1> QED
  BY <1>1, <1>2, <1>3, <1>4, <1>5 DEF Next

(* A leaf is listed as it is.                                              *)
LEMMA ListedLeaf ==
  ASSUME WikiAssumption, TypeOK, NEW q \in Nodes \cup {Top}, NEW e \in Children(q),
         e.node \in Leaves
  PROVE  e.time = version[e.node] /\ place[e.node] = q /\ e.parent = HasChild(e.node)
BY ChildrenType, LeafType

LEMMA FutureStep ==
  ASSUME WikiAssumption, RecordInv, [Next]_vars
  PROVE  NoneFromTheFuture'
<1> USE WikiAssumption DEF RecordInv
<1>0. TypeOK /\ WalkInv /\ Leaves' = Leaves
  BY DEF WalkInv, Leaves
<1> SUFFICES ASSUME NEW n \in Leaves
    PROVE  /\ records'[n].status = "ok" => records'[n].time <= version'[n]
           /\ \A k \in 1..Len(stack') :
                \A i \in stack'[k].todo : i.node = n => i.time <= version'[n]
           /\ \A m \in 1..Len(queue') : queue'[m].node = n => queue'[m].time <= version'[n]
  BY <1>0 DEF NoneFromTheFuture
<1>1. version[n] \in Nat /\ version'[n] \in Nat /\ version[n] <= version'[n]
  BY <1>0, VersionsGrow, LeafType
<1>2. \A t \in Nat : t <= version[n] => t <= version'[n]
  BY <1>1
<1>3. records'[n].status = "ok" => records'[n].time <= version'[n]
  <2>1. CASE RecordDownload /\ Item.node = n
    <3>1. queue # <<>>
      BY <1>0, <2>1 DEF RecordDownload, TypeOK
    <3>2. Item = queue[1] /\ 1 \in 1..Len(queue) /\ Item.time \in Nat
      BY <1>0, <3>1, HeadType
    <3>3. Item.time <= version[n]
      BY <2>1, <3>2 DEF NoneFromTheFuture
    <3>4. records'[n].time = Item.time
      BY <2>1, RecordsFrom
    <3> QED
      BY <1>2, <3>2, <3>3, <3>4
  <2>2. CASE ~(RecordDownload /\ Item.node = n)
    <3>1. records'[n] = records[n]
      BY <2>2, RecordsFrom
    <3>2. records[n].time \in Nat
      BY <1>0, LeafType DEF TypeOK, StoreTypeOK, Record
    <3> QED
      BY <1>2, <3>1, <3>2 DEF NoneFromTheFuture
  <2> QED
    BY <2>1, <2>2
<1>4. ASSUME NEW k \in 1..Len(stack), NEW i \in stack[k].todo, i.node = n
      PROVE  i.time <= version'[n]
  <2>1. i.time <= version[n]
    BY <1>4 DEF NoneFromTheFuture
  <2>2. i.time \in Nat
    BY <1>0, <1>4, StackType DEF Items
  <2> QED
    BY <1>2, <2>1, <2>2
<1>5. ASSUME NEW k \in 1..Len(stack'), NEW i \in stack'[k].todo, i.node = n
      PROVE  i.time <= version'[n]
  <2>1. CASE \E f \in 1..Len(stack) : i \in stack[f].todo
    BY <1>4, <1>5, <2>1
  <2>2. CASE \E q \in Nodes \cup {Top} : i \in Children(q)
    BY <1>0, <1>1, <1>5, <2>2, ListedLeaf
  <2> QED
    BY <2>1, <2>2, EntriesFrom
<1>6. ASSUME NEW m \in 1..Len(queue'), queue'[m].node = n
      PROVE  queue'[m].time <= version'[n]
  <2>1. ASSUME NEW j \in 1..Len(queue), queue'[m] = queue[j]
        PROVE  queue'[m].time <= version'[n]
    <3>1. queue[j] \in Downloads /\ queue[j].time <= version[n]
      BY <1>0, <1>6, <2>1 DEF NoneFromTheFuture, TypeOK
    <3>2. queue[j].time \in Nat
      BY <3>1 DEF Downloads
    <3> QED
      BY <1>2, <2>1, <3>1, <3>2
  <2>2. ASSUME NEW f \in 1..Len(stack), NEW e \in stack[f].todo,
               e.node = queue'[m].node, e.time = queue'[m].time
        PROVE  queue'[m].time <= version'[n]
    <3>1. e.time <= version'[n]
      BY <1>4, <1>6, <2>2
    <3> QED
      BY <2>2, <3>1
  <2> QED
    BY <1>0, <1>6, <2>1, <2>2, PlannedFrom
<1> QED
  BY <1>3, <1>5, <1>6

LEMMA RecordedStep ==
  ASSUME WikiAssumption, RecordInv, [Next]_vars
  PROVE  RecordedInFolder'
<1>0. TypeOK /\ WalkInv /\ Leaves' = Leaves
  BY DEF WalkInv, Leaves, RecordInv
<1>1. ASSUME NEW n \in Leaves, records'[n].status = "ok"
      PROVE  records'[n].parent \in Folders
  <2>1. CASE RecordDownload /\ Item.node = n
    <3>1. queue # <<>>
      BY <1>0, <2>1 DEF RecordDownload, TypeOK
    <3> QED
      BY <1>0, <2>1, <3>1, RecordsFrom, HeadType
  <2>2. CASE ~(RecordDownload /\ Item.node = n)
    BY <1>0, <1>1, <2>2, RecordsFrom DEF RecordInv, RecordedInFolder
  <2> QED
    BY <2>1, <2>2
<1> QED
  BY <1>0, <1>1 DEF RecordedInFolder

LEMMA FetchedStep ==
  ASSUME WikiAssumption, RecordInv, [Next]_vars
  PROVE  FetchedIsNewer'
<1> USE WikiAssumption DEF RecordInv
<1>0. TypeOK /\ WalkInv /\ Leaves' = Leaves
  BY DEF WalkInv, Leaves
<1>1. ASSUME UNCHANGED <<pc, queue, fetched, records, disk>> PROVE FetchedIsNewer'
  BY <1>0, <1>1 DEF FetchedIsNewer, Item, File
<1>2. ASSUME pc' \notin {"open", "written"} PROVE FetchedIsNewer'
  BY <1>2 DEF FetchedIsNewer
<1>3. ASSUME NEW n \in Nodes \ Links, Edit(n) PROVE FetchedIsNewer'
  BY <1>3, <1>1 DEF Edit, run
<1>4. ASSUME NEW n \in Nodes, NEW q \in Branches \cup {Top, Gone}, Move(n, q)
      PROVE  FetchedIsNewer'
  BY <1>4, <1>1 DEF Move, run
<1>5. ASSUME NEW p \in Paths, LoseFile(p) PROVE FetchedIsNewer'
  BY <1>5, <1>2 DEF LoseFile, run
<1>6. CASE OpenFile
  <2>1. /\ queue # <<>> /\ queue' = queue /\ records' = records /\ pc' = "open"
        /\ fetched' = version[Source(Item.node)]
    BY <1>6 DEF OpenFile
  <2>2. Item' = Item /\ Item = queue[1] /\ 1 \in 1..Len(queue)
    BY <1>0, <2>1, HeadType DEF Item
  <2>3. ASSUME Item.node \in Leaves
        PROVE  /\ Item.time <= version[Item.node]
               /\ records[Item.node].status = "ok"
                    => records[Item.node].time <= version[Item.node]
               /\ fetched' = version[Item.node]
    BY <2>1, <2>2, <2>3, LeafType DEF NoneFromTheFuture
  <2> QED
    BY <1>0, <2>1, <2>2, <2>3 DEF FetchedIsNewer
<1>7. CASE WriteFile
  <2>1. /\ queue' = queue /\ records' = records /\ pc = "open" /\ pc' = "written"
        /\ fetched' = fetched /\ disk' = [disk EXCEPT ![File] = fetched]
    BY <1>7 DEF WriteFile
  <2>2. File \in Paths /\ disk \in [Paths -> Contents]
    BY <1>0, <2>1, HeadType DEF TypeOK, StoreTypeOK
  <2>3. Item' = Item /\ File' = File
    BY <2>1 DEF Item, File
  <2> QED
    BY <1>0, <2>1, <2>2, <2>3 DEF FetchedIsNewer
<1>8. CASE Begin \/ Discover \/ Return \/ EndDiscovery \/ RecordDownload \/ FailDownload
           \/ Complete \/ Abort
  BY <1>8, <1>2 DEF Begin, Discover, Return, EndDiscovery, RecordDownload, FailDownload,
                    Complete, Abort, Forget
<1>9. CASE UNCHANGED vars
  BY <1>9, <1>1 DEF vars
<1> QED
  BY <1>3, <1>4, <1>5, <1>6, <1>7, <1>8, <1>9 DEF Next

(* What a step does to a file.                                             *)
LEMMA FilesFrom ==
  ASSUME WikiAssumption, TypeOK, [Next]_vars, NEW p \in Paths
  PROVE  \/ disk'[p] = disk[p]
         \/ pc = "idle" /\ disk'[p] = Absent
         \/ OpenFile /\ p = File /\ disk'[p] = Partial
         \/ WriteFile /\ p = File /\ disk'[p] = fetched
<1>0. disk \in [Paths -> Contents]
  BY DEF TypeOK, StoreTypeOK
<1>1. ASSUME NEW n \in Nodes \ Links, Edit(n) PROVE disk' = disk
  BY <1>1 DEF Edit
<1>2. ASSUME NEW n \in Nodes, NEW q \in Branches \cup {Top, Gone}, Move(n, q)
      PROVE  disk' = disk
  BY <1>2 DEF Move
<1>3. ASSUME NEW r \in Paths, LoseFile(r)
      PROVE  disk'[p] = disk[p] \/ (pc = "idle" /\ disk'[p] = Absent)
  BY <1>0, <1>3 DEF LoseFile
<1>4. CASE OpenFile
  BY <1>0, <1>4 DEF OpenFile
<1>5. CASE WriteFile
  BY <1>0, <1>5 DEF WriteFile
<1>6. Begin \/ Discover \/ Return \/ EndDiscovery \/ RecordDownload \/ FailDownload
      \/ Complete \/ Abort \/ UNCHANGED vars => disk' = disk
  BY DEF Begin, Discover, Return, EndDiscovery, RecordDownload, FailDownload, Complete,
         Abort, Forget, vars
<1> QED
  BY <1>1, <1>2, <1>3, <1>4, <1>5, <1>6 DEF Next

LEMMA NotAheadStep ==
  ASSUME WikiAssumption, RecordInv, [Next]_vars
  PROVE  RecordIsNotAhead'
<1> USE WikiAssumption DEF RecordInv
<1>0. TypeOK /\ WalkInv /\ Leaves' = Leaves /\ disk \in [Paths -> Contents]
  BY DEF WalkInv, Leaves, TypeOK, StoreTypeOK
<1>1. ASSUME NEW n \in Leaves, records'[n].status = "ok",
             NEW content, content = disk'[<<records'[n].parent, n>>]
      PROVE  content \in {Absent, Partial} \/ content >= records'[n].time
  <2>1. CASE RecordDownload /\ Item.node = n
    <3>1. records'[n].parent = Item.folder /\ records'[n].time = Item.time
      BY <1>0, <2>1, RecordsFrom
    <3>2. <<records'[n].parent, n>> = File
      BY <2>1, <3>1 DEF File
    <3>3. pc = "written" /\ disk' = disk
      BY <2>1 DEF RecordDownload
    <3>4. content = fetched /\ fetched >= Item.time
      BY <1>1, <2>1, <3>2, <3>3 DEF FetchedIsNewer
    <3> QED
      BY <3>1, <3>4
  <2>2. CASE ~(RecordDownload /\ Item.node = n)
    <3>1. records'[n] = records[n]
      BY <1>0, <2>2, RecordsFrom
    <3>2. records[n].status = "ok" /\ records[n].parent \in Folders
      BY <1>1, <3>1 DEF RecordedInFolder
    <3> DEFINE p == <<records[n].parent, n>>
    <3>3. p \in Paths
      BY <3>2, LeafType DEF Paths, Nodes
    <3>4. disk[p] \in {Absent, Partial} \/ disk[p] >= records[n].time
      BY <3>2 DEF RecordIsNotAhead
    <3>5. content = disk'[p]
      BY <1>1, <3>1
    <3>6. CASE WriteFile /\ p = File /\ disk'[p] = fetched
      <4>1. Item.node = n /\ pc = "open"
        BY <3>6 DEF File, WriteFile
      <4> QED
        BY <3>1, <3>2, <3>5, <3>6, <4>1 DEF FetchedIsNewer
    <3> HIDE DEF p
    <3>7. CASE disk'[p] = disk[p] \/ disk'[p] \in {Absent, Partial}
      BY <3>1, <3>4, <3>5, <3>7
    <3> QED
      BY <1>0, <3>3, <3>6, <3>7, FilesFrom
  <2> QED
    BY <2>1, <2>2
<1> QED
  BY <1>0, <1>1 DEF RecordIsNotAhead

LEMMA RecordInit == ASSUME WikiAssumption, Init PROVE RecordInv
<1>1. WalkInv /\ stack = <<>> /\ queue = <<>> /\ pc = "idle"
  BY WalkInit DEF Init
<1>2. (\A k \in 1..Len(stack) : FALSE) /\ (\A m \in 1..Len(queue) : FALSE)
  BY <1>1, EmptySeq
<1>3. \A n \in Leaves : records[n].status = "none"
  BY LeafType DEF Init, StoreInit, NoRecord
<1> QED
  BY <1>1, <1>2, <1>3
  DEF RecordInv, RecordedInFolder, NoneFromTheFuture, FetchedIsNewer, RecordIsNotAhead

LEMMA RecordStep == ASSUME WikiAssumption, RecordInv, [Next]_vars PROVE RecordInv'
<1>1. WalkInv'
  BY WalkStep DEF RecordInv
<1> QED
  BY <1>1, RecordedStep, FutureStep, FetchedStep, NotAheadStep DEF RecordInv

LEMMA RecordHolds == Spec => []RecordInv
<1>1. Init => RecordInv
  BY RecordInit, WikiAssumption
<1>2. RecordInv /\ [Next]_vars => RecordInv'
  BY RecordStep, WikiAssumption
<1> QED
  BY <1>1, <1>2, PTL DEF Spec

(* The file of a leaf recorded as synchronised is lost, cut short, or at   *)
(* least as new as the record, whatever the users did and wherever runs    *)
(* were aborted.                                                           *)
THEOREM RecordsAreNotAhead == Spec => []RecordIsNotAhead
<1>1. RecordInv => RecordIsNotAhead
  BY DEF RecordInv
<1> QED
  BY <1>1, RecordHolds, PTL

-----------------------------------------------------------------------------
(* What a completed run has found and brought up to date.                  *)

(* The nodes hang together, from the first level down.                     *)
Rooted ==
  /\ \A S \in SUBSET Branches : S # {} => \E b \in S : place[b] \notin S
  /\ \A n \in Nodes : place[n] \in Branches => place[place[n]] # Gone

(* A node that stayed in its place has the one above it stay, too.         *)
KeptHangsTogether ==
  \A k \in kept :
    /\ place[k.node] # Gone
    /\ place[k.node] \in Branches => \E above \in kept : above.node = place[k.node]

(* What was listed of a node that stayed is what it was, or newer, and the *)
(* one above it was listed as having nodes below it.                       *)
ListedAsKept ==
  \A k \in kept :
    /\ k.node \in Leaves =>
         /\ k.version <= version[k.node]
         /\ \A f \in 1..Len(stack) : \A i \in stack[f].todo :
              i.node = k.node => k.version <= i.time
         /\ \A m \in 1..Len(queue) : queue[m].node = k.node => k.version <= queue[m].time
    /\ \A f \in 1..Len(stack) : \A i \in stack[f].todo : i.node = place[k.node] => i.parent

Pending(n) == \E f \in 1..Len(stack) : \E i \in stack[f].todo : i.node = n

(* What is below a node that was visited is visited, or will be.           *)
Reached ==
  pc # "idle" /\ ~truncated =>
    \A k \in kept :
      place[k.node] \in visited \cup {Top} => k.node \in visited \/ Pending(k.node)

(* The file of a leaf holds what the run is to bring it to, or was left    *)
(* cut short by an earlier one.                                            *)
Fresh(k) ==
  /\ records[k.node].parent \in Folders
  /\ LET content == disk[<<records[k.node].parent, k.node>>] IN
     content = Partial \/ content >= k.version

Planned(n) == \E m \in 1..Len(queue) : queue[m].node = n

(* A leaf that was visited is planned or has been brought up to date.      *)
Served ==
  ~truncated =>
    \A k \in kept :
      k.node \in (Leaves \cap visited) \ failed => Fresh(k) \/ Planned(k.node)

KeptInv == RecordInv /\ Rooted /\ KeptHangsTogether /\ ListedAsKept
MirrorInv == KeptInv /\ Reached /\ Served

(* After the beginning, what counts as having stayed only gets less.       *)
LEMMA KeptFrom ==
  ASSUME WikiAssumption, WalkInv, [Next]_vars, ~Begin, NEW k \in kept'
  PROVE  /\ k \in kept /\ k.node \in Nodes /\ k.version \in Nat
         /\ place'[k.node] = place[k.node] /\ pc # "idle"
<1>0. /\ place \in [Nodes -> Branches \cup {Top, Gone}]
      /\ kept \subseteq [node : Nodes, version : Nat]
      /\ pc = "idle" => kept = {}
  BY DEF WalkInv, TypeOK, Quiet
<1>1. k \in kept => k.node \in Nodes /\ k.version \in Nat /\ pc # "idle"
  BY <1>0
<1>2. ASSUME NEW n \in Nodes \ Links, Edit(n) PROVE kept' = kept /\ place' = place
  BY <1>2 DEF Edit
<1>3. ASSUME NEW n \in Nodes, NEW q \in Branches \cup {Top, Gone}, Move(n, q)
      PROVE  k \in kept /\ place'[k.node] = place[k.node]
  <2>1. k \in kept /\ k.node # n
    BY <1>3 DEF Move
  <2> QED
    BY <1>0, <1>1, <1>3, <2>1 DEF Move
<1>4. ASSUME NEW p \in Paths, LoseFile(p) PROVE kept' = kept /\ place' = place
  BY <1>4 DEF LoseFile, wiki
<1>5. CASE Discover \/ Return \/ EndDiscovery \/ OpenFile \/ WriteFile \/ RecordDownload
           \/ FailDownload \/ UNCHANGED vars
  <2>1. kept' = kept /\ place' = place
    BY <1>5 DEF Discover, Return, EndDiscovery, OpenFile, WriteFile, RecordDownload,
                FailDownload, vars, wiki
  <2> QED
    BY <1>1, <2>1
<1>6. CASE Complete \/ Abort
  BY <1>6 DEF Complete, Abort, Forget
<1> QED
  BY <1>1, <1>2, <1>3, <1>4, <1>5, <1>6 DEF Next

(* In the beginning, every node that is there counts.                      *)
LEMMA KeptAtBegin ==
  ASSUME WikiAssumption, WalkInv, Begin
  PROVE  /\ place' = place /\ version' = version /\ visited' = {} /\ queue' = <<>>
         /\ ~truncated' /\ pc' = "discover"
         /\ Len(stack') = 1 /\ stack'[1].todo = Children(Top)
         /\ \A k \in kept' :
              /\ k.node \in Nodes /\ place[k.node] # Gone
              /\ k.version = version[Source(k.node)] /\ k.version \in Nat
         /\ \A n \in Nodes : place[n] # Gone => \E k \in kept' : k.node = n
<1>1. /\ place' = place /\ version' = version /\ visited' = {} /\ queue' = <<>>
      /\ ~truncated' /\ pc' = "discover"
  BY DEF WalkInv, Quiet, Begin
<1> DEFINE frame == [item |-> None, folder |-> <<>>, todo |-> Children(Top)]
           was(n) == [node |-> n, version |-> version[Source(n)]]
<1>2. stack' = <<frame>> /\ kept' = {was(n) : n \in {m \in Nodes : place[m] # Gone}}
  BY DEF Begin
<1>3. frame.todo = Children(Top) /\ \A n : was(n).node = n /\ was(n).version = version[Source(n)]
  OBVIOUS
<1>4. \A n \in Nodes : version[Source(n)] \in Nat
  BY SourceType DEF WalkInv, TypeOK
<1> HIDE DEF frame, was
<1>5. Len(stack') = 1 /\ stack'[1].todo = Children(Top)
  BY <1>2, <1>3
<1>6. ASSUME NEW k \in kept'
      PROVE  /\ k.node \in Nodes /\ place[k.node] # Gone
             /\ k.version = version[Source(k.node)] /\ k.version \in Nat
  <2>1. PICK n \in Nodes : place[n] # Gone /\ k = was(n)
    BY <1>2
  <2> QED
    BY <1>3, <1>4, <2>1
<1>7. ASSUME NEW n \in Nodes, place[n] # Gone PROVE \E k \in kept' : k.node = n
  <2>1. was(n) \in kept'
    BY <1>2, <1>7
  <2> QED
    BY <1>3, <2>1
<1> QED
  BY <1>1, <1>5, <1>6, <1>7

(* Nodes are moved by the users only, and then have none below them.       *)
LEMMA PlacesFrom ==
  ASSUME [Next]_vars
  PROVE  \/ place' = place
         \/ \E n \in Nodes, q \in Branches \cup {Top, Gone} : Move(n, q)
<1>1. ASSUME NEW n \in Nodes \ Links, Edit(n) PROVE place' = place
  BY <1>1 DEF Edit
<1>2. ASSUME NEW p \in Paths, LoseFile(p) PROVE place' = place
  BY <1>2 DEF LoseFile, wiki
<1>3. Begin \/ Discover \/ Return \/ EndDiscovery \/ OpenFile \/ WriteFile \/ RecordDownload
      \/ FailDownload \/ Complete \/ Abort \/ UNCHANGED vars => place' = place
  BY DEF Begin, Discover, Return, EndDiscovery, OpenFile, WriteFile, RecordDownload,
         FailDownload, Complete, Abort, Forget, vars, wiki
<1> QED
  BY <1>1, <1>2, <1>3 DEF Next

LEMMA RootedStep ==
  ASSUME WikiAssumption, TypeOK, Rooted, [Next]_vars
  PROVE  Rooted'
<1>1. CASE place' = place
  BY <1>1 DEF Rooted
<1>2. ASSUME NEW n \in Nodes, NEW q \in Branches \cup {Top, Gone}, Move(n, q) PROVE Rooted'
  <2>1. /\ place \in [Nodes -> Branches \cup {Top, Gone}]
        /\ \A m \in Nodes : place[m] # n
        /\ q # n /\ (q \in Branches => place[q] # Gone)
        /\ place' = [place EXCEPT ![n] = q]
    BY <1>2 DEF Move, HasChild, TypeOK
  <2>2. place'[n] = q /\ \A m \in Nodes : m # n => place'[m] = place[m]
    BY <2>1
  <2>3. Branches \subseteq Nodes
    BY DEF WikiAssumption
  <2>4. ASSUME NEW S \in SUBSET Branches, S # {} PROVE \E b \in S : place'[b] \notin S
    <3>1. CASE S \ {n} = {}
      BY <2>1, <2>2, <2>4, <3>1
    <3>2. CASE S \ {n} # {}
      <4>1. PICK b \in S \ {n} : place[b] \notin S \ {n}
        BY <3>2 DEF Rooted
      <4>2. place[b] \notin S /\ place'[b] = place[b]
        BY <2>1, <2>2, <2>3, <4>1
      <4> QED
        BY <4>1, <4>2
    <3> QED
      BY <3>1, <3>2
  <2>5. ASSUME NEW m \in Nodes, place'[m] \in Branches PROVE place'[place'[m]] # Gone
    <3>1. CASE m = n
      BY <2>1, <2>2, <2>3, <2>5, <3>1
    <3>2. CASE m # n
      BY <2>1, <2>2, <2>3, <2>5, <3>2 DEF Rooted
    <3> QED
      BY <3>1, <3>2
  <2> QED
    BY <2>4, <2>5 DEF Rooted
<1> QED
  BY <1>1, <1>2, PlacesFrom

LEMMA HangsStep ==
  ASSUME WikiAssumption, KeptInv, [Next]_vars
  PROVE  KeptHangsTogether'
<1> USE WikiAssumption
<1>0. TypeOK /\ WalkInv /\ Rooted /\ KeptHangsTogether
  BY DEF KeptInv, RecordInv, WalkInv
<1>1. CASE Begin
  <2>1. ASSUME NEW k \in kept', place'[k.node] \in Branches
        PROVE  \E above \in kept' : above.node = place'[k.node]
    <3>1. place' = place /\ k.node \in Nodes
          /\ \A n \in Nodes : place[n] # Gone => \E j \in kept' : j.node = n
      BY <1>0, <1>1, KeptAtBegin
    <3>2. place[k.node] \in Nodes /\ place[place[k.node]] # Gone
      BY <1>0, <2>1, <3>1 DEF Rooted, WikiAssumption
    <3> QED
      BY <3>1, <3>2
  <2> QED
    BY <1>0, <1>1, <2>1, KeptAtBegin DEF KeptHangsTogether
<1>2. CASE ~Begin
  <2>1. ASSUME NEW k \in kept'
        PROVE  /\ k \in kept /\ k.node \in Nodes
               /\ place'[k.node] = place[k.node] /\ place[k.node] # Gone
    BY <1>0, <1>2, KeptFrom DEF KeptHangsTogether
  <2>2. ASSUME NEW k \in kept', place[k.node] \in Branches
        PROVE  \E above \in kept' : above.node = place[k.node]
    <3>1. PICK above \in kept : above.node = place[k.node]
      BY <1>0, <2>1, <2>2 DEF KeptHangsTogether
    <3>2. CASE above \in kept'
      BY <3>1, <3>2
    <3>3. CASE above \notin kept'
      <4>1. ASSUME NEW n \in Nodes, NEW q \in Branches \cup {Top, Gone}, Move(n, q)
            PROVE  FALSE
        <5>1. n # place[k.node]
          BY <2>1, <2>2, <4>1 DEF Move, HasChild
        <5> QED
          BY <3>1, <3>3, <4>1, <5>1 DEF Move
      <4>2. CASE kept' = kept
        BY <3>3, <4>2
      <4>3. CASE kept' = {}
        BY <2>2, <4>3
      <4> QED
        BY <1>2, <4>1, <4>2, <4>3
        DEF Next, Edit, LoseFile, Discover, Return, EndDiscovery, OpenFile, WriteFile,
            RecordDownload, FailDownload, Complete, Abort, Forget, vars, wiki
    <3> QED
      BY <3>2, <3>3
  <2> QED
    BY <2>1, <2>2 DEF KeptHangsTogether
<1> QED
  BY <1>1, <1>2

LEMMA ListedStep ==
  ASSUME WikiAssumption, KeptInv, [Next]_vars
  PROVE  ListedAsKept'
<1> USE WikiAssumption
<1>0. TypeOK /\ WalkInv /\ ListedAsKept /\ Leaves' = Leaves
  BY DEF KeptInv, RecordInv, WalkInv, Leaves
<1> SUFFICES ASSUME NEW k \in kept'
    PROVE  /\ k.node \in Leaves =>
                /\ k.version <= version'[k.node]
                /\ \A f \in 1..Len(stack') : \A i \in stack'[f].todo :
                     i.node = k.node => k.version <= i.time
                /\ \A m \in 1..Len(queue') :
                     queue'[m].node = k.node => k.version <= queue'[m].time
           /\ \A f \in 1..Len(stack') : \A i \in stack'[f].todo :
                i.node = place'[k.node] => i.parent
  BY <1>0 DEF ListedAsKept
<1>1. CASE Begin
  <2>1. /\ place' = place /\ version' = version /\ queue' = <<>>
        /\ Len(stack') = 1 /\ stack'[1].todo = Children(Top)
        /\ k.node \in Nodes /\ k.version = version[Source(k.node)] /\ k.version \in Nat
    BY <1>0, <1>1, KeptAtBegin
  <2>2. \A f \in 1..Len(stack') : f = 1
    BY <2>1
  <2>3. \A m \in 1..Len(queue') : FALSE
    BY <2>1, EmptySeq
  <2>4. ASSUME k.node \in Leaves
        PROVE  k.version <= version'[k.node]
               /\ \A i \in Children(Top) : i.node = k.node => k.version <= i.time
    <3>1. k.version = version[k.node]
      BY <2>1, <2>4, LeafType
    <3> QED
      BY <1>0, <2>1, <2>4, <3>1, ListedLeaf
  <2>5. ASSUME NEW i \in Children(Top), i.node = place'[k.node] PROVE i.parent
    <3>1. HasChild(i.node)
      BY <2>1, <2>5 DEF HasChild
    <3> QED
      BY <1>0, <2>5, <3>1, ChildrenType
  <2> QED
    BY <2>1, <2>2, <2>3, <2>4, <2>5
<1>2. CASE ~Begin
  <2>1. /\ k \in kept /\ k.node \in Nodes /\ k.version \in Nat
        /\ place'[k.node] = place[k.node]
    BY <1>0, <1>2, KeptFrom
  <2>2. ASSUME NEW f \in 1..Len(stack'), NEW i \in stack'[f].todo
        PROVE  /\ k.node \in Leaves /\ i.node = k.node => k.version <= i.time
               /\ i.node = place[k.node] => i.parent
    <3>1. CASE \E g \in 1..Len(stack) : i \in stack[g].todo
      BY <1>0, <2>1, <3>1 DEF ListedAsKept
    <3>2. ASSUME NEW q \in Nodes \cup {Top}, i \in Children(q)
          PROVE  /\ k.node \in Leaves /\ i.node = k.node => k.version <= i.time
                 /\ i.node = place[k.node] => i.parent
      <4>1. ASSUME k.node \in Leaves, i.node = k.node PROVE k.version <= i.time
        <5>1. i.time = version[k.node]
          BY <1>0, <3>2, <4>1, ListedLeaf
        <5> QED
          BY <1>0, <2>1, <4>1, <5>1 DEF ListedAsKept
      <4>2. ASSUME i.node = place[k.node] PROVE i.parent
        <5>1. HasChild(i.node)
          BY <2>1, <4>2 DEF HasChild
        <5> QED
          BY <1>0, <3>2, <5>1, ChildrenType
      <4> QED
        BY <4>1, <4>2
    <3> QED
      BY <1>0, <3>1, <3>2, EntriesFrom
  <2>3. ASSUME k.node \in Leaves
        PROVE  k.version <= version'[k.node]
    <3>1. k.version <= version[k.node]
      BY <1>0, <2>1, <2>3 DEF ListedAsKept
    <3> QED
      BY <1>0, <2>1, <2>3, <3>1, LeafType, VersionsGrow
  <2>4. ASSUME k.node \in Leaves, NEW m \in 1..Len(queue'), queue'[m].node = k.node
        PROVE  k.version <= queue'[m].time
    <3>1. CASE \E j \in 1..Len(queue) : queue'[m] = queue[j]
      BY <1>0, <2>1, <2>4, <3>1 DEF ListedAsKept
    <3>2. ASSUME NEW f \in 1..Len(stack), NEW e \in stack[f].todo,
                 e.node = queue'[m].node, e.time = queue'[m].time
          PROVE  k.version <= queue'[m].time
      <4>1. k.version <= e.time
        BY <1>0, <2>1, <2>4, <3>2 DEF ListedAsKept
      <4> QED
        BY <3>2, <4>1
    <3> QED
      BY <1>0, <2>4, <3>1, <3>2, PlannedFrom
  <2> QED
    BY <2>1, <2>2, <2>3, <2>4
<1> QED
  BY <1>1, <1>2

LEMMA KeptInit == ASSUME WikiAssumption, Init PROVE KeptInv
<1>1. RecordInv
  BY RecordInit
<1>2. kept = {} /\ \A b \in Branches : place[b] = Top
  BY DEF Init
<1>3. Top \notin Branches /\ Top # Gone
  BY DEF WikiAssumption
<1> QED
  BY <1>1, <1>2, <1>3 DEF KeptInv, Rooted, KeptHangsTogether, ListedAsKept

LEMMA KeptStep == ASSUME WikiAssumption, KeptInv, [Next]_vars PROVE KeptInv'
<1>1. TypeOK /\ RecordInv /\ Rooted
  BY DEF KeptInv, RecordInv, WalkInv
<1> QED
  BY <1>1, RecordStep, RootedStep, HangsStep, ListedStep DEF KeptInv

(* What is pending stays so, but for the entry that is being handled.      *)
LEMMA HandledPending ==
  ASSUME TypeOK, stack # <<>>, NEW i, NEW n, Pending(n)
  PROVE  \/ n = i.node
         \/ \E f \in 1..Len(stack) : \E e \in Handled(i)[f].todo : e.node = n
<1>1. PICK f \in 1..Len(stack) : \E e \in stack[f].todo : e.node = n
  BY DEF Pending
<1>2. PICK e \in stack[f].todo : e.node = n
  BY <1>1
<1>3. Handled(i)[f].todo = IF f = Len(stack) THEN stack[f].todo \ {i} ELSE stack[f].todo
  BY HandledTrims
<1>4. e = i \/ e \in Handled(i)[f].todo
  BY <1>3
<1> QED
  BY <1>2, <1>4

LEMMA ReachedStep ==
  ASSUME WikiAssumption, KeptInv, Reached, [Next]_vars
  PROVE  Reached'
<1> USE WikiAssumption
<1>0. TypeOK /\ Entered /\ Quiet /\ WalkInv /\ KeptHangsTogether /\ ListedAsKept
  BY DEF KeptInv, RecordInv, WalkInv
<1> SUFFICES ASSUME pc' # "idle", ~truncated', NEW k \in kept',
                    place'[k.node] \in visited' \cup {Top}
    PROVE  k.node \in visited' \/ \E f \in 1..Len(stack') : \E e \in stack'[f].todo : e.node = k.node
  BY DEF Reached, Pending
<1>1. CASE Begin
  <2>1. /\ place' = place /\ visited' = {} /\ k.node \in Nodes
        /\ Len(stack') = 1 /\ stack'[1].todo = Children(Top)
    BY <1>0, <1>1, KeptAtBegin
  <2>2. \E e \in Children(Top) : e.node = k.node
    BY <1>0, <2>1, ChildrenType
  <2>3. 1 \in 1..Len(stack')
    BY <2>1
  <2> QED
    BY <2>1, <2>2, <2>3
<1>2. CASE ~Begin
  <2>0. /\ k \in kept /\ k.node \in Nodes /\ pc # "idle"
        /\ place'[k.node] = place[k.node]
    BY <1>0, <1>2, KeptFrom
  <2>a. ~truncated /\ place[k.node] \in visited \cup {Top} => k.node \in visited \/ Pending(k.node)
    BY <2>0 DEF Reached
  <2>1. CASE Discover
    <3>1. stack # <<>> /\ Len(stack) \in Nat /\ ~truncated
      BY <1>0, <2>1, StackType DEF Discover, Quiet
    <3>2. PICK i \in Current.todo : PassOver(i) \/ Enter(i) \/ LookAt(i)
      BY <2>1 DEF Discover
    <3>3. Len(stack) \in 1..Len(stack) /\ i \in stack[Len(stack)].todo
          /\ i \in Items /\ i.node \in Nodes
      BY <1>0, <3>1, CurrentType, EntryType DEF Current
    <3>4. i.node = place[k.node] => i.parent
      BY <1>0, <2>0, <3>3 DEF ListedAsKept
    <3>5. Len(Handled(i)) = Len(stack)
      BY <1>0, <3>1, HandledTrims
    <3>6. CASE PassOver(i)
      BY <1>0, <2>0, <2>a, <3>1, <3>5, <3>6, HandledPending DEF PassOver
    <3>7. CASE LookAt(i)
      <4>1. stack' = Handled(i) /\ visited' = visited \cup {i.node} /\ ~i.parent
        BY <3>1, <3>7 DEF LookAt, Decide
      <4>2. k.node \in visited \/ Pending(k.node)
        BY <2>0, <2>a, <3>1, <3>4, <4>1
      <4> QED
        BY <1>0, <3>1, <3>5, <4>1, <4>2, HandledPending
    <3>8. CASE Enter(i)
      <4> DEFINE frame(q) ==
            [item |-> i, folder |-> Append(Current.folder, i.node), todo |-> Children(q)]
      <4>1. PICK q \in Nodes :
              /\ LeadsTo(i, q)
              /\ Len(stack') = Len(stack) + 1
              /\ \A j \in 1..Len(stack) : stack'[j] = Handled(i)[j]
              /\ stack'[Len(stack) + 1] = frame(q)
        BY <1>0, <3>1, <3>8, EnterDoes
      <4>2. frame(q).todo = Children(q)
        OBVIOUS
      <4> HIDE DEF frame
      <4>3. visited' = visited \cup {i.node}
        BY <3>8 DEF Enter
      <4>4. 1..Len(stack) \subseteq 1..Len(stack') /\ Len(stack) + 1 \in 1..Len(stack')
        BY <3>1, <4>1
      <4>5. CASE place[k.node] = i.node
        <5>1. q = i.node
          BY <1>0, <2>0, <3>3, <4>1, <4>5 DEF LeadsTo, TypeOK, WikiAssumption
        <5>2. \E e \in Children(q) : e.node = k.node
          BY <1>0, <2>0, <4>5, <5>1, ChildrenType
        <5> QED
          BY <4>1, <4>2, <4>4, <5>2
      <4>6. CASE place[k.node] # i.node
        <5>1. k.node \in visited \/ Pending(k.node)
          BY <2>0, <2>a, <3>1, <4>3, <4>6
        <5> QED
          BY <1>0, <3>1, <4>1, <4>3, <4>4, <5>1, HandledPending
      <4> QED
        BY <4>5, <4>6
    <3> QED
      BY <3>2, <3>6, <3>7, <3>8
  <2>2. CASE Return
    <3>1. /\ Len(stack) > 1 /\ Len(stack) \in Nat /\ ~truncated
          /\ stack[Len(stack)].todo = {} /\ visited' = visited
      BY <1>0, <2>2, StackType, EmptySeq DEF Return, Quiet, Current
    <3> DEFINE rest == SubSeq(stack, 1, Len(stack) - 1)
    <3>2. stack' = rest
      BY <2>2 DEF Return, Decide
    <3>3. Len(rest) = Len(stack) - 1 /\ \A j \in 1..Len(rest) : rest[j] = stack[j]
      BY <1>0, <3>1, PopTrims
    <3> HIDE DEF rest
    <3>4. ASSUME NEW f \in 1..Len(stack), NEW e \in stack[f].todo
          PROVE  f \in 1..Len(stack') /\ e \in stack'[f].todo
      <4>1. f # Len(stack)
        BY <3>1, <3>4
      <4>2. f \in 1..Len(stack')
        BY <3>1, <3>2, <3>3, <4>1
      <4> QED
        BY <3>2, <3>3, <4>2
    <3> QED
      BY <2>0, <2>a, <3>1, <3>4 DEF Pending
  <2>3. CASE EndDiscovery
    <3>1. /\ stack = <<>> \/ (Len(stack) = 1 /\ stack[Len(stack)].todo = {})
          /\ visited' = visited /\ truncated' = truncated
      BY <2>3 DEF EndDiscovery, Current
    <3>2. ~Pending(k.node)
      <4>1. CASE stack = <<>>
        BY <4>1, EmptySeq DEF Pending
      <4>2. CASE Len(stack) = 1 /\ stack[Len(stack)].todo = {}
        <5>1. \A f \in 1..Len(stack) : f = 1
          BY <4>2
        <5> QED
          BY <4>2, <5>1 DEF Pending
      <4> QED
        BY <3>1, <4>1, <4>2
    <3> QED
      BY <2>0, <2>a, <3>1, <3>2
  <2>4. ASSUME UNCHANGED <<stack, visited, truncated>>
        PROVE  k.node \in visited'
               \/ \E f \in 1..Len(stack') : \E e \in stack'[f].todo : e.node = k.node
    BY <2>0, <2>a, <2>4 DEF Pending
  <2>5. ASSUME NEW n \in Nodes \ Links, Edit(n) PROVE UNCHANGED <<stack, visited, truncated>>
    BY <2>5 DEF Edit, run, discovery
  <2>6. ASSUME NEW n \in Nodes, NEW q \in Branches \cup {Top, Gone}, Move(n, q)
        PROVE  UNCHANGED <<stack, visited, truncated>>
    BY <2>6 DEF Move, run, discovery
  <2>7. ASSUME NEW p \in Paths, LoseFile(p) PROVE UNCHANGED <<stack, visited, truncated>>
    BY <2>7 DEF LoseFile, run, discovery
  <2>8. OpenFile \/ WriteFile \/ RecordDownload \/ FailDownload \/ UNCHANGED vars
          => UNCHANGED <<stack, visited, truncated>>
    BY DEF OpenFile, WriteFile, RecordDownload, FailDownload, vars, discovery
  <2>9. ~Complete /\ ~Abort
    BY DEF Complete, Abort, Forget
  <2> QED
    BY <1>2, <2>1, <2>2, <2>3, <2>4, <2>5, <2>6, <2>7, <2>8, <2>9 DEF Next
<1> QED
  BY <1>1, <1>2

(* A leaf that need not be downloaded has a file that is fresh, if missing *)
(* files make a download necessary.                                        *)
LEMMA SkippedIsFresh ==
  ASSUME WikiAssumption, KeptInv, ForceOnMissing,
         NEW k \in kept, k.node \in Leaves, k.version \in Nat,
         NEW i \in Items, i.node = k.node, k.version <= i.time,
         NEW f \in Folders, NEW incremental,
         ~MustDownloadCloudDoc(i.node, i.time, f, incremental)
  PROVE  Fresh(k)
<1> DEFINE record  == records[k.node]
           content == disk[<<f, k.node>>]
<1>1. record.status = "ok" /\ content # Absent /\ record.parent = f /\ record.time = i.time
  BY DEF MustDownloadCloudDoc, Forced, CloudDocChanged
<1>2. content \in {Absent, Partial} \/ content >= record.time
  BY <1>1 DEF KeptInv, RecordInv, RecordIsNotAhead
<1>3. content \in Int
  <2>1. <<f, k.node>> \in Paths
    BY DEF Leaves, Nodes, Paths
  <2> QED
    BY <2>1 DEF KeptInv, RecordInv, WalkInv, TypeOK, StoreTypeOK, Contents
<1>4. i.time \in Nat
  BY DEF Items
<1>5. content = Partial \/ content >= k.version
  <2> HIDE DEF record, content
  <2> QED
    BY <1>1, <1>2, <1>3, <1>4
<1> QED
  BY <1>1, <1>5 DEF Fresh

(* The download of a leaf is what makes its file another one, and then it  *)
(* stays fresh.                                                            *)
LEMMA FreshStep ==
  ASSUME WikiAssumption, KeptInv, [Next]_vars,
         NEW k \in kept, pc # "idle", k.node \in Leaves, k.version \in Nat, Fresh(k),
         ~(RecordDownload /\ Item.node = k.node)
  PROVE  Fresh(k)' \/ (WriteFile /\ Item.node = k.node)
<1>1. TypeOK /\ WalkInv
  BY DEF KeptInv, RecordInv, WalkInv
<1>2. records'[k.node] = records[k.node]
  BY <1>1, RecordsFrom
<1> DEFINE p == <<records[k.node].parent, k.node>>
<1>3. p \in Paths
  BY DEF Fresh, Leaves, Nodes, Paths
<1>4. CASE WriteFile /\ p = File
  BY <1>4 DEF File
<1>5. CASE disk'[p] = disk[p] \/ disk'[p] = Partial
  <2>1. records[k.node].parent \in Folders /\ (disk[p] = Partial \/ disk[p] >= k.version)
    BY DEF Fresh
  <2>2. disk'[p] = Partial \/ disk'[p] >= k.version
    BY <1>5, <2>1
  <2> QED
    BY <1>2, <2>1, <2>2 DEF Fresh
<1> HIDE DEF p
<1> QED
  BY <1>1, <1>3, <1>4, <1>5, FilesFrom

LEMMA ServedStep ==
  ASSUME WikiAssumption, ForceOnMissing, KeptInv, Served, [Next]_vars
  PROVE  Served'
<1> USE WikiAssumption
<1>0. /\ TypeOK /\ Entered /\ Quiet /\ WalkInv /\ ListedAsKept /\ FetchedIsNewer
      /\ Leaves' = Leaves /\ queue \in Seq(Downloads) /\ Len(queue) \in Nat
  BY LenProperties DEF KeptInv, RecordInv, WalkInv, Leaves, TypeOK
<1> SUFFICES ASSUME ~truncated', NEW k \in kept', k.node \in (Leaves \cap visited') \ failed'
    PROVE  Fresh(k)' \/ Planned(k.node)'
  BY <1>0 DEF Served
<1>1. ~Begin
  BY <1>0, KeptAtBegin
<1>2. k \in kept /\ k.node \in Nodes /\ k.version \in Nat /\ pc # "idle"
  BY <1>0, <1>1, KeptFrom
<1>3. ASSUME ~truncated, k.node \in visited \ failed
      PROVE  Fresh(k) \/ Planned(k.node)
  BY <1>2, <1>3 DEF Served
<1>4. ASSUME Len(queue') \in Nat,
             Len(queue) <= Len(queue') /\ (\A m \in 1..Len(queue) : queue'[m] = queue[m]),
             Planned(k.node)
      PROVE  Planned(k.node)'
  <2>1. \A m \in 1..Len(queue) : m \in 1..Len(queue')
    BY <1>0, <1>4
  <2> QED
    BY <1>4, <2>1 DEF Planned
<1>5. ASSUME Planned(k.node), queue' = queue PROVE Planned(k.node)'
  BY <1>5 DEF Planned
<1>6. ASSUME NEW i \in Items, NEW f \in Folders, NEW rest, Trims(rest), Decide(i, f, rest)
      PROVE  /\ Planned(k.node) => Planned(k.node)'
             /\ \/ Planned(i.node)'
                \/ ~MustDownloadCloudDoc(i.node, i.time, f, mode.incremental)
                \/ i.node \in Links
  <2> DEFINE d == [node |-> i.node, time |-> i.time, folder |-> f]
  <2>1. d.node = i.node
    OBVIOUS
  <2>2. \/ queue' = queue /\ ~MustDownloadCloudDoc(i.node, i.time, f, mode.incremental)
        \/ queue' = queue /\ i.node \in Links
        \/ queue' = Append(queue, d)
    BY <1>6 DEF Decide
  <2>3. queue' = queue \/ (queue' = Append(queue, d) /\ d \in Downloads)
    BY <1>0, <1>6, DecideDoes
  <2> HIDE DEF d
  <2>4. CASE queue' = queue /\ queue' # Append(queue, d)
    BY <1>5, <2>2, <2>4
  <2>5. CASE queue' = Append(queue, d)
    <3>1. /\ Len(queue') = Len(queue) + 1 /\ queue'[Len(queue) + 1] = d
          /\ \A m \in 1..Len(queue) : queue'[m] = queue[m]
      <4>1. d \in Downloads
        BY <1>0, <1>6 DEF Downloads, Items, d
      <4> QED
        BY <1>0, <2>5, <4>1, AppendProperties
    <3>2. Len(queue) + 1 \in 1..Len(queue') /\ Len(queue') \in Nat /\ Len(queue) <= Len(queue')
      BY <1>0, <3>1
    <3>3. Planned(i.node)'
      BY <2>1, <3>1, <3>2 DEF Planned
    <3> QED
      BY <1>4, <3>1, <3>2, <3>3
  <2> QED
    BY <2>3, <2>4, <2>5
<1>7. ASSUME Fresh(k), ~WriteFile, ~RecordDownload PROVE Fresh(k)'
  BY <1>2, <1>7, FreshStep
<1>8. CASE Discover
  <2>1. stack # <<>> /\ Len(stack) \in Nat /\ ~truncated /\ failed' = failed /\ disk' = disk
        /\ ~WriteFile /\ ~RecordDownload
    BY <1>0, <1>8, StackType DEF Discover, Quiet, WriteFile, RecordDownload
  <2>2. PICK i \in Current.todo : PassOver(i) \/ Enter(i) \/ LookAt(i)
    BY <1>8 DEF Discover
  <2>3. Len(stack) \in 1..Len(stack) /\ i \in stack[Len(stack)].todo
        /\ i \in Items /\ i.node \in Nodes /\ Current.folder \in Folders /\ Trims(Handled(i))
    BY <1>0, <2>1, CurrentType, EntryType, HandledTrims DEF Current
  <2>4. CASE PassOver(i)
    BY <1>3, <1>5, <1>7, <2>1, <2>4 DEF PassOver
  <2>5. CASE Enter(i)
    <3>1. queue' = queue /\ visited' = visited \cup {i.node} /\ i.node \notin Leaves
      BY <1>0, <2>1, <2>5, EnterDoes DEF Enter
    <3> QED
      BY <1>3, <1>5, <1>7, <2>1, <3>1
  <2>6. CASE LookAt(i)
    <3>1. visited' = visited \cup {i.node} /\ Decide(i, Current.folder, Handled(i))
          /\ records' = records
      BY <2>6 DEF LookAt
    <3>2. CASE k.node = i.node
      <4>1. k.version <= i.time
        BY <1>0, <1>2, <2>3, <3>2 DEF ListedAsKept
      <4>2. k.node \notin Links
        BY DEF Leaves
      <4>3. ~MustDownloadCloudDoc(i.node, i.time, Current.folder, mode.incremental) => Fresh(k)
        BY <1>2, <2>3, <3>2, <4>1, SkippedIsFresh
      <4> QED
        BY <1>6, <1>7, <2>1, <2>3, <3>1, <3>2, <4>2, <4>3
    <3>3. CASE k.node # i.node
      BY <1>3, <1>6, <1>7, <2>1, <2>3, <3>1, <3>3
    <3> QED
      BY <3>2, <3>3
  <2> QED
    BY <2>2, <2>4, <2>5, <2>6
<1>9. CASE Return
  <2>1. Len(stack) > 1 /\ ~truncated /\ failed' = failed /\ visited' = visited
        /\ Decide(Current.item, stack[Len(stack) - 1].folder, SubSeq(stack, 1, Len(stack) - 1))
        /\ ~WriteFile /\ ~RecordDownload
    BY <1>0, <1>9, EmptySeq DEF Return, Quiet, WriteFile, RecordDownload
  <2> QED
    BY <1>0, <1>3, <1>6, <1>7, <2>1, ReturnType
<1>10. CASE RecordDownload \/ FailDownload
  <2>1. queue # <<>> /\ queue' = Tail(queue) /\ ~truncated /\ failed \subseteq failed'
        /\ visited' = visited /\ ~WriteFile
    BY <1>0, <1>10 DEF RecordDownload, FailDownload, WriteFile, TypeOK, discovery
  <2>2. /\ Item = queue[1] /\ Len(queue') = Len(queue) - 1
        /\ \A m \in 1..Len(queue') : queue'[m] = queue[m + 1]
    BY <1>0, <2>1, HeadType
  <2>3. CASE k.node # Item.node
    <3>1. Planned(k.node) => Planned(k.node)'
      <4>1. ASSUME NEW m \in 1..Len(queue), queue[m].node = k.node
            PROVE  \E j \in 1..Len(queue') : queue'[j].node = k.node
        <5>1. m # 1
          BY <2>2, <2>3, <4>1
        <5>2. m - 1 \in 1..Len(queue') /\ (m - 1) + 1 = m
          BY <1>0, <2>2, <5>1
        <5> QED
          BY <2>2, <4>1, <5>2
      <4> QED
        BY <4>1 DEF Planned
    <3>2. Fresh(k) => Fresh(k)'
      BY <1>2, <2>1, <2>3, FreshStep
    <3> QED
      BY <1>3, <2>1, <3>1, <3>2
  <2>4. CASE k.node = Item.node
    <3>1. RecordDownload
      BY <1>10, <2>4 DEF FailDownload
    <3>2. /\ records'[k.node].parent = Item.folder /\ Item.folder \in Folders
          /\ disk' = disk /\ pc = "written"
      BY <1>0, <2>1, <2>4, <3>1, RecordsFrom, HeadType DEF RecordDownload
    <3>3. disk[File] = fetched /\ fetched >= Item.time
      BY <1>0, <2>4, <3>2 DEF FetchedIsNewer
    <3>4. Item.time >= k.version /\ Item.time \in Nat
      <4>1. 1 \in 1..Len(queue) /\ Item.time \in Nat
        BY <1>0, <2>1, HeadType
      <4> QED
        BY <1>0, <1>2, <2>2, <2>4, <4>1 DEF ListedAsKept
    <3>5. fetched \in Nat
      BY <1>0 DEF TypeOK
    <3>6. disk'[<<Item.folder, k.node>>] >= k.version
      BY <1>2, <2>4, <3>2, <3>3, <3>4, <3>5 DEF File
    <3> QED
      BY <3>2, <3>6 DEF Fresh
  <2> QED
    BY <2>3, <2>4
<1>11. CASE WriteFile
  <2>1. queue' = queue /\ queue # <<>> /\ UNCHANGED <<visited, failed, truncated>>
        /\ ~RecordDownload
    BY <1>0, <1>11 DEF WriteFile, RecordDownload, discovery, TypeOK
  <2>2. Item.node = k.node => Planned(k.node)
    BY <1>0, <2>1, HeadType DEF Planned
  <2>3. Fresh(k) => Fresh(k)' \/ Item.node = k.node
    BY <1>2, <2>1, FreshStep
  <2> QED
    BY <1>3, <1>5, <2>1, <2>2, <2>3
<1>12. ASSUME UNCHANGED <<visited, failed, truncated, queue>>, ~WriteFile, ~RecordDownload
       PROVE  Fresh(k)' \/ Planned(k.node)'
  BY <1>3, <1>5, <1>7, <1>12
<1>13. ASSUME NEW n \in Nodes \ Links, Edit(n)
       PROVE  UNCHANGED <<pc, visited, failed, truncated, queue>>
  BY <1>13 DEF Edit, run, discovery
<1>14. ASSUME NEW n \in Nodes, NEW q \in Branches \cup {Top, Gone}, Move(n, q)
       PROVE  UNCHANGED <<pc, visited, failed, truncated, queue>>
  BY <1>14 DEF Move, run, discovery
<1>15. \A p \in Paths : ~LoseFile(p)
  BY <1>2 DEF LoseFile
<1>16. EndDiscovery \/ OpenFile
         => UNCHANGED <<visited, failed, truncated, queue>> /\ ~WriteFile /\ ~RecordDownload
  BY DEF EndDiscovery, OpenFile, discovery, WriteFile, RecordDownload
<1>17. UNCHANGED vars => UNCHANGED <<pc, visited, failed, truncated, queue>>
  BY DEF vars, discovery
<1>18. UNCHANGED pc => ~WriteFile /\ ~RecordDownload
  BY DEF WriteFile, RecordDownload
<1>19. ~Complete /\ ~Abort
  BY DEF Complete, Abort, Forget
<1> QED
  BY <1>1, <1>8, <1>9, <1>10, <1>11, <1>12, <1>13, <1>14, <1>15, <1>16, <1>17, <1>18, <1>19
  DEF Next

LEMMA MirrorHolds ==
  ASSUME ForceOnMissing
  PROVE  Spec => []MirrorInv
<1>1. Init => MirrorInv
  <2> SUFFICES ASSUME Init PROVE MirrorInv
    OBVIOUS
  <2>1. KeptInv
    BY KeptInit, WikiAssumption
  <2> QED
    BY <2>1 DEF Init, MirrorInv, Reached, Served
<1>2. MirrorInv /\ [Next]_vars => MirrorInv'
  BY KeptStep, ReachedStep, ServedStep, WikiAssumption DEF MirrorInv
<1> QED
  BY <1>1, <1>2, PTL DEF Spec

(* When the listings are done with, every node that stayed was visited:    *)
(* otherwise one of those that were not would be below one that was.       *)
LEMMA AllVisited ==
  ASSUME WikiAssumption, MirrorInv, pc = "download", ~truncated, NEW k \in kept
  PROVE  k.node \in visited
<1>1. TypeOK /\ Rooted /\ KeptHangsTogether /\ stack = <<>>
  BY DEF MirrorInv, KeptInv, RecordInv, WalkInv, Quiet
<1>2. \A n : ~Pending(n)
  BY <1>1, EmptySeq DEF Pending
<1>3. ASSUME NEW j \in kept, place[j.node] \in visited \cup {Top} PROVE j.node \in visited
  BY <1>2, <1>3 DEF MirrorInv, Reached
<1> DEFINE U == {b \in Branches : b \notin visited /\ \E j \in kept : j.node = b}
<1>4. ASSUME NEW j \in kept, place[j.node] \notin U PROVE j.node \in visited
  <2>1. place[j.node] \in Branches \cup {Top} /\ j.node \in Nodes
    BY <1>1 DEF KeptHangsTogether, TypeOK
  <2>2. CASE place[j.node] \in Branches
    <3>1. \E above \in kept : above.node = place[j.node]
      BY <1>1, <2>2 DEF KeptHangsTogether
    <3>2. place[j.node] \in visited
      BY <1>4, <2>2, <3>1
    <3> QED
      BY <1>3, <3>2
  <2> QED
    BY <1>3, <2>1, <2>2
<1>5. U = {}
  <2> SUFFICES ASSUME U # {} PROVE FALSE
    OBVIOUS
  <2>1. U \in SUBSET Branches
    OBVIOUS
  <2>2. PICK b \in U : place[b] \notin U
    <3> HIDE DEF U
    <3> QED
      BY <1>1, <2>1 DEF Rooted
  <2>3. PICK j \in kept : j.node = b
    BY <2>2
  <2>4. b \in visited
    BY <1>4, <2>2, <2>3
  <2> QED
    BY <2>2, <2>4
<1> QED
  BY <1>4, <1>5

(* A run that completes, its discovery not cut off by the limit, has found *)
(* every leaf that stayed in its place and brought it up to date, unless   *)
(* its download failed, if missing files are downloaded again.             *)
THEOREM LeavesAreMirrored ==
  ASSUME ForceOnMissing
  PROVE  Spec => LeavesMirroredAtEnd
<1>1. ASSUME MirrorInv, Complete, ~truncated,
             NEW k \in kept, k.node \in Leaves \ failed
      PROVE  UpToDate(k)
  <2>1. pc = "download" /\ queue = <<>>
    BY <1>1 DEF Complete
  <2>2. k.node \in visited
    BY <1>1, <2>1, AllVisited, WikiAssumption
  <2>3. ~Planned(k.node)
    BY <2>1, EmptySeq DEF Planned
  <2>4. Fresh(k)
    BY <1>1, <2>2, <2>3 DEF MirrorInv, Served
  <2> QED
    BY <2>2, <2>4 DEF UpToDate, Fresh
<1>2. MirrorInv =>
        [Complete /\ ~truncated
           => \A k \in kept : k.node \in Leaves \ failed => UpToDate(k)]_vars
  BY <1>1
<1> QED
  BY <1>2, MirrorHolds, PTL DEF LeavesMirroredAtEnd

=============================================================================
