---------------------------- MODULE DocReferences ----------------------------
(***************************************************************************)
(* How a document is downloaded along with those it refers to              *)
(* (core/downloaders/docx_downloader.py): the document is written, each    *)
(* reference is looked up among the paths that are known or downloaded     *)
(* into the folder "refer", recursively, and the links of the document are *)
(* rewritten to what was found.  The paths come from the tasks of the run  *)
(* and from a cache of the process (core/reference_cache.py) that outlives *)
(* runs.  Documents refer to each other in any way, cycles included.       *)
(*                                                                         *)
(* The tasks are those of a sync of a space or a wiki: they have an entry  *)
(* root, and the folder refer is below it.  _cleanup_stale_refer_copy only *)
(* removes what is below the refer of the storage root, and so nothing.    *)
(***************************************************************************)
EXTENDS Integers, Sequences, FiniteSets

CONSTANTS
  Pages,              \* tokens of documents, sheets and files
  Tree,               \* those that are listed by the sync
  Cites,              \* what each page refers to, each once (_extract_references)
  MaxDepth,           \* config.sync.max_nested_depth
  MaxTrips,           \* bound: runs
  MaxMishaps          \* bound: files lost and restarts of the process

ASSUME ReferenceAssumption ==
  /\ Tree \subseteq Pages
  /\ Cites \in [Pages -> Seq(Pages)]
  /\ MaxDepth \in Nat /\ MaxTrips \in Nat /\ MaxMishaps \in Nat

VARIABLES
  texts,              \* what is at each path: nothing, a page, a placeholder
  links,              \* where the links of each file lead, once rewritten
  cache,              \* reference_cache: a path for some pages
  plan,               \* the pages the run has planned
  agenda,             \* those whose task has not begun
  stack,              \* the downloads under way, the innermost last
  fetches,            \* the pages the run has asked Feishu for (history)
  excused,            \* links that lead to a file lost later, or one that was
                      \* still to come (history)
  trips,              \* runs so far
  mishaps             \* lost files and restarts so far

docState == <<texts, links, cache, plan, agenda, stack, fetches, excused, trips, mishaps>>

Paths == Pages \X {"tree", "refer"}
NoPath == <<>>
OwnPath(t) == <<t, "tree">>
ReferPath(t) == <<t, "refer">>

(* A download: what it downloads and where to, how deep it is, the tokens  *)
(* it is nested in, the paths it knows, the references it has still to     *)
(* follow and the paths found for the others.                              *)
Downloads ==
  [page : Pages, path : Paths, depth : Nat, history : SUBSET Pages,
   known : [Pages -> Paths \cup {NoPath}], fetched : BOOLEAN,
   todo : Seq(Pages), found : SUBSET Paths]

DocTypeOK ==
  /\ texts \in [Paths -> {"none", "page", "placeholder"}]
  /\ links \in [Paths -> SUBSET Paths]
  /\ cache \in [Pages -> Paths \cup {NoPath}]
  /\ plan \subseteq Tree /\ agenda \subseteq plan
  /\ stack \in Seq(Downloads)
  /\ \A i \in DOMAIN stack : stack[i].depth = i - 1 /\ i - 1 <= MaxDepth
  /\ \A i \in DOMAIN stack : i < Len(stack) => stack[i].fetched /\ stack[i].todo # <<>>
  /\ fetches \in [Pages -> Nat]
  /\ excused \subseteq Paths \X Paths

DocInit ==
  /\ texts = [p \in Paths |-> "none"]
  /\ links = [p \in Paths |-> {}]
  /\ cache = [t \in Pages |-> NoPath]
  /\ plan = {} /\ agenda = {} /\ stack = <<>>
  /\ fetches = [t \in Pages |-> 0]
  /\ excused = {}
  /\ trips = 0 /\ mishaps = 0

Exists(p) == p # NoPath /\ texts[p] # "none"

-----------------------------------------------------------------------------
(* Runs.                                                                   *)

(* Any part of the tree has changed and is planned; the paths of all that  *)
(* is planned go with every task (_resolved_paths).                        *)
StartTrip ==
  /\ plan = {}
  /\ trips < MaxTrips /\ trips' = trips + 1
  /\ plan' \in SUBSET Tree \ {{}}
  /\ agenda' = plan'
  /\ fetches' = [t \in Pages |-> 0]
  /\ UNCHANGED <<texts, links, cache, stack, excused, mishaps>>

Planned == [t \in Pages |-> IF t \in plan THEN OwnPath(t) ELSE NoPath]

NewDownload(t, path, depth, history, paths) ==
  [page |-> t, path |-> path, depth |-> depth, history |-> history, known |-> paths,
   fetched |-> FALSE, todo |-> <<>>, found |-> {}]

StartTask ==
  /\ stack = <<>> /\ agenda # {}
  /\ \E t \in agenda :
       /\ agenda' = agenda \ {t}
       /\ stack' = <<NewDownload(t, OwnPath(t), 0, {}, Planned)>>
  /\ UNCHANGED <<texts, links, cache, plan, fetches, excused, trips, mishaps>>

EndTrip ==
  /\ stack = <<>> /\ agenda = {} /\ plan # {}
  /\ plan' = {}
  /\ UNCHANGED <<texts, links, cache, agenda, stack, fetches, excused, trips, mishaps>>

(* The user removes a file between two runs; the process restarts.         *)
Mishap == mishaps < MaxMishaps /\ mishaps' = mishaps + 1

Lose(p) ==
  /\ Mishap
  /\ plan = {} /\ texts[p] # "none"
  /\ texts' = [texts EXCEPT ![p] = "none"]
  /\ excused' = excused \cup (Paths \X {p})
  /\ UNCHANGED <<links, cache, plan, agenda, stack, fetches, trips>>

RestartProcess ==
  /\ Mishap
  /\ cache' = [t \in Pages |-> NoPath]
  /\ plan' = {} /\ agenda' = {} /\ stack' = <<>>
  /\ UNCHANGED <<texts, links, fetches, excused, trips>>

-----------------------------------------------------------------------------
(* A download.                                                             *)

Top == stack[Len(stack)]
Callers == SubSeq(stack, 1, Len(stack) - 1)
Replace(frame) == [stack EXCEPT ![Len(stack)] = frame]

(* The caller goes on with the path of what it asked for; there is none    *)
(* above a task.                                                           *)
GoOn(path) ==
  IF Len(stack) = 1
  THEN stack' = <<>>
  ELSE LET frames == Callers
           caller == frames[Len(frames)]
       IN stack' = [frames EXCEPT ![Len(frames)] =
                     [caller EXCEPT !.todo = Tail(@), !.found = @ \cup {path},
                                    !.known[Head(caller.todo)] = path]]

Asked == fetches' = [fetches EXCEPT ![Top.page] = @ + 1]

(* At max_nested_depth the references are left alone.                      *)
Followed(t, depth) ==
  IF depth < MaxDepth THEN Cites[t] ELSE <<>>

(* The file is written with the links as they came, and registered.        *)
Fetch ==
  /\ stack # <<>> /\ ~Top.fetched
  /\ Asked
  /\ texts' = [texts EXCEPT ![Top.path] = "page"]
  /\ links' = [links EXCEPT ![Top.path] = {}]
  /\ excused' = {e \in excused : e[1] # Top.path}
  /\ cache' = [cache EXCEPT ![Top.page] = Top.path]
  /\ stack' = Replace([Top EXCEPT !.fetched = TRUE,
                                  !.history = @ \cup {Top.page},
                                  !.known[Top.page] = IF @ = NoPath THEN Top.path ELSE @,
                                  !.todo = Followed(Top.page, Top.depth)])
  /\ UNCHANGED <<plan, agenda, trips, mishaps>>

(* Faulty variant: the placeholder is not registered.                      *)
FetchFailsUnregistered ==
  /\ stack # <<>> /\ ~Top.fetched
  /\ Asked
  /\ IF Len(stack) = 1
     THEN UNCHANGED <<texts, links, excused>>
     ELSE /\ texts' = [texts EXCEPT ![Top.path] = "placeholder"]
          /\ links' = [links EXCEPT ![Top.path] = {}]
          /\ excused' = {e \in excused : e[1] # Top.path}
  /\ GoOn(Top.path)
  /\ UNCHANGED <<cache, plan, agenda, trips, mishaps>>

(* Of a reference, a placeholder takes the place of the file, and of the   *)
(* copy an earlier run had left there; a task just fails.                  *)
FetchFails ==
  /\ stack # <<>> /\ ~Top.fetched
  /\ Asked
  /\ IF Len(stack) = 1
     THEN UNCHANGED <<texts, links, cache, excused>>
     ELSE /\ texts' = [texts EXCEPT ![Top.path] = "placeholder"]
          /\ links' = [links EXCEPT ![Top.path] = {}]
          /\ excused' = {e \in excused : e[1] # Top.path}
          /\ cache' = [cache EXCEPT ![Top.page] = Top.path]
  /\ GoOn(Top.path)
  /\ UNCHANGED <<plan, agenda, trips, mishaps>>

(* Faulty variant: the cached path is taken without a look at the file.    *)
KnownUnseen(t) == IF cache[t] # NoPath THEN [Top.known EXCEPT ![t] = cache[t]] ELSE Top.known

(* What the cache holds is preferred to what the task knows, if it is      *)
(* still there.                                                            *)
KnownPaths(t) ==
  IF Exists(cache[t]) THEN [Top.known EXCEPT ![t] = cache[t]] ELSE Top.known

Citing == stack # <<>> /\ Top.fetched /\ Top.todo # <<>>

(* A path is known, or the reference leads back up and none is needed.     *)
FindKnown ==
  /\ Citing
  /\ LET t == Head(Top.todo)
         paths == KnownPaths(t)
     IN /\ t \in Top.history \/ paths[t] # NoPath
        /\ stack' = Replace([Top EXCEPT !.todo = Tail(@), !.known = paths,
                                        !.found = @ \cup ({paths[t]} \ {NoPath})])
  /\ UNCHANGED <<texts, links, cache, plan, agenda, fetches, excused, trips, mishaps>>

(* Otherwise it is downloaded by a task of its own, one level deeper, that *)
(* knows what this one knows.                                              *)
Follow ==
  /\ Citing
  /\ LET t == Head(Top.todo)
         paths == KnownPaths(t)
     IN /\ t \notin Top.history /\ paths[t] = NoPath
        /\ stack' = Append(Replace([Top EXCEPT !.known = paths]),
             NewDownload(t, ReferPath(t), Top.depth + 1, Top.history, paths))
  /\ UNCHANGED <<texts, links, cache, plan, agenda, fetches, excused, trips, mishaps>>

(* The links are rewritten, and the caller looks up the registered path.   *)
Finish ==
  /\ stack # <<>> /\ Top.fetched /\ Top.todo = <<>>
  /\ links' = [links EXCEPT ![Top.path] = Top.found]
  /\ excused' = excused \cup {<<Top.path, p>> : p \in {q \in Top.found : q[1] \in plan /\ texts[q] = "none"}}
  /\ GoOn(cache[Top.page])
  /\ UNCHANGED <<texts, cache, plan, agenda, fetches, trips, mishaps>>

DocNext ==
  \/ StartTrip \/ StartTask \/ EndTrip \/ RestartProcess
  \/ Fetch \/ FetchFails \/ FindKnown \/ Follow \/ Finish
  \/ \E p \in Paths : Lose(p)

DocSpec == DocInit /\ [][DocNext]_docState

-----------------------------------------------------------------------------
(* Properties.                                                             *)

(* A run asks for a page once, however many pages refer to it, at          *)
(* whatever depth, in whatever cycle, and though requests fail: what it    *)
(* has planned is not fetched a second time as a reference.  A tree of     *)
(* references therefore ends.                                              *)
FetchedOnce == \A t \in Pages : fetches[t] <= 1

(* A rewritten link leads to a file, whichever run, task or reference      *)
(* brought it, unless the file was lost after the link was written, or was *)
(* planned by the same run and had still to come.                          *)
LinksLead ==
  \A p \in Paths : texts[p] # "none" =>
    \A q \in links[p] : texts[q] # "none" \/ <<p, q>> \in excused

=============================================================================
