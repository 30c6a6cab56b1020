---------------------------- MODULE PrepareVersion ----------------------------
(***************************************************************************)
(* scripts/prepare_version.py --pr: raise the committed base version with  *)
(* a pull request of its own.  A run reads the remote in several requests  *)
(* (fetch, tags, pull requests, topic branch), decides, pushes one commit  *)
(* without force and opens the request.  It may stop anywhere and be run   *)
(* again; other runs, people and GitHub change the remote in between.      *)
(*                                                                         *)
(* A commit is its base version, what it holds besides (edits) and its     *)
(* ancestry; commits are numbered in the order of their creation.  Base    *)
(* versions are numbers in their SemVer order, with the next patch after   *)
(* v as v + 1; --bump names a version as --version does.  The owned files  *)
(* carry one version (version_plan.py keeps them together), and any other  *)
(* difference is an edit.  Git and GitHub are external.                    *)
(***************************************************************************)
EXTENDS Naturals, Sequences

CONSTANTS
    Preparers,   \* the runs: two of them may overlap
    Requests,    \* the versions each may ask for, NextPatch for the next patch
    Edits,       \* changes that are not the tool's
    MaxVersion,  \* bound of the versions
    MaxEvents    \* bound of crashes and of changes by others

NextPatch == 0
None == 0
Versions == 1..MaxVersion

ASSUME PrepareAssumption ==
    /\ MaxVersion \in Nat \ {0}
    /\ MaxEvents \in Nat
    /\ Requests \in [Preparers -> SUBSET (Versions \union {NextPatch})]

VARIABLES
    commits,   \* all commits ever made
    main,      \* head of the default branch
    topic,     \* release/version-v for each v, None when there is none
    pr,        \* the versions with an open pull request of their topic
    tag,       \* the commit of each stable tag, None without one
    prep,      \* the state of each run
    events     \* changes by others and crashes so far

vars == <<commits, main, topic, pr, tag, prep, events>>

NotBegun(r) ==
    [phase |-> "idle", request |-> r, head |-> None, known |-> {}, target |-> None,
     existing |-> None, tip |-> None, updated |-> FALSE]

Init ==
    /\ commits = <<[version |-> 1, edits |-> {}, anc |-> {1}]>>
    /\ main = 1
    /\ topic = [v \in Versions |-> None]
    /\ pr = {}
    /\ tag = [v \in Versions |-> IF v = 1 THEN main ELSE None]
    /\ prep \in {f \in [Preparers -> {NotBegun(r) : r \in Versions \union {NextPatch}}] :
                  \A p \in Preparers : f[p].request \in Requests[p]}
    /\ events = 0

-------------------------------------------------------------------------------
(* Git.                                                                    *)

Anc(c) == commits[c].anc

(* git merge-base prints one of the best common ancestors.                 *)
MergeBases(a, b) ==
    LET common == Anc(a) \intersect Anc(b)
    IN {c \in common : \A d \in common \ {c} : c \notin Anc(d)}

Child(version, edits, parents) ==
    [version |-> version, edits |-> edits,
     anc |-> {Len(commits) + 1} \union UNION {Anc(c) : c \in parents}]

New == Len(commits) + 1

(* The version in a three-way merge; a conflict when both sides changed it. *)
CleanMerge(base, ours, theirs) ==
    \/ commits[ours].version = commits[base].version
    \/ commits[theirs].version = commits[base].version
    \/ commits[ours].version = commits[theirs].version

MergedVersion(base, ours, theirs) ==
    IF commits[ours].version = commits[base].version
      THEN commits[theirs].version
      ELSE commits[ours].version

Mergeable(v) == \E b \in MergeBases(main, topic[v]) : CleanMerge(b, main, topic[v])

-------------------------------------------------------------------------------
(* One run of prepare(). A refusal raises, and changes nothing: the run is  *)
(* as one not begun.                                                       *)

At(p, phase) == prep[p].phase = phase

Idle(p) == NotBegun(prep[p].request)

Become(p, r) == prep' = [prep EXCEPT ![p] = r]

(* git fetch: the checkout is the head of the default branch, and the      *)
(* local tags merged into it are known.                                    *)
Fetch(p) ==
    /\ prep[p].phase \in {"idle", "unchanged", "done"}
    /\ Become(p, [Idle(p) EXCEPT
         !.phase = "fetched",
         !.head = main,
         !.known = {v \in Versions : tag[v] \in Anc(main)}])
    /\ UNCHANGED <<commits, main, topic, pr, tag, events>>

(* The version of choose_version before the occupied ones are avoided.     *)
Selected(p, s) ==
    LET current == commits[prep[p].head].version
        known == prep[p].known
    IN  IF prep[p].request # NextPatch
          THEN s = prep[p].request
          ELSE /\ s >= current
               /\ \A w \in known : w < s
               /\ s = current \/ s - 1 \in known

(* choose_version: never below the base version and never a version with a *)
(* stable tag; only the next patch moves on past such tags.                *)
Eligible(p, v, occupied) ==
    /\ v \notin occupied
    /\ \E s \in commits[prep[p].head].version..v :
         /\ Selected(p, s)
         /\ IF prep[p].request # NextPatch THEN v = s ELSE s..(v - 1) \subseteq occupied

(* The open request for a version, with the head that it has now.          *)
Listed(v) == IF v \in pr THEN topic[v] ELSE None

(* git ls-remote --tags, after the fetch.                                  *)
Occupied == {v \in Versions : tag[v] # None}

(* The version, for the tags as they are now, and gh pr list for it.       *)
Choose(p) ==
    LET eligible == {v \in Versions : Eligible(p, v, Occupied)}
    IN /\ At(p, "fetched")
       /\ \/ \E v \in eligible : Become(p, [prep[p] EXCEPT
               !.phase = "listed", !.known = {}, !.target = v, !.existing = Listed(v)])
          \/ eligible = {} /\ Become(p, Idle(p))
       /\ UNCHANGED <<commits, main, topic, pr, tag, events>>

(* Mutated: an existing topic is taken for the tool's own.                 *)
OwnedAnyway(tip, head, target) == tip # None

(* verify_owned_topic: against the common ancestor the topic differs only  *)
(* by the target version.                                                  *)
Owned(tip, head, target) ==
    \E b \in MergeBases(tip, head) :
        /\ commits[tip].edits = commits[b].edits
        /\ commits[tip].version = target

(* The tree to propose is that of the head with the version: the topic may  *)
(* have it already.                                                        *)
SameTree(p, tip) ==
    /\ tip # None
    /\ commits[tip].version = prep[p].target
    /\ commits[tip].edits = commits[prep[p].head].edits

(* A request is open, or the default branch does not have the version yet. *)
Changes(p) ==
    prep[p].existing # None \/ commits[prep[p].head].version # prep[p].target

(* The topic is as it shall be: what is left is the request.               *)
Prepared(p, tip, updated) ==
    [prep[p] EXCEPT !.phase = IF prep[p].existing # None THEN "done" ELSE "pushed",
                    !.existing = None, !.tip = tip, !.updated = updated]

(* Mutated: a topic without a request is a stranger's.                     *)
FitsStrict(p, tip) ==
    /\ tip = prep[p].existing
    /\ tip # None => Owned(tip, prep[p].head, prep[p].target)

(* The topic is the one the request shows, and the tool's own.             *)
Fits(p, tip) ==
    /\ prep[p].existing # None => tip = prep[p].existing
    /\ tip # None => Owned(tip, prep[p].head, prep[p].target)

(* remote_topic, and what follows from it in this checkout alone.          *)
ReadTopic(p) ==
    LET tip == topic[prep[p].target]
    IN /\ At(p, "listed")
       /\ \/ ~Fits(p, tip) /\ Become(p, Idle(p))
          \/ Fits(p, tip) /\ ~Changes(p) /\ Become(p, [Idle(p) EXCEPT !.phase = "unchanged"])
          \/ Fits(p, tip) /\ Changes(p) /\ SameTree(p, tip) /\ Become(p, Prepared(p, tip, FALSE))
          \/ /\ Fits(p, tip) /\ Changes(p) /\ ~SameTree(p, tip)
             /\ Become(p, [prep[p] EXCEPT !.phase = "verified", !.tip = tip])
       /\ UNCHANGED <<commits, main, topic, pr, tag, events>>

(* Mutated: the new commit follows the topic alone.                        *)
ParentsTopic(p) == IF prep[p].tip = None THEN {prep[p].head} ELSE {prep[p].tip}

(* Mutated: the new commit follows the default branch as it is by then.    *)
ParentsLatest(p) == {prep[p].tip, main} \ {None}

(* The new commit follows the topic, if there is one, and the head.        *)
Parents(p) == {prep[p].tip, prep[p].head} \ {None}

(* git push without force: it must fast-forward the topic as it is now.    *)
Push(p) ==
    LET v == prep[p].target
        commit == Child(v, commits[prep[p].head].edits, Parents(p))
        forward == topic[v] = None \/ topic[v] \in commit.anc
    IN /\ At(p, "verified")
       /\ \/ /\ forward
             /\ commits' = Append(commits, commit)
             /\ topic' = [topic EXCEPT ![v] = New]
             /\ Become(p, Prepared(p, New, TRUE))
          \/ /\ ~forward
             /\ Become(p, Idle(p))
             /\ UNCHANGED <<commits, topic>>
       /\ UNCHANGED <<main, pr, tag, events>>

(* gh pr create: GitHub wants a branch with something new and has one open *)
(* request for it at most.                                                 *)
CreateRequest(p) ==
    LET v == prep[p].target
        ok == v \notin pr /\ topic[v] # None /\ topic[v] \notin Anc(main)
    IN /\ At(p, "pushed")
       /\ Become(p, IF ok THEN [prep[p] EXCEPT !.phase = "done"] ELSE Idle(p))
       /\ pr' = IF ok THEN pr \union {v} ELSE pr
       /\ UNCHANGED <<commits, main, topic, tag, events>>

GoOn(p) ==
    \/ Choose(p) \/ ReadTopic(p) \/ Push(p) \/ CreateRequest(p)

-------------------------------------------------------------------------------
(* Everything else.                                                        *)

Event ==
    /\ events < MaxEvents
    /\ events' = events + 1

(* The process ends, or a command of it fails for good, after the push.    *)
(* Before, it leaves nothing behind and is as one not begun.               *)
Crash(p) ==
    /\ Event
    /\ At(p, "pushed")
    /\ prep' = [prep EXCEPT ![p] = Idle(p)]
    /\ UNCHANGED <<commits, main, topic, pr, tag>>

(* Another change reaches the default branch.                              *)
MainAdvances(e) ==
    /\ Event
    /\ commits' = Append(commits, Child(commits[main].version, commits[main].edits \union {e},
                                        {main}))
    /\ main' = New
    /\ UNCHANGED <<topic, pr, tag, prep>>

(* A preparation is merged, with a merge commit or squashed, and its       *)
(* branch stays or goes.                                                   *)
Merge(v, squash, delete) ==
    /\ Event
    /\ v \in pr
    /\ \E b \in MergeBases(main, topic[v]) :
         /\ CleanMerge(b, main, topic[v])
         /\ commits' = Append(commits,
                Child(MergedVersion(b, main, topic[v]),
                      commits[main].edits \union commits[topic[v]].edits,
                      IF squash THEN {main} ELSE {main, topic[v]}))
    /\ main' = New
    /\ topic' = [topic EXCEPT ![v] = IF delete THEN None ELSE @]
    /\ pr' = {w \in pr \ {v} : squash \/ topic[w] \notin Anc(topic[v])}
    /\ UNCHANGED <<tag, prep>>

(* Somebody adds a commit to a topic, or creates it.                       *)
ForeignPush(v, e) ==
    LET from == IF topic[v] = None THEN main ELSE topic[v]
    IN /\ Event
       /\ commits' = Append(commits, Child(commits[from].version, commits[from].edits \union {e},
                                           {from}))
       /\ topic' = [topic EXCEPT ![v] = New]
       /\ UNCHANGED <<main, pr, tag, prep>>

(* Somebody closes a request, with or without its branch.                  *)
Close(v, delete) ==
    /\ Event
    /\ v \in pr
    /\ pr' = pr \ {v}
    /\ topic' = [topic EXCEPT ![v] = IF delete THEN None ELSE @]
    /\ UNCHANGED <<commits, main, tag, prep>>

(* The base version becomes a stable release.                              *)
Release ==
    LET v == commits[main].version
    IN /\ Event
       /\ tag[v] = None
       /\ tag' = [tag EXCEPT ![v] = main]
       /\ UNCHANGED <<commits, main, topic, pr, prep>>

Next ==
    \/ \E p \in Preparers : Fetch(p) \/ GoOn(p) \/ Crash(p)
    \/ \E e \in Edits : MainAdvances(e) \/ \E v \in Versions : ForeignPush(v, e)
    \/ \E v \in Versions, delete \in BOOLEAN :
         Close(v, delete) \/ \E squash \in BOOLEAN : Merge(v, squash, delete)
    \/ Release

(* A run that was started goes on, and one that failed is run again.       *)
Retried(p) == At(p, "idle") /\ Fetch(p)

Spec == Init /\ [][Next]_vars
FairSpec == Spec /\ \A p \in Preparers : WF_vars(GoOn(p) \/ Retried(p))

-------------------------------------------------------------------------------
(* Properties.                                                             *)

Numbers == 0..Len(commits)

RunStates ==
    [phase : {"idle", "fetched", "listed", "verified", "pushed", "unchanged", "done"},
     request : Versions \union {NextPatch},
     head : Numbers, known : SUBSET Versions, target : Versions \union {None},
     existing : Numbers, tip : Numbers, updated : BOOLEAN]

TypeOK ==
    /\ commits \in Seq([version : Versions, edits : SUBSET Edits, anc : SUBSET Nat])
    /\ main \in Numbers \ {None}
    /\ topic \in [Versions -> Numbers]
    /\ pr \subseteq {v \in Versions : topic[v] # None}
    /\ tag \in [Versions -> Numbers]
    /\ prep \in [Preparers -> RunStates]
    /\ events \in 0..MaxEvents

(* The history only adds: a commit has what each of its ancestors has, and *)
(* no lower version.                                                       *)
Ancestry ==
    \A c \in Numbers \ {None} :
        /\ c \in Anc(c)
        /\ Anc(c) \subseteq Numbers \ {None}
        /\ \A a \in Anc(c) : /\ commits[a].version <= commits[c].version
                             /\ commits[a].edits \subseteq commits[c].edits

(* What a run relies on when it pushes, which it read earlier.             *)
Relies(r) ==
    /\ r.phase \in {"fetched", "listed", "verified"} => r.head # None
    /\ r.phase \in {"listed", "verified", "pushed"} => r.target # None
    /\ r.phase \in {"listed", "verified"} => commits[r.head].version <= r.target
    /\ r.phase = "verified" /\ r.tip # None =>
          /\ commits[r.tip].version = r.target
          /\ commits[r.tip].edits \subseteq commits[r.head].edits

RunsHold == \A p \in Preparers : Relies(prep[p])

IInv == TypeOK /\ Ancestry /\ RunsHold

(* A commit is made after its ancestors, and the one that a run has pushed *)
(* follows the head that the run had fetched.                              *)
Dated == \A c \in Numbers \ {None} : \A a \in Anc(c) : a <= c

Follows(r) ==
    r.updated =>
        /\ r.phase \in {"pushed", "done"}
        /\ {r.head, r.tip} \subseteq Numbers \ {None} /\ r.head \in Anc(r.tip)

UpdatesFollow == Dated /\ \A p \in Preparers : Follows(prep[p])

(* "Preparation must not downgrade the active release base": no merge of a *)
(* preparation, however old, takes the default branch to a lower version.  *)
NeverDowngrades == [][commits'[main'].version >= commits[main].version]_vars

(* No run replaces a topic by one that lacks something of it, whatever was *)
(* pushed to it before, between or after the run's reads.                  *)
KeepsForeignWork ==
    [][\A v \in Versions :
         topic[v] # None /\ topic'[v] # None /\ topic'[v] # topic[v]
           => /\ topic[v] \in commits'[topic'[v]].anc
              /\ commits[topic[v]].edits \subseteq commits'[topic'[v]].edits]_vars

(* The run's own topic, still as the run left it, on the same main.        *)
Current(p) ==
    /\ prep[p].phase = "done"
    /\ prep[p].target \in pr
    /\ prep[p].head = main
    /\ topic[prep[p].target] = prep[p].tip

(* A run that pushed leaves a request that merges without a conflict.      *)
UpdatedMerges == \A p \in Preparers : Current(p) /\ prep[p].updated => Mergeable(prep[p].target)

(* "Its merge commit now uses the current main tree plus the same typed    *)
(* projection, avoiding textual conflicts in shared manifests": so does    *)
(* every run that returns a request.                                       *)
PreparedMerges == \A p \in Preparers : Current(p) => Mergeable(prep[p].target)

(* Wherever runs stop, a rerun gets to its end: the request is open, or    *)
(* there is nothing to do, or the version cannot be had any more.          *)
Settled(p) ==
    \/ prep[p].phase \in {"unchanged", "done"}
    \/ prep[p].request # NextPatch /\ commits[main].version >= prep[p].request
    \/ commits[main].version = MaxVersion
    \/ \E v \in Versions : topic[v] # None /\ ~Owned(topic[v], main, v)

Completes == \A p \in Preparers : prep[p].phase = "fetched" ~> Settled(p)
=============================================================================
