--------------------------- MODULE VersioningProofs ---------------------------
(***************************************************************************)
(* Proofs about the two machines of versioning: PrepareVersion, for any    *)
(* number of runs, versions, changes by others and crashes; and            *)
(* VersionBuild, for any inputs, plans, edits and stopped commands.  The   *)
(* two have no state in common.                                            *)
(***************************************************************************)
EXTENDS PrepareVersion, VersionBuild, TLAPS

CommitSet == [version : Versions, edits : SUBSET Edits, anc : SUBSET Nat]

LEMMA CommitTypes ==
  ASSUME TypeOK
  PROVE  /\ Len(commits) \in Nat
         /\ \A c \in Numbers \ {None} :
               /\ commits[c] \in CommitSet
               /\ commits[c].version \in Versions
               /\ commits[c].edits \subseteq Edits
               /\ Anc(c) \subseteq Nat
<1>1. commits \in Seq(CommitSet)
  BY DEF TypeOK, CommitSet
<1>2. Len(commits) \in Nat /\ \A c \in 1..Len(commits) : commits[c] \in CommitSet
  BY <1>1
<1>3. Numbers \ {None} = 1..Len(commits)
  BY <1>2 DEF Numbers, None
<1>4. \A c \in 1..Len(commits) :
        commits[c].version \in Versions /\ commits[c].edits \subseteq Edits /\ Anc(c) \subseteq Nat
  BY <1>2 DEF CommitSet, Anc
<1> QED
  BY <1>2, <1>3, <1>4

(* The history with one commit more, which has what its parents have.      *)
LEMMA OneMore ==
  ASSUME TypeOK, Ancestry,
         NEW version \in Versions, NEW edits \in SUBSET Edits,
         NEW parents \in SUBSET (Numbers \ {None}),
         \A c \in parents : /\ commits[c].version <= version
                            /\ commits[c].edits \subseteq edits,
         commits' = Append(commits, Child(version, edits, parents))
  PROVE  /\ commits' \in Seq(CommitSet)
         /\ Len(commits') = Len(commits) + 1
         /\ \A c \in Numbers \ {None} : commits'[c] = commits[c]
         /\ commits'[New] = Child(version, edits, parents)
         /\ New \in Numbers' \ {None}
         /\ Numbers \subseteq Numbers'
         /\ Ancestry'
<1> DEFINE child == Child(version, edits, parents)
<1>1. /\ Len(commits) \in Nat
      /\ \A c \in Numbers \ {None} : commits[c].version \in Versions /\ Anc(c) \subseteq Nat
  BY CommitTypes
<1>2. /\ child.version = version /\ child.edits = edits
      /\ child.anc = {New} \union UNION {Anc(c) : c \in parents}
  BY DEF Child, New
<1>3. child \in CommitSet
  <2>1. \A c \in parents : Anc(c) \subseteq Nat
    BY <1>1
  <2>2. child.anc \subseteq Nat
    BY <1>1, <1>2, <2>1 DEF New
  <2> QED
    BY <2>2 DEF Child, CommitSet
<1>4. commits \in Seq(CommitSet)
  BY DEF TypeOK, CommitSet
<1> HIDE DEF child
<1>5. /\ commits' \in Seq(CommitSet)
      /\ Len(commits') = Len(commits) + 1
      /\ \A c \in 1..Len(commits) : commits'[c] = commits[c]
      /\ commits'[Len(commits) + 1] = child
  BY <1>3, <1>4 DEF child
<1>6. Numbers \ {None} = 1..Len(commits) /\ (Numbers \ {None})' = 1..(Len(commits) + 1)
  BY <1>1, <1>5 DEF Numbers, None
<1>7. Ancestry'
  <2> SUFFICES ASSUME NEW c \in 1..(Len(commits) + 1)
               PROVE  /\ c \in commits'[c].anc
                      /\ commits'[c].anc \subseteq 1..(Len(commits) + 1)
                      /\ \A a \in commits'[c].anc :
                            /\ commits'[a].version <= commits'[c].version
                            /\ commits'[a].edits \subseteq commits'[c].edits
    BY <1>6 DEF Ancestry, Anc
  <2>1. \A d \in 1..Len(commits) :
          /\ d \in commits[d].anc
          /\ commits[d].anc \subseteq 1..Len(commits)
          /\ \A a \in commits[d].anc : /\ commits[a].version <= commits[d].version
                                       /\ commits[a].edits \subseteq commits[d].edits
    BY <1>6 DEF Ancestry, Anc
  <2>2. CASE c \in 1..Len(commits)
    BY <1>5, <2>1, <2>2
  <2>3. CASE c = Len(commits) + 1
    <3>1. c \in child.anc
      BY <1>2, <2>3 DEF New
    <3>2. \A d \in child.anc : d = c \/ \E q \in parents : d \in commits[q].anc
      BY <1>2, <2>3 DEF New, Anc
    <3>3. ASSUME NEW a \in child.anc, a # c
          PROVE  /\ a \in 1..Len(commits)
                 /\ commits[a].version <= version
                 /\ commits[a].edits \subseteq edits
      <4>1. PICK q \in parents : a \in commits[q].anc
        BY <3>2, <3>3
      <4>2. q \in 1..Len(commits)
        BY <1>6
      <4>3. /\ a \in 1..Len(commits)
            /\ commits[a].version <= commits[q].version
            /\ commits[a].edits \subseteq commits[q].edits
        BY <2>1, <4>1, <4>2
      <4>4. commits[q].version <= version /\ commits[q].edits \subseteq edits
        OBVIOUS
      <4>5. commits[a].version \in Nat /\ commits[q].version \in Nat /\ version \in Nat
        BY <1>1, <1>6, <4>2, <4>3 DEF Versions
      <4> QED
        BY <4>3, <4>4, <4>5
    <3>4. version <= version
      BY DEF Versions
    <3> QED
      BY <1>1, <1>2, <1>5, <2>3, <3>1, <3>3, <3>4
  <2> QED
    BY <1>1, <2>2, <2>3
<1> QED
  BY <1>1, <1>5, <1>6, <1>7 DEF New, Numbers, None, child

LEMMA InitIInv == Init => IInv
<1> SUFFICES ASSUME Init PROVE IInv
  OBVIOUS
<1>1. Len(commits) = 1 /\ commits[1] = [version |-> 1, edits |-> {}, anc |-> {1}]
  BY DEF Init
<1>2. commits \in Seq(CommitSet)
  BY PrepareAssumption DEF Init, CommitSet, Versions
<1>3. Numbers = {0, 1}
  BY <1>1 DEF Numbers
<1>4. \A r \in Versions \union {NextPatch} : NotBegun(r) \in RunStates /\ Relies(NotBegun(r))
  BY <1>3 DEF NotBegun, RunStates, Relies, None
<1>5. prep \in [Preparers -> {NotBegun(r) : r \in Versions \union {NextPatch}}]
  BY DEF Init
<1>6. prep \in [Preparers -> RunStates] /\ RunsHold
  BY <1>4, <1>5 DEF RunsHold
<1>7. TypeOK
  <2>1. 1 \in Versions
    BY PrepareAssumption DEF Versions
  <2> QED
    BY <1>2, <1>3, <1>6, <2>1, PrepareAssumption DEF TypeOK, Init, None, CommitSet
<1>8. Ancestry
  BY <1>1, <1>3 DEF Ancestry, Anc, None
<1> QED
  BY <1>6, <1>7, <1>8 DEF IInv

(* The facts of the history that every step uses.                          *)
LEMMA Histories ==
  ASSUME TypeOK, Ancestry,
         NEW c \in Numbers \ {None}
  PROVE  /\ c \in Anc(c)
         /\ commits[c].version \in Nat
         /\ \A a \in Anc(c) : /\ a \in Numbers \ {None}
                            /\ commits[a].version <= commits[c].version
                            /\ commits[a].edits \subseteq commits[c].edits
  BY CommitTypes DEF Ancestry, Versions

(* A longer history leaves what the runs rely on.                          *)
LEMMA RunsKeep ==
  ASSUME Numbers \subseteq Numbers',
         \A c \in Numbers \ {None} : commits'[c] = commits[c],
         NEW r \in RunStates, Relies(r)
  PROVE  r \in RunStates' /\ Relies(r)'
<1>1. r \in RunStates'
  BY DEF RunStates
<1>2. r.head \in Numbers /\ r.tip \in Numbers
  BY DEF RunStates
<1>3. r.phase \in {"listed", "verified"} => commits'[r.head] = commits[r.head]
  BY <1>2 DEF Relies
<1>4. r.tip # None => commits'[r.tip] = commits[r.tip]
  BY <1>2
<1> QED
  BY <1>1, <1>3, <1>4 DEF Relies

(* A step of a run that only changes what the run knows.                   *)
LEMMA RunStep ==
  ASSUME IInv, NEW p \in Preparers, NEW r \in RunStates, Relies(r),
         Become(p, r), UNCHANGED commits
  PROVE  /\ (prep \in [Preparers -> RunStates])'
         /\ RunsHold' /\ Ancestry'
<1>1. Numbers' = Numbers
  BY DEF Numbers
<1>2. RunStates' = RunStates
  BY <1>1 DEF RunStates
<1>3. prep \in [Preparers -> RunStates] /\ \A q \in Preparers : Relies(prep[q])
  BY DEF IInv, TypeOK, RunsHold
<1>4. /\ prep' \in [Preparers -> RunStates]
      /\ \A q \in Preparers : prep'[q] = r \/ prep'[q] = prep[q]
  BY <1>3 DEF Become
<1>5. \A q \in Preparers : Relies(prep'[q])
  BY <1>3, <1>4
<1>6. RunsHold'
  BY <1>5 DEF RunsHold, Relies
<1>7. Ancestry'
  BY <1>1 DEF IInv, Ancestry, Anc
<1> QED
  BY <1>2, <1>4, <1>6, <1>7

(* The same for a step that makes a commit as well.                        *)
LEMMA RunsGrow ==
  ASSUME IInv,
         Numbers \subseteq Numbers',
         \A c \in Numbers \ {None} : commits'[c] = commits[c],
         NEW r \in RunStates', Relies(r)',
         \/ prep' = prep
         \/ \E p \in Preparers : prep' = [prep EXCEPT ![p] = r]
  PROVE  (prep \in [Preparers -> RunStates])' /\ RunsHold'
<1>1. prep \in [Preparers -> RunStates] /\ \A q \in Preparers : Relies(prep[q])
  BY DEF IInv, TypeOK, RunsHold
<1>2. \A q \in Preparers : prep[q] \in RunStates' /\ Relies(prep[q])'
  BY <1>1, RunsKeep
<1> QED
  BY <1>1, <1>2 DEF RunsHold

LEMMA RunKnown ==
  ASSUME IInv, NEW p \in Preparers
  PROVE  /\ prep[p] \in RunStates /\ Relies(prep[p])
         /\ Idle(p) \in RunStates /\ Relies(Idle(p))
<1>1. prep[p] \in RunStates /\ Relies(prep[p])
  BY DEF IInv, TypeOK, RunsHold
<1>2. commits \in Seq(CommitSet) /\ 0 \in Numbers
  BY CommitTypes DEF IInv, TypeOK, CommitSet, Numbers
<1>3. Idle(p) \in RunStates /\ Relies(Idle(p))
  BY <1>1, <1>2 DEF Idle, NotBegun, RunStates, Relies, None
<1> QED
  BY <1>1, <1>3

LEMMA FetchStep ==
  ASSUME IInv, NEW p \in Preparers, Fetch(p)
  PROVE  IInv'
<1> DEFINE r == [Idle(p) EXCEPT !.phase = "fetched", !.head = main,
                                !.known = {v \in Versions : tag[v] \in Anc(main)}]
<1>1. r \in RunStates /\ Relies(r)
  <2>1. main \in Numbers /\ main # None
    BY DEF IInv, TypeOK
  <2> QED
    BY <2>1, RunKnown DEF RunStates, Relies, Idle, NotBegun, None
<1>2. Become(p, r) /\ UNCHANGED <<commits, main, topic, pr, tag, events>>
  BY DEF Fetch
<1> HIDE DEF r
<1>3. (prep \in [Preparers -> RunStates])' /\ RunsHold' /\ Ancestry'
  BY <1>1, <1>2, RunStep
<1> QED
  BY <1>2, <1>3 DEF IInv, TypeOK, Numbers

LEMMA ChooseStep ==
  ASSUME IInv, NEW p \in Preparers, Choose(p)
  PROVE  IInv'
<1>1. UNCHANGED <<commits, main, topic, pr, tag, events>>
  BY DEF Choose
<1>2. \E r \in RunStates : Relies(r) /\ Become(p, r)
  <2> DEFINE listed(v) == [prep[p] EXCEPT !.phase = "listed", !.known = {}, !.target = v,
                                          !.existing = Listed(v)]
  <2>1. \/ \E v \in Versions : Eligible(p, v, Occupied) /\ Become(p, listed(v))
        \/ Become(p, Idle(p))
    BY DEF Choose
  <2>2. ASSUME NEW v \in Versions, Eligible(p, v, Occupied)
        PROVE  listed(v) \in RunStates /\ Relies(listed(v))
    <3>1. prep[p] \in RunStates /\ Relies(prep[p]) /\ prep[p].phase = "fetched"
      BY RunKnown DEF Choose, At
    <3>2. prep[p].head \in Numbers \ {None}
      BY <3>1 DEF RunStates, Relies
    <3>3. commits[prep[p].head].version <= v
      <4>1. commits[prep[p].head].version \in Nat
        BY <3>2, Histories DEF IInv
      <4>2. PICK s \in commits[prep[p].head].version..v : TRUE
        BY <2>2 DEF Eligible
      <4> QED
        BY <4>1, <4>2 DEF Versions
    <3>4. Listed(v) \in Numbers
      <4>1. 0 \in Numbers /\ topic[v] \in Numbers
        BY CommitTypes DEF IInv, TypeOK, Numbers
      <4> QED
        BY <4>1 DEF Listed, None
    <3>5. v # None
      BY DEF Versions, None
    <3> QED
      BY <3>1, <3>2, <3>3, <3>4, <3>5 DEF RunStates, Relies
  <2> QED
    BY <2>1, <2>2, RunKnown
<1>3. (prep \in [Preparers -> RunStates])' /\ RunsHold' /\ Ancestry'
  BY <1>1, <1>2, RunStep
<1> QED
  BY <1>1, <1>3 DEF IInv, TypeOK, Numbers

(* A topic that is owned has the target version and nothing that the head  *)
(* lacks.                                                                  *)
LEMMA OwnedHolds ==
  ASSUME IInv, NEW tip \in Numbers \ {None}, NEW head \in Numbers \ {None},
         NEW target, Owned(tip, head, target)
  PROVE  commits[tip].version = target /\ commits[tip].edits \subseteq commits[head].edits
<1>1. PICK b \in MergeBases(tip, head) :
        commits[tip].edits = commits[b].edits /\ commits[tip].version = target
  BY DEF Owned
<1>2. b \in Anc(head)
  BY DEF MergeBases
<1> QED
  BY <1>1, <1>2, Histories DEF IInv

LEMMA ReadTopicStep ==
  ASSUME IInv, NEW p \in Preparers, ReadTopic(p)
  PROVE  IInv'
<1>1. UNCHANGED <<commits, main, topic, pr, tag, events>>
  BY DEF ReadTopic
<1>2. \E r \in RunStates : Relies(r) /\ Become(p, r)
  <2> DEFINE tip == topic[prep[p].target]
             verified == [prep[p] EXCEPT !.phase = "verified", !.tip = tip]
  <2>1. /\ prep[p] \in RunStates /\ Relies(prep[p]) /\ prep[p].phase = "listed"
        /\ Idle(p) \in RunStates /\ Relies(Idle(p))
    BY RunKnown DEF ReadTopic, At
  <2>2. prep[p].head \in Numbers \ {None} /\ prep[p].target \in Versions
    BY <2>1 DEF RunStates, Relies
  <2>3. tip \in Numbers /\ 0 \in Numbers
    BY <2>2, CommitTypes DEF IInv, TypeOK, Numbers
  <2>4. \/ Become(p, Idle(p))
        \/ Become(p, [Idle(p) EXCEPT !.phase = "unchanged"])
        \/ Become(p, Prepared(p, tip, FALSE))
        \/ Fits(p, tip) /\ Become(p, verified)
    BY DEF ReadTopic
  <2>5. [Idle(p) EXCEPT !.phase = "unchanged"] \in RunStates
        /\ Relies([Idle(p) EXCEPT !.phase = "unchanged"])
    BY <2>1 DEF RunStates, Relies
  <2>6. Prepared(p, tip, FALSE) \in RunStates /\ Relies(Prepared(p, tip, FALSE))
    BY <2>1, <2>3 DEF Prepared, RunStates, Relies, None
  <2>7. ASSUME Fits(p, tip) PROVE verified \in RunStates /\ Relies(verified)
    <3>1. tip # None => /\ commits[tip].version = prep[p].target
                        /\ commits[tip].edits \subseteq commits[prep[p].head].edits
      BY <2>2, <2>3, <2>7, OwnedHolds DEF Fits
    <3>2. verified \in RunStates
      BY <2>1, <2>3 DEF RunStates
    <3>3. prep[p].head # None /\ prep[p].target # None
          /\ commits[prep[p].head].version <= prep[p].target
      BY <2>1 DEF Relies
    <3>4. /\ verified.phase = "verified" /\ verified.tip = tip
          /\ verified.head = prep[p].head /\ verified.target = prep[p].target
      BY <2>1 DEF RunStates
    <3> QED
      BY <3>1, <3>2, <3>3, <3>4 DEF Relies
  <2> QED
    BY <2>1, <2>4, <2>5, <2>6, <2>7
<1>3. (prep \in [Preparers -> RunStates])' /\ RunsHold' /\ Ancestry'
  BY <1>1, <1>2, RunStep
<1> QED
  BY <1>1, <1>3 DEF IInv, TypeOK, Numbers

LEMMA CreateRequestStep ==
  ASSUME IInv, NEW p \in Preparers, CreateRequest(p)
  PROVE  IInv'
<1>1. UNCHANGED <<commits, main, topic, tag, events>>
  BY DEF CreateRequest
<1>2. \E r \in RunStates : Relies(r) /\ Become(p, r)
  <2>1. [prep[p] EXCEPT !.phase = "done"] \in RunStates /\ Relies([prep[p] EXCEPT !.phase = "done"])
    BY RunKnown DEF RunStates, Relies
  <2>2. \/ Become(p, [prep[p] EXCEPT !.phase = "done"])
        \/ Become(p, Idle(p))
    BY DEF CreateRequest
  <2> QED
    BY <2>1, <2>2, RunKnown
<1>3. (prep \in [Preparers -> RunStates])' /\ RunsHold' /\ Ancestry'
  BY <1>1, <1>2, RunStep
<1>4. pr' \subseteq {v \in Versions : topic'[v] # None}
  <2>1. prep[p] \in RunStates /\ Relies(prep[p]) /\ prep[p].phase = "pushed"
    BY RunKnown DEF CreateRequest, At
  <2>2. prep[p].target \in Versions
    BY <2>1 DEF RunStates, Relies
  <2>3. pr \subseteq {v \in Versions : topic[v] # None}
    BY DEF IInv, TypeOK
  <2> QED
    BY <1>1, <2>2, <2>3 DEF CreateRequest
<1> QED
  BY <1>1, <1>3, <1>4 DEF IInv, TypeOK, Numbers

(* A push has what its topic had, and its version is the target.           *)
LEMMA PushStep ==
  ASSUME IInv, NEW p \in Preparers, Push(p)
  PROVE  /\ IInv'
         /\ commits'[main] = commits[main]
         /\ \A v \in Versions :
              topic[v] # None /\ topic'[v] # topic[v]
                => /\ topic[v] \in commits'[topic'[v]].anc
                   /\ commits[topic[v]].edits \subseteq commits'[topic'[v]].edits
<1> DEFINE target == prep[p].target
           head == prep[p].head
           edits == commits[head].edits
           commit == Child(target, edits, Parents(p))
           forward == topic[target] = None \/ topic[target] \in commit.anc
<1>1. /\ prep[p] \in RunStates /\ Relies(prep[p]) /\ prep[p].phase = "verified"
      /\ Idle(p) \in RunStates /\ Relies(Idle(p))
  BY RunKnown DEF Push, At
<1>2. head \in Numbers \ {None} /\ target \in Versions /\ prep[p].tip \in Numbers
  BY <1>1 DEF RunStates, Relies
<1>3. main \in Numbers \ {None} /\ topic \in [Versions -> Numbers]
      /\ pr \subseteq {v \in Versions : topic[v] # None} /\ tag \in [Versions -> Numbers]
  BY DEF IInv, TypeOK
<1>4. UNCHANGED <<main, pr, tag, events>>
  BY DEF Push
<1>5. CASE ~forward
  <2>1. Become(p, Idle(p)) /\ UNCHANGED <<commits, topic>>
    BY <1>5 DEF Push
  <2>2. (prep \in [Preparers -> RunStates])' /\ RunsHold' /\ Ancestry'
    BY <1>1, <2>1, RunStep
  <2> QED
    BY <1>4, <2>1, <2>2 DEF IInv, TypeOK, Numbers
<1>6. CASE forward
  <2>1. /\ commits' = Append(commits, commit)
        /\ topic' = [topic EXCEPT ![target] = New]
        /\ Become(p, Prepared(p, New, TRUE))
    BY <1>6 DEF Push
  <2>2. Parents(p) \subseteq Numbers \ {None} /\ edits \subseteq Edits
    BY <1>2, CommitTypes DEF Parents, IInv
  <2>3. \A c \in Parents(p) : commits[c].version <= target /\ commits[c].edits \subseteq edits
    BY <1>1, <1>2 DEF Parents, Relies, Versions
  <2>4. /\ commits' \in Seq(CommitSet)
        /\ Len(commits') = Len(commits) + 1
        /\ \A c \in Numbers \ {None} : commits'[c] = commits[c]
        /\ commits'[New] = commit
        /\ New \in Numbers' \ {None}
        /\ Numbers \subseteq Numbers'
        /\ Ancestry'
    BY <1>2, <2>1, <2>2, <2>3, OneMore DEF IInv
  <2>5. PICK r : r = Prepared(p, New, TRUE)
    OBVIOUS
  <2>6. (prep \in [Preparers -> RunStates])' /\ RunsHold'
    <3>1. prep[p] \in RunStates'
      BY <1>1, <2>4 DEF RunStates
    <3>2. 0 \in Numbers' /\ New \in Numbers'
      BY <2>4, CommitTypes DEF IInv, Numbers
    <3>3. prep[p].target # None
      BY <1>2 DEF Versions, None
    <3>4. r \in RunStates' /\ r.phase \in {"done", "pushed"} /\ r.target = prep[p].target
      BY <2>5, <3>1, <3>2 DEF Prepared, RunStates, None
    <3>5. Relies(r)'
      BY <3>3, <3>4 DEF Relies
    <3>6. prep' = [prep EXCEPT ![p] = r]
      BY <2>1, <2>5 DEF Become
    <3> QED
      BY <2>4, <3>4, <3>5, <3>6, RunsGrow
  <2>7. IInv'
    <3>1. topic' \in [Versions -> Numbers'] /\ topic'[target] # None
      BY <1>2, <1>3, <2>1, <2>4
    <3>2. pr' \subseteq {v \in Versions : topic'[v] # None}
      BY <1>3, <1>4, <2>1, <3>1
    <3>3. tag' \in [Versions -> Numbers'] /\ main' \in Numbers' \ {None}
      BY <1>3, <1>4, <2>4
    <3>4. events' \in 0..MaxEvents
      BY <1>4 DEF IInv, TypeOK
    <3> QED
      BY <2>4, <2>6, <3>1, <3>2, <3>3, <3>4 DEF IInv, TypeOK, CommitSet
  <2>8. ASSUME NEW v \in Versions, topic[v] # None, topic'[v] # topic[v]
        PROVE  /\ topic[v] \in commits'[topic'[v]].anc
               /\ commits[topic[v]].edits \subseteq commits'[topic'[v]].edits
    <3>1. v = target /\ topic'[v] = New
      BY <1>3, <2>1, <2>8
    <3>2. topic[v] \in commit.anc
      BY <1>6, <2>8, <3>1
    <3>3. topic[v] \in Numbers /\ New \notin Numbers
      BY <1>3, CommitTypes DEF IInv, Numbers, New
    <3>4. /\ commit.anc = {New} \union UNION {Anc(c) : c \in Parents(p)}
          /\ commit.edits = edits
      BY DEF Child, New
    <3>5. PICK c \in Parents(p) : topic[v] \in Anc(c)
      BY <3>2, <3>3, <3>4
    <3>6. commits[topic[v]].edits \subseteq commits[c].edits
      BY <2>2, <3>5, Histories DEF IInv
    <3> QED
      BY <2>3, <2>4, <3>1, <3>2, <3>4, <3>6
  <2> QED
    BY <1>3, <2>4, <2>7, <2>8
<1> QED
  BY <1>5, <1>6

LEMMA CrashStep ==
  ASSUME IInv, NEW p \in Preparers, Crash(p)
  PROVE  IInv'
<1>1. UNCHANGED <<commits, main, topic, pr, tag>> /\ Become(p, Idle(p))
  BY DEF Crash, Become
<1>2. (prep \in [Preparers -> RunStates])' /\ RunsHold' /\ Ancestry'
  BY <1>1, RunKnown, RunStep
<1>3. events' \in 0..MaxEvents
  BY PrepareAssumption DEF IInv, TypeOK, Crash, Event
<1> QED
  BY <1>1, <1>2, <1>3 DEF IInv, TypeOK, Numbers

(* What is left to show of a commit that is no run's.                      *)
LEMMA OthersGrow ==
  ASSUME IInv, Event, UNCHANGED <<tag, prep>>,
         commits' \in Seq(CommitSet),
         \A c \in Numbers \ {None} : commits'[c] = commits[c],
         Numbers \subseteq Numbers', Ancestry',
         main' \in Numbers' \ {None},
         topic' \in [Versions -> Numbers'],
         pr' \subseteq {v \in Versions : topic'[v] # None}
  PROVE  IInv'
<1>1. prep \in [Preparers -> RunStates] /\ RunsHold
  BY DEF IInv, TypeOK
<1>2. \A p \in Preparers : prep'[p] \in RunStates' /\ Relies(prep[p])'
  BY <1>1, RunsKeep DEF RunsHold
<1>3. (prep \in [Preparers -> RunStates])' /\ RunsHold'
  BY <1>1, <1>2 DEF RunsHold
<1>4. tag' \in [Versions -> Numbers']
  BY DEF IInv, TypeOK
<1>5. events' \in 0..MaxEvents
  BY PrepareAssumption DEF IInv, TypeOK, Event
<1> QED
  BY <1>3, <1>4, <1>5 DEF IInv, TypeOK, CommitSet

LEMMA MainAdvancesStep ==
  ASSUME IInv, NEW e \in Edits, MainAdvances(e)
  PROVE  IInv' /\ commits'[main'].version = commits[main].version
<1> DEFINE version == commits[main].version
           edits == commits[main].edits \union {e}
           child == Child(version, edits, {main})
<1>1. /\ main \in Numbers \ {None} /\ topic \in [Versions -> Numbers]
      /\ pr \subseteq {v \in Versions : topic[v] # None}
  BY DEF IInv, TypeOK
<1>2. version \in Versions /\ edits \in SUBSET Edits /\ version <= version
  BY <1>1, CommitTypes DEF IInv, Versions
<1>3. /\ commits' = Append(commits, child) /\ main' = New
      /\ Event /\ UNCHANGED <<topic, pr, tag, prep>>
  BY DEF MainAdvances
<1> DEFINE parents == {main}
<1>4. parents \in SUBSET (Numbers \ {None})
      /\ \A c \in parents : commits[c].version <= version /\ commits[c].edits \subseteq edits
  BY <1>1, <1>2
<1> HIDE DEF version, edits
<1>5. /\ commits'[New] = child
      /\ commits' \in Seq(CommitSet)
      /\ Len(commits') = Len(commits) + 1
      /\ \A c \in Numbers \ {None} : commits'[c] = commits[c]
      /\ New \in Numbers' \ {None}
      /\ Numbers \subseteq Numbers'
      /\ Ancestry'
  BY <1>2, <1>3, <1>4, OneMore DEF IInv
<1>6. IInv'
  BY <1>1, <1>3, <1>5, OthersGrow
<1>7. commits'[New].version = version
  BY <1>5 DEF Child
<1> QED
  BY <1>3, <1>6, <1>7 DEF version

LEMMA ForeignPushStep ==
  ASSUME IInv, NEW v \in Versions, NEW e \in Edits, ForeignPush(v, e)
  PROVE  /\ IInv'
         /\ main' = main /\ commits'[main] = commits[main]
         /\ \A w \in Versions :
              topic[w] # None /\ topic'[w] # topic[w]
                => /\ topic[w] \in commits'[topic'[w]].anc
                   /\ commits[topic[w]].edits \subseteq commits'[topic'[w]].edits
<1> DEFINE from == IF topic[v] = None THEN main ELSE topic[v]
           version == commits[from].version
           edits == commits[from].edits \union {e}
           parents == {from}
           child == Child(version, edits, parents)
<1>1. /\ main \in Numbers \ {None} /\ topic \in [Versions -> Numbers]
      /\ pr \subseteq {w \in Versions : topic[w] # None}
  BY DEF IInv, TypeOK
<1>2. from \in Numbers \ {None}
  BY <1>1
<1>3. /\ commits' = Append(commits, child) /\ topic' = [topic EXCEPT ![v] = New]
      /\ Event /\ UNCHANGED <<main, pr, tag, prep>>
  BY DEF ForeignPush
<1>4. topic[v] # None => from = topic[v]
  OBVIOUS
<1> HIDE DEF from
<1>5. version \in Versions /\ edits \in SUBSET Edits /\ version <= version
  BY <1>2, CommitTypes DEF IInv, Versions
<1>6. parents \in SUBSET (Numbers \ {None})
      /\ \A c \in parents : commits[c].version <= version /\ commits[c].edits \subseteq edits
  BY <1>2, <1>5
<1>7. /\ child.edits = edits /\ from \in child.anc
  BY <1>2, Histories DEF Child, IInv
<1> HIDE DEF version, edits, parents
<1>8. /\ commits'[New] = child
      /\ commits' \in Seq(CommitSet)
      /\ Len(commits') = Len(commits) + 1
      /\ \A c \in Numbers \ {None} : commits'[c] = commits[c]
      /\ New \in Numbers' \ {None}
      /\ Numbers \subseteq Numbers'
      /\ Ancestry'
  BY <1>3, <1>5, <1>6, OneMore DEF IInv
<1>9. topic' \in [Versions -> Numbers'] /\ pr' \subseteq {w \in Versions : topic'[w] # None}
  BY <1>1, <1>3, <1>8
<1>10. IInv'
  BY <1>1, <1>3, <1>8, <1>9, OthersGrow
<1>11. ASSUME NEW w \in Versions, topic[w] # None, topic'[w] # topic[w]
       PROVE  /\ topic[w] \in commits'[topic'[w]].anc
              /\ commits[topic[w]].edits \subseteq commits'[topic'[w]].edits
  <2>1. w = v /\ topic'[w] = New
    BY <1>1, <1>3, <1>11
  <2> QED
    BY <1>4, <1>7, <1>8, <1>11, <2>1 DEF edits
<1> QED
  BY <1>1, <1>3, <1>8, <1>10, <1>11

(* A merge keeps the higher version: both sides have that of their common  *)
(* ancestor or a higher one, and only one of them has changed it.          *)
LEMMA MergeStep ==
  ASSUME IInv, NEW v \in Versions, NEW squash \in BOOLEAN, NEW delete \in BOOLEAN,
         Merge(v, squash, delete)
  PROVE  /\ IInv'
         /\ commits'[main'].version >= commits[main].version
         /\ \A w \in Versions : topic'[w] \in {topic[w], None}
<1> DEFINE tip == topic[v]
           edits == commits[main].edits \union commits[tip].edits
           parents == IF squash THEN {main} ELSE {main, tip}
<1>1. /\ main \in Numbers \ {None} /\ topic \in [Versions -> Numbers]
      /\ pr \subseteq {w \in Versions : topic[w] # None}
  BY DEF IInv, TypeOK
<1>2. tip \in Numbers \ {None}
  BY <1>1 DEF Merge
<1>3. PICK b \in MergeBases(main, tip) :
        /\ CleanMerge(b, main, tip)
        /\ commits' = Append(commits, Child(MergedVersion(b, main, tip), edits, parents))
  BY DEF Merge
<1>4. /\ main' = New /\ topic' = [topic EXCEPT ![v] = IF delete THEN None ELSE @]
      /\ pr' \subseteq pr \ {v} /\ Event /\ UNCHANGED <<tag, prep>>
  BY DEF Merge
<1> HIDE DEF tip
<1> DEFINE version == MergedVersion(b, main, tip)
<1>5. /\ commits[b].version <= commits[main].version
      /\ commits[b].version <= commits[tip].version
      /\ b \in Numbers \ {None}
  BY <1>1, <1>2, Histories DEF MergeBases, IInv
<1>6. /\ version \in Versions
      /\ commits[main].version <= version
      /\ commits[tip].version <= version
  <2>1. /\ commits[b].version \in Nat /\ commits[main].version \in Nat
        /\ commits[tip].version \in Nat
        /\ commits[main].version \in Versions /\ commits[tip].version \in Versions
    BY <1>1, <1>2, <1>5, CommitTypes DEF IInv, Versions
  <2> QED
    BY <1>3, <1>5, <2>1 DEF MergedVersion, CleanMerge
<1>7. edits \in SUBSET Edits
  BY <1>1, <1>2, CommitTypes DEF IInv
<1>8. parents \in SUBSET (Numbers \ {None})
      /\ \A c \in parents : commits[c].version <= version /\ commits[c].edits \subseteq edits
  BY <1>1, <1>2, <1>6
<1> HIDE DEF version, edits, parents
<1>9. commits' = Append(commits, Child(version, edits, parents))
  BY <1>3 DEF version
<1>10. /\ commits'[New] = Child(version, edits, parents)
       /\ commits' \in Seq(CommitSet)
       /\ Len(commits') = Len(commits) + 1
       /\ \A c \in Numbers \ {None} : commits'[c] = commits[c]
       /\ New \in Numbers' \ {None}
       /\ Numbers \subseteq Numbers'
       /\ Ancestry'
  BY <1>6, <1>7, <1>8, <1>9, OneMore DEF IInv
<1>11. 0 \in Numbers'
  BY <1>10, CommitTypes DEF IInv, Numbers
<1>12. /\ topic' \in [Versions -> Numbers']
       /\ pr' \subseteq {w \in Versions : topic'[w] # None}
       /\ \A w \in Versions : topic'[w] \in {topic[w], None}
  BY <1>1, <1>4, <1>10, <1>11 DEF None
<1>13. IInv'
  BY <1>4, <1>10, <1>12, OthersGrow
<1>14. commits'[main'].version = version
  BY <1>4, <1>10 DEF Child
<1>15. commits[main].version \in Nat /\ version \in Nat
  BY <1>1, <1>6, Histories DEF IInv, Versions
<1> QED
  BY <1>6, <1>12, <1>13, <1>14, <1>15

LEMMA CloseStep ==
  ASSUME IInv, NEW v \in Versions, NEW delete \in BOOLEAN, Close(v, delete)
  PROVE  IInv' /\ \A w \in Versions : topic'[w] \in {topic[w], None}
<1>1. /\ main \in Numbers \ {None} /\ topic \in [Versions -> Numbers]
      /\ pr \subseteq {w \in Versions : topic[w] # None}
  BY DEF IInv, TypeOK
<1>2. /\ topic' = [topic EXCEPT ![v] = IF delete THEN None ELSE @]
      /\ pr' = pr \ {v} /\ Event /\ UNCHANGED <<commits, main, tag, prep>>
  BY DEF Close
<1>3. Numbers' = Numbers /\ 0 \in Numbers /\ Ancestry' /\ commits \in Seq(CommitSet)
  BY <1>2, CommitTypes DEF Numbers, IInv, TypeOK, Ancestry, Anc, CommitSet
<1>4. /\ topic' \in [Versions -> Numbers']
      /\ pr' \subseteq {w \in Versions : topic'[w] # None}
      /\ \A w \in Versions : topic'[w] \in {topic[w], None}
  BY <1>1, <1>2, <1>3 DEF None
<1> QED
  BY <1>1, <1>2, <1>3, <1>4, OthersGrow

LEMMA ReleaseStep ==
  ASSUME IInv, Release
  PROVE  IInv'
<1>1. UNCHANGED <<commits, main, topic, pr, prep>> /\ Event
      /\ tag' = [tag EXCEPT ![commits[main].version] = main]
  BY DEF Release
<1>2. Numbers' = Numbers /\ Ancestry' /\ RunStates' = RunStates
  BY <1>1 DEF Numbers, IInv, Ancestry, Anc, RunStates
<1>3. RunsHold'
  BY <1>1 DEF IInv, RunsHold, Relies
<1>4. tag' \in [Versions -> Numbers]
  <2>1. tag \in [Versions -> Numbers] /\ main \in Numbers
    BY DEF IInv, TypeOK
  <2> QED
    BY <1>1, <2>1
<1>5. events' \in 0..MaxEvents
  BY <1>1, PrepareAssumption DEF IInv, TypeOK, Event
<1> QED
  BY <1>1, <1>2, <1>3, <1>4, <1>5 DEF IInv, TypeOK

(* Every step keeps the invariant, never lowers the version of the default *)
(* branch and never replaces a topic by one that lacks something of it.    *)
LEMMA Steps ==
  ASSUME IInv, Next
  PROVE  /\ IInv'
         /\ commits'[main'].version >= commits[main].version
         /\ \A v \in Versions :
              topic[v] # None /\ topic'[v] # None /\ topic'[v] # topic[v]
                => /\ topic[v] \in commits'[topic'[v]].anc
                   /\ commits[topic[v]].edits \subseteq commits'[topic'[v]].edits
<1>1. commits[main].version \in Nat
  BY Histories DEF IInv, TypeOK
<1>2. ASSUME NEW p \in Preparers, Fetch(p) \/ Choose(p) \/ ReadTopic(p) \/ CreateRequest(p) \/ Crash(p)
      PROVE  IInv' /\ UNCHANGED <<commits, main, topic>>
  <2>1. CASE Fetch(p)
    BY <2>1, FetchStep DEF Fetch
  <2>2. CASE Choose(p)
    BY <2>2, ChooseStep DEF Choose
  <2>3. CASE ReadTopic(p)
    BY <2>3, ReadTopicStep DEF ReadTopic
  <2>4. CASE CreateRequest(p)
    BY <2>4, CreateRequestStep DEF CreateRequest
  <2>5. CASE Crash(p)
    BY <2>5, CrashStep DEF Crash
  <2> QED
    BY <1>2, <2>1, <2>2, <2>3, <2>4, <2>5
<1>3. ASSUME NEW p \in Preparers, Push(p) PROVE main' = main
  BY <1>3 DEF Push
<1>4. CASE \E p \in Preparers : Fetch(p) \/ GoOn(p) \/ Crash(p)
  <2>1. PICK p \in Preparers : Fetch(p) \/ GoOn(p) \/ Crash(p)
    BY <1>4
  <2>2. CASE Push(p)
    BY <1>1, <1>3, <2>2, PushStep
  <2>3. CASE ~Push(p)
    BY <1>1, <1>2, <2>1, <2>3 DEF GoOn
  <2> QED
    BY <2>2, <2>3
<1>5. CASE \E e \in Edits : MainAdvances(e) \/ \E v \in Versions : ForeignPush(v, e)
  <2>1. PICK e \in Edits : MainAdvances(e) \/ \E v \in Versions : ForeignPush(v, e)
    BY <1>5
  <2>2. CASE MainAdvances(e)
    <3>1. topic' = topic
      BY <2>2 DEF MainAdvances
    <3> QED
      BY <1>1, <2>2, <3>1, MainAdvancesStep
  <2>3. CASE \E v \in Versions : ForeignPush(v, e)
    BY <1>1, <2>3, ForeignPushStep
  <2> QED
    BY <2>1, <2>2, <2>3
<1>6. CASE \E v \in Versions, delete \in BOOLEAN :
             Close(v, delete) \/ \E squash \in BOOLEAN : Merge(v, squash, delete)
  <2>1. PICK v \in Versions, delete \in BOOLEAN :
               Close(v, delete) \/ \E squash \in BOOLEAN : Merge(v, squash, delete)
    BY <1>6
  <2>2. CASE Close(v, delete)
    <3>1. UNCHANGED <<commits, main>>
      BY <2>2 DEF Close
    <3> QED
      BY <1>1, <2>2, <3>1, CloseStep
  <2>3. CASE \E squash \in BOOLEAN : Merge(v, squash, delete)
    BY <2>3, MergeStep
  <2> QED
    BY <2>1, <2>2, <2>3
<1>7. CASE Release
  <2>1. UNCHANGED <<commits, main, topic>>
    BY <1>7 DEF Release
  <2> QED
    BY <1>1, <1>7, <2>1, ReleaseStep
<1> QED
  BY <1>4, <1>5, <1>6, <1>7 DEF Next

LEMMA Stutter == IInv /\ UNCHANGED vars => IInv'
<1> SUFFICES ASSUME IInv, UNCHANGED vars PROVE IInv'
  OBVIOUS
<1>1. UNCHANGED <<commits, main, topic, pr, tag, prep, events>>
  BY DEF vars
<1>2. Numbers' = Numbers /\ RunStates' = RunStates /\ Ancestry'
  BY <1>1 DEF Numbers, RunStates, IInv, Ancestry, Anc
<1>3. RunsHold'
  BY <1>1 DEF IInv, RunsHold, Relies
<1> QED
  BY <1>1, <1>2, <1>3 DEF IInv, TypeOK

(* The state has its type, the history only adds, and what a run read      *)
(* still holds when it pushes.                                             *)
THEOREM Invariance == Spec => []IInv
<1>1. Init => IInv
  BY InitIInv
<1>2. IInv /\ [Next]_vars => IInv'
  BY Steps, Stutter
<1> QED
  BY <1>1, <1>2, PTL DEF Spec

(* No merge of a preparation, however old, and nothing else takes the      *)
(* default branch to a lower base version.                                 *)
THEOREM BaseNeverFalls == Spec => NeverDowngrades
<1>1. IInv /\ [Next]_vars => [commits'[main'].version >= commits[main].version]_vars
  BY Steps
<1> QED
  BY <1>1, Invariance, PTL DEF Spec, NeverDowngrades

(* No push of a run takes a commit or a change from a topic, whatever was  *)
(* pushed to it since the run read it.                                     *)
THEOREM TopicsOnlyGrow == Spec => KeepsForeignWork
<1> DEFINE Keeps ==
      \A v \in Versions :
         topic[v] # None /\ topic'[v] # None /\ topic'[v] # topic[v]
           => /\ topic[v] \in commits'[topic'[v]].anc
              /\ commits[topic[v]].edits \subseteq commits'[topic'[v]].edits
<1>1. IInv /\ [Next]_vars => [Keeps]_vars
  BY Steps
<1> QED
  BY <1>1, Invariance, PTL DEF Spec, KeepsForeignWork

-------------------------------------------------------------------------------
(* A run that pushed leaves a topic that merges.                           *)

LEMMA InitFollow == Init => UpdatesFollow
<1> SUFFICES ASSUME Init PROVE UpdatesFollow
  OBVIOUS
<1>1. Numbers \ {None} = {1} /\ Anc(1) = {1}
  BY DEF Init, Numbers, None, Anc
<1>2. \A r \in Versions \union {NextPatch} : Follows(NotBegun(r))
  BY DEF Follows, NotBegun
<1>3. \A p \in Preparers : Follows(prep[p])
  BY <1>2 DEF Init
<1> QED
  BY <1>1, <1>3 DEF UpdatesFollow, Dated

(* A step makes one commit at most, of commits there are.                  *)
LEMMA OneAtMost ==
  ASSUME IInv, Next
  PROVE  \/ UNCHANGED commits
         \/ \E version, edits : \E parents \in SUBSET (Numbers \ {None}) :
              commits' = Append(commits, Child(version, edits, parents))
<1>0. /\ main \in Numbers \ {None} /\ topic \in [Versions -> Numbers]
      /\ pr \subseteq {v \in Versions : topic[v] # None}
      /\ prep \in [Preparers -> RunStates] /\ \A p \in Preparers : Relies(prep[p])
  BY DEF IInv, TypeOK, RunsHold
<1>1. ASSUME NEW p \in Preparers, Fetch(p) \/ GoOn(p) \/ Crash(p), ~Push(p) PROVE UNCHANGED commits
  BY <1>1 DEF Fetch, GoOn, Crash, Choose, ReadTopic, CreateRequest
<1>2. ASSUME NEW p \in Preparers, Push(p)
      PROVE  \/ UNCHANGED commits
             \/ \E version, edits : \E parents \in SUBSET (Numbers \ {None}) :
                  commits' = Append(commits, Child(version, edits, parents))
  <2>1. prep[p] \in RunStates /\ Relies(prep[p]) /\ prep[p].phase = "verified"
    BY <1>0, <1>2 DEF Push, At
  <2>2. Parents(p) \in SUBSET (Numbers \ {None})
    BY <2>1 DEF Parents, RunStates, Relies
  <2>3. \/ UNCHANGED commits
        \/ commits' = Append(commits, Child(prep[p].target, commits[prep[p].head].edits, Parents(p)))
    BY <1>2 DEF Push
  <2> QED
    BY <2>2, <2>3
<1>3. ASSUME NEW e \in Edits, MainAdvances(e)
      PROVE  \E version, edits : \E parents \in SUBSET (Numbers \ {None}) :
                  commits' = Append(commits, Child(version, edits, parents))
  <2>1. {main} \in SUBSET (Numbers \ {None})
    BY <1>0
  <2> QED
    BY <1>3, <2>1 DEF MainAdvances
<1>4. ASSUME NEW e \in Edits, NEW v \in Versions, ForeignPush(v, e)
      PROVE  \E version, edits : \E parents \in SUBSET (Numbers \ {None}) :
                  commits' = Append(commits, Child(version, edits, parents))
  <2> DEFINE from == IF topic[v] = None THEN main ELSE topic[v]
  <2>1. {from} \in SUBSET (Numbers \ {None})
    BY <1>0
  <2>2. commits' = Append(commits, Child(commits[from].version, commits[from].edits \union {e}, {from}))
    BY <1>4 DEF ForeignPush
  <2> QED
    BY <2>1, <2>2
<1>5. ASSUME NEW v \in Versions, NEW squash \in BOOLEAN, NEW delete \in BOOLEAN,
             Merge(v, squash, delete)
      PROVE  \E version, edits : \E parents \in SUBSET (Numbers \ {None}) :
                  commits' = Append(commits, Child(version, edits, parents))
  <2>1. PICK b \in MergeBases(main, topic[v]) :
          commits' = Append(commits,
                Child(MergedVersion(b, main, topic[v]),
                      commits[main].edits \union commits[topic[v]].edits,
                      IF squash THEN {main} ELSE {main, topic[v]}))
    BY <1>5 DEF Merge
  <2>2. (IF squash THEN {main} ELSE {main, topic[v]}) \in SUBSET (Numbers \ {None})
    BY <1>0, <1>5 DEF Merge
  <2> QED
    BY <2>1, <2>2
<1>6. ASSUME NEW v \in Versions, NEW delete \in BOOLEAN, Close(v, delete) PROVE UNCHANGED commits
  BY <1>6 DEF Close
<1>7. CASE Release
  BY <1>7 DEF Release
<1> QED
  BY <1>1, <1>2, <1>3, <1>4, <1>5, <1>6, <1>7 DEF Next

(* What one commit more leaves of the others, and what its ancestors are.  *)
LEMMA Appended ==
  ASSUME TypeOK, NEW version, NEW edits, NEW parents \in SUBSET (Numbers \ {None}),
         commits' = Append(commits, Child(version, edits, parents))
  PROVE  /\ Len(commits) \in Nat /\ Len(commits') = Len(commits) + 1
         /\ \A c \in Numbers \ {None} : commits'[c] = commits[c]
         /\ commits'[New].anc = {New} \union UNION {Anc(c) : c \in parents}
<1> DEFINE child == Child(version, edits, parents)
<1>1. commits \in Seq(CommitSet \union {child})
  <2>1. ASSUME NEW S, NEW T, S \subseteq T, NEW s \in Seq(S) PROVE s \in Seq(T)
    BY <2>1
  <2>2. commits \in Seq(CommitSet)
    BY DEF TypeOK, CommitSet
  <2> HIDE DEF child
  <2> QED
    BY <2>1, <2>2
<1>2. child.anc = {New} \union UNION {Anc(c) : c \in parents}
  BY DEF Child, New
<1> HIDE DEF child
<1>3. /\ Len(commits) \in Nat /\ Len(commits') = Len(commits) + 1
      /\ \A c \in 1..Len(commits) : commits'[c] = commits[c]
      /\ commits'[Len(commits) + 1] = child
  BY <1>1 DEF child
<1>4. Numbers \ {None} = 1..Len(commits)
  BY <1>3 DEF Numbers, None
<1> QED
  BY <1>2, <1>3, <1>4 DEF New

(* Commits stay in the order of their making.                              *)
LEMMA StaysDated ==
  ASSUME IInv, Dated, Next
  PROVE  /\ Dated'
         /\ Numbers \subseteq Numbers'
         /\ \A c \in Numbers \ {None} : commits'[c] = commits[c]
<1>1. CASE UNCHANGED commits
  BY <1>1 DEF Dated, Numbers, Anc
<1>2. ASSUME NEW version, NEW edits, NEW parents \in SUBSET (Numbers \ {None}),
             commits' = Append(commits, Child(version, edits, parents))
      PROVE  /\ Dated'
             /\ Numbers \subseteq Numbers'
             /\ \A c \in Numbers \ {None} : commits'[c] = commits[c]
  <2>1. /\ Len(commits) \in Nat /\ Len(commits') = Len(commits) + 1
        /\ \A c \in Numbers \ {None} : commits'[c] = commits[c]
        /\ commits'[New].anc = {New} \union UNION {Anc(c) : c \in parents}
    BY <1>2, Appended DEF IInv
  <2>2. /\ Numbers = 0..Len(commits) /\ Numbers' = 0..(Len(commits) + 1)
        /\ Numbers' \ {None} = (Numbers \ {None}) \union {New}
    BY <2>1 DEF Numbers, New, None
  <2>3. ASSUME NEW a \in commits'[New].anc PROVE a <= New
    <3>1. CASE a = New
      BY <2>1, <3>1 DEF New
    <3>2. CASE a # New
      <4>1. PICK c \in parents : a \in Anc(c)
        BY <2>1, <3>2
      <4>2. a \in Numbers \ {None}
        BY <4>1, Histories DEF IInv
      <4> QED
        BY <2>1, <2>2, <4>2 DEF New
    <3> QED
      BY <3>1, <3>2
  <2>4. ASSUME NEW c \in Numbers \ {None}, NEW a \in commits'[c].anc PROVE a <= c
    BY <2>1, <2>4 DEF Dated, Anc
  <2>5. Dated'
    BY <2>2, <2>3, <2>4 DEF Dated, Anc
  <2> QED
    BY <2>1, <2>2, <2>5
<1> QED
  BY <1>1, <1>2, OneAtMost

(* What a run knows of its push stays true of a longer history.            *)
LEMMA FollowsStays ==
  ASSUME Numbers \subseteq Numbers',
         \A c \in Numbers \ {None} : commits'[c] = commits[c],
         NEW r, Follows(r)
  PROVE  Follows(r)'
  BY DEF Follows, Anc

(* Only the push makes a run one that has updated its topic.               *)
LEMMA OwnUpdate ==
  ASSUME IInv, NEW p \in Preparers, Follows(prep[p]), Fetch(p) \/ GoOn(p) \/ Crash(p), ~Push(p)
  PROVE  \E r : Follows(r) /\ Become(p, r)
<1>1. \A r \in Versions \union {NextPatch} : ~NotBegun(r).updated
  BY DEF NotBegun
<1>2. prep[p] \in RunStates
  BY DEF IInv, TypeOK
<1>3. ~Idle(p).updated
  BY <1>1, <1>2 DEF Idle, RunStates
<1>4. Follows(Idle(p))
  BY <1>3 DEF Follows
<1>5. CASE Fetch(p)
  <2>1. PICK h, known : Become(p, [Idle(p) EXCEPT !.phase = "fetched", !.head = h, !.known = known])
    BY <1>5 DEF Fetch
  <2>2. ~[Idle(p) EXCEPT !.phase = "fetched", !.head = h, !.known = known].updated
    BY <1>3 DEF Idle, NotBegun
  <2> QED
    BY <2>1, <2>2 DEF Follows
<1>6. CASE Choose(p)
  <2>1. /\ prep[p].phase = "fetched"
        /\ \/ Become(p, Idle(p))
           \/ \E v : Become(p, [prep[p] EXCEPT
               !.phase = "listed", !.known = {}, !.target = v, !.existing = Listed(v)])
    BY <1>6 DEF Choose, At
  <2>2. ASSUME NEW v
        PROVE  Follows([prep[p] EXCEPT !.phase = "listed", !.known = {}, !.target = v,
                                       !.existing = Listed(v)])
    BY <1>2, <2>1 DEF Follows, RunStates
  <2> QED
    BY <1>4, <2>1, <2>2
<1>7. CASE ReadTopic(p)
  <2>1. /\ prep[p].phase = "listed"
        /\ \E tip : \/ Become(p, Idle(p))
                    \/ Become(p, [Idle(p) EXCEPT !.phase = "unchanged"])
                    \/ Become(p, Prepared(p, tip, FALSE))
                    \/ Become(p, [prep[p] EXCEPT !.phase = "verified", !.tip = tip])
    BY <1>7 DEF ReadTopic, At
  <2>2. Follows([Idle(p) EXCEPT !.phase = "unchanged"])
    <3>1. ~[Idle(p) EXCEPT !.phase = "unchanged"].updated
      BY <1>3 DEF Idle, NotBegun
    <3> QED
      BY <3>1 DEF Follows
  <2>3. ASSUME NEW tip PROVE Follows(Prepared(p, tip, FALSE))
    BY <1>2 DEF Follows, Prepared, RunStates
  <2>4. ASSUME NEW tip PROVE Follows([prep[p] EXCEPT !.phase = "verified", !.tip = tip])
    BY <1>2, <2>1 DEF Follows, RunStates
  <2> QED
    BY <1>4, <2>1, <2>2, <2>3, <2>4
<1>8. CASE CreateRequest(p)
  <2>1. Become(p, [prep[p] EXCEPT !.phase = "done"]) \/ Become(p, Idle(p))
    BY <1>8 DEF CreateRequest
  <2>2. Follows([prep[p] EXCEPT !.phase = "done"])
    BY <1>2 DEF Follows, RunStates
  <2> QED
    BY <1>4, <2>1, <2>2
<1>9. CASE Crash(p)
  BY <1>4, <1>9 DEF Crash, Become
<1> QED
  BY <1>5, <1>6, <1>7, <1>8, <1>9 DEF GoOn

(* A push follows the head that the run had fetched.                       *)
LEMMA PushFollows ==
  ASSUME IInv, Dated, NEW p \in Preparers, Follows(prep[p]), Push(p)
  PROVE  Follows(prep[p])'
<1>1. /\ prep[p] \in RunStates /\ Relies(prep[p]) /\ prep[p].phase = "verified"
      /\ prep \in [Preparers -> RunStates]
  BY DEF IInv, TypeOK, RunsHold, Push, At
<1>2. prep[p].head \in Numbers \ {None} /\ Parents(p) \in SUBSET (Numbers \ {None})
      /\ prep[p].head \in Parents(p)
  BY <1>1 DEF RunStates, Relies, Parents
<1>3. CASE Become(p, Idle(p))
  <2>1. prep'[p] = Idle(p)
    BY <1>1, <1>3 DEF Become
  <2> QED
    BY <2>1 DEF Follows, Idle, NotBegun
<1>4. CASE ~Become(p, Idle(p))
  <2>1. /\ commits' = Append(commits, Child(prep[p].target, commits[prep[p].head].edits, Parents(p)))
        /\ Become(p, Prepared(p, New, TRUE))
    BY <1>4 DEF Push
  <2>2. prep'[p] = Prepared(p, New, TRUE)
    BY <1>1, <2>1 DEF Become
  <2>3. prep'[p].phase \in {"pushed", "done"} /\ prep'[p].head = prep[p].head /\ prep'[p].tip = New
    BY <1>1, <2>2 DEF Prepared, RunStates
  <2>4. /\ Len(commits) \in Nat /\ Len(commits') = Len(commits) + 1
        /\ commits'[New].anc = {New} \union UNION {Anc(c) : c \in Parents(p)}
    BY <1>2, <2>1, Appended DEF IInv
  <2>5. prep[p].head \in commits'[New].anc
    BY <1>2, <2>4, Histories DEF IInv
  <2>6. {prep[p].head, New} \subseteq Numbers' \ {None}
    BY <1>2, <2>4 DEF Numbers, New, None
  <2> QED
    BY <2>3, <2>5, <2>6 DEF Follows, Anc
<1> QED
  BY <1>3, <1>4

LEMMA StepFollow == IInv /\ UpdatesFollow /\ [Next]_vars => UpdatesFollow'
<1> SUFFICES ASSUME IInv, UpdatesFollow, [Next]_vars PROVE UpdatesFollow'
  OBVIOUS
<1>1. Dated /\ \A p \in Preparers : Follows(prep[p])
  BY DEF UpdatesFollow
<1>2. prep \in [Preparers -> RunStates]
  BY DEF IInv, TypeOK
<1>3. CASE Next
  <2>1. /\ Dated' /\ Numbers \subseteq Numbers'
        /\ \A c \in Numbers \ {None} : commits'[c] = commits[c]
    BY <1>1, <1>3, StaysDated
  <2>2. \A q \in Preparers : prep'[q] = prep[q] => Follows(prep[q])'
    <3>1. \A q \in Preparers : Follows(prep[q]) => \A r : r = prep[q] => Follows(r)'
      BY <2>1, FollowsStays
    <3> QED
      BY <1>1, <3>1 DEF Follows
  <2>3. ASSUME NEW p \in Preparers, Fetch(p) \/ GoOn(p) \/ Crash(p)
        PROVE  \A q \in Preparers : Follows(prep[q])'
    <3>1. CASE Push(p)
      <4>1. Follows(prep[p])'
        BY <1>1, <3>1, PushFollows
      <4>2. \A q \in Preparers \ {p} : prep'[q] = prep[q]
        BY <1>2, <3>1 DEF Push, Become
      <4> QED
        BY <2>2, <4>1, <4>2
    <3>2. CASE ~Push(p)
      <4>1. PICK r : Follows(r) /\ Become(p, r)
        BY <1>1, <2>3, <3>2, OwnUpdate
      <4>2. Follows(r)'
        BY <2>1, <4>1, FollowsStays
      <4>3. prep'[p] = r /\ \A q \in Preparers \ {p} : prep'[q] = prep[q]
        BY <1>2, <4>1 DEF Become
      <4>4. Follows(prep[p])'
        BY <4>2, <4>3 DEF Follows
      <4> QED
        BY <2>2, <4>3, <4>4
    <3> QED
      BY <3>1, <3>2
  <2>4. CASE prep' = prep
    BY <2>1, <2>2, <2>4 DEF UpdatesFollow
  <2>5. (\E p \in Preparers : Fetch(p) \/ GoOn(p) \/ Crash(p)) \/ prep' = prep
    BY <1>3 DEF Next, MainAdvances, ForeignPush, Close, Merge, Release
  <2> QED
    BY <2>1, <2>3, <2>4, <2>5 DEF UpdatesFollow
<1>4. CASE UNCHANGED vars
  <2>1. commits' = commits /\ prep' = prep
    BY <1>4 DEF vars
  <2>2. Numbers' = Numbers /\ \A c : Anc(c)' = Anc(c)
    BY <2>1 DEF Numbers, Anc
  <2>3. Dated'
    BY <1>1, <2>2 DEF Dated
  <2>4. ASSUME NEW p \in Preparers PROVE Follows(prep[p])'
    BY <1>1, <2>1, <2>2 DEF Follows
  <2> QED
    BY <2>3, <2>4 DEF UpdatesFollow
<1> QED
  BY <1>3, <1>4

(* The head that a run's commit follows is the merge base of main, as long *)
(* as main is that head: the topic has all there is, and nothing conflicts. *)
LEMMA FollowingMerges ==
  ASSUME IInv, UpdatesFollow, NEW p \in Preparers, Current(p), prep[p].updated
  PROVE  Mergeable(prep[p].target)
<1> DEFINE tip == topic[prep[p].target]
<1>1. /\ main \in Numbers \ {None} /\ tip \in Numbers \ {None}
      /\ main \in Anc(tip)
  BY DEF Current, UpdatesFollow, Follows
<1> HIDE DEF tip
<1>2. main \in Anc(main)
  BY <1>1, Histories DEF IInv
<1>3. ASSUME NEW d \in (Anc(main) \intersect Anc(tip)) \ {main} PROVE main \notin Anc(d)
  <2>1. d \in Numbers \ {None}
    BY <1>1, Histories DEF IInv
  <2>2. d <= main
    BY <1>1 DEF UpdatesFollow, Dated
  <2>3. main \in Anc(d) => main <= d
    BY <2>1 DEF UpdatesFollow, Dated
  <2>4. d \in Nat /\ main \in Nat
    BY <1>1, <2>1, CommitTypes DEF IInv, Numbers
  <2> QED
    BY <2>2, <2>3, <2>4
<1>4. main \in MergeBases(main, tip)
  BY <1>1, <1>2, <1>3 DEF MergeBases
<1> QED
  BY <1>4 DEF Mergeable, CleanMerge, tip

(* Whatever happened before and in between, a run that pushed and opened   *)
(* its request leaves one that merges without a conflict, until the        *)
(* default branch or the topic moves on.                                   *)
THEOREM UpdatesMerge == Spec => []UpdatedMerges
<1>1. IInv /\ UpdatesFollow => UpdatedMerges
  BY FollowingMerges DEF UpdatedMerges
<1>2. IInv /\ [Next]_vars => IInv'
  BY Steps, Stutter
<1> QED
  BY <1>1, <1>2, InitIInv, InitFollow, StepFollow, PTL DEF Spec

-------------------------------------------------------------------------------
(* VersionBuild.                                                           *)

(* What the contents are that a sync makes and accepts.                    *)
LEMMA CommittedContent ==
  Committed \in Content /\ Committed.edit = 0
  BY DEF Committed, Content, ContentVersions

LEMMA ProjectedContent ==
  ASSUME NEW p \in Plans, NEW c \in Content
  PROVE  /\ Projected(p, c) \in Content
         /\ Projected(p, c).version = Package[p] /\ Projected(p, c).edit = c.edit
  BY DEF Projected, Content, ContentVersions

LEMMA AcceptedContent ==
  ASSUME plan \in Plans, NEW c \in Content, Accepts(c)
  PROVE  c.edit = 0
  BY CommittedContent, ProjectedContent DEF Accepts

(* The evidence and the archive have contents of the inputs.               *)
LEMMA Contained ==
  ASSUME BuildTypeOK
  PROVE  /\ evidence # Nothing =>
               evidence \in Evidence /\ \A f \in Inputs : evidence.after[f] \in Content
         /\ Packed # Nothing =>
               Packed \in Evidence /\ \A f \in Inputs : Packed.after[f] \in Content
         /\ \A f \in Inputs : files[f] \in Content
         /\ HasRead => job.read \in Contents /\ \A f \in Inputs : job.read[f] \in Content
         /\ archive # Nothing =>
               /\ DOMAIN archive.held \subseteq Inputs
               /\ \A f \in DOMAIN archive.held : archive.held[f] \in Content
<1>1. ASSUME NEW e \in Evidence PROVE \A f \in Inputs : e.after[f] \in Content
  BY DEF Evidence, Contents
<1>2. Packed \in Evidence \union {Nothing}
  BY DEF BuildTypeOK, IsArchive, Packed
<1>3. \A c \in Contents : \A f \in Inputs : c[f] \in Content
  BY DEF Contents
<1>4. HasRead => job.read \in Contents
  BY DEF BuildTypeOK, HasRead, JobAt, Replacing
<1> QED
  BY <1>1, <1>2, <1>3, <1>4 DEF BuildTypeOK, IsArchive

LEMMA BuildBegins == BuildInit => BuildIInv
<1> SUFFICES ASSUME BuildInit PROVE BuildIInv
  OBVIOUS
<1> USE DEF BuildInit
<1>1. job.at = "idle"
  BY DEF NoJob
<1>2. BuildTypeOK
  BY <1>1, CommittedContent DEF BuildTypeOK, JobAt, Contents
<1>3. Numbered
  BY <1>1, CommittedContent DEF Numbered, Packed, HasRead
<1>4. EvidenceSound /\ Outputs /\ SyncSound /\ PackedSound /\ ArchiveSound /\ ReceiptSound
  BY <1>1 DEF EvidenceSound, Outputs, SyncSound, PackedSound, ArchiveSound, ReceiptSound,
     Packed, Unattested, HasRead, JobAt
<1> QED
  BY <1>2, <1>3, <1>4 DEF BuildIInv

(* A step that changes the command only.                                   *)
LEMMA JobOnly ==
  ASSUME BuildIInv, UNCHANGED <<files, plan, evidence, archive, staged, edited, undone>>,
         BuildTypeOK', Outputs', SyncSound',
         HasRead' => job'.read = files \/ (HasRead /\ job'.read = job.read),
         ~JobAt("package")',
         Syncing' => Syncing \/ \A f \in Inputs : Accepted(f)
  PROVE  BuildIInv'
<1>0. /\ BuildTypeOK /\ Numbered /\ EvidenceSound /\ PackedSound /\ ArchiveSound
      /\ ReceiptSound
  BY DEF BuildIInv
<1>1. Packed' = Packed /\ Unattested' = Unattested
  BY DEF Packed, Unattested
<1>2. Numbered'
  BY <1>0, <1>1 DEF Numbered
<1>3. EvidenceSound' /\ ReceiptSound'
  BY <1>0, <1>1 DEF EvidenceSound, ReceiptSound
<1>4. PackedSound'
  BY <1>0, <1>1, Contained DEF PackedSound, PackedSince, Packed
<1>5. ArchiveSound'
  <2> SUFFICES ASSUME archive # Nothing PROVE \E w \in ContentVersions : OneVersion(w)'
    BY DEF ArchiveSound
  <2>1. PICK w \in ContentVersions : OneVersion(w)
    BY <1>0 DEF ArchiveSound
  <2>2. ASSUME NEW f \in DOMAIN archive.held \ undone, Stray(f, w) PROVE Stray(f, w)'
    <3>1. f \in Inputs /\ files[f] \in Content /\ archive.held[f] \in Content
      BY <1>0, Contained
    <3>2. archive.held[f].edit > 0 /\ files[f].edit >= archive.held[f].edit /\ ~Syncing
      BY <2>2 DEF Stray, Since
    <3>3. ~Accepted(f)
      BY <1>0, <3>1, <3>2, AcceptedContent DEF Accepted, BuildTypeOK, Content
    <3>4. ~Syncing'
      BY <3>1, <3>2, <3>3
    <3> QED
      BY <2>2, <3>4 DEF Stray, Since
  <2>3. OneVersion(w)'
    BY <1>1, <2>1, <2>2 DEF OneVersion
  <2> QED
    BY <2>3
<1> QED
  BY <1>2, <1>3, <1>4, <1>5 DEF BuildIInv

(* A command ends, with an error or stopped.                               *)
LEMMA ToIdle ==
  ASSUME BuildIInv, UNCHANGED <<files, plan, evidence, archive, staged, edited, undone>>,
         stops' \in Nat, job' = NoJob
  PROVE  BuildIInv'
<1>1. job'.at = "idle"
  BY DEF NoJob
<1>2. BuildTypeOK'
  BY <1>1 DEF BuildIInv, BuildTypeOK, JobAt, IsArchive
<1>3. Outputs' /\ SyncSound' /\ ~HasRead' /\ ~Syncing' /\ ~JobAt("package")'
  BY <1>1 DEF BuildIInv, Outputs, SyncSound, HasRead, Syncing, JobAt
<1> QED
  BY <1>1, <1>2, <1>3, JobOnly

LEMMA StopStep ==
  ASSUME BuildIInv, Stop
  PROVE  BuildIInv'
<1>1. stops' \in Nat
  BY DEF Stop, BuildIInv, BuildTypeOK
<1> QED
  BY <1>1, ToIdle DEF Stop

(* All that a sync begins with is accepted.                                *)
LEMMA SyncVerifyStep ==
  ASSUME BuildIInv, SyncVerify
  PROVE  BuildIInv'
<1> USE DEF SyncVerify
<1>1. job'.at = "verified"
  OBVIOUS
<1>2. BuildTypeOK'
  BY <1>1 DEF BuildIInv, BuildTypeOK, JobAt, IsArchive
<1>3. Outputs' /\ SyncSound' /\ ~HasRead' /\ ~JobAt("package")'
  BY <1>1 DEF BuildIInv, Outputs, SyncSound, HasRead, JobAt
<1> QED
  BY <1>2, <1>3, JobOnly

LEMMA SyncReadStep ==
  ASSUME BuildIInv, SyncRead
  PROVE  BuildIInv'
<1> USE DEF SyncRead
<1>1. job'.at = "read" /\ job'.read = files /\ job.at = "verified"
  BY DEF JobAt
<1>2. BuildTypeOK'
  BY <1>1 DEF BuildIInv, BuildTypeOK, JobAt, IsArchive
<1>3. Outputs' /\ SyncSound' /\ ~JobAt("package")' /\ Syncing
  BY <1>1 DEF BuildIInv, Outputs, SyncSound, JobAt, Syncing
<1> QED
  BY <1>1, <1>2, <1>3, JobOnly

(* The inputs are still what was read, and those that do not have the      *)
(* version are to be replaced.                                             *)
LEMMA SyncRecheckStep ==
  ASSUME BuildIInv, SyncRecheck
  PROVE  BuildIInv'
<1>0. BuildTypeOK
  BY DEF BuildIInv
<1>1. CASE files # job.read
  BY <1>0, <1>1, ToIdle DEF SyncRecheck, Fails, BuildTypeOK
<1>2. CASE files = job.read
  <2> DEFINE drift == {f \in Inputs : Projected(plan, job.read[f]) # job.read[f]}
  <2>1. /\ job.at = "read"
        /\ job' = [at |-> "replace", read |-> job.read, left |-> drift,
                   checked |-> NoInput, raced |-> FALSE]
        /\ UNCHANGED <<files, plan, evidence, archive, staged, edited, undone, stops>>
    BY <1>2 DEF SyncRecheck, JobAt
  <2>2. job' \in Replacing
    BY <1>0, <2>1, Contained DEF Replacing, HasRead
  <2>3. BuildTypeOK'
    BY <1>0, <2>1, <2>2 DEF BuildTypeOK, JobAt, IsArchive
  <2>4. Outputs' /\ SyncSound' /\ ~JobAt("package")' /\ Syncing
    BY <2>1 DEF BuildIInv, Outputs, SyncSound, JobAt, Syncing
  <2> QED
    BY <1>2, <2>1, <2>3, <2>4, JobOnly
<1> QED
  BY <1>1, <1>2

LEMMA CheckInputStep ==
  ASSUME BuildIInv, NEW f \in Inputs, CheckInput(f)
  PROVE  BuildIInv'
<1>0. BuildTypeOK /\ job \in Replacing /\ job.at = "replace"
  BY DEF BuildIInv, BuildTypeOK, CheckInput, JobAt
<1>1. CASE files[f] # job.read[f]
  BY <1>0, <1>1, ToIdle DEF CheckInput, Fails, BuildTypeOK
<1>2. CASE files[f] = job.read[f]
  <2>1. /\ job' = [job EXCEPT !.checked = f] /\ f \in job.left
        /\ UNCHANGED <<files, plan, evidence, archive, staged, edited, undone, stops>>
    BY <1>2 DEF CheckInput
  <2>2. /\ job' \in Replacing /\ job'.at = "replace" /\ job'.read = job.read
        /\ job'.left = job.left /\ job'.checked = f
    BY <1>0, <2>1 DEF Replacing
  <2>3. BuildTypeOK'
    BY <1>0, <2>1, <2>2 DEF BuildTypeOK, JobAt, IsArchive
  <2>4. Outputs' /\ ~JobAt("package")' /\ Syncing /\ HasRead
    BY <1>0, <2>1, <2>2 DEF BuildIInv, Outputs, JobAt, Syncing, HasRead
  <2>5. SyncSound'
    BY <1>2, <2>1, <2>2 DEF SyncSound
  <2> QED
    BY <2>1, <2>2, <2>3, <2>4, <2>5, JobOnly
<1> QED
  BY <1>1, <1>2

(* While a sync runs, the archive has one version where nothing came back. *)
LEMMA NoStray ==
  ASSUME BuildIInv, Syncing, archive # Nothing
  PROVE  \E w \in ContentVersions :
            \A f \in DOMAIN archive.held \ undone : archive.held[f].version = w
<1>1. PICK w \in ContentVersions : OneVersion(w)
  BY DEF BuildIInv, ArchiveSound
<1>2. \A f \in DOMAIN archive.held \ undone : archive.held[f].version = w
  BY <1>1 DEF OneVersion, Stray
<1> QED
  BY <1>2

(* What a sync writes has the number of what it has read.                  *)
LEMMA ReplaceInputStep ==
  ASSUME BuildIInv, ReplaceInput
  PROVE  BuildIInv'
<1> DEFINE f == job.checked
           read == job.read[f]
           written == Projected(plan, read)
<1>0. /\ BuildTypeOK /\ Numbered /\ Outputs /\ EvidenceSound /\ PackedSound
      /\ ReceiptSound
      /\ job \in Replacing /\ job.at = "replace" /\ plan \in Plans
  BY DEF BuildIInv, BuildTypeOK, ReplaceInput, JobAt
<1>1. f \in Inputs /\ read \in Content
  BY <1>0, Contained DEF ReplaceInput, Replacing, HasRead
<1>2. /\ files' = [files EXCEPT ![f] = written]
      /\ job' = [job EXCEPT !.checked = NoInput, !.left = @ \ {f}, !.raced = FALSE]
      /\ UNCHANGED <<plan, evidence, archive, staged, edited, undone, stops>>
  BY DEF ReplaceInput
<1>3. /\ job' \in Replacing /\ job'.at = "replace" /\ job'.read = job.read
      /\ job'.checked = NoInput
  BY <1>0, <1>2 DEF Replacing
<1>4. written \in Content /\ written.edit = read.edit
  BY <1>0, <1>1, ProjectedContent
<1>5. files \in Contents /\ files' \in Contents /\ files'[f] = written
      /\ \A g \in Inputs \ {f} : files'[g] = files[g]
  BY <1>0, <1>1, <1>2, <1>4 DEF BuildTypeOK, Contents
<1> HIDE DEF f, written
<1>6. Packed' = Packed /\ Unattested' = Unattested /\ HasRead
  BY <1>0, <1>2 DEF Packed, Unattested, HasRead
<1>7. BuildTypeOK'
  BY <1>0, <1>2, <1>3, <1>5 DEF BuildTypeOK, JobAt, IsArchive
<1>8. Numbered'
  <2>1. \A g \in Inputs : files'[g].edit <= edited
    BY <1>0, <1>1, <1>4, <1>5, <1>6 DEF Numbered
  <2> QED
    BY <1>0, <1>2, <1>3, <1>6, <2>1 DEF Numbered
<1>9. Outputs' /\ EvidenceSound' /\ SyncSound' /\ ReceiptSound'
  BY <1>0, <1>2, <1>3, <1>6 DEF Outputs, EvidenceSound, SyncSound, ReceiptSound, JobAt
<1>10. PackedSound'
  <2> SUFFICES ASSUME Unattested, Packed # Nothing, NEW g \in DOMAIN archive.held \ undone
               PROVE  PackedSince(g, files[g])' /\ PackedSince(g, job.read[g])'
    BY <1>2, <1>6 DEF PackedSound
  <2>1. PackedSince(g, files[g]) /\ PackedSince(g, job.read[g]) /\ g \in Inputs
    BY <1>0, <1>6, Contained DEF PackedSound, Unattested
  <2>2. files'[g].edit \in {files[g].edit, job.read[g].edit}
    BY <1>4, <1>5, <2>1
  <2> QED
    BY <1>2, <1>3, <1>6, <2>1, <2>2 DEF PackedSince
<1>11. ArchiveSound'
  <2> SUFFICES ASSUME archive # Nothing PROVE \E w \in ContentVersions : OneVersion(w)'
    BY <1>2 DEF ArchiveSound
  <2>1. PICK w \in ContentVersions :
           \A g \in DOMAIN archive.held \ undone : archive.held[g].version = w
    BY <1>0, NoStray DEF Syncing
  <2>2. OneVersion(w)'
    BY <1>2, <1>3, <2>1 DEF OneVersion, JobAt
  <2> QED
    BY <2>2
<1> QED
  BY <1>7, <1>8, <1>9, <1>10, <1>11 DEF BuildIInv

(* The evidence is of what was read, with the version of the plan.         *)
LEMMA WriteEvidenceStep ==
  ASSUME BuildIInv, WriteEvidence
  PROVE  BuildIInv'
<1> DEFINE after == [f \in Inputs |-> Projected(plan, job.read[f])]
<1>0. /\ BuildTypeOK /\ Numbered /\ Outputs /\ EvidenceSound /\ PackedSound
      /\ ReceiptSound
      /\ job \in Replacing /\ job.at = "replace" /\ plan \in Plans
  BY DEF BuildIInv, BuildTypeOK, WriteEvidence, JobAt
<1>1. /\ evidence' = [plan |-> plan, after |-> after] /\ job' = NoJob /\ job'.at = "idle"
      /\ UNCHANGED <<files, plan, archive, staged, edited, undone, stops>>
  BY DEF WriteEvidence, NoJob
<1>2. \A f \in Inputs : /\ after[f] \in Content /\ after[f].version = Package[plan]
                        /\ after[f].edit = job.read[f].edit
  BY <1>0, Contained, ProjectedContent DEF HasRead
<1>3. /\ evidence' \in Evidence /\ evidence'.plan = plan
      /\ \A f \in Inputs : evidence'.after[f] = after[f]
  BY <1>0, <1>1, <1>2 DEF Evidence, Contents
<1>4. Packed' = Packed /\ Unattested' = Unattested
  BY <1>1 DEF Packed, Unattested
<1>5. BuildTypeOK'
  BY <1>0, <1>1, <1>3 DEF BuildTypeOK, JobAt, IsArchive
<1> HIDE DEF after
<1>6. Numbered'
  <2>1. \A f \in Inputs : evidence'.after[f].edit <= edited
    BY <1>0, <1>2, <1>3 DEF Numbered, HasRead
  <2> QED
    BY <1>0, <1>1, <1>4, <2>1 DEF Numbered, HasRead
<1>7. EvidenceSound'
  BY <1>0, <1>1, <1>2, <1>3, <1>4 DEF EvidenceSound
<1>8. Outputs' /\ SyncSound' /\ ReceiptSound'
  BY <1>0, <1>1, <1>4 DEF Outputs, SyncSound, ReceiptSound, JobAt
<1>9. PackedSound'
  BY <1>0, <1>1, <1>4 DEF PackedSound, PackedSince, HasRead
<1>10. ArchiveSound'
  <2> SUFFICES ASSUME archive # Nothing PROVE \E w \in ContentVersions : OneVersion(w)'
    BY <1>1 DEF ArchiveSound
  <2>1. PICK w \in ContentVersions :
           \A f \in DOMAIN archive.held \ undone : archive.held[f].version = w
    BY <1>0, NoStray DEF Syncing
  <2>2. OneVersion(w)'
    BY <1>1, <2>1 DEF OneVersion, JobAt
  <2> QED
    BY <2>2
<1> QED
  BY <1>5, <1>6, <1>7, <1>8, <1>9, <1>10 DEF BuildIInv

(* An archive is begun when all inputs have the version of the plan.       *)
LEMMA PackageBeginStep ==
  ASSUME BuildIInv, PackageBegin
  PROVE  BuildIInv'
<1>0. /\ BuildTypeOK /\ Numbered /\ Outputs /\ EvidenceSound /\ VersionsHold
      /\ archive = Nothing /\ plan \in Plans
  BY DEF BuildIInv, BuildTypeOK, PackageBegin
<1>1. /\ archive' = [inputs |-> evidence, held |-> [f \in {} |-> Committed], whole |-> FALSE]
      /\ job'.at = "package" /\ undone' = {}
      /\ UNCHANGED <<files, plan, evidence, staged, edited, stops>>
  BY DEF PackageBegin
<1>2. DOMAIN archive'.held = {} /\ archive'.inputs = evidence /\ ~archive'.whole
  BY <1>1
<1>3. staged = Nothing
  BY <1>0 DEF Outputs
<1>4. BuildTypeOK'
  <2>1. IsArchive(archive)'
    BY <1>0, <1>1, <1>2 DEF IsArchive, BuildTypeOK
  <2> QED
    BY <1>0, <1>1, <1>3, <2>1 DEF BuildTypeOK, JobAt
<1>5. Packed' \in {evidence, Nothing}
  BY <1>2 DEF Packed
<1>6. Numbered' /\ EvidenceSound'
  BY <1>0, <1>1, <1>2, <1>5 DEF Numbered, EvidenceSound, HasRead
<1>7. Outputs'
  <2>1. archive' # Nothing
    <3>1. DOMAIN archive' = {"inputs", "held", "whole"}
      BY <1>1
    <3>2. "held" \notin DOMAIN Nothing
      BY DEF Nothing
    <3> QED
      BY <3>1, <3>2
  <2> QED
    BY <1>1, <1>2, <1>3, <2>1 DEF Outputs, JobAt
<1>8. SyncSound' /\ PackedSound' /\ ReceiptSound'
  BY <1>1, <1>2, <1>3 DEF SyncSound, PackedSound, ReceiptSound, JobAt
<1>9. ArchiveSound'
  <2>1. Package[plan] \in ContentVersions
    BY <1>0 DEF ContentVersions
  <2>2. OneVersion(Package[plan])'
    BY <1>0, <1>1, <1>2 DEF OneVersion, VersionsHold
  <2> QED
    BY <1>1, <2>1, <2>2 DEF ArchiveSound
<1> QED
  BY <1>4, <1>6, <1>7, <1>8, <1>9 DEF BuildIInv

(* The archive gets an input as it is by now.                              *)
LEMMA PackageInputStep ==
  ASSUME BuildIInv, NEW f \in Inputs, PackageInput(f)
  PROVE  BuildIInv'
<1> DEFINE held == archive.held
           more == [g \in DOMAIN held \union {f} |-> IF g = f THEN files[f] ELSE held[g]]
<1>0. /\ BuildTypeOK /\ Numbered /\ Outputs /\ EvidenceSound /\ PackedSound
      /\ ArchiveSound
      /\ job.at = "package" /\ archive # Nothing /\ staged = Nothing /\ IsArchive(archive)
  BY DEF BuildIInv, BuildTypeOK, PackageInput, Outputs, JobAt
<1>1. /\ archive' = [archive EXCEPT !.held = more] /\ f \notin DOMAIN held
      /\ UNCHANGED <<files, plan, evidence, staged, job, edited, undone, stops>>
  BY DEF PackageInput
<1>2. /\ archive' = [inputs |-> archive.inputs, held |-> more, whole |-> archive.whole]
      /\ DOMAIN archive'.held = DOMAIN held \union {f}
      /\ archive'.held[f] = files[f]
      /\ \A g \in DOMAIN held : archive'.held[g] = held[g]
      /\ archive'.inputs = archive.inputs /\ archive'.whole = archive.whole
  BY <1>0, <1>1 DEF IsArchive
<1>3. archive.whole => DOMAIN held = Inputs
  BY <1>0 DEF Outputs
<1>4. /\ files[f] \in Content
      /\ DOMAIN held \subseteq Inputs /\ \A g \in DOMAIN held : held[g] \in Content
  BY <1>0, Contained
<1> HIDE DEF held, more
<1>5. IsArchive(archive)'
  BY <1>0, <1>2, <1>4 DEF IsArchive
<1>6. archive' # Nothing
  <2>1. DOMAIN archive' = {"inputs", "held", "whole"}
    BY <1>2
  <2>2. "held" \notin DOMAIN Nothing
    BY DEF Nothing
  <2> QED
    BY <2>1, <2>2
<1>7. Packed' = Packed /\ Unattested /\ Unattested'
  BY <1>0, <1>1, <1>2, <1>6 DEF Packed, Unattested
<1>8. BuildTypeOK'
  BY <1>0, <1>1, <1>5 DEF BuildTypeOK, JobAt
<1>9. Numbered'
  <2>1. \A g \in DOMAIN archive'.held : archive'.held[g].edit <= edited
    BY <1>0, <1>2 DEF Numbered, held
  <2> QED
    BY <1>0, <1>1, <1>7, <2>1 DEF Numbered, HasRead
<1>10. Outputs'
  BY <1>0, <1>1, <1>2, <1>3, <1>6 DEF Outputs, JobAt
<1>11. EvidenceSound' /\ SyncSound' /\ ReceiptSound'
  BY <1>0, <1>1, <1>7 DEF EvidenceSound, SyncSound, ReceiptSound, JobAt
<1>12. PackedSound'
  BY <1>0, <1>1, <1>2, <1>7 DEF PackedSound, PackedSince, HasRead, held
<1>13. ArchiveSound'
  <2>1. PICK w \in ContentVersions : OneVersion(w)
    BY <1>0 DEF ArchiveSound
  <2>2. /\ w = Package[plan]
        /\ \A g \in Inputs \ undone : files[g].version = w \/ Since(evidence, g, files[g].edit)
        /\ \A g \in DOMAIN held \ undone : held[g].version = w \/ Stray(g, w)
    BY <1>0, <2>1 DEF OneVersion, JobAt, held
  <2>3. ASSUME NEW g \in DOMAIN held, Stray(g, w) PROVE Stray(g, w)'
    BY <1>0, <1>1, <1>2, <2>3 DEF Stray, Since, Syncing, held
  <2>4. f \notin undone /\ files[f].version # w => Stray(f, w)'
    <3>1. files[f].edit >= files[f].edit
      BY <1>4 DEF Content
    <3> QED
      BY <1>0, <1>1, <1>2, <2>2, <3>1 DEF Stray, Since, Syncing
  <2>5. \A g \in DOMAIN archive'.held \ undone : archive'.held[g].version = w \/ Stray(g, w)'
    BY <1>2, <2>2, <2>3, <2>4
  <2>6. OneVersion(w)'
    BY <1>1, <1>7, <2>2, <2>5 DEF OneVersion, Since
  <2> QED
    BY <1>1, <2>6 DEF ArchiveSound
<1> QED
  BY <1>8, <1>9, <1>10, <1>11, <1>12, <1>13 DEF BuildIInv

LEMMA PackageEndStep ==
  ASSUME BuildIInv, PackageEnd
  PROVE  BuildIInv'
<1>0. /\ BuildTypeOK /\ Numbered /\ Outputs /\ EvidenceSound /\ PackedSound /\ ArchiveSound
      /\ archive # Nothing /\ staged = Nothing /\ IsArchive(archive) /\ job.at = "package"
  BY DEF BuildIInv, BuildTypeOK, PackageEnd, Outputs, JobAt
<1>1. /\ archive' = [archive EXCEPT !.whole = TRUE] /\ DOMAIN archive.held = Inputs
      /\ job'.at = "idle" /\ UNCHANGED <<files, plan, evidence, staged, edited, undone, stops>>
  BY DEF PackageEnd, NoJob
<1>2. /\ archive' = [inputs |-> archive.inputs, held |-> archive.held, whole |-> TRUE]
      /\ archive'.held = archive.held /\ archive'.inputs = archive.inputs
  BY <1>0, <1>1 DEF IsArchive
<1>3. IsArchive(archive)'
  BY <1>0, <1>2 DEF IsArchive
<1>4. archive' # Nothing
  <2>1. DOMAIN archive' = {"inputs", "held", "whole"}
    BY <1>2
  <2>2. "held" \notin DOMAIN Nothing
    BY DEF Nothing
  <2> QED
    BY <2>1, <2>2
<1>5. Packed' = Packed /\ Unattested /\ Unattested'
  BY <1>0, <1>1, <1>2, <1>4 DEF Packed, Unattested
<1>6. BuildTypeOK'
  BY <1>0, <1>1, <1>3 DEF BuildTypeOK, JobAt
<1>7. Numbered' /\ Outputs' /\ EvidenceSound'
  BY <1>0, <1>1, <1>2, <1>4, <1>5 DEF Numbered, Outputs, EvidenceSound, HasRead, JobAt
<1>8. SyncSound' /\ PackedSound' /\ ReceiptSound'
  BY <1>0, <1>1, <1>2, <1>5 DEF SyncSound, PackedSound, PackedSince, ReceiptSound, HasRead, JobAt
<1>9. ArchiveSound'
  <2>1. PICK w \in ContentVersions : OneVersion(w)
    BY <1>0 DEF ArchiveSound
  <2>2. \A f \in DOMAIN archive.held : Stray(f, w) => Stray(f, w)'
    BY <1>1, <1>2 DEF Stray, Since, Syncing
  <2>3. OneVersion(w)'
    BY <1>1, <1>2, <1>5, <2>1, <2>2 DEF OneVersion, JobAt
  <2> QED
    BY <1>1, <2>3 DEF ArchiveSound
<1> QED
  BY <1>6, <1>7, <1>8, <1>9 DEF BuildIInv

LEMMA StageCopyStep ==
  ASSUME BuildIInv, StageCopy
  PROVE  BuildIInv'
<1>0. /\ BuildTypeOK /\ Numbered /\ Outputs /\ EvidenceSound /\ PackedSound /\ ArchiveSound
      /\ archive # Nothing /\ staged = Nothing
  BY DEF BuildIInv, StageCopy
<1>1. /\ staged' = [archive |-> archive, receipt |-> Nothing] /\ job'.at = "stage"
      /\ staged'.archive = archive /\ staged'.receipt = Nothing
      /\ UNCHANGED <<files, plan, evidence, archive, edited, undone, stops>>
  BY DEF StageCopy
<1>2. Packed' = Packed /\ Unattested /\ Unattested'
  BY <1>0, <1>1 DEF Packed, Unattested
<1>3. BuildTypeOK'
  BY <1>0, <1>1 DEF BuildTypeOK, JobAt, IsArchive
<1>4. staged' # Nothing
  <2>1. "archive" \in DOMAIN staged' /\ "archive" \notin DOMAIN Nothing
    BY <1>1 DEF Nothing
  <2> QED
    BY <2>1
<1>5. Numbered' /\ Outputs' /\ EvidenceSound'
  BY <1>0, <1>1, <1>2, <1>4 DEF Numbered, Outputs, EvidenceSound, HasRead, JobAt
<1>6. SyncSound' /\ PackedSound' /\ ReceiptSound'
  BY <1>0, <1>1, <1>2 DEF SyncSound, PackedSound, PackedSince, ReceiptSound, HasRead, JobAt
<1>7. ArchiveSound'
  <2>1. PICK w \in ContentVersions : OneVersion(w)
    BY <1>0 DEF ArchiveSound
  <2>2. \A f \in DOMAIN archive.held : Stray(f, w) => Stray(f, w)'
    BY <1>1 DEF Stray, Since, Syncing
  <2>3. OneVersion(w)'
    BY <1>1, <1>2, <2>1, <2>2 DEF OneVersion, JobAt
  <2> QED
    BY <1>1, <2>3 DEF ArchiveSound
<1> QED
  BY <1>3, <1>5, <1>6, <1>7 DEF BuildIInv

LEMMA StageCheckStep ==
  ASSUME BuildIInv, StageCheck
  PROVE  BuildIInv'
<1>0. BuildTypeOK /\ Outputs /\ job.at = "stage"
  BY DEF BuildIInv, StageCheck, JobAt
<1>1. CASE job' = NoJob
  BY <1>0, <1>1, ToIdle DEF StageCheck, BuildTypeOK
<1>2. CASE job' # NoJob
  <2>1. /\ job'.at = "receipt" /\ evidence # Nothing
        /\ UNCHANGED <<files, plan, evidence, archive, staged, edited, undone, stops>>
    BY <1>2 DEF StageCheck, Fails
  <2>2. BuildTypeOK'
    BY <1>0, <2>1 DEF BuildTypeOK, JobAt, IsArchive
  <2>3. Outputs' /\ SyncSound' /\ ~HasRead' /\ ~Syncing' /\ ~JobAt("package")'
    BY <1>0, <2>1 DEF Outputs, SyncSound, HasRead, Syncing, JobAt
  <2> QED
    BY <2>1, <2>2, <2>3, JobOnly
<1> QED
  BY <1>1, <1>2

(* A receipt is made of inputs that are what the evidence says, so none of *)
(* them was edited since the evidence was written, but those to which an   *)
(* earlier content came back.                                              *)
LEMMA CreateReceiptStep ==
  ASSUME BuildIInv, CreateReceipt
  PROVE  BuildIInv'
<1>0. /\ BuildTypeOK /\ Numbered /\ Outputs /\ EvidenceSound /\ PackedSound /\ ArchiveSound
      /\ staged # Nothing /\ archive # Nothing /\ evidence # Nothing /\ evidence \in Evidence
      /\ staged = [archive |-> staged.archive, receipt |-> Nothing]
      /\ staged.archive = archive /\ staged.receipt = Nothing /\ job.at = "receipt"
  BY Contained DEF BuildIInv, BuildTypeOK, CreateReceipt, Outputs, JobAt
<1>1. CASE staged' = staged
  <2>1. stops' \in Nat
    BY <1>0 DEF CreateReceipt, BuildTypeOK
  <2> QED
    BY <1>1, <2>1, ToIdle DEF CreateReceipt
<1>2. CASE staged' # staged
  <2>1. /\ staged' = [archive |-> archive, receipt |-> evidence] /\ files = evidence.after
        /\ staged'.archive = archive /\ staged'.receipt = evidence
        /\ job'.at = "idle" /\ UNCHANGED <<files, plan, evidence, archive, edited, undone, stops>>
    BY <1>0, <1>2 DEF CreateReceipt, InputsHold, NoJob
  <2>2. staged' # Nothing
    <3>1. "archive" \in DOMAIN staged' /\ "archive" \notin DOMAIN Nothing
      BY <2>1 DEF Nothing
    <3> QED
      BY <3>1
  <2>3. Packed' = Packed /\ Unattested /\ ~Unattested'
    BY <1>0, <2>1, <2>2 DEF Packed, Unattested
  <2>4. BuildTypeOK'
    BY <1>0, <2>1 DEF BuildTypeOK, JobAt, IsArchive
  <2>5. Numbered' /\ Outputs' /\ EvidenceSound'
    BY <1>0, <2>1, <2>2, <2>3 DEF Numbered, Outputs, EvidenceSound, HasRead, JobAt
  <2>6. SyncSound' /\ PackedSound'
    BY <2>1, <2>3 DEF SyncSound, PackedSound, JobAt
  <2>7. /\ DOMAIN archive.held \subseteq Inputs
        /\ \A f \in DOMAIN archive.held :
              archive.held[f].edit \in Nat /\ evidence.after[f].edit \in Nat
    BY <1>0, Contained DEF Content
  <2>8. ArchiveSound'
    <3>1. PICK w \in ContentVersions : OneVersion(w)
      BY <1>0 DEF ArchiveSound
    <3>2. ASSUME NEW f \in DOMAIN archive.held \ undone, Stray(f, w) PROVE FALSE
      <4>1. /\ archive.held[f].edit > evidence.after[f].edit
            /\ evidence.after[f].edit >= archive.held[f].edit
        BY <1>0, <2>1, <3>2 DEF Stray, Since
      <4> QED
        BY <2>7, <3>2, <4>1
    <3>3. \A f \in DOMAIN archive.held \ undone : archive.held[f].version = w
      BY <3>1, <3>2 DEF OneVersion
    <3>4. OneVersion(w)'
      BY <2>1, <3>3 DEF OneVersion, JobAt
    <3> QED
      BY <2>1, <3>4 DEF ArchiveSound
  <2>9. ReceiptSound'
    <3> SUFFICES ASSUME Packed = evidence, NEW f \in DOMAIN archive.held \ undone
                 PROVE  archive.held[f].edit = evidence.after[f].edit
      BY <2>1, <2>3 DEF ReceiptSound
    <3>1. PackedSince(f, files[f])
      BY <1>0, <2>3 DEF PackedSound
    <3> QED
      BY <2>1, <2>7, <3>1 DEF PackedSince
  <2> QED
    BY <2>4, <2>5, <2>6, <2>8, <2>9 DEF BuildIInv
<1> QED
  BY <1>1, <1>2

(* Another plan is saved in the checkout.                                  *)
LEMMA SavePlanStep ==
  ASSUME BuildIInv, NEW p \in Plans, SavePlan(p)
  PROVE  BuildIInv'
<1>0. /\ BuildTypeOK /\ Numbered /\ Outputs /\ EvidenceSound /\ PackedSound /\ ArchiveSound
      /\ ReceiptSound
      /\ job.at = "idle" /\ plan' = p
      /\ UNCHANGED <<files, evidence, archive, staged, job, edited, undone, stops>>
  BY DEF BuildIInv, SavePlan, JobAt
<1>1. Packed' = Packed /\ Unattested' = Unattested
  BY <1>0 DEF Packed, Unattested
<1>2. BuildTypeOK'
  BY <1>0 DEF BuildTypeOK, JobAt, IsArchive
<1>3. Numbered' /\ Outputs' /\ EvidenceSound'
  BY <1>0, <1>1 DEF Numbered, Outputs, EvidenceSound, HasRead, JobAt
<1>4. SyncSound' /\ PackedSound' /\ ReceiptSound'
  BY <1>0, <1>1 DEF SyncSound, PackedSound, PackedSince, ReceiptSound, HasRead, JobAt
<1>5. ArchiveSound'
  BY <1>0, <1>1 DEF ArchiveSound, OneVersion, Stray, Since, Syncing, JobAt
<1> QED
  BY <1>2, <1>3, <1>4, <1>5 DEF BuildIInv

(* As long as an archive has no receipt: an edit makes a content that      *)
(* nothing else has, or is an undoing.                                     *)
LEMMA EditStep ==
  ASSUME BuildIInv, NEW f \in Inputs, NEW v \in ContentVersions, NEW n \in Nat, Edit(f, v, n)
  PROVE  BuildIInv'
<1> DEFINE made == [version |-> v, edit |-> n]
<1>0. /\ BuildTypeOK /\ Numbered /\ Outputs /\ EvidenceSound /\ SyncSound /\ PackedSound
      /\ ArchiveSound /\ ReceiptSound /\ edited \in Nat /\ files \in Contents
  BY DEF BuildIInv, BuildTypeOK
<1>1. /\ files' = [files EXCEPT ![f] = made] /\ edited' = edited + 1 /\ n <= edited'
      /\ undone' = IF n # edited' /\ Unattested THEN undone \union {f} ELSE undone
      /\ job' = IF JobAt("replace") /\ job.checked = f THEN [job EXCEPT !.raced = TRUE] ELSE job
      /\ UNCHANGED <<plan, evidence, archive, staged, stops>>
  BY DEF Edit
<1>2. made \in Content /\ made.edit = n
  BY DEF Content
<1>3. files' \in Contents /\ files'[f] = made /\ \A g \in Inputs \ {f} : files'[g] = files[g]
  BY <1>0, <1>1, <1>2 DEF Contents
<1>4. /\ job'.at = job.at
      /\ HasRead => job'.read = job.read
      /\ job.at = "replace" => /\ job' \in Replacing
                               /\ job'.left = job.left /\ job'.checked = job.checked
                               /\ ~job'.raced => ~job.raced /\ job.checked # f
  <2>1. CASE JobAt("replace") /\ job.checked = f
    BY <1>0, <1>1, <2>1 DEF BuildTypeOK, Replacing, JobAt
  <2>2. CASE ~(JobAt("replace") /\ job.checked = f)
    BY <1>0, <1>1, <2>2 DEF BuildTypeOK, JobAt
  <2> QED
    BY <2>1, <2>2
<1> HIDE DEF made
<1>5. Packed' = Packed /\ Unattested' = Unattested
  BY <1>1 DEF Packed, Unattested
<1>6. BuildTypeOK'
  BY <1>0, <1>1, <1>3, <1>4 DEF BuildTypeOK, JobAt, HasRead, IsArchive
<1>7. \A m \in Nat : m <= edited => m <= edited'
  BY <1>0, <1>1
<1>8. Numbered'
  <2>1. \A g \in Inputs : files'[g].edit <= edited'
    <3>1. \A g \in Inputs : files[g].edit \in Nat
      BY <1>0, Contained DEF Content
    <3> QED
      BY <1>0, <1>1, <1>2, <1>3, <1>7, <3>1 DEF Numbered
  <2>2. ASSUME NEW e \in {evidence, Packed}, e # Nothing, NEW g \in Inputs
        PROVE  e.after[g].edit <= edited'
    <3>1. e.after[g].edit \in Nat
      BY <1>0, <2>2, Contained DEF Content
    <3> QED
      BY <1>0, <1>7, <2>2, <3>1 DEF Numbered
  <2>3. ASSUME archive # Nothing, NEW g \in DOMAIN archive.held
        PROVE  archive.held[g].edit <= edited'
    <3>1. archive.held[g].edit \in Nat
      BY <1>0, <2>3, Contained DEF Content
    <3> QED
      BY <1>0, <1>7, <2>3, <3>1 DEF Numbered
  <2>4. ASSUME HasRead, NEW g \in Inputs PROVE job.read[g].edit <= edited'
    <3>1. job.read[g].edit \in Nat
      BY <1>0, <2>4, Contained DEF Content
    <3> QED
      BY <1>0, <1>7, <2>4, <3>1 DEF Numbered
  <2> QED
    BY <1>1, <1>4, <1>5, <2>1, <2>2, <2>3, <2>4 DEF Numbered, HasRead
<1>9. Outputs' /\ EvidenceSound'
  BY <1>0, <1>1, <1>4, <1>5 DEF Outputs, EvidenceSound, JobAt
<1>10. SyncSound'
  BY <1>0, <1>3, <1>4 DEF SyncSound, HasRead, JobAt, Replacing
<1>11. undone \subseteq undone' /\ (Unattested /\ f \notin undone' => n = edited + 1)
  BY <1>1
<1>12. \A e \in {evidence, Packed} : n = edited + 1 => Since(e, f, n)
  <2> SUFFICES ASSUME NEW e \in {evidence, Packed}, n = edited + 1 PROVE Since(e, f, n)
    OBVIOUS
  <2>1. e # Nothing => e.after[f].edit <= edited /\ e.after[f].edit \in Nat
    BY <1>0, Contained DEF Numbered, Content
  <2> QED
    BY <1>0, <2>1 DEF Since
<1>13. PackedSound'
  <2> SUFFICES ASSUME Unattested, Packed # Nothing, NEW g \in DOMAIN archive.held \ undone'
               PROVE  /\ PackedSince(g, files[g])'
                      /\ HasRead' => PackedSince(g, job.read[g])'
    BY <1>1, <1>5 DEF PackedSound
  <2>1. /\ g \in Inputs
        /\ PackedSince(g, files[g])
        /\ HasRead => PackedSince(g, job.read[g])
    BY <1>0, <1>11, Contained DEF PackedSound, Unattested
  <2>2. PackedSince(g, files[g])'
    <3>1. CASE g = f
      BY <1>2, <1>3, <1>5, <1>11, <1>12, <3>1 DEF PackedSince, Since
    <3>2. CASE g # f
      BY <1>1, <1>3, <1>5, <2>1, <3>2 DEF PackedSince
    <3> QED
      BY <3>1, <3>2
  <2>3. HasRead' => PackedSince(g, job.read[g])'
    BY <1>1, <1>4, <1>5, <2>1 DEF PackedSince, HasRead
  <2> QED
    BY <2>2, <2>3
<1>14. ArchiveSound'
  <2> SUFFICES ASSUME archive # Nothing
               PROVE  \E w \in ContentVersions : OneVersion(w)'
    BY <1>1 DEF ArchiveSound, ContentVersions
  <2>1. PICK w \in ContentVersions : OneVersion(w)
    BY <1>0, <1>1 DEF ArchiveSound
  <2>2. ASSUME Unattested, NEW g \in DOMAIN archive.held \ undone', Stray(g, w) PROVE Stray(g, w)'
    <3>1. g \in Inputs /\ archive.held[g].edit \in Nat /\ archive.held[g].edit <= edited
      BY <1>0, <2>2, Contained DEF Numbered, Content, Unattested
    <3>2. files'[g].edit >= archive.held[g].edit
      BY <1>0, <1>2, <1>3, <1>11, <2>2, <3>1 DEF Stray
    <3> QED
      BY <1>1, <1>4, <2>2, <3>2 DEF Stray, Since, Syncing
  <2>3. JobAt("package") => Unattested
    BY <1>0, <2>1 DEF Outputs, Unattested
  <2>4. JobAt("package") =>
           /\ w = Package[plan]
           /\ \A g \in Inputs \ undone' :
                 files'[g].version = w \/ Since(evidence, g, files'[g].edit)
    BY <1>2, <1>3, <1>11, <1>12, <2>1, <2>3 DEF OneVersion
  <2>5. OneVersion(w)'
    BY <1>1, <1>4, <1>5, <1>11, <2>1, <2>2, <2>4 DEF OneVersion, Since, JobAt
  <2> QED
    BY <2>5
<1>15. ReceiptSound'
  BY <1>0, <1>1, <1>5 DEF ReceiptSound
<1> QED
  BY <1>6, <1>8, <1>9, <1>10, <1>13, <1>14, <1>15 DEF BuildIInv

LEMMA ClearOutputsStep ==
  ASSUME BuildIInv, ClearOutputs
  PROVE  BuildIInv'
<1>0. /\ BuildTypeOK /\ Numbered /\ EvidenceSound /\ job.at = "idle"
      /\ archive' = Nothing /\ staged' = Nothing /\ undone' = {}
      /\ UNCHANGED <<files, plan, evidence, job, edited, stops>>
  BY DEF BuildIInv, ClearOutputs, JobAt
<1>1. Packed' = Nothing
  BY <1>0 DEF Packed
<1>2. BuildTypeOK'
  BY <1>0 DEF BuildTypeOK, JobAt
<1>3. Numbered' /\ Outputs' /\ EvidenceSound'
  BY <1>0, <1>1 DEF Numbered, Outputs, EvidenceSound, HasRead, JobAt
<1>4. SyncSound' /\ PackedSound' /\ ReceiptSound' /\ ArchiveSound'
  BY <1>0, <1>1 DEF SyncSound, PackedSound, ReceiptSound, ArchiveSound, JobAt
<1> QED
  BY <1>2, <1>3, <1>4 DEF BuildIInv

LEMMA FreshCheckoutStep ==
  ASSUME BuildIInv, FreshCheckout
  PROVE  BuildIInv'
<1>0. /\ BuildTypeOK /\ job.at = "idle"
      /\ files' = [f \in Inputs |-> Committed]
      /\ evidence' = Nothing /\ archive' = Nothing /\ staged' = Nothing /\ undone' = {}
      /\ UNCHANGED <<plan, job, edited, stops>>
  BY DEF BuildIInv, FreshCheckout, JobAt
<1>1. Packed' = Nothing
  BY <1>0 DEF Packed
<1>2. BuildTypeOK'
  BY <1>0, CommittedContent DEF BuildTypeOK, JobAt, Contents
<1>3. Numbered'
  BY <1>0, <1>1, CommittedContent DEF Numbered, HasRead, JobAt, BuildTypeOK
<1>4. Outputs' /\ EvidenceSound'
  BY <1>0, <1>1 DEF Outputs, EvidenceSound, JobAt
<1>5. SyncSound' /\ PackedSound' /\ ReceiptSound' /\ ArchiveSound'
  BY <1>0, <1>1 DEF SyncSound, PackedSound, ReceiptSound, ArchiveSound, JobAt
<1> QED
  BY <1>2, <1>3, <1>4, <1>5 DEF BuildIInv

LEMMA BuildGoesOn ==
  ASSUME BuildIInv, [BuildNext]_buildVars
  PROVE  BuildIInv'
<1>1. ASSUME SyncStep PROVE BuildIInv'
  BY <1>1, SyncReadStep, SyncRecheckStep, CheckInputStep, ReplaceInputStep, WriteEvidenceStep
     DEF SyncStep
<1>2. ASSUME JobStep PROVE BuildIInv'
  BY <1>1, <1>2, PackageInputStep, PackageEndStep, StageCheckStep, CreateReceiptStep DEF
     JobStep
<1>3. CASE UNCHANGED buildVars
  BY <1>3 DEF buildVars, BuildIInv, BuildTypeOK, Numbered, Outputs, EvidenceSound, SyncSound,
     PackedSound, ArchiveSound, ReceiptSound, IsArchive, JobAt, HasRead, Syncing,
     Packed, PackedSince, Since, OneVersion, Stray, Unattested
<1>4. ASSUME NEW f \in Inputs, NEW v \in ContentVersions, NEW n \in 0..MaxEdits, Edit(f, v, n)
      PROVE  BuildIInv'
  <2>1. n \in Nat
    BY VersionBuildAssumption
  <2> QED
    BY <1>4, <2>1, EditStep
<1> QED
  BY <1>2, <1>3, <1>4, SyncVerifyStep, PackageBeginStep, StageCopyStep, SavePlanStep,
     StopStep, ClearOutputsStep, FreshCheckoutStep DEF BuildNext

(* A sync changes the owned fields of what an input holds, and nothing     *)
(* else does but an edit: the last look at the file tells of those before. *)
LEMMA StepKeepsEdits ==
  ASSUME BuildIInv, [BuildNext]_buildVars, JobAt("replace"), ~job.raced, UNCHANGED edited,
         NEW f \in Inputs
  PROVE  files'[f] \in {files[f], Projected(plan, files[f])}
<1>0. BuildTypeOK /\ SyncSound /\ files \in Contents /\ job \in Replacing /\ edited \in Nat
  BY DEF BuildIInv, BuildTypeOK
<1>1. CASE files' = files
  BY <1>1
<1>2. CASE ReplaceInput
  <2>1. job.checked \in Inputs /\ files[job.checked] = job.read[job.checked]
    BY <1>0, <1>2 DEF ReplaceInput, SyncSound, Replacing
  <2> QED
    BY <1>0, <1>2, <2>1 DEF ReplaceInput, Contents
<1>3. ~\E g \in Inputs, v \in ContentVersions, n \in 0..MaxEdits : Edit(g, v, n)
  BY <1>0 DEF Edit
<1>4. ~FreshCheckout
  BY DEF FreshCheckout, JobAt
<1>5. files' = files \/ ReplaceInput
  BY <1>3, <1>4 DEF BuildNext, JobStep, SyncStep, buildVars, SyncVerify, PackageBegin,
     StageCopy, SyncRead, SyncRecheck, WriteEvidence, CheckInput, PackageInput,
     PackageEnd, StageCheck, CreateReceipt, SavePlan, Stop, ClearOutputs
<1> QED
  BY <1>1, <1>2, <1>5

(* But for inputs to which an earlier content came back: what can be       *)
(* published has the version of the declared inputs, which is its plan's,  *)
(* and what the receipt says.                                              *)
LEMMA Published ==
  ASSUME BuildIInv
  PROVE  PublishedIsReceipted
<1> SUFFICES ASSUME NEW p \in Plans, Publishable(p), Inspected \ undone # {},
                    NEW f \in Inputs \ undone
             PROVE  LET held == staged.archive.held[f]
                    IN /\ held.version = Package[p]
                       /\ staged.archive.inputs = staged.receipt => held = staged.receipt.after[f]
  BY DEF PublishedIsReceipted
<1>1. /\ BuildTypeOK /\ staged # Nothing /\ archive # Nothing /\ staged.archive = archive
      /\ staged.receipt # Nothing /\ staged.receipt.plan = p
      /\ archive.whole /\ DOMAIN archive.held = Inputs
      /\ \A g \in Inspected : archive.held[g].version = Package[p]
  BY DEF BuildIInv, Outputs, Publishable, Declares
<1>2. archive.held[f].version = Package[p]
  <2>1. PICK w \in ContentVersions : OneVersion(w)
    BY <1>1 DEF BuildIInv, ArchiveSound
  <2>2. \A g \in Inputs \ undone : archive.held[g].version = w
    BY <1>1, <2>1 DEF OneVersion, Unattested
  <2> QED
    BY <1>1, <2>2, VersionBuildAssumption
<1>3. ASSUME archive.inputs = staged.receipt PROVE archive.held[f] = staged.receipt.after[f]
  <2>1. Packed = staged.receipt
    BY <1>1, <1>3 DEF Packed
  <2>2. /\ Packed.after[f].version = Package[p]
        /\ archive.held[f].edit = Packed.after[f].edit
    BY <1>1, <2>1 DEF BuildIInv, EvidenceSound, ReceiptSound
  <2>3. archive.held[f] \in Content /\ Packed.after[f] \in Content
    BY <1>1, <2>1, Contained
  <2> QED
    BY <1>2, <2>1, <2>2, <2>3 DEF Content
<1> QED
  BY <1>1, <1>2, <1>3

-------------------------------------------------------------------------------
(* The inductive invariant of VersionBuild, whatever is edited, put back,  *)
(* stopped, repeated or saved: the evidence gives every input the version  *)
(* of its plan; a sync about to replace a file has what is in it; and of   *)
(* the inputs that got no earlier content back since the archive was       *)
(* begun, those that are not what the archive holds were edited after the  *)
(* evidence, the archive with a receipt holds one version, and what that   *)
(* receipt says.                                                           *)
THEOREM BuildInvariance == BuildSpec => []BuildIInv
<1> QED
  BY BuildBegins, BuildGoesOn, PTL DEF BuildSpec

(* The variables of a checkout keep their types.                           *)
THEOREM BuildTypes == BuildSpec => []BuildTypeOK
<1>1. BuildIInv => BuildTypeOK
  BY DEF BuildIInv
<1> QED
  BY <1>1, BuildInvariance, PTL

(* sync_versions: a sync changes no more than the owned fields of what an  *)
(* input holds, so it undoes no edit but one that falls between the last   *)
(* look at a file and its replacement.                                     *)
THEOREM SyncsLoseNoEdit == BuildSpec => NoEditLost
<1>1. BuildIInv /\ [BuildNext]_buildVars =>
        [(JobAt("replace") /\ ~job.raced /\ UNCHANGED edited) =>
            \A f \in Inputs : files'[f] \in {files[f], Projected(plan, files[f])}]_buildVars
  BY StepKeepsEdits
<1> QED
  BY <1>1, BuildInvariance, PTL DEF BuildSpec, NoEditLost

(* What can be published has the version of its plan and, if the receipt's *)
(* evidence is the packed one, what the receipt says: in every input, one  *)
(* that no artifact declares too, but for the inputs that got an earlier   *)
(* content back between packaging and receipt.  An input that the artifact *)
(* declares, as that of the committed policy does, must be among the rest. *)
THEOREM OnlyReceipted == BuildSpec => []PublishedIsReceipted
<1>1. BuildIInv => PublishedIsReceipted
  BY Published
<1> QED
  BY <1>1, BuildInvariance, PTL
===============================================================================
