------------------------------ MODULE Listing ------------------------------
(* ListVolumes and ListSnapshots (controllerserver.go) and                   *)
(* GetEntriesAndNextToken (azure_snapshot_utils.go), called page after page  *)
(* by a sidecar (external) that passes each NextToken on as the next         *)
(* StartingToken until it is empty or the call fails.                        *)
(*                                                                           *)
(* What is listed stays the same while it is paged through: resource groups  *)
(* in sorted order, each with its disks in the order ARM returns them.       *)
EXTENDS Integers, Sequences, FiniteSets, SequencesExt

CONSTANTS MaxGroups,  \* bound on the resource groups
          MaxDisks,   \* bound on the disks of a group
          MaxAlone,   \* and of a group that is the only one
          Limits      \* values of MaxEntries; 0 is "no limit"

ASSUME ListingAssumption ==
    /\ MaxGroups \in Nat \ {0} /\ MaxDisks \in Nat /\ MaxAlone \in Nat
    /\ Limits \subseteq Nat

VARIABLES mode,        \* which listing it is
          groups,      \* groups[g][i]: what kind of disk (or snapshot) it is
          maxEntries,  \* MaxEntries of every request
          token,       \* the next StartingToken, NoToken for the first call
          page,        \* the positions <<g, i>> that the last call returned
          got,         \* and all calls so far
          state        \* of the client: "paging", "done" or "error"

vars == <<mode, groups, maxEntries, token, page, got, state>>

NoToken == -1

\* A disk that is to be listed; one that is not (no volume of this driver, an
\* OS disk, a snapshot of another volume); one to be listed for which an entry
\* cannot be made (the VM it is attached to or its properties are not known).
Kinds == {"listed", "other", "broken"}
OneGroup == {<<s>> : s \in BoundedSeq(Kinds, MaxAlone)}
GroupLists == OneGroup \cup BoundedSeq(BoundedSeq(Kinds, MaxDisks), MaxGroups)

\* The volumes of all resource groups; without a kube client those of the node
\* resource group; the snapshots of one resource group.
Modes == {"cluster", "nodeGroup", "snapshots"}

Positions == UNION {{<<g, i>> : i \in DOMAIN groups[g]} : g \in DOMAIN groups}
Total == Cardinality(Positions)
OfKind(kind) == {p \in Positions : groups[p[1]][p[2]] = kind}

\* The state has these types.
TypeOK ==
    /\ mode \in Modes
    /\ groups \in Seq(Seq(Kinds))
    /\ maxEntries \in Limits
    /\ token \in Nat \cup {NoToken}
    /\ page \subseteq got /\ got \subseteq Positions
    /\ state \in {"paging", "done", "error"}

Init ==
    /\ mode \in Modes
    /\ groups \in IF mode = "cluster" THEN GroupLists ELSE OneGroup
    /\ maxEntries \in Limits
    /\ token = NoToken
    /\ page = {} /\ got = {}
    /\ state = "paging"

start == IF token = NoToken THEN 0 ELSE token

-----------------------------------------------------------------------------
\* The entries that disks from+1 .. to of group g add.
Between(g, from, to) == {<<g, i>> : i \in {j \in from + 1 .. to : groups[g][j] # "other"}}

\* Where the loop over the disks of group g stops: at the end, or once there are
\* max entries, have of them from before.
Stop(g, from, have, max) ==
    CHOOSE i \in from .. Len(groups[g]) :
        /\ i = Len(groups[g]) \/ (max > 0 /\ have + Cardinality(Between(g, from, i)) >= max)
        /\ \A j \in from .. i - 1 : max > 0 => have + Cardinality(Between(g, from, j)) < max

\* The status of listVolumesByResourceGroup: "ok", "range" for a start that is
\* past the end (FailedPrecondition), or "failed".
listVolumesByResourceGroup(g, entries, from, max) ==
    LET s == IF from < 0 THEN 0 ELSE from
        i == Stop(g, s, Cardinality(entries), max)
        new == Between(g, s, i)
    IN
    CASE from > 0 /\ from >= Len(groups[g]) ->
            [status |-> "range", visited |-> Len(groups[g]), complete |-> FALSE, entries |-> {}]
      [] ~(from > 0 /\ from >= Len(groups[g])) /\ new \cap OfKind("broken") # {} ->
            [status |-> "failed", visited |-> 0, complete |-> FALSE, entries |-> {}]
      [] OTHER ->
            [status |-> "ok", visited |-> i - s, complete |-> i = Len(groups[g]),
             entries |-> entries \cup new]

-----------------------------------------------------------------------------
(* The calls.                                                                *)

Answer(entries, next) ==
    /\ page' = entries
    /\ got' = got \cup entries
    /\ token' = IF next = NoToken THEN token ELSE next
    /\ state' = IF next = NoToken THEN "done" ELSE "paging"
    /\ UNCHANGED <<mode, groups, maxEntries>>
Fails == state' = "error" /\ page' = {} /\ UNCHANGED <<mode, groups, maxEntries, token, got>>

\* One turn of the loop of listVolumesInCluster over the resource groups.  The
\* callee gets the entries so far and the limit less their number.
VisitGroup(run, g) ==
    LET max == maxEntries - Cardinality(run.entries)
        list == listVolumesByResourceGroup(g, run.entries,
                    IF run.found THEN 0 ELSE start - run.visited, max)
    IN
    IF run.failed \/ ~run.complete THEN run
    ELSE IF maxEntries > 0 /\ max <= 0 THEN [run EXCEPT !.complete = FALSE]
    ELSE CASE list.status = "failed" -> [run EXCEPT !.failed = TRUE]
           [] list.status = "range" -> [run EXCEPT !.visited = @ + list.visited]
           [] OTHER -> [run EXCEPT !.visited = @ + list.visited, !.found = TRUE,
                                   !.entries = list.entries, !.complete = list.complete]

\* Mutants: the token is one disk too far; what was visited is left out.
NextTokenAhead(run) == IF run.complete THEN NoToken ELSE start + run.visited + 1
NextTokenStuck(run) == IF run.complete THEN NoToken ELSE start
NextToken(run) == IF run.complete THEN NoToken ELSE start + run.visited

\* The loop when it has got to the end of group g.
Visited[g \in 0 .. Len(groups)] ==
    IF g = 0 THEN [entries |-> {}, visited |-> 0, complete |-> TRUE,
                   found |-> FALSE, failed |-> FALSE]
    ELSE LET before == Visited[g - 1] IN VisitGroup(before, g)

listVolumesInCluster ==
    LET run == Visited[Len(groups)] IN
    /\ mode = "cluster" /\ state = "paging"
    /\ IF run.failed \/ (start > 0 /\ ~run.found) THEN Fails
       ELSE Answer(run.entries, NextToken(run))

\* Mutant: the token is one disk too far.
NodeGroupTokenAhead(list) == IF list.complete THEN NoToken ELSE start + list.visited + 1
NodeGroupToken(list) == IF list.complete THEN NoToken ELSE list.visited

listVolumesInNodeResourceGroup ==
    LET list == listVolumesByResourceGroup(1, {}, start, maxEntries) IN
    /\ mode = "nodeGroup" /\ state = "paging"
    /\ IF list.status # "ok" THEN Fails
       ELSE Answer(list.entries, NodeGroupToken(list))

TokenRefused(n) == token # NoToken /\ start >= n

\* The token is never empty: at the end it is the number of snapshots.
\* Mutant: it is one snapshot short.
SnapshotTokenBehind(i, n) == IF i < n THEN i - 1 ELSE n
SnapshotToken(i, n) == IF i < n THEN i ELSE n

GetEntriesAndNextToken ==
    LET n == Len(groups[1])
        i == Stop(1, start, 0, maxEntries)
        new == Between(1, start, i)
    IN
    /\ mode = "snapshots" /\ state = "paging"
    /\ IF TokenRefused(n) \/ new \cap OfKind("broken") # {} THEN Fails
       ELSE Answer(new, SnapshotToken(i, n))

Next == listVolumesInCluster \/ listVolumesInNodeResourceGroup \/ GetEntriesAndNextToken

Spec == Init /\ [][Next]_vars

-----------------------------------------------------------------------------
(* Properties.                                                               *)

\* "ListVolumes return all available volumes" (controllerserver.go:640): a
\* client that has got to the end has everything that was to be listed.
AtEnd == state = "done" \/ (state = "paging" /\ start >= Total /\ token # NoToken)
AllListed == AtEnd => OfKind("listed") \subseteq got

\* It has if there is only one resource group.
OneGroupListed == Len(groups) = 1 => AllListed

\* No volume or snapshot is returned on two pages.  (Without a kube client the
\* token is a count and pages come again.)
NoneTwice == [][mode # "nodeGroup" => page' \cap got = {}]_vars

\* In one resource group paging fails only where an entry cannot be made: a token
\* the driver gave is a token it takes, but for the one on the last page of
\* snapshots.
TokensTaken ==
    Len(groups) = 1 /\ state = "error" =>
        OfKind("broken") # {} \/ (mode = "snapshots" /\ start = Total)

\* A page that is not the last moves the token on from where the page started (the
\* first one from 0), so paging ends.  (An empty list of snapshots has the token 0,
\* which the next call refuses; without a kube client the second token is no further
\* than the first.)
TokenAdvances ==
    [][mode # "nodeGroup" /\ Total > 0 /\ state' = "paging" => token' > start]_vars
=============================================================================
