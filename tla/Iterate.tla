------------------------------ MODULE Iterate ------------------------------
(***************************************************************************)
(* Lists that are fetched in batches while they change: the messages of a  *)
(* chat (_HistoryIter and _SearchIter), the dialogs (_DialogIter), both    *)
(* from the identifier of the last message seen, and the members of a      *)
(* channel (iter_participants), from a number of members.                  *)
(*                                                                         *)
(* The server keeps a list by place, the highest first: the identifier of  *)
(* a message, the top message of a dialog, any order of members.  A        *)
(* request that fails is raised to the caller and leaves the iterators of  *)
(* messages and dialogs as they were; pinned dialogs are left out.         *)
(***************************************************************************)
EXTENDS Integers, SequencesExt

CONSTANTS
  Items,      \* what the server may list
  Batches,    \* batch sizes, none above what the server sends at once
  Limits,     \* limits that are asked for, 0 for none
  MaxChanges  \* bound: changes of the list while it is fetched

\* What the constants are; MCParts assumes it of their values.
IterateAssumption ==
  /\ Items \subseteq Nat \ {0} /\ IsFiniteSet(Items)
  /\ Batches \subseteq Nat \ {0} /\ Limits \subseteq Nat /\ MaxChanges \in Nat

VARIABLES
  kind,    \* "messages", "dialogs" or "members"
  batch,
  limit,
  place,   \* the place of an item, 0 when it is not listed
  offset,  \* the place of the last item fetched, or the number of members
  left,    \* what the limit leaves
  buf,     \* fetched and not yet given to the caller
  full,    \* members: was the last batch a full one
  out,     \* given to the caller
  state,   \* "ready", "done" or "failed"
  steady,  \* items that are where they were at the start
  added,   \* items that came or moved
  removed  \* items that went

list == <<place, steady, added, removed>>
cursor == <<offset, left, buf, full, out, state>>
choice == <<kind, batch, limit>>
vars == <<list, cursor, choice>>

Listed == {i \in Items : place[i] > 0}
Places == 1 .. 2 * Cardinality(Items) + MaxChanges
Top == CHOOSE p \in Places \union {0} :
         /\ \A i \in Items : place[i] <= p
         /\ p = 0 \/ \E i \in Items : place[i] = p

\* Between any two items of the first list there is a place for another.
Init ==
  /\ kind \in {"messages", "dialogs", "members"}
  /\ batch \in Batches /\ limit \in Limits
  /\ \E n \in 0 .. Cardinality(Items) :
       place = [i \in Items |-> IF i <= n THEN 2 * i ELSE 0]
  /\ steady = Listed /\ added = 0 /\ removed = 0
  /\ offset = 0 /\ left = limit /\ buf = <<>> /\ full = TRUE
  /\ out = <<>> /\ state = "ready"

-----------------------------------------------------------------------------
(* What others do to the list. *)

Change == added + removed < MaxChanges /\ UNCHANGED <<cursor, choice>>

\* A new message is the last one; a new member may be anywhere.
Add(i, p) ==
  /\ Change /\ place[i] = 0
  /\ kind = "members" \/ p > Top
  /\ \A j \in Items : place[j] # p
  /\ place' = [place EXCEPT ![i] = p]
  /\ added' = added + 1
  /\ UNCHANGED <<steady, removed>>

\* A message arrives in a dialog, or its top message is deleted.
Move(i, p) ==
  /\ Change /\ kind = "dialogs" /\ place[i] > 0
  /\ \A j \in Items : place[j] # p
  /\ p < place[i] \/ p > Top
  /\ place' = [place EXCEPT ![i] = p]
  /\ steady' = steady \ {i}
  /\ added' = added + 1
  /\ UNCHANGED removed

Leave(i) ==
  /\ Change /\ place[i] > 0
  /\ place' = [place EXCEPT ![i] = 0]
  /\ steady' = steady \ {i}
  /\ removed' = removed + 1
  /\ UNCHANGED added

-----------------------------------------------------------------------------
(* The iterators. *)

Sorted(S) ==
  CHOOSE s \in [1 .. Cardinality(S) -> S] :
    \A j, k \in DOMAIN s : j < k => place[s[j]] > place[s[k]]
FirstOf(s, n) == SubSeq(s, 1, IF n < Len(s) THEN n ELSE Len(s))

\* The answer to a request for n items from the offset.
Page(n) ==
  IF kind = "members" THEN FirstOf(SubSeq(Sorted(Listed), offset + 1, Cardinality(Listed)), n)
  ELSE FirstOf(Sorted({i \in Listed : offset = 0 \/ place[i] < offset}), n)

\* iter_participants asks for whole batches.
Asked == IF kind = "members" \/ left = 0 \/ batch < left THEN batch ELSE left

\* Mutant: the next request starts from the first message of the batch.
AfterFirst(page) ==
  IF kind = "members" THEN offset + Len(page) ELSE place[Head(page)]

After(page) == IF kind = "members" THEN offset + Len(page) ELSE place[Last(page)]

\* The caller is given the first of what is there.
Give(items) ==
  /\ out' = Append(out, Head(items)) /\ buf' = Tail(items)
  /\ left' = IF left > 0 THEN left - 1 ELSE 0
  /\ state' = IF kind = "members" /\ left = 1 THEN "done" ELSE "ready"

GiveNext ==
  /\ state = "ready" /\ buf # <<>> /\ Give(buf)
  /\ UNCHANGED <<list, choice, offset, full>>

\* Is there to be another request?
WantsMore ==
  /\ state = "ready" /\ buf = <<>> /\ full
  /\ limit = 0 \/ left > 0

Fetch ==
  /\ WantsMore
  /\ Page(Asked) # <<>>
  /\ offset' = After(Page(Asked))
  /\ full' = (kind = "members" => Len(Page(Asked)) = batch)
  /\ Give(Page(Asked))
  /\ UNCHANGED <<list, choice>>

Finish ==
  /\ state = "ready" /\ buf = <<>>
  /\ WantsMore => Page(Asked) = <<>>
  /\ state' = "done"
  /\ UNCHANGED <<list, choice, offset, left, buf, full, out>>

\* A generator that has raised is finished.
Fail ==
  /\ WantsMore /\ kind = "members" /\ state' = "failed"
  /\ UNCHANGED <<list, choice, offset, left, buf, full, out>>

Next ==
  \/ GiveNext \/ Fetch \/ Finish \/ Fail
  \/ \E i \in Items : Leave(i) \/ \E p \in Places : Add(i, p) \/ Move(i, p)

Spec == Init /\ [][Next]_vars

-----------------------------------------------------------------------------
(* Properties *)

\* The types of the variables.
TypeOK ==
  /\ kind \in {"messages", "dialogs", "members"} /\ batch \in Batches /\ limit \in Limits
  /\ place \in [Items -> Places \union {0}] /\ offset \in Nat /\ left \in 0 .. limit
  /\ buf \in Seq(Items) /\ out \in Seq(Items) /\ full \in BOOLEAN
  /\ state \in {"ready", "done", "failed"} /\ steady \subseteq Listed
  /\ added + removed \in 0 .. MaxChanges

Times(i) == Cardinality({k \in DOMAIN out : out[k] = i})
Given == ToSet(out)
Reached == limit > 0 /\ Len(out) = limit

\* Whatever comes, moves and goes meanwhile, a message or dialog that stays in
\* its place is given once, and is given before the end unless the limit is
\* reached first.  Members are numbered by where they are: one is missed
\* only for each that left, and given again only for each that came.
NothingSkipped ==
  /\ limit > 0 => Len(out) <= limit
  /\ kind # "members" => \A i \in steady : Times(i) <= 1
  /\ state = "done" /\ ~Reached =>
       Cardinality(steady \ Given) <= IF kind = "members" THEN removed ELSE 0
  /\ kind = "members" => Cardinality({i \in steady : Times(i) > 1}) <= added
=============================================================================
