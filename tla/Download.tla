------------------------------ MODULE Download ------------------------------
(***************************************************************************)
(* Downloads to a path: MTNet.download_file, one request after the other,  *)
(* and charged_download, where several connections fetch every n-th part.  *)
(*                                                                         *)
(* A file is the sequence of its units, which are numbered; a part has     *)
(* Part units.  The server answers with what the file has at an offset.    *)
(***************************************************************************)
EXTENDS Integers, Sequences, SequencesExt

CONSTANTS
  Part,      \* units in a part
  MaxUnits,  \* bound: the length of a file
  MaxConns   \* bound: connections

\* What the constants are; MCParts assumes it of their values.
DownloadAssumption == {Part, MaxUnits, MaxConns} \subseteq Nat \ {0}

VARIABLES
  mode,      \* "plain" for download_file, "lanes" for charged_download
  file,      \* the length of the file
  size,      \* the length that charged_download has been told
  conns,     \* connections
  pc,
  refreshed, \* was the file reference renewed before any lane started
  attempt,   \* renewals of the reference since the lanes were built
  lanes,     \* offset and remaining parts of every lane
  active,    \* the lanes that still fetch
  out,       \* the temporary file
  target     \* the file at the destination

choice == <<mode, file, size, conns>>
work == <<refreshed, attempt, lanes, active, out>>
vars == <<choice, pc, work, target>>

File == [i \in 1 .. file |-> i]
Old == <<0>>      \* what the destination held before

\* What upload.getFile answers.
Answer(offset) ==
  SubSeq(File, offset + 1, IF offset + Part < file THEN offset + Part ELSE file)

Init ==
  /\ mode \in {"plain", "lanes"}
  /\ file \in 0 .. MaxUnits
  /\ size \in IF mode = "plain" THEN {0} ELSE 1 .. MaxUnits
  /\ conns \in IF mode = "plain" THEN {1} ELSE 1 .. MaxConns
  /\ pc = IF mode = "plain" THEN "next" ELSE "probe"
  /\ refreshed = FALSE /\ attempt = 0
  /\ lanes = <<>> /\ active = {} /\ out = <<>>
  /\ target = Old

\* download_file: a part shorter than a part is the last one.
NextPart ==
  /\ pc = "next"
  /\ out' = out \o Answer(Len(out))
  /\ pc' = IF Len(Answer(Len(out))) < Part THEN "commit" ELSE "next"
  /\ UNCHANGED <<choice, refreshed, attempt, lanes, active, target>>

\* The reference of the file has expired: download_file, and charged_download
\* before its lanes start, renew it once and go on.
RenewOnce ==
  /\ pc \in {"next", "probe"}
  /\ ~refreshed /\ refreshed' = TRUE
  /\ UNCHANGED <<choice, pc, attempt, lanes, active, out, target>>

\* build_lanes: lane i has the parts i, i + n, i + 2n, ...
Parts == (size + Part - 1) \div Part
Share(i) == Parts \div conns + IF i < Parts % conns THEN 1 ELSE 0

\* Mutant: a new attempt goes on where the last one was broken off.
KeepOutput ==
  /\ lanes' = [i \in 1 .. conns |-> [offset |-> (i - 1) * Part, left |-> Share(i - 1)]]
  /\ active' = {i \in 1 .. conns : Share(i - 1) > 0}
  /\ UNCHANGED out

\* An attempt empties the temporary file.
BuildLanes ==
  /\ lanes' = [i \in 1 .. conns |-> [offset |-> (i - 1) * Part, left |-> Share(i - 1)]]
  /\ active' = {i \in 1 .. conns : Share(i - 1) > 0}
  /\ out' = <<>>

Start ==
  /\ pc = "probe" /\ pc' = "round"
  /\ BuildLanes
  /\ UNCHANGED <<choice, refreshed, attempt, target>>

\* _DownloadLane.next
LaneData(i) == IF i \in active /\ lanes[i].left > 0 THEN Answer(lanes[i].offset) ELSE <<>>
Advanced(l) == IF l.left > 0 THEN [offset |-> l.offset + conns * Part, left |-> l.left - 1] ELSE l

\* All the active lanes fetch a part; the parts are written in the order of the
\* lanes, whatever the order of the answers.
Round ==
  /\ pc = "round" /\ active # {}
  /\ out' = out \o FlattenSeq([i \in 1 .. conns |-> LaneData(i)])
  /\ active' = {i \in active : Len(LaneData(i)) = Part}
  /\ lanes' = [i \in DOMAIN lanes |-> IF i \in active THEN Advanced(lanes[i]) ELSE lanes[i]]
  /\ UNCHANGED <<choice, pc, refreshed, attempt, target>>

\* Mutant: there is no end to the attempts.
RestartAgain ==
  /\ pc = "round" /\ \E i \in active : lanes[i].left > 0
  /\ attempt' = attempt + 1
  /\ BuildLanes
  /\ UNCHANGED <<choice, pc, refreshed, target>>

\* One of the answers says that the reference has expired: the lanes start anew
\* with a new one, at most three times in all.
RenewAndRestart ==
  /\ pc = "round" /\ \E i \in active : lanes[i].left > 0
  /\ attempt < 2 /\ attempt' = attempt + 1
  /\ BuildLanes
  /\ UNCHANGED <<choice, pc, refreshed, target>>

Finish ==
  /\ pc = "round" /\ active = {}
  /\ pc' = IF Len(out) = size THEN "commit" ELSE "failed"
  /\ UNCHANGED <<choice, work, target>>

\* Any failure, of a renewal too: the temporary file is removed.
Fail ==
  /\ pc \in {"next", "probe", "round"} /\ pc' = "failed"
  /\ UNCHANGED <<choice, work, target>>

\* The temporary file takes the place of the target.
Commit ==
  /\ pc = "commit" /\ pc' = "done"
  /\ target' = out
  /\ UNCHANGED <<choice, work>>

Next ==
  \/ NextPart \/ RenewOnce \/ Start \/ Round \/ RenewAndRestart
  \/ Finish \/ Fail \/ Commit

Spec == Init /\ [][Next]_vars

-----------------------------------------------------------------------------
(* Properties *)

\* The types of the variables.
TypeOK ==
  /\ pc \in {"next", "probe", "round", "commit", "done", "failed"}
  /\ Range(out) \subseteq 1 .. file /\ active \subseteq 1 .. conns
  /\ refreshed \in BOOLEAN /\ attempt \in 0 .. 2
  /\ \A i \in DOMAIN lanes : lanes[i].offset \in Nat /\ lanes[i].left \in Nat

\* However many connections there are, however long the file is and whatever
\* length was expected of it, and wherever an attempt is broken off, the target
\* is what it was until it is the whole file, unit by unit in order.  The one
\* exception is a file longer than charged_download was told: of such a file it
\* takes the length it was told, and notices unless that is a number of parts.
WholeFile ==
  /\ pc # "done" => target = Old
  /\ pc = "done" /\ mode = "plain" => target = File
  /\ pc = "done" /\ mode = "lanes" =>
       /\ target = [i \in 1 .. size |-> i]
       /\ size = file \/ (size < file /\ size % Part = 0)
=============================================================================
