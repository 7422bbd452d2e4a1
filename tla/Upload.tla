------------------------------- MODULE Upload -------------------------------
(***************************************************************************)
(* Uploads: MTNet.upload_file, one part after the other, and               *)
(* charged_upload, where part k goes over connection k % n and every       *)
(* connection (_UploadLane) has at most one part under way.                *)
(*                                                                         *)
(* Chunk k is what the file holds at part k.  The file may become longer   *)
(* or shorter while it is read, so that there are more or fewer chunks     *)
(* than its size said.                                                     *)
(***************************************************************************)
EXTENDS Integers

CONSTANTS
  MaxParts,  \* bound: the parts of a file
  MaxConns   \* bound: connections

\* What the constants are; MCParts assumes it of their values.
UploadAssumption == {MaxParts, MaxConns} \subseteq Nat \ {0}

VARIABLES
  mode,    \* "plain" for upload_file, "lanes" for charged_upload
  total,   \* the parts that the size of the file makes
  chunks,  \* the chunks that reading it yields
  conns,   \* connections
  pc,
  read,    \* chunks read
  job,     \* what became of the last chunk of each lane
  index,   \* the part that the next chunk of the lane is to be
  data,    \* the chunk that the lane has in flight
  sent,    \* the requests: a part and the chunk it is said to be
  stored   \* the parts that the server has acknowledged

choice == <<mode, total, chunks, conns>>
vars == <<choice, pc, read, job, index, data, sent, stored>>

Lanes == 0 .. conns - 1

Init ==
  /\ mode \in {"plain", "lanes"}
  /\ total \in 1 .. MaxParts /\ chunks \in 0 .. MaxParts
  /\ conns \in IF mode = "plain" THEN {1} ELSE 1 .. MaxConns
  /\ conns <= total
  /\ pc = "read" /\ read = 0
  /\ job = [l \in Lanes |-> "none"]
  /\ index = [l \in Lanes |-> l]
  /\ data = [l \in Lanes |-> 0]
  /\ sent = {} /\ stored = {}

\* push waits for the last part of the lane.
Ready(l) == job[l] \in {"none", "done"}

Lane == read % conns

Push ==
  /\ pc = "read" /\ read < chunks /\ Ready(Lane)
  /\ read' = read + 1
  /\ data' = [data EXCEPT ![Lane] = read]
  /\ job' = [job EXCEPT ![Lane] = "sent"]
  /\ sent' = sent \union {<<index[Lane], read>>}
  /\ UNCHANGED <<choice, pc, index, stored>>

\* Mutant: the lane goes on with the next part, which is another lane's.
AdvanceByOne(l) == index' = [index EXCEPT ![l] = @ + 1]

Advance(l) == index' = [index EXCEPT ![l] = @ + conns]

Stored(l) ==
  /\ job[l] = "sent" /\ job' = [job EXCEPT ![l] = "done"]
  /\ stored' = stored \union {data[l]}
  /\ Advance(l)
  /\ UNCHANGED <<choice, pc, read, data, sent>>

\* The answer is false, an error or does not come; the part may be there.
PartFails(l) ==
  /\ job[l] = "sent" /\ job' = [job EXCEPT ![l] = "failed"]
  /\ UNCHANGED <<choice, pc, read, index, data, sent, stored>>

\* The failure shows when the reader comes to the lane: then it cancels the
\* others.
Fail ==
  /\ pc = "read"
  /\ \/ read < chunks /\ job[Lane] = "failed"
     \/ /\ read = chunks
        /\ \E l \in Lanes :
             job[l] = "failed" /\ \A k \in 0 .. l - 1 : Ready(k)
  /\ pc' = "failed"
  /\ job' = [l \in Lanes |-> IF job[l] = "sent" THEN "cancelled" ELSE job[l]]
  /\ UNCHANGED <<choice, read, index, data, sent, stored>>

\* The lanes have finished.
Finish ==
  /\ pc = "read" /\ read = chunks
  /\ \A l \in Lanes : Ready(l)
  /\ pc' = "done"
  /\ UNCHANGED <<choice, read, job, index, data, sent, stored>>

Next == Push \/ Fail \/ Finish \/ \E l \in Lanes : Stored(l) \/ PartFails(l)

Spec == Init /\ [][Next]_vars

-----------------------------------------------------------------------------
(* Properties *)

\* The types of the variables.
TypeOK ==
  /\ pc \in {"read", "done", "failed"} /\ read \in 0 .. chunks
  /\ job \in [Lanes -> {"none", "sent", "done", "failed", "cancelled"}]
  /\ index \in [Lanes -> Nat] /\ data \in [Lanes -> Nat]
  /\ stored \subseteq 0 .. chunks - 1

\* Parts that the result of a finished upload names.
Named == IF mode = "plain" THEN read ELSE total

\* However the answers on the connections interleave, a part is only ever sent
\* with the chunk of the file that belongs there, and an upload that
\* succeeds has an acknowledgement for every chunk that it has read; the parts
\* it names are there if the file has kept its length.
PartsInPlace ==
  /\ \A s \in sent : s[1] = s[2]
  /\ pc = "done" => stored = 0 .. chunks - 1
  /\ pc = "done" /\ chunks = total => stored = 0 .. Named - 1
=============================================================================
