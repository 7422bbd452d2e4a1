---------------------------- MODULE SchemaCache ----------------------------
(***************************************************************************)
(* The cache of the official TL schema in ~/.goygram/cache:                *)
(* goygram/schema_manager.py, init_schema at the start of a process and    *)
(* _background_update every six hours.                                     *)
(*                                                                         *)
(* The texts api.tl and mtproto.tl are known by their versions; upstream   *)
(* only gets newer ones.  An ETag names the version it came with.  Five    *)
(* files are replaced one after the other, and the process may end         *)
(* between any two of them.                                                *)
(***************************************************************************)
EXTENDS Integers

CONSTANTS
  LayerOf,    \* the layer that a version of api.tl declares
  Floor,      \* CURRENT_LAYER_FLOOR
  MaxVer,     \* bound: versions of a text
  MaxFaults   \* bound: failed downloads, writes and loads, ends of the process

\* What the constants are; MCParts assumes it of their values.
SchemaAssumption ==
  /\ MaxVer \in Nat \ {0} /\ Floor \in Nat \ {0} /\ MaxFaults \in Nat
  /\ LayerOf \in [1 .. MaxVer -> Nat \ {0}]

Texts == {"api", "mtp"}

VARIABLES
  up,      \* upstream's version of each text
  text,    \* the versions in the two text files; 0 when there is no file
  etag,    \* the versions in the two etag files; 0 when there is none
  layer,   \* schema.layer; 0 when there is no file
  pc,      \* what the process does; "write1" .. "write5" are the five files
  bg,      \* is it the background thread that does it
  want,    \* the layer that is to be loaded
  got,     \* the texts it has
  tag,     \* the etags that came with them
  loaded,  \* the text of the schema in use; 0 before there is one
  active,  \* the layer it was loaded as
  faults   \* failures so far

disk == <<text, etag, layer>>
fetched == <<got, tag>>
use == <<loaded, active>>
vars == <<up, disk, pc, bg, want, fetched, use, faults>>

Versions == 0 .. MaxVer
Nothing == [t \in Texts |-> 0]
Max2(a, b) == IF a > b THEN a ELSE b
Fault == faults < MaxFaults /\ faults' = faults + 1

Init ==
  /\ up = [t \in Texts |-> 1]
  /\ text = Nothing /\ etag = Nothing /\ layer = 0
  /\ pc = "down" /\ bg = FALSE /\ want = 0
  /\ got = Nothing /\ tag = Nothing
  /\ loaded = 0 /\ active = 0
  /\ faults = 0

\* cached_schema_layer: 0 for None.
Cached == IF text["api"] # 0 /\ layer = LayerOf[text["api"]] THEN layer ELSE 0

Publish(t) ==
  /\ up[t] < MaxVer /\ up' = [up EXCEPT ![t] = @ + 1]
  /\ UNCHANGED <<disk, pc, bg, want, fetched, use, faults>>

\* The process ends.  What it had loaded is gone, the files stay.
End ==
  /\ pc' = "down" /\ bg' = FALSE /\ want' = 0
  /\ got' = Nothing /\ tag' = Nothing
  /\ loaded' = 0 /\ active' = 0

Crash ==
  /\ pc # "down" /\ Fault /\ End
  /\ UNCHANGED <<up, disk>>

\* An exception ends init_schema, and the background thread's turn.
Fail ==
  IF bg THEN pc' = "sleep" /\ UNCHANGED <<bg, want, fetched, use>> ELSE End

Start ==
  /\ pc = "down" /\ pc' = "latest"
  /\ UNCHANGED <<up, disk, bg, want, fetched, use, faults>>

\* _latest_layer downloads api.tl for its layer alone.
Latest ==
  /\ pc = "latest"
  /\ \/ want' = Max2(LayerOf[up["api"]], Floor) /\ UNCHANGED faults
     \/ want' = (IF Cached # 0 THEN Cached ELSE Floor) /\ Fault
  /\ pc' = IF bg THEN "api" ELSE "decide"
  /\ UNCHANGED <<up, disk, bg, fetched, use>>

\* init_schema takes the files if they are as new as what it wants.
Decide ==
  /\ pc = "decide"
  /\ IF text["mtp"] # 0 /\ Cached # 0 /\ Cached >= want
       THEN pc' = "load" /\ want' = Cached /\ got' = text
       ELSE pc' = "api" /\ UNCHANGED <<want, got>>
  /\ UNCHANGED <<up, disk, bg, tag, use, faults>>

\* A conditional request: an etag that is current brings the text of the file.
Download(t, next) ==
  \/ /\ got' = [got EXCEPT ![t] = IF etag[t] = up[t] THEN text[t] ELSE up[t]]
     /\ tag' = [tag EXCEPT ![t] = up[t]]
     /\ IF got'[t] = 0 THEN Fail ELSE pc' = next /\ UNCHANGED <<bg, want, use>>
     /\ UNCHANGED faults
  \/ Fail /\ Fault

GetApi == pc = "api" /\ Download("api", "mtp") /\ UNCHANGED <<up, disk>>
GetMtp == pc = "mtp" /\ Download("mtp", "check") /\ UNCHANGED <<up, disk>>

\* Upstream may have published since _latest_layer.
CheckLayer ==
  /\ pc = "check"
  /\ IF LayerOf[got["api"]] = want
       THEN pc' = "write1" /\ UNCHANGED <<bg, want, fetched, use>>
       ELSE Fail
  /\ UNCHANGED <<up, disk, faults>>

\* One file after the other: both texts, both etags, the layer.
WriteText(t, from, to) ==
  /\ pc = from /\ pc' = to
  /\ text' = [text EXCEPT ![t] = got[t]]
  /\ UNCHANGED <<up, etag, layer, bg, want, fetched, use, faults>>

WriteEtag(t, from, to) ==
  /\ pc = from /\ pc' = to
  /\ etag' = [etag EXCEPT ![t] = tag[t]]
  /\ UNCHANGED <<up, text, layer, bg, want, fetched, use, faults>>

WriteLayer ==
  /\ pc = "write5" /\ pc' = "load"
  /\ layer' = want
  /\ UNCHANGED <<up, text, etag, bg, want, fetched, use, faults>>

\* Mutant: the etags come first.
EtagsFirst ==
  \/ WriteEtag("api", "write1", "write2") \/ WriteEtag("mtp", "write2", "write3")
  \/ WriteText("api", "write3", "write4") \/ WriteText("mtp", "write4", "write5")
  \/ WriteLayer

WriteFiles ==
  \/ WriteText("api", "write1", "write2") \/ WriteText("mtp", "write2", "write3")
  \/ WriteEtag("api", "write3", "write4") \/ WriteEtag("mtp", "write4", "write5")
  \/ WriteLayer

\* A write may fail: then the files after it stay as they were.
WriteFails ==
  /\ pc \in {"write1", "write2", "write3", "write4", "write5"}
  /\ Fail /\ Fault
  /\ UNCHANGED <<up, disk>>

\* init_schema loads what it has and starts the thread.  The thread leaves
\* a layer that is in use alone, and does not reload while requests are pending.
Load ==
  /\ pc = "load" /\ pc' = "sleep" /\ bg' = TRUE
  /\ \/ bg /\ UNCHANGED use
     \/ (bg => active # want) /\ loaded' = got["api"] /\ active' = want
  /\ UNCHANGED <<up, disk, want, fetched, faults>>

LoadFails ==
  /\ pc = "load" /\ (bg => active # want)
  /\ Fail /\ Fault
  /\ UNCHANGED <<up, disk>>

\* Six hours later.
WakeUp ==
  /\ pc = "sleep" /\ pc' = "latest"
  /\ want' = 0 /\ got' = Nothing /\ tag' = Nothing
  /\ UNCHANGED <<up, disk, bg, use, faults>>

Step ==
  \/ Start \/ Latest \/ Decide \/ GetApi \/ GetMtp \/ CheckLayer
  \/ WriteFiles \/ Load \/ WakeUp

Next == Step \/ Crash \/ WriteFails \/ LoadFails \/ \E t \in Texts : Publish(t)

Spec == Init /\ [][Next]_vars

\* The process is started again, and the thread wakes up, when it has ended.
LiveSpec == Spec /\ WF_vars(Step)

-----------------------------------------------------------------------------
(* Properties *)

\* The types of the variables.
TypeOK ==
  /\ {up, text, etag, got, tag} \subseteq [Texts -> Versions]
  /\ \A t \in Texts : up[t] # 0
  /\ layer \in Nat /\ want \in Nat /\ active \in Nat /\ loaded \in Versions
  /\ pc \in {"down", "latest", "decide", "api", "mtp", "check", "load", "sleep",
             "write1", "write2", "write3", "write4", "write5"}
  /\ bg \in BOOLEAN /\ faults \in 0 .. MaxFaults

\* The schema in use is the one of the layer that the client tells the server.
LayerIsOfText == loaded # 0 => active = LayerOf[loaded]

\* However writes and process end between the five files, an etag never names a
\* newer text than the file holds: otherwise the server would say "not
\* modified" to a file that is old, and would go on saying it.
EtagsNotAhead == \A t \in Texts : etag[t] <= text[t]

\* When failures and new versions have come to an end, the files become those
\* of upstream, from whatever mixture a crash has left.
CatchesUp == <>[](text = up)
=============================================================================
