---------------------------- MODULE StoreProofs -----------------------------
(***************************************************************************)
(* Proofs about what is kept in files: the schema cache, the states of     *)
(* conversations, the session and the logins that end in it, for every     *)
(* assignment of layers to versions, every set of chats, users and times   *)
(* to live, and any number of keys, requests, crashes and failures.        *)
(***************************************************************************)
EXTENDS MCParts, TLAPS

-----------------------------------------------------------------------------
(* The schema cache *)

\* What the files hold came from upstream, and the etags are not ahead of it.
Files == \A t \in Schema!Texts : etag[t] <= text[t] /\ text[t] <= up[t] /\ got[t] <= up[t]

\* A text that was downloaded came with its own etag, is there, and is not older
\* than the file it is about to replace.
Fresh(t) == got[t] # 0 /\ tag[t] = got[t] /\ text[t] <= got[t]

Writing == {"write1", "write2", "write3", "write4", "write5"}

Downloads ==
  /\ pc \in {"mtp", "check"} \cup Writing => Fresh("api")
  /\ pc \in {"check"} \cup Writing => Fresh("mtp")

\* The texts are in their files before the first etag is replaced.
Order ==
  /\ pc \in {"write2", "write3", "write4", "write5"} => text["api"] = got["api"]
  /\ pc \in {"write3", "write4", "write5"} => text["mtp"] = got["mtp"]

\* What is about to be loaded declares the layer it will be loaded as.
Wanted ==
  pc \in {"load"} \cup Writing => got["api"] # 0 /\ want = LayerOf[got["api"]]

CacheInv == Schema!TypeOK /\ Files /\ Downloads /\ Order /\ Wanted /\ Schema!LayerIsOfText

-----------------------------------------------------------------------------
\* The first state.
LEMMA InitCache ==
  ASSUME Schema!SchemaAssumption, Schema!Init PROVE CacheInv
<1>1. Schema!TypeOK
  <2>1. Schema!Nothing \in [Schema!Texts -> Schema!Versions] /\ up \in [Schema!Texts -> Schema!Versions]
    BY DEF Schema!Init, Schema!Nothing, Schema!Versions, Schema!SchemaAssumption
  <2>2. \A t \in Schema!Texts : up[t] # 0
    BY DEF Schema!Init
  <2>3. 0 \in Schema!Versions /\ 0 \in 0 .. MaxFaults
    BY DEF Schema!Versions, Schema!SchemaAssumption
  <2> QED
    BY <2>1, <2>2, <2>3 DEF Schema!Init, Schema!TypeOK
<1>2. Files
  BY DEF Schema!Init, Files, Schema!Nothing, Schema!Texts
<1>3. Downloads /\ Order /\ Wanted /\ Schema!LayerIsOfText
  BY DEF Schema!Init, Downloads, Order, Wanted, Schema!LayerIsOfText, Writing
<1> QED
  BY <1>1, <1>2, <1>3 DEF CacheInv

\* The layer of a version, and the larger of two layers, are numbers.
LEMMA LayersAreNumbers ==
  ASSUME Schema!SchemaAssumption
  PROVE  /\ \A v \in Schema!Versions : v # 0 => LayerOf[v] \in Nat
         /\ \A a, b \in Nat : Schema!Max2(a, b) \in Nat
BY DEF Schema!Max2, Schema!SchemaAssumption, Schema!Versions

\* What End leaves satisfies the invariant.
LEMMA SchemaEndKeeps ==
  ASSUME Schema!SchemaAssumption, CacheInv, Schema!End, UNCHANGED <<up, Schema!disk>>,
         faults' \in 0 .. MaxFaults
  PROVE  CacheInv'
<1>1. Schema!TypeOK'
  <2>1. Schema!Nothing \in [Schema!Texts -> Schema!Versions]
    BY DEF Schema!Nothing, Schema!Versions, Schema!SchemaAssumption
  <2>2. 0 \in Schema!Versions
    BY DEF Schema!Versions, Schema!SchemaAssumption
  <2> QED
    BY <2>1, <2>2 DEF CacheInv, Schema!TypeOK, Schema!End, Schema!disk, Schema!Versions
<1>2. Files'
  BY SMTT(60) DEF CacheInv, Schema!TypeOK, Files, Schema!End, Schema!Nothing, Schema!Texts, Schema!Versions, Schema!disk
<1>3. Downloads' /\ Order' /\ Wanted' /\ Schema!LayerIsOfText'
  BY DEF Schema!End, Downloads, Order, Wanted, Schema!LayerIsOfText, Writing
<1> QED
  BY <1>1, <1>2, <1>3 DEF CacheInv

\* A failure of the background thread leaves it asleep, with what it has.
LEMMA SleepKeeps ==
  ASSUME Schema!SchemaAssumption, CacheInv, pc' = "sleep", UNCHANGED <<up, Schema!disk, bg, want, Schema!use>>,
         got' \in [Schema!Texts -> Schema!Versions], tag' \in [Schema!Texts -> Schema!Versions],
         \A t \in Schema!Texts : got'[t] <= up[t], faults' \in 0 .. MaxFaults
  PROVE  CacheInv'
<1>1. Schema!TypeOK'
  BY SMTT(60) DEF CacheInv, Schema!TypeOK, Schema!Texts, Schema!Versions, Schema!disk, Schema!use
<1>2. Files'
  BY SMTT(60) DEF CacheInv, Schema!TypeOK, Files, Schema!Texts, Schema!Versions, Schema!disk
<1>3. Downloads' /\ Order' /\ Wanted' /\ Schema!LayerIsOfText'
  BY DEF CacheInv, Downloads, Order, Wanted, Schema!LayerIsOfText, Writing, Schema!use
<1> QED
  BY <1>1, <1>2, <1>3 DEF CacheInv


\* An exception, at any moment at which nothing else changes.
LEMMA FailKeeps ==
  ASSUME Schema!SchemaAssumption, CacheInv, Schema!Fail, UNCHANGED <<up, Schema!disk>>,
         faults' \in 0 .. MaxFaults
  PROVE  CacheInv'
<1>1. CASE bg
  <2>1. got \in [Schema!Texts -> Schema!Versions] /\ tag \in [Schema!Texts -> Schema!Versions]
    BY DEF CacheInv, Schema!TypeOK
  <2>2. \A t \in Schema!Texts : got[t] <= up[t]
    BY DEF CacheInv, Files
  <2> QED
    BY <1>1, <2>1, <2>2, SleepKeeps DEF Schema!Fail, Schema!fetched
<1>2. CASE ~bg
  BY <1>2, SchemaEndKeeps DEF Schema!Fail
<1> QED
  BY <1>1, <1>2

\* The steps that touch no file: a new version, the start, the first download,
\* the decision, the load and the alarm.
LEMMA QuietKeeps ==
  ASSUME Schema!SchemaAssumption, CacheInv,
         (\E t \in Schema!Texts : Schema!Publish(t)) \/ Schema!Start \/ Schema!Latest \/ Schema!Decide \/ Schema!Load \/ Schema!WakeUp
  PROVE  CacheInv'
<1> USE DEF CacheInv
<1>0. /\ \A v \in Schema!Versions : v # 0 => LayerOf[v] \in Nat
      /\ \A a, b \in Nat : Schema!Max2(a, b) \in Nat
      /\ Schema!Cached \in Nat /\ Floor \in Nat
  <2>1. layer \in Nat
    BY DEF Schema!TypeOK
  <2> QED
    BY <2>1, LayersAreNumbers DEF Schema!Cached, Schema!SchemaAssumption
<1>1. ASSUME NEW t \in Schema!Texts, Schema!Publish(t) PROVE CacheInv'
  <2>1. up' \in [Schema!Texts -> Schema!Versions] /\ \A x \in Schema!Texts : up'[x] # 0 /\ up[x] <= up'[x]
    BY <1>1, SMTT(60) DEF Schema!Publish, Schema!TypeOK, Schema!Versions, Schema!SchemaAssumption
  <2>2. Schema!TypeOK'
    BY <1>1, <2>1 DEF Schema!Publish, Schema!TypeOK, Schema!disk, Schema!fetched, Schema!use
  <2>3. Files'
    BY <1>1, <2>1, SMTT(60) DEF Schema!Publish, Schema!TypeOK, Files, Schema!disk, Schema!fetched, Schema!Versions
  <2>4. Downloads' /\ Order' /\ Wanted' /\ Schema!LayerIsOfText'
    BY <1>1 DEF Schema!Publish, Downloads, Order, Wanted, Schema!LayerIsOfText, Fresh, Writing,
       Schema!disk, Schema!fetched, Schema!use
  <2> QED
    BY <2>2, <2>3, <2>4
<1>2. CASE Schema!Start
  <2>1. Schema!TypeOK' /\ Files'
    BY <1>2 DEF Schema!Start, Schema!TypeOK, Files, Schema!disk, Schema!fetched, Schema!use
  <2>2. Downloads' /\ Order' /\ Wanted' /\ Schema!LayerIsOfText'
    BY <1>2 DEF Schema!Start, Downloads, Order, Wanted, Schema!LayerIsOfText, Writing, Schema!use
  <2> QED
    BY <2>1, <2>2
<1>3. CASE Schema!Latest
  <2>1. want' \in Nat
    <3>1. up["api"] \in Schema!Versions /\ up["api"] # 0
      BY DEF Schema!TypeOK, Schema!Texts
    <3> QED
      BY <1>3, <1>0, <3>1 DEF Schema!Latest
  <2>2. faults' \in 0 .. MaxFaults
    BY <1>3, SMTT(60) DEF Schema!Latest, Schema!TypeOK, Schema!Fault, Schema!SchemaAssumption
  <2>3. pc' \in {"api", "decide"}
    BY <1>3 DEF Schema!Latest
  <2>4. Schema!TypeOK' /\ Files'
    BY <1>3, <2>1, <2>2, <2>3 DEF Schema!Latest, Schema!TypeOK, Files, Schema!disk, Schema!fetched, Schema!use
  <2>5. Downloads' /\ Order' /\ Wanted' /\ Schema!LayerIsOfText'
    BY <1>3, <2>3 DEF Schema!Latest, Downloads, Order, Wanted, Schema!LayerIsOfText, Writing, Schema!use
  <2> QED
    BY <2>4, <2>5
<1>4. CASE Schema!Decide
  <2>1. want' \in Nat /\ got' \in [Schema!Texts -> Schema!Versions] /\ \A t \in Schema!Texts : got'[t] <= up[t]
    BY <1>4, <1>0 DEF Schema!Decide, Schema!TypeOK, Files
  <2>2. pc' = "api" \/ (pc' = "load" /\ got'["api"] # 0 /\ want' = LayerOf[got'["api"]])
    BY <1>4 DEF Schema!Decide, Schema!Cached
  <2>3. Schema!TypeOK' /\ Files'
    BY <1>4, <2>1, <2>2 DEF Schema!Decide, Schema!TypeOK, Files, Schema!disk, Schema!use
  <2>4. Downloads' /\ Order' /\ Wanted' /\ Schema!LayerIsOfText'
    BY <1>4, <2>2 DEF Schema!Decide, Downloads, Order, Wanted, Schema!LayerIsOfText, Writing, Schema!use
  <2> QED
    BY <2>3, <2>4
<1>5. CASE Schema!Load
  <2>1. loaded' \in Schema!Versions /\ active' \in Nat
    BY <1>5 DEF Schema!Load, Schema!TypeOK, Schema!use, Schema!Texts
  <2>2. Schema!TypeOK' /\ Files'
    BY <1>5, <2>1 DEF Schema!Load, Schema!TypeOK, Files, Schema!disk, Schema!fetched
  <2>3. Downloads' /\ Order' /\ Wanted' /\ Schema!LayerIsOfText'
    BY <1>5 DEF Schema!Load, Downloads, Order, Wanted, Schema!LayerIsOfText, Writing, Schema!use
  <2> QED
    BY <2>2, <2>3
<1>6. CASE Schema!WakeUp
  <2>1. Schema!Nothing \in [Schema!Texts -> Schema!Versions] /\ \A t \in Schema!Texts : Schema!Nothing[t] <= up[t]
    BY SMTT(60) DEF Schema!Nothing, Schema!Versions, Schema!TypeOK, Schema!SchemaAssumption
  <2>2. Schema!TypeOK' /\ Files'
    BY <1>6, <2>1 DEF Schema!WakeUp, Schema!TypeOK, Files, Schema!disk, Schema!use
  <2>3. Downloads' /\ Order' /\ Wanted' /\ Schema!LayerIsOfText'
    BY <1>6 DEF Schema!WakeUp, Downloads, Order, Wanted, Schema!LayerIsOfText, Writing, Schema!use
  <2> QED
    BY <2>2, <2>3
<1> HIDE DEF CacheInv
<1> QED
  BY <1>1, <1>2, <1>3, <1>4, <1>5, <1>6

\* A download: the text that is got is upstream's or, if the etag says that it
\* has not changed, the file's, which then is upstream's too.
LEMMA DownloadKeeps ==
  ASSUME Schema!SchemaAssumption, CacheInv, Schema!GetApi \/ Schema!GetMtp
  PROVE  CacheInv'
<1> DEFINE Got(t) ==
      /\ got' = [got EXCEPT ![t] = IF etag[t] = up[t] THEN text[t] ELSE up[t]]
      /\ tag' = [tag EXCEPT ![t] = up[t]]
<1>1. ASSUME NEW t \in Schema!Texts, Got(t)
      PROVE  /\ got' \in [Schema!Texts -> Schema!Versions] /\ tag' \in [Schema!Texts -> Schema!Versions]
             /\ \A x \in Schema!Texts : got'[x] <= up[x]
             /\ got'[t] # 0 /\ tag'[t] = got'[t] /\ text[t] <= got'[t]
  BY <1>1, SMTT(60) DEF CacheInv, Schema!TypeOK, Files, Schema!Versions, Schema!SchemaAssumption
<1>2. ASSUME NEW t \in Schema!Texts, NEW next, Schema!Download(t, next), UNCHANGED <<up, Schema!disk>>
      PROVE  \/ CacheInv'
             \/ Got(t) /\ pc' = next /\ UNCHANGED <<bg, want, Schema!use, faults>>
  <2>1. CASE Schema!Fail /\ Schema!Fault
    <3>1. faults' \in 0 .. MaxFaults
      BY <2>1, SMTT(60) DEF Schema!Fault, CacheInv, Schema!TypeOK, Schema!SchemaAssumption
    <3> QED
      BY <1>2, <2>1, <3>1, FailKeeps
  <2>2. CASE Got(t) /\ ~(Schema!Fail /\ Schema!Fault)
    BY <1>1, <1>2, <2>2 DEF Schema!Download
  <2> QED
    BY <1>2, <2>1, <2>2 DEF Schema!Download
<1> USE DEF CacheInv
<1>3. ASSUME NEW t \in Schema!Texts, Got(t), UNCHANGED <<up, Schema!disk, bg, want, Schema!use, faults>>,
             pc' \in {"mtp", "check"}
      PROVE  Schema!TypeOK' /\ Files' /\ Order' /\ Wanted' /\ Schema!LayerIsOfText'
  <2>1. Schema!TypeOK' /\ Files'
    <3> HIDE DEF Got
    <3> QED
      BY <1>1, <1>3 DEF Schema!TypeOK, Files, Schema!disk, Schema!use
  <2>2. Order' /\ Wanted' /\ Schema!LayerIsOfText'
    BY <1>3 DEF Order, Wanted, Schema!LayerIsOfText, Writing, Schema!use
  <2> QED
    BY <2>1, <2>2
<1>4. CASE Schema!GetApi
  <2>1. \/ CacheInv'
        \/ Got("api") /\ pc' = "mtp" /\ UNCHANGED <<bg, want, Schema!use, faults>>
    BY <1>2, <1>4 DEF Schema!GetApi, Schema!Texts
  <2>2. CASE Got("api") /\ pc' = "mtp" /\ UNCHANGED <<bg, want, Schema!use, faults>>
    <3>1. Fresh("api")'
      <4> HIDE DEF Got
      <4> QED
        BY <1>1, <1>4, <2>2 DEF Schema!GetApi, Fresh, Schema!disk, Schema!Texts
    <3> QED
      BY <1>3, <1>4, <2>2, <3>1 DEF Schema!GetApi, Downloads, Writing, Schema!Texts
  <2> QED
    BY <2>1, <2>2
<1>5. CASE Schema!GetMtp
  <2>1. \/ CacheInv'
        \/ Got("mtp") /\ pc' = "check" /\ UNCHANGED <<bg, want, Schema!use, faults>>
    BY <1>2, <1>5 DEF Schema!GetMtp, Schema!Texts
  <2>2. CASE Got("mtp") /\ pc' = "check" /\ UNCHANGED <<bg, want, Schema!use, faults>>
    <3>1. Fresh("mtp")'
      <4> HIDE DEF Got
      <4> QED
        BY <1>1, <1>5, <2>2 DEF Schema!GetMtp, Fresh, Schema!disk, Schema!Texts
    <3>2. Fresh("api")'
      <4>1. Fresh("api")
        BY <1>5 DEF Schema!GetMtp, Downloads
      <4> QED
        BY <1>5, <2>2, <4>1 DEF Schema!GetMtp, Fresh, Schema!disk, Schema!TypeOK, Schema!Texts
    <3> QED
      BY <1>3, <1>5, <2>2, <3>1, <3>2 DEF Schema!GetMtp, Downloads, Writing, Schema!Texts
  <2> QED
    BY <2>1, <2>2
<1> HIDE DEF CacheInv
<1> QED
  BY <1>4, <1>5

\* The check of the layer, and the files one after the other.
LEMMA WriteKeeps ==
  ASSUME Schema!SchemaAssumption, CacheInv, Schema!CheckLayer \/ Schema!WriteFiles
  PROVE  CacheInv'
<1> USE DEF CacheInv
<1>1. CASE Schema!CheckLayer
  <2>1. CASE LayerOf[got["api"]] # want
    <3> HIDE DEF CacheInv
    <3>1. faults' \in 0 .. MaxFaults
      BY <1>1 DEF Schema!CheckLayer, CacheInv, Schema!TypeOK
    <3> QED
      BY <1>1, <2>1, <3>1, FailKeeps DEF Schema!CheckLayer
  <2>2. CASE LayerOf[got["api"]] = want
    <3>1. Schema!TypeOK' /\ Files'
      BY <1>1, <2>2 DEF Schema!CheckLayer, Schema!TypeOK, Files, Schema!disk, Schema!fetched, Schema!use
    <3>2. Downloads' /\ Order' /\ Wanted' /\ Schema!LayerIsOfText'
      BY <1>1, <2>2 DEF Schema!CheckLayer, Downloads, Order, Wanted, Schema!LayerIsOfText, Fresh,
         Writing, Schema!disk, Schema!fetched, Schema!use
    <3> QED
      BY <3>1, <3>2
  <2> QED
    BY <2>1, <2>2
<1>2. ASSUME NEW t \in Schema!Texts, NEW from, NEW to \in Writing, Schema!WriteText(t, from, to),
             Fresh(t)
      PROVE  /\ Schema!TypeOK' /\ Files' /\ Schema!LayerIsOfText'
             /\ text'[t] = got'[t] /\ \A x \in Schema!Texts \ {t} : text'[x] = text[x]
  <2>1. /\ text' \in [Schema!Texts -> Schema!Versions] /\ text'[t] = got[t]
        /\ \A x \in Schema!Texts \ {t} : text'[x] = text[x]
    BY <1>2 DEF Schema!WriteText, Schema!TypeOK
  <2>2. Schema!TypeOK'
    BY <1>2, <2>1 DEF Schema!WriteText, Schema!TypeOK, Schema!fetched, Schema!use, Writing
  <2>3. Files'
    BY <1>2, <2>1, SMTT(60) DEF Schema!WriteText, Schema!TypeOK, Files, Fresh, Schema!fetched, Schema!Versions
  <2> QED
    BY <1>2, <2>1, <2>2, <2>3 DEF Schema!WriteText, Schema!LayerIsOfText, Schema!fetched, Schema!use
<1>3. ASSUME NEW t \in Schema!Texts, NEW from, NEW to \in Writing, Schema!WriteEtag(t, from, to),
             Fresh(t), text[t] = got[t]
      PROVE  Schema!TypeOK' /\ Files' /\ Schema!LayerIsOfText'
  <2>1. /\ etag' \in [Schema!Texts -> Schema!Versions] /\ etag'[t] = text[t]
        /\ \A x \in Schema!Texts \ {t} : etag'[x] = etag[x]
    BY <1>3 DEF Schema!WriteEtag, Schema!TypeOK, Fresh
  <2>2. Schema!TypeOK'
    BY <1>3, <2>1 DEF Schema!WriteEtag, Schema!TypeOK, Schema!fetched, Schema!use, Writing
  <2>3. Files'
    BY <1>3, <2>1, SMTT(60) DEF Schema!WriteEtag, Schema!TypeOK, Files, Schema!fetched, Schema!Versions
  <2> QED
    BY <1>3, <2>1, <2>2, <2>3 DEF Schema!WriteEtag, Schema!LayerIsOfText, Schema!fetched, Schema!use
<1>4. CASE Schema!WriteText("api", "write1", "write2")
  <2>1. Fresh("api") /\ Fresh("mtp")
    BY <1>4 DEF Schema!WriteText, Downloads, Writing
  <2>2. /\ Schema!TypeOK' /\ Files' /\ Schema!LayerIsOfText'
        /\ text'["api"] = got'["api"] /\ text'["mtp"] = text["mtp"]
    BY <1>2, <1>4, <2>1 DEF Schema!Texts, Writing
  <2>3. got'["api"] <= got'["api"]
    BY <2>2 DEF Schema!TypeOK, Schema!Texts, Schema!Versions
  <2>4. Downloads' /\ Order' /\ Wanted'
    BY <1>4, <2>1, <2>2, <2>3 DEF Schema!WriteText, Downloads, Order, Wanted, Fresh, Writing,
       Schema!fetched
  <2> QED
    BY <2>2, <2>4
<1>5. CASE Schema!WriteText("mtp", "write2", "write3")
  <2>1. Fresh("api") /\ Fresh("mtp") /\ text["api"] = got["api"]
    BY <1>5 DEF Schema!WriteText, Downloads, Order, Writing
  <2>2. /\ Schema!TypeOK' /\ Files' /\ Schema!LayerIsOfText'
        /\ text'["mtp"] = got'["mtp"] /\ text'["api"] = text["api"]
    BY <1>2, <1>5, <2>1 DEF Schema!Texts, Writing
  <2>3. got'["mtp"] <= got'["mtp"]
    BY <2>2 DEF Schema!TypeOK, Schema!Texts, Schema!Versions
  <2>4. Downloads' /\ Order' /\ Wanted'
    BY <1>5, <2>1, <2>2, <2>3 DEF Schema!WriteText, Downloads, Order, Wanted, Fresh, Writing,
       Schema!fetched
  <2> QED
    BY <2>2, <2>4
<1>6. CASE Schema!WriteEtag("api", "write3", "write4")
  <2>1. Fresh("api") /\ Fresh("mtp") /\ text["api"] = got["api"]
    BY <1>6 DEF Schema!WriteEtag, Downloads, Order, Writing
  <2>2. Schema!TypeOK' /\ Files' /\ Schema!LayerIsOfText'
    BY <1>3, <1>6, <2>1 DEF Schema!Texts, Writing
  <2>3. Downloads' /\ Order' /\ Wanted'
    BY <1>6, <2>1 DEF Schema!WriteEtag, Downloads, Order, Wanted, Fresh, Writing, Schema!fetched
  <2> QED
    BY <2>2, <2>3
<1>7. CASE Schema!WriteEtag("mtp", "write4", "write5")
  <2>1. Fresh("api") /\ Fresh("mtp") /\ text["mtp"] = got["mtp"]
    BY <1>7 DEF Schema!WriteEtag, Downloads, Order, Writing
  <2>2. Schema!TypeOK' /\ Files' /\ Schema!LayerIsOfText'
    BY <1>3, <1>7, <2>1 DEF Schema!Texts, Writing
  <2>3. Downloads' /\ Order' /\ Wanted'
    BY <1>7, <2>1 DEF Schema!WriteEtag, Downloads, Order, Wanted, Fresh, Writing, Schema!fetched
  <2> QED
    BY <2>2, <2>3
<1>8. CASE Schema!WriteLayer
  <2>1. Schema!TypeOK' /\ Files'
    BY <1>8 DEF Schema!WriteLayer, Schema!TypeOK, Files, Schema!fetched, Schema!use
  <2>2. Downloads' /\ Order' /\ Wanted' /\ Schema!LayerIsOfText'
    BY <1>8 DEF Schema!WriteLayer, Downloads, Order, Wanted, Schema!LayerIsOfText, Writing, Schema!fetched, Schema!use
  <2> QED
    BY <2>1, <2>2
<1> HIDE DEF CacheInv
<1> QED
  BY <1>1, <1>4, <1>5, <1>6, <1>7, <1>8 DEF Schema!WriteFiles

\* Every step.
LEMMA NextKeepsCache ==
  ASSUME Schema!SchemaAssumption, CacheInv, [Schema!Next]_(Schema!vars) PROVE CacheInv'
<1>1. ASSUME Schema!Fault PROVE faults' \in 0 .. MaxFaults
  BY <1>1, SMTT(60) DEF Schema!Fault, CacheInv, Schema!TypeOK, Schema!SchemaAssumption
<1>2. CASE Schema!Crash
  BY <1>1, <1>2, SchemaEndKeeps DEF Schema!Crash
<1>3. CASE Schema!WriteFails
  BY <1>1, <1>3, FailKeeps DEF Schema!WriteFails
<1>4. CASE Schema!LoadFails
  BY <1>1, <1>4, FailKeeps DEF Schema!LoadFails
<1>5. CASE UNCHANGED Schema!vars
  BY <1>5 DEF Schema!vars, Schema!disk, Schema!fetched, Schema!use, CacheInv, Schema!TypeOK, Files, Downloads, Order,
     Wanted, Schema!LayerIsOfText, Fresh
<1> QED
  BY <1>2, <1>3, <1>4, <1>5, QuietKeeps, DownloadKeeps, WriteKeeps DEF Schema!Next, Schema!Step

\* The invariant, in every state.
THEOREM CacheIsConsistent ==
  ASSUME Schema!SchemaAssumption PROVE Schema!Spec => []CacheInv
<1>1. Schema!Init => CacheInv
  BY InitCache
<1>2. CacheInv /\ [Schema!Next]_(Schema!vars) => CacheInv'
  BY NextKeepsCache
<1> QED
  BY <1>1, <1>2, PTL DEF Schema!Spec

\* An etag never names a newer text than its file holds, wherever the writes or
\* the process end.
THEOREM EtagsNeverAhead ==
  ASSUME Schema!SchemaAssumption PROVE Schema!Spec => []Schema!EtagsNotAhead
<1>1. CacheInv => Schema!EtagsNotAhead
  BY DEF CacheInv, Files, Schema!EtagsNotAhead
<1> QED
  BY <1>1, CacheIsConsistent, PTL

\* The schema in use is always that of the layer the client tells the server,
\* whatever upstream publishes between two downloads.
THEOREM LayerAlwaysOfText ==
  ASSUME Schema!SchemaAssumption PROVE Schema!Spec => []Schema!LayerIsOfText
<1>1. CacheInv => Schema!LayerIsOfText
  BY DEF CacheInv
<1> QED
  BY <1>1, CacheIsConsistent, PTL

-----------------------------------------------------------------------------
(* The states of conversations *)

States == [data : SUBSET (0 .. MaxTime), expiry : Nat \union {-1}]

\* None is a state that is never alive, and Living picks states.
LEMMA LivingTypes ==
  ASSUME Fsm!TypeOK, NEW table \in [Keys -> States]
  PROVE  /\ Fsm!None \in States /\ Fsm!Empty \in [Keys -> States]
         /\ Fsm!Living(table) \in [Keys -> States]
<1>1. Fsm!None \in States
  BY DEF Fsm!None, States
<1> QED
  BY <1>1 DEF Fsm!Empty, Fsm!Living

\* What lives of what lives is what lives.
LEMMA LivingTwice ==
  ASSUME Fsm!TypeOK, NEW table \in [Keys -> States]
  PROVE  Fsm!Living(Fsm!Living(table)) = Fsm!Living(table)
<1>1. ~(Fsm!None.expiry > now)
  BY SMT DEF Fsm!None, Fsm!TypeOK
<1>2. ASSUME NEW k \in Keys
      PROVE  Fsm!Living(Fsm!Living(table))[k] = Fsm!Living(table)[k]
  BY <1>1 DEF Fsm!Living
<1> QED
  BY <1>2 DEF Fsm!Living

\* Two tables of which the same lives are alike later, too.
LEMMA LivingLater ==
  ASSUME Fsm!FsmAssumption, Fsm!TypeOK, now' = now + 1, UNCHANGED <<states, saved>>,
         Fsm!Living(saved) = Fsm!Living(states)
  PROVE  Fsm!Living(saved)' = Fsm!Living(states)'
<1>1. ASSUME NEW k \in Keys
      PROVE  (IF saved[k].expiry > now' THEN saved[k] ELSE Fsm!None)
               = (IF states[k].expiry > now' THEN states[k] ELSE Fsm!None)
  <2>1. (IF saved[k].expiry > now THEN saved[k] ELSE Fsm!None)
          = (IF states[k].expiry > now THEN states[k] ELSE Fsm!None)
    <3>1. Fsm!Living(saved)[k] = Fsm!Living(states)[k]
      OBVIOUS
    <3> QED
      BY <3>1 DEF Fsm!Living
  <2>2. saved[k].expiry \in Int /\ states[k].expiry \in Int /\ now \in Int
    BY DEF Fsm!TypeOK, States
  <2>3. Fsm!None.expiry = -1 /\ now >= 0
    BY DEF Fsm!None, Fsm!TypeOK
  <2> QED
    BY <2>1, <2>2, <2>3, SMT
<1> QED
  BY <1>1 DEF Fsm!Living

-----------------------------------------------------------------------------
\* The types, with States named.
LEMMA FsmTypes ==
  Fsm!TypeOK <=> /\ now \in 0 .. MaxTime /\ fails \in 0 .. MaxSaves
             /\ states \in [Keys -> States] /\ saved \in [Keys -> States]
             /\ running \in BOOLEAN /\ behind \in BOOLEAN
BY DEF Fsm!TypeOK, States

\* The first state.
LEMMA InitFsm ==
  ASSUME Fsm!FsmAssumption, Fsm!Init PROVE Fsm!TypeOK /\ Fsm!SurvivesRestart
<1>1. 0 \in 0 .. MaxTime /\ 0 \in 0 .. MaxSaves
  BY DEF Fsm!FsmAssumption
<1>2. Fsm!Empty \in [Keys -> States]
  BY DEF Fsm!Empty, Fsm!None, States
<1> QED
  BY <1>1, <1>2, FsmTypes DEF Fsm!Init, Fsm!SurvivesRestart

\* A change that is saved leaves the backend with what lives; one that could not
\* be saved leaves it behind.
LEMMA ChangedKeeps ==
  ASSUME Fsm!FsmAssumption, Fsm!TypeOK, NEW table \in [Keys -> States], Fsm!Changed(table)
  PROVE  Fsm!TypeOK' /\ Fsm!SurvivesRestart'
<1>1. now \in 0 .. MaxTime /\ fails \in 0 .. MaxSaves /\ running \in BOOLEAN
      /\ saved \in [Keys -> States]
  BY FsmTypes
<1>2. Fsm!Living(table) \in [Keys -> States]
  BY LivingTypes
<1>3. fails' \in 0 .. MaxSaves
  BY <1>1, SMT DEF Fsm!Changed, Fsm!FsmAssumption
<1>4. Fsm!TypeOK'
  BY <1>1, <1>2, <1>3, FsmTypes DEF Fsm!Changed, Fsm!TypeOK, States
<1>5. Fsm!SurvivesRestart'
  BY <1>2, LivingTwice DEF Fsm!Changed, Fsm!SurvivesRestart, Fsm!Living
<1> QED
  BY <1>4, <1>5

\* Every step.
LEMMA NextKeepsFsm ==
  ASSUME Fsm!FsmAssumption, Fsm!TypeOK, Fsm!SurvivesRestart, [Fsm!Next]_(Fsm!vars)
  PROVE  Fsm!TypeOK' /\ Fsm!SurvivesRestart'
<1>1. /\ now \in 0 .. MaxTime /\ fails \in 0 .. MaxSaves
      /\ states \in [Keys -> States] /\ saved \in [Keys -> States]
      /\ running \in BOOLEAN /\ behind \in BOOLEAN
  BY FsmTypes
<1>2. Fsm!None \in States /\ Fsm!Empty \in [Keys -> States] /\ Fsm!Living(saved) \in [Keys -> States]
  BY <1>1, LivingTypes
<1>3. ASSUME NEW k \in Keys, NEW ttl \in Ttls, Fsm!Set(k, ttl)
      PROVE  Fsm!TypeOK' /\ Fsm!SurvivesRestart'
  <2> DEFINE renewed == [data |-> (IF states[k].expiry > now THEN states[k].data ELSE {})
                                  \union {now},
                       expiry |-> now + ttl]
  <2>1. now + ttl \in Nat
    BY <1>1 DEF Fsm!FsmAssumption
  <2>2. states[k].data \in SUBSET (0 .. MaxTime)
    BY <1>1 DEF States
  <2>3. renewed \in States
    BY <1>1, <2>1, <2>2 DEF States
  <2>4. [states EXCEPT ![k] = renewed] \in [Keys -> States]
    <3> HIDE DEF renewed
    <3> QED
      BY <1>1, <2>3
  <2>5. Fsm!Changed([states EXCEPT ![k] = renewed])
    BY <1>3 DEF Fsm!Set
  <2> HIDE DEF renewed
  <2> QED
    BY <2>4, <2>5, ChangedKeeps
<1>4. ASSUME NEW k \in Keys, Fsm!Get(k) \/ Fsm!Clear(k)
      PROVE  Fsm!TypeOK' /\ Fsm!SurvivesRestart'
  <2>1. [states EXCEPT ![k] = Fsm!None] \in [Keys -> States]
    BY <1>1, <1>2
  <2> QED
    BY <1>4, <2>1, ChangedKeeps DEF Fsm!Get, Fsm!Clear
<1>5. CASE Fsm!Cleanup
  <2>1. [k \in Keys |-> IF now > states[k].expiry THEN Fsm!None ELSE states[k]]
          \in [Keys -> States]
    BY <1>1, <1>2
  <2> QED
    BY <1>5, <2>1, ChangedKeeps DEF Fsm!Cleanup
<1>6. CASE Fsm!Stop
  <2>1. Fsm!TypeOK'
    BY <1>1, <1>2, <1>6 DEF Fsm!Stop, Fsm!TypeOK, States
  <2> QED
    BY <1>6, <2>1 DEF Fsm!Stop, Fsm!SurvivesRestart
<1>7. CASE Fsm!Start
  <2>1. Fsm!TypeOK'
    BY <1>1, <1>2, <1>7 DEF Fsm!Start, Fsm!TypeOK, States
  <2>2. Fsm!SurvivesRestart'
    BY <1>1, <1>7, LivingTwice DEF Fsm!Start, Fsm!SurvivesRestart, Fsm!Living
  <2> QED
    BY <2>1, <2>2
<1>8. CASE Fsm!Tick
  <2>1. now' \in 0 .. MaxTime
    BY <1>1, <1>8 DEF Fsm!Tick, Fsm!FsmAssumption
  <2>2. Fsm!TypeOK'
    BY <1>1, <1>8, <2>1 DEF Fsm!Tick, Fsm!TypeOK, States
  <2>3. Fsm!SurvivesRestart'
    BY <1>8, LivingLater DEF Fsm!Tick, Fsm!SurvivesRestart
  <2> QED
    BY <2>2, <2>3
<1>9. CASE UNCHANGED Fsm!vars
  BY <1>9 DEF Fsm!vars, Fsm!TypeOK, Fsm!SurvivesRestart, Fsm!Living
<1> QED
  BY <1>3, <1>4, <1>5, <1>6, <1>7, <1>8, <1>9 DEF Fsm!Next

-----------------------------------------------------------------------------
\* The table and what the backend holds have their types, and unless the backend
\* is known to be behind, a restart at any moment finds the states that live:
\* with their data, and none that was cleared or has expired.
THEOREM RestartFindsTheLiving ==
  ASSUME Fsm!FsmAssumption PROVE Fsm!Spec => [](Fsm!TypeOK /\ Fsm!SurvivesRestart)
<1>1. Fsm!Init => Fsm!TypeOK /\ Fsm!SurvivesRestart
  BY InitFsm
<1>2. (Fsm!TypeOK /\ Fsm!SurvivesRestart) /\ [Fsm!Next]_(Fsm!vars) => (Fsm!TypeOK /\ Fsm!SurvivesRestart)'
  BY NextKeepsFsm
<1> QED
  BY <1>1, <1>2, PTL DEF Fsm!Spec

-----------------------------------------------------------------------------
(* The session on disk *)

VaultFiles == [key : 0 .. MaxMade, full : SUBSET Ids]
Accepted == granted \union refused

\* A key that is written down, or is about to be, is one the server has accepted.
KeysAreAccepted ==
  /\ disk.key # 0 => disk.key \in Accepted
  /\ held.key # 0 => held.key \in Accepted

\* Memory has what the vault has, what the bootstrap has read and what the
\* close was to save.
MemoryHasAll ==
  Vault!Up => disk.full \subseteq Vault!Full /\ held.full \subseteq Vault!Full /\ known \subseteq Vault!Full

\* What the vault lacks will be written.
LacksAreDue == Vault!Up /\ ~older /\ ~(Vault!Full \subseteq disk.full) => dirty /\ timer

\* What the close was to save is saved, while the process runs and afterwards.
CloseHasSaved == ~older => known \subseteq disk.full

Entities == MemoryHasAll /\ LacksAreDue /\ CloseHasSaved
VaultInv == Vault!TypeOK /\ KeysAreAccepted /\ Entities

-----------------------------------------------------------------------------
\* The types, one by one.
LEMMA VaultTypes ==
  Vault!TypeOK <=>
    /\ bot \in BOOLEAN /\ retried \in BOOLEAN
    /\ dirty \in BOOLEAN /\ timer \in BOOLEAN /\ older \in BOOLEAN
    /\ phase \in {"down", "probe", "login", "run", "broken", "closing"}
    /\ authKey \in 0 .. MaxMade /\ exchanged \in 0 .. MaxMade
    /\ granted \subseteq 1 .. MaxMade /\ refused \subseteq 1 .. MaxMade
    /\ mem \in [Ids -> {"none", "bare", "full"}]
    /\ disk \in VaultFiles /\ held \in VaultFiles
    /\ known \subseteq Ids /\ trouble \in 0 .. MaxTrouble
BY DEF Vault!TypeOK, VaultFiles

\* The invariant says what the property says.
LEMMA VaultInvImplies == VaultInv => Vault!SessionSurvives
BY DEF VaultInv, KeysAreAccepted, Entities, MemoryHasAll, LacksAreDue, CloseHasSaved,
       Vault!SessionSurvives, Accepted

\* Trouble is counted up to its bound.
LEMMA TroubleTypes ==
  ASSUME Vault!VaultAssumption, trouble \in 0 .. MaxTrouble, Vault!Trouble
  PROVE  trouble' \in 0 .. MaxTrouble
BY SMT DEF Vault!VaultAssumption, Vault!Trouble

\* The first state.
LEMMA InitVault == ASSUME Vault!VaultAssumption, Vault!Init PROVE VaultInv
<1>1. 0 \in 0 .. MaxMade /\ 0 \in 0 .. MaxTrouble
  BY SMT DEF Vault!VaultAssumption
<1>2. Vault!NoVault \in VaultFiles /\ Vault!NoVault.key = 0 /\ Vault!NoVault.full = {}
  BY <1>1 DEF Vault!NoVault, VaultFiles
<1>3. Vault!TypeOK
  BY <1>1, <1>2, VaultTypes DEF Vault!Init
<1>4. KeysAreAccepted
  BY <1>2 DEF Vault!Init, KeysAreAccepted
<1>5. Entities
  BY <1>2 DEF Vault!Init, Entities, MemoryHasAll, LacksAreDue, CloseHasSaved, Vault!Up
<1> QED
  BY <1>3, <1>4, <1>5 DEF VaultInv

-----------------------------------------------------------------------------
(* Replacing the vault. *)

\* The vault is replaced by a file of which memory has every access hash: what
\* the file lacks then counts as behind.
LEMMA WriteKeepsEntities ==
  ASSUME Vault!TypeOK, Entities, NEW vault \in VaultFiles, Vault!Up, Vault!Up', mem' = mem, known' = known,
         vault.full \subseteq Vault!Full, Vault!Write(vault),
         held' = held \/ held' = disk'
  PROVE  Entities'
<1>1. Vault!Full' = Vault!Full
  BY DEF Vault!Full
<1>2. disk' = vault
  BY DEF Vault!Write
<1>3. held'.full \subseteq Vault!Full
  BY <1>2 DEF Entities, MemoryHasAll
<1>4. MemoryHasAll'
  BY <1>1, <1>2, <1>3 DEF Entities, MemoryHasAll
<1>5. older' \/ Vault!Full \subseteq disk'.full
  BY <1>2 DEF Vault!Write
<1>6. LacksAreDue'
  BY <1>1, <1>5 DEF LacksAreDue
<1>7. CloseHasSaved'
  <2>1. known \subseteq Vault!Full
    BY DEF Entities, MemoryHasAll
  <2> QED
    BY <1>5, <2>1 DEF CloseHasSaved
<1> QED
  BY <1>4, <1>6, <1>7 DEF Entities

\* The flush merges, so that nothing is lost in the vault, and what memory has
\* is in it unless the flush has failed or there is no vault.
LEMMA FlushMerges ==
  ASSUME Vault!VaultAssumption, Vault!TypeOK, Entities, Vault!Up, NEW must \in BOOLEAN, Vault!Flush(must)
  PROVE  /\ disk' \in VaultFiles /\ disk'.key = disk.key
         /\ dirty' \in BOOLEAN /\ older' \in BOOLEAN /\ trouble' \in 0 .. MaxTrouble
         /\ disk.full \subseteq disk'.full /\ disk'.full \subseteq Vault!Full
         /\ (must \/ dirty) /\ ~older' => Vault!Full \subseteq disk'.full
         /\ ~(must \/ dirty) => disk' = disk
         /\ ~(must \/ dirty) /\ ~older' => ~older
<1>1. /\ dirty \in BOOLEAN /\ older \in BOOLEAN /\ trouble \in 0 .. MaxTrouble
      /\ disk \in VaultFiles /\ mem \in [Ids -> {"none", "bare", "full"}]
  BY VaultTypes
<1>2. Vault!Full \subseteq Ids /\ disk.full \subseteq Vault!Full
  BY DEF Vault!Full, Entities, MemoryHasAll
<1>3. CASE (must \/ dirty) /\ Vault!CanFlush /\ disk' = Vault!Merged /\ dirty' = FALSE
           /\ older' = FALSE /\ trouble' = trouble
  <2>1. Vault!Merged \in VaultFiles /\ Vault!Merged.key = disk.key /\ Vault!Merged.full = disk.full \union Vault!Full
    BY <1>1, <1>2 DEF Vault!Merged, VaultFiles
  <2> QED
    BY <1>1, <1>2, <1>3, <2>1
<1>4. CASE (must \/ dirty) /\ Vault!CanFlush /\ Vault!Trouble /\ older' = TRUE
           /\ UNCHANGED <<disk, dirty>>
  BY <1>1, <1>2, <1>4, TroubleTypes
<1>5. CASE ~((must \/ dirty) /\ Vault!CanFlush)
           /\ older' = (older \/ (disk.key = 0 /\ Vault!Full # {}))
           /\ UNCHANGED <<disk, dirty, trouble>>
  <2>1. ~Vault!CanFlush /\ ~older' => Vault!Full = {}
    <3>1. (\A i \in Ids : mem[i] = "none") => Vault!Full = {}
      BY DEF Vault!Full
    <3> QED
      BY <1>5, <3>1 DEF Vault!CanFlush
  <2>2. older' \in BOOLEAN
    BY <1>5
  <2> QED
    BY <1>1, <1>2, <1>5, <2>1, <2>2
<1> QED
  BY <1>3, <1>4, <1>5 DEF Vault!Flush

-----------------------------------------------------------------------------
(* The actions. *)

LEMMA StartKeeps == ASSUME Vault!VaultAssumption, VaultInv, Vault!Start PROVE VaultInv'
<1>1. Vault!TypeOK /\ KeysAreAccepted
  BY DEF VaultInv
<1>2. disk \in VaultFiles /\ exchanged \in 0 .. MaxMade /\ trouble \in 0 .. MaxTrouble
  BY <1>1, VaultTypes
<1>3. mem' \in [Ids -> {"none", "bare", "full"}] /\ Vault!Full' = disk.full
  BY <1>2 DEF Vault!Start, Vault!Full, VaultFiles
<1>4. authKey' \in 0 .. MaxMade /\ exchanged' \in 0 .. MaxMade /\ trouble' \in 0 .. MaxTrouble
  <2>1. CASE authKey' = disk.key /\ UNCHANGED <<exchanged, trouble>>
    BY <1>2, <2>1 DEF VaultFiles
  <2>2. CASE exchanged < MaxMade /\ Vault!Trouble /\ exchanged' = exchanged + 1 /\ authKey' = exchanged'
    <3>1. trouble' \in 0 .. MaxTrouble
      BY <1>2, <2>2, TroubleTypes
    <3>2. exchanged' \in 0 .. MaxMade
      BY <1>2, <2>2, SMT DEF Vault!VaultAssumption
    <3> QED
      BY <2>2, <3>1, <3>2
  <2> QED
    BY <2>1, <2>2 DEF Vault!Start
<1>5. timer' \in BOOLEAN /\ dirty' = FALSE /\ older' = FALSE /\ retried' = TRUE
      /\ held' = disk /\ known' = {} /\ phase' \in {"login", "probe"}
      /\ UNCHANGED <<bot, granted, refused, disk>>
  BY Zenon DEF Vault!Start
<1>6. Vault!TypeOK'
  BY <1>1, <1>2, <1>3, <1>4, <1>5, VaultTypes DEF Vault!TypeOK, VaultFiles
<1>7. KeysAreAccepted'
  BY <1>1, <1>5 DEF KeysAreAccepted, Accepted
<1>8. Entities'
  BY <1>3, <1>5 DEF Entities, MemoryHasAll, LacksAreDue, CloseHasSaved
<1> QED
  BY <1>6, <1>7, <1>8 DEF VaultInv

LEMMA ProbedKeeps == ASSUME Vault!VaultAssumption, VaultInv, Vault!Probed PROVE VaultInv'
<1>1. Vault!TypeOK /\ KeysAreAccepted /\ Entities
  BY DEF VaultInv
<1>2. held \in VaultFiles /\ authKey \in 0 .. MaxMade /\ older \in BOOLEAN
  BY <1>1, VaultTypes
<1> DEFINE vault == [held EXCEPT !.key = authKey]
<1>3. vault \in VaultFiles /\ vault.full = held.full /\ vault.key = authKey
  BY <1>2 DEF VaultFiles
<1>4. Vault!Up /\ Vault!Up' /\ held' = disk' /\ Vault!Write(vault) /\ disk' = vault
  BY DEF Vault!Probed, Vault!Up, Vault!Write
<1>5. UNCHANGED <<bot, retried, authKey, mem, dirty, timer, exchanged, granted, refused, known, trouble>>
      /\ phase' = "run" /\ authKey \in granted
  BY DEF Vault!Probed, Vault!server
<1> HIDE DEF vault
<1>6. Vault!TypeOK'
  <2>1. older' \in BOOLEAN
    BY <1>4 DEF Vault!Write
  <2> QED
    BY <1>1, <1>3, <1>4, <1>5, <2>1, VaultTypes DEF Vault!TypeOK, VaultFiles
<1>7. KeysAreAccepted'
  BY <1>3, <1>4, <1>5 DEF KeysAreAccepted, Accepted
<1>8. vault.full \subseteq Vault!Full
  BY <1>1, <1>3, <1>4 DEF Entities, MemoryHasAll
<1>9. Entities'
  BY <1>1, <1>3, <1>4, <1>5, <1>8, WriteKeepsEntities
<1> QED
  BY <1>6, <1>7, <1>9 DEF VaultInv

\* A step of the bootstrap or of the login that touches neither the vault nor
\* the entities.
LEMMA BootKeeps ==
  ASSUME VaultInv, Vault!Up, Vault!Up', phase' \in {"login", "run", "broken"},
         retried' \in BOOLEAN, authKey' \in 0 .. MaxMade, exchanged' \in 0 .. MaxMade,
         granted \subseteq granted', granted' \subseteq 1 .. MaxMade,
         trouble' \in 0 .. MaxTrouble,
         UNCHANGED <<bot, mem, dirty, timer, held, refused, disk, older, known>>
  PROVE  VaultInv'
<1>1. Vault!TypeOK /\ KeysAreAccepted /\ Entities
  BY DEF VaultInv
<1>2. Vault!TypeOK'
  BY <1>1, VaultTypes DEF Vault!TypeOK, VaultFiles
<1>3. KeysAreAccepted'
  BY <1>1 DEF KeysAreAccepted, Accepted
<1>4. Entities'
  BY <1>1 DEF Entities, MemoryHasAll, LacksAreDue, CloseHasSaved, Vault!Full
<1> QED
  BY <1>2, <1>3, <1>4 DEF VaultInv

LEMMA ProbeEnds ==
  ASSUME Vault!VaultAssumption, VaultInv, Vault!Restored \/ Vault!Refused \/ Vault!GiveUp PROVE VaultInv'
<1>1. Vault!TypeOK
  BY DEF VaultInv
<1>2. /\ retried \in BOOLEAN /\ authKey \in 0 .. MaxMade /\ exchanged \in 0 .. MaxMade
      /\ granted \subseteq 1 .. MaxMade /\ trouble \in 0 .. MaxTrouble
      /\ 0 \in 0 .. MaxMade
  BY <1>1, VaultTypes, SMT DEF Vault!VaultAssumption
<1>3. CASE Vault!Restored
  BY <1>2, <1>3, BootKeeps DEF Vault!Restored, Vault!Up, Vault!memory, Vault!server, Vault!history
<1>4. CASE Vault!Refused
  <2>1. authKey' \in 0 .. MaxMade /\ exchanged' \in 0 .. MaxMade
    BY <1>2, <1>4, SMT DEF Vault!Refused, Vault!VaultAssumption
  <2> QED
    BY <1>2, <1>4, <2>1, BootKeeps DEF Vault!Refused, Vault!Up, Vault!history
<1>5. CASE Vault!GiveUp
  <2>1. trouble' \in 0 .. MaxTrouble
    BY <1>2, <1>5, TroubleTypes DEF Vault!GiveUp
  <2> QED
    BY <1>2, <1>5, <2>1, BootKeeps DEF Vault!GiveUp, Vault!Up, Vault!server
<1> QED
  BY <1>3, <1>4, <1>5

\* What a request of the login does to the keys.
LEMMA RequestTypes ==
  ASSUME Vault!VaultAssumption, Vault!TypeOK, NEW k \in 1 .. MaxMade, Vault!Request(k)
  PROVE  exchanged' \in 0 .. MaxMade /\ k \in 0 .. MaxMade /\ Vault!Up
         /\ UNCHANGED <<bot, mem, dirty, timer, refused, known>>
<1>1. exchanged \in 0 .. MaxMade /\ k \in 0 .. MaxMade
  BY VaultTypes, SMT DEF Vault!VaultAssumption
<1> QED
  BY <1>1 DEF Vault!Request, Vault!Up

LEMMA LoggedInKeeps ==
  ASSUME Vault!VaultAssumption, VaultInv, NEW k \in 1 .. MaxMade, Vault!LoggedIn(k) PROVE VaultInv'
<1>1. Vault!TypeOK /\ KeysAreAccepted /\ Entities
  BY DEF VaultInv
<1>2. /\ retried \in BOOLEAN /\ granted \subseteq 1 .. MaxMade
      /\ trouble \in 0 .. MaxTrouble /\ 0 \in 0 .. MaxMade
  BY <1>1, VaultTypes, SMT DEF Vault!VaultAssumption
<1>3. exchanged' \in 0 .. MaxMade /\ k \in 0 .. MaxMade /\ Vault!Up
      /\ UNCHANGED <<bot, mem, dirty, timer, refused, known>>
  BY <1>1, RequestTypes DEF Vault!LoggedIn
<1>4. granted' = granted \union {k}
  BY DEF Vault!LoggedIn
<1> DEFINE vault == [key |-> k, full |-> {}]
<1>5. vault \in VaultFiles /\ vault.full \subseteq Vault!Full /\ vault.key = k
  BY <1>3 DEF VaultFiles
<1>6. CASE Vault!Write(vault) /\ held' = disk' /\ authKey' = k /\ phase' = "run"
           /\ UNCHANGED <<retried, trouble>>
  <2> HIDE DEF vault
  <2>1. disk' = vault /\ older' \in BOOLEAN /\ Vault!Up'
    BY <1>6 DEF Vault!Write, Vault!Up
  <2>2. Vault!TypeOK'
    BY <1>1, <1>2, <1>3, <1>4, <1>5, <1>6, <2>1, VaultTypes DEF Vault!TypeOK, VaultFiles
  <2>3. KeysAreAccepted'
    BY <1>4, <1>5, <1>6, <2>1 DEF KeysAreAccepted, Accepted
  <2>4. Entities'
    BY <1>1, <1>3, <1>5, <1>6, <2>1, WriteKeepsEntities
  <2> QED
    BY <2>2, <2>3, <2>4 DEF VaultInv
<1>7. CASE /\ Vault!Trouble /\ UNCHANGED <<disk, held, older>>
           /\ \/ Vault!SecondAttempt
              \/ (~bot \/ retried) /\ authKey' = k /\ phase' = "broken" /\ UNCHANGED retried
  <2>1. trouble' \in 0 .. MaxTrouble
    BY <1>2, <1>7, TroubleTypes
  <2>2. phase' \in {"login", "broken"} /\ authKey' \in {0, k} /\ retried' \in {TRUE, retried}
    BY <1>7 DEF Vault!SecondAttempt
  <2> QED
    BY <1>2, <1>3, <1>4, <1>7, <2>1, <2>2, BootKeeps DEF Vault!Up
<1> QED
  BY <1>6, <1>7 DEF Vault!LoggedIn

LEMMA LoginFailsKeeps ==
  ASSUME Vault!VaultAssumption, VaultInv, NEW k \in 1 .. MaxMade, Vault!LoginFails(k) PROVE VaultInv'
<1>1. Vault!TypeOK
  BY DEF VaultInv
<1>2. /\ retried \in BOOLEAN /\ granted \subseteq 1 .. MaxMade /\ authKey \in 0 .. MaxMade
      /\ trouble \in 0 .. MaxTrouble /\ 0 \in 0 .. MaxMade
  BY <1>1, VaultTypes, SMT DEF Vault!VaultAssumption
<1>3. exchanged' \in 0 .. MaxMade /\ k \in 0 .. MaxMade /\ Vault!Up
      /\ UNCHANGED <<bot, mem, dirty, timer, refused, known>>
  BY <1>1, RequestTypes DEF Vault!LoginFails
<1>4. trouble' \in 0 .. MaxTrouble
  BY <1>2, TroubleTypes DEF Vault!LoginFails
<1>5. phase' \in {"login", "run"} /\ authKey' \in {0, authKey, k} /\ retried' \in {TRUE, retried}
  BY DEF Vault!LoginFails, Vault!SecondAttempt
<1> QED
  BY <1>2, <1>3, <1>4, <1>5, BootKeeps DEF Vault!LoginFails, Vault!Up

LEMMA IngestKeeps ==
  ASSUME VaultInv, NEW i \in Ids, NEW what \in {"bare", "full"}, Vault!Ingest(i, what)
  PROVE  VaultInv'
<1>1. Vault!TypeOK /\ KeysAreAccepted /\ Entities
  BY DEF VaultInv
<1>2. mem' \in [Ids -> {"none", "bare", "full"}] /\ Vault!Full \subseteq Vault!Full'
  <2>1. mem \in [Ids -> {"none", "bare", "full"}]
    BY <1>1, VaultTypes
  <2> QED
    BY <2>1 DEF Vault!Ingest, Vault!Full
<1>3. dirty' = TRUE /\ timer' = TRUE /\ Vault!Up /\ Vault!Up'
      /\ UNCHANGED <<bot, phase, retried, authKey, held, exchanged, granted, refused, disk,
                     older, known, trouble>>
  BY DEF Vault!Ingest, Vault!Up, Vault!server, Vault!history
<1>4. Vault!TypeOK'
  BY <1>1, <1>2, <1>3, VaultTypes DEF Vault!TypeOK, VaultFiles
<1>5. KeysAreAccepted'
  BY <1>1, <1>3 DEF KeysAreAccepted, Accepted
<1>6. Entities'
  BY <1>1, <1>2, <1>3 DEF Entities, MemoryHasAll, LacksAreDue, CloseHasSaved
<1> QED
  BY <1>4, <1>5, <1>6 DEF VaultInv

LEMMA TimerFiresKeeps == ASSUME Vault!VaultAssumption, VaultInv, Vault!TimerFires PROVE VaultInv'
<1>1. Vault!TypeOK /\ KeysAreAccepted /\ Entities /\ dirty \in BOOLEAN
  BY VaultTypes DEF VaultInv
<1>2. Vault!Up /\ Vault!Up' /\ Vault!Flush(FALSE) /\ timer' = FALSE
      /\ UNCHANGED <<bot, phase, retried, authKey, mem, held, exchanged, granted, refused, known>>
  BY DEF Vault!TimerFires, Vault!Up, Vault!server
<1>3. /\ disk' \in VaultFiles /\ disk'.key = disk.key
      /\ dirty' \in BOOLEAN /\ older' \in BOOLEAN /\ trouble' \in 0 .. MaxTrouble
      /\ disk.full \subseteq disk'.full /\ disk'.full \subseteq Vault!Full
      /\ dirty /\ ~older' => Vault!Full \subseteq disk'.full
      /\ ~dirty => disk' = disk
      /\ ~dirty /\ ~older' => ~older
  BY <1>1, <1>2, FlushMerges
<1>4. Vault!Full' = Vault!Full
  BY <1>2 DEF Vault!Full
<1>5. Vault!TypeOK'
  BY <1>1, <1>2, <1>3, VaultTypes DEF Vault!TypeOK, VaultFiles
<1>6. KeysAreAccepted'
  BY <1>1, <1>2, <1>3 DEF KeysAreAccepted, Accepted
<1>7. ~older' => Vault!Full \subseteq disk'.full
  BY <1>1, <1>2, <1>3 DEF Entities, LacksAreDue
<1>8. known \subseteq Vault!Full /\ held.full \subseteq Vault!Full
  BY <1>1, <1>2 DEF Entities, MemoryHasAll
<1>9. Entities'
  BY <1>2, <1>3, <1>4, <1>7, <1>8
     DEF Entities, MemoryHasAll, LacksAreDue, CloseHasSaved
<1> QED
  BY <1>5, <1>6, <1>9 DEF VaultInv

LEMMA SaveKeeps == ASSUME Vault!VaultAssumption, VaultInv, Vault!Save PROVE VaultInv'
<1>1. Vault!TypeOK /\ KeysAreAccepted /\ Entities
  BY DEF VaultInv
<1>2. held \in VaultFiles /\ trouble \in 0 .. MaxTrouble
  BY <1>1, VaultTypes
<1>3. Vault!Up /\ Vault!Up' /\ Vault!Write(held) /\ disk' = held /\ older' \in BOOLEAN
      /\ UNCHANGED <<bot, phase, retried, authKey, mem, dirty, timer, held, exchanged, granted,
                     refused, known>>
  BY DEF Vault!Save, Vault!Up, Vault!Write, Vault!memory, Vault!server
<1>4. trouble' \in 0 .. MaxTrouble
  BY <1>2, TroubleTypes DEF Vault!Save
<1>5. Vault!TypeOK'
  BY <1>1, <1>2, <1>3, <1>4, VaultTypes DEF Vault!TypeOK, VaultFiles
<1>6. KeysAreAccepted'
  BY <1>1, <1>3 DEF KeysAreAccepted, Accepted
<1>7. held.full \subseteq Vault!Full
  BY <1>1, <1>3 DEF Entities, MemoryHasAll
<1>8. Entities'
  BY <1>1, <1>2, <1>3, <1>7, WriteKeepsEntities
<1> QED
  BY <1>5, <1>6, <1>8 DEF VaultInv

LEMMA CloseKeeps == ASSUME Vault!VaultAssumption, VaultInv, Vault!Close PROVE VaultInv'
<1>1. Vault!TypeOK /\ KeysAreAccepted /\ Entities
  BY DEF VaultInv
<1>2. Vault!Up /\ Vault!Up' /\ Vault!Flush(TRUE) /\ known' = Vault!Full /\ phase' = "closing"
      /\ UNCHANGED <<bot, retried, authKey, mem, timer, held, exchanged, granted, refused>>
  BY DEF Vault!Close, Vault!Up, Vault!server
<1>3. /\ disk' \in VaultFiles /\ disk'.key = disk.key
      /\ dirty' \in BOOLEAN /\ older' \in BOOLEAN /\ trouble' \in 0 .. MaxTrouble
      /\ disk'.full \subseteq Vault!Full
      /\ ~older' => Vault!Full \subseteq disk'.full
  BY <1>1, <1>2, FlushMerges
<1>4. Vault!Full' = Vault!Full /\ Vault!Full \subseteq Ids
  BY <1>2 DEF Vault!Full
<1>5. Vault!TypeOK'
  BY <1>1, <1>2, <1>3, <1>4, VaultTypes DEF Vault!TypeOK, VaultFiles
<1>6. KeysAreAccepted'
  BY <1>1, <1>2, <1>3 DEF KeysAreAccepted, Accepted
<1>7. held.full \subseteq Vault!Full
  BY <1>1, <1>2 DEF Entities, MemoryHasAll
<1>8. MemoryHasAll'
  BY <1>2, <1>3, <1>4, <1>7 DEF MemoryHasAll
<1>9. LacksAreDue'
  BY <1>3, <1>4 DEF LacksAreDue
<1>10. CloseHasSaved'
  BY <1>2, <1>3 DEF CloseHasSaved
<1> QED
  BY <1>5, <1>6, <1>8, <1>9, <1>10 DEF VaultInv, Entities

LEMMA VaultEndKeeps == ASSUME Vault!VaultAssumption, VaultInv, Vault!End PROVE VaultInv'
<1>1. Vault!TypeOK /\ KeysAreAccepted /\ Entities
  BY DEF VaultInv
<1>2. 0 \in 0 .. MaxMade /\ trouble \in 0 .. MaxTrouble /\ known \subseteq Ids
  BY <1>1, VaultTypes, SMT DEF Vault!VaultAssumption
<1>3. Vault!NoVault \in VaultFiles /\ Vault!NoVault.key = 0
  BY <1>2 DEF Vault!NoVault, VaultFiles
<1>4. /\ known' \in {known, {}} /\ phase' = "down" /\ mem' = [i \in Ids |-> "none"]
      /\ dirty' = FALSE /\ timer' = FALSE /\ authKey' = 0 /\ held' = Vault!NoVault
      /\ UNCHANGED <<bot, retried, exchanged, granted, refused, disk, older>>
  BY DEF Vault!End, Vault!server
<1>5. trouble' \in 0 .. MaxTrouble
  BY <1>2, TroubleTypes DEF Vault!End
<1>6. Vault!TypeOK'
  BY <1>1, <1>2, <1>3, <1>4, <1>5, VaultTypes DEF Vault!TypeOK, VaultFiles
<1>7. KeysAreAccepted'
  BY <1>1, <1>3, <1>4 DEF KeysAreAccepted, Accepted
<1>8. Entities'
  BY <1>1, <1>4 DEF Entities, MemoryHasAll, LacksAreDue, CloseHasSaved, Vault!Up
<1> QED
  BY <1>6, <1>7, <1>8 DEF VaultInv

LEMMA RevokeKeeps == ASSUME Vault!VaultAssumption, VaultInv, Vault!Revoke PROVE VaultInv'
<1>1. Vault!TypeOK /\ KeysAreAccepted /\ Entities
  BY DEF VaultInv
<1>2. trouble' \in 0 .. MaxTrouble
  BY <1>1, VaultTypes, TroubleTypes DEF Vault!Revoke
<1>3. PICK k \in granted : granted' = granted \ {k} /\ refused' = refused \union {k}
  BY DEF Vault!Revoke
<1>4. UNCHANGED <<bot, phase, retried, authKey, mem, dirty, timer, held, exchanged, disk, older, known>>
  BY DEF Vault!Revoke, Vault!memory
<1>5. Vault!TypeOK'
  BY <1>1, <1>2, <1>3, <1>4, VaultTypes DEF Vault!TypeOK, VaultFiles
<1>6. KeysAreAccepted'
  BY <1>1, <1>3, <1>4 DEF KeysAreAccepted, Accepted
<1>7. Entities'
  BY <1>1, <1>4 DEF Entities, MemoryHasAll, LacksAreDue, CloseHasSaved, Vault!Up, Vault!Full
<1> QED
  BY <1>5, <1>6, <1>7 DEF VaultInv

-----------------------------------------------------------------------------
LEMMA NextKeepsVault == ASSUME Vault!VaultAssumption, VaultInv, [Vault!Next]_(Vault!vars) PROVE VaultInv'
<1>1. CASE UNCHANGED Vault!vars
  BY <1>1 DEF Vault!vars, Vault!memory, Vault!server, Vault!history, VaultInv, Vault!TypeOK, KeysAreAccepted, Accepted,
              Entities, MemoryHasAll, LacksAreDue, CloseHasSaved, Vault!Up, Vault!Full
<1>2. CASE Vault!Next
  BY <1>2, StartKeeps, ProbedKeeps, ProbeEnds, LoggedInKeeps, LoginFailsKeeps,
     IngestKeeps, TimerFiresKeeps, SaveKeeps, CloseKeeps, VaultEndKeeps, RevokeKeeps
     DEF Vault!Next
<1> QED
  BY <1>1, <1>2

\* The key in the vault is one that the server has accepted, memory has every
\* access hash that the vault has, what the vault lacks is due to be written,
\* and after a close in which no write failed and no older vault came back a
\* restart finds every access hash: for any number of failures, crashes, keys
\* and users.
THEOREM VaultIsSound ==
  ASSUME Vault!VaultAssumption PROVE Vault!Spec => [](Vault!TypeOK /\ Vault!SessionSurvives)
<1>1. Vault!Init => VaultInv
  BY InitVault
<1>2. VaultInv /\ [Vault!Next]_(Vault!vars) => VaultInv'
  BY NextKeepsVault
<1>3. VaultInv => Vault!TypeOK /\ Vault!SessionSurvives
  BY VaultInvImplies DEF VaultInv
<1> QED
  BY <1>1, <1>2, <1>3, PTL DEF Vault!Spec

-----------------------------------------------------------------------------
(* The login *)

\* Nothing is saved before the end, not even by a write that raises.
SavedAtTheEnd == vaultKey # 0 => at \in {"saved", "raised"}

\* A request that can end with an authorised key is made at the data centre
\* of the account.
AsksAtHome == at \in {"import", "code", "password"} => home = account.dc

PhonesLeft == at # "gave up" => retries < MaxPhones

\* Authorised is only the key at the data centre of the account.
GrantAtHome == \A d \in Login!Dcs : standing[d] = "granted" => d = account.dc

LoginInv ==
  /\ Login!TypeOK /\ SavedAtTheEnd /\ GrantAtHome
  /\ AsksAtHome /\ PhonesLeft /\ Login!GrantIsSaved

LEMMA LoginInit == ASSUME Login!LoginAssumption, Login!Init PROVE LoginInv
<1>1. Login!TypeOK
  <2>1. 0 \in 0 .. MaxPhones /\ 0 \in 0 .. MaxExports /\ 0 \in 0 .. MaxErrors
    BY DEF Login!LoginAssumption
  <2> QED
    BY <2>1 DEF Login!Init, Login!TypeOK, Login!Dcs, Login!First
<1>2. SavedAtTheEnd /\ GrantAtHome /\ AsksAtHome /\ PhonesLeft
  BY DEF Login!Init, Login!LoginAssumption, SavedAtTheEnd, GrantAtHome, AsksAtHome, PhonesLeft
<1>3. Login!GrantIsSaved
  BY DEF Login!Init, Login!GrantIsSaved
<1> QED
  BY <1>1, <1>2, <1>3 DEF LoginInv

\* The types of account and data centre, and that of a step's error count.
LEMMA LoginFacts ==
  ASSUME Login!LoginAssumption, LoginInv
  PROVE  /\ account.dc \in Login!Dcs /\ account.password \in BOOLEAN /\ home \in Login!Dcs
         /\ Login!Dcs \subseteq Nat \ {0}
         /\ Login!Error => errors' \in 0 .. MaxErrors
         /\ Login!Result \in {"half", "granted"}
<1>1. account \in [dc : Login!Dcs, password : BOOLEAN] /\ home \in Login!Dcs
      /\ errors \in 0 .. MaxErrors
  BY DEF LoginInv, Login!TypeOK
<1>2. Login!Error => errors' \in 0 .. MaxErrors
  BY <1>1 DEF Login!Error, Login!LoginAssumption
<1> QED
  BY <1>1, <1>2 DEF Login!Dcs, Login!Result

\* A step that leaves keys, data centre and vault alone.
LEMMA LoginGoesOn ==
  ASSUME Login!LoginAssumption, LoginInv,
         UNCHANGED <<account, standing, vaultKey>>, UNCHANGED Login!slips,
         at' = at \/ (vaultKey = 0 /\ at \notin {"saved", "raised"} /\ at' # "saved"),
         Login!TypeOK', AsksAtHome', PhonesLeft'
  PROVE  LoginInv'
  BY DEF LoginInv, SavedAtTheEnd, GrantAtHome, Login!GrantIsSaved, Login!slips

\* A request that proves who the user is, at the data centre of the account,
\* is accepted, asks for a password, or its answer is lost.
LEMMA ProvedKeeps ==
  ASSUME Login!LoginAssumption, LoginInv, at \notin {"saved", "raised"}, home = account.dc,
         at # "gave up",
         UNCHANGED <<account, home, retries, exports>>,
         shown' \in {"none", "shown", "accepted"}, code' \in {"none", "valid", "dead"},
         event' \in BOOLEAN,
         \/ Login!Accepted
         \/ Login!AskPassword
         \/ \E result \in {"half", "granted"} :
              Login!AnswerLost(result, {"show", "raised", "code", "password"})
         \/ Login!Errs({"show", "raised", "code", "password"})
  PROVE  LoginInv'
<1>1. vaultKey = 0 /\ home \in Login!Dcs /\ home # 0 /\ unwritten = FALSE
  BY LoginFacts DEF LoginInv, SavedAtTheEnd, GrantAtHome, Login!GrantIsSaved, Login!TypeOK
<1>2. /\ standing \in [Login!Dcs -> {"new", "half", "granted"}] /\ retries < MaxPhones
      /\ missed \in BOOLEAN /\ unwritten \in BOOLEAN /\ errors \in 0 .. MaxErrors
      /\ account \in [dc : Login!Dcs, password : BOOLEAN]
      /\ retries \in 0 .. MaxPhones /\ exports \in 0 .. MaxExports
  BY DEF LoginInv, Login!TypeOK, PhonesLeft
<1>3. \A d \in Login!Dcs : standing[d] = "granted" => missed /\ d = home
  BY <1>1, LoginFacts DEF LoginInv, GrantAtHome, Login!GrantIsSaved
<1>4. AsksAtHome'
  BY DEF AsksAtHome
<1>5. PhonesLeft'
  BY <1>2 DEF PhonesLeft
<1>6. CASE Login!Accepted
  <2>1. Login!TypeOK'
    BY <1>1, <1>2, <1>6, LoginFacts
       DEF Login!Accepted, Login!Saved, Login!WriteFails, Login!slips, Login!TypeOK
  <2>2. SavedAtTheEnd' /\ GrantAtHome' /\ Login!GrantIsSaved'
    BY <1>1, <1>2, <1>3, <1>6 DEF Login!Accepted, Login!Saved, Login!WriteFails, Login!slips,
         SavedAtTheEnd, GrantAtHome, Login!GrantIsSaved
  <2> QED
    BY <1>4, <1>5, <2>1, <2>2 DEF LoginInv
<1>7. CASE Login!AskPassword
  <2>1. Login!TypeOK'
    BY <1>1, <1>2, <1>7 DEF Login!AskPassword, Login!slips, Login!TypeOK
  <2>2. SavedAtTheEnd' /\ GrantAtHome' /\ Login!GrantIsSaved'
    BY <1>1, <1>2, <1>3, <1>7 DEF Login!AskPassword, Login!slips, SavedAtTheEnd, GrantAtHome, Login!GrantIsSaved
  <2> QED
    BY <1>4, <1>5, <2>1, <2>2 DEF LoginInv
<1>8. ASSUME NEW result \in {"half", "granted"},
             Login!AnswerLost(result, {"show", "raised", "code", "password"})
      PROVE  LoginInv'
  <2>1. errors' \in 0 .. MaxErrors
    BY <1>8, LoginFacts DEF Login!AnswerLost
  <2>2. Login!TypeOK'
    BY <1>1, <1>2, <1>8, <2>1 DEF Login!AnswerLost, Login!TypeOK
  <2>3. SavedAtTheEnd' /\ GrantAtHome' /\ Login!GrantIsSaved'
    BY <1>1, <1>2, <1>3, <1>8 DEF Login!AnswerLost, SavedAtTheEnd, GrantAtHome, Login!GrantIsSaved
  <2> QED
    BY <1>4, <1>5, <2>2, <2>3 DEF LoginInv
<1>9. CASE Login!Errs({"show", "raised", "code", "password"})
  <2>1. errors' \in 0 .. MaxErrors
    BY <1>9, LoginFacts DEF Login!Errs
  <2>2. Login!TypeOK'
    BY <1>1, <1>2, <1>9, <2>1 DEF Login!Errs, Login!slips, Login!TypeOK
  <2>3. SavedAtTheEnd' /\ GrantAtHome' /\ Login!GrantIsSaved'
    BY <1>1, <1>2, <1>3, <1>9 DEF Login!Errs, Login!slips, SavedAtTheEnd, GrantAtHome, Login!GrantIsSaved
  <2> QED
    BY <1>4, <1>5, <2>2, <2>3 DEF LoginInv
<1> QED
  BY <1>6, <1>7, <1>8, <1>9

LEMMA LoginNext == ASSUME Login!LoginAssumption, LoginInv, [Login!Next]_(Login!vars) PROVE LoginInv'
<1> USE DEF Login!Goto, Login!slips
<1>1. /\ account \in [dc : Login!Dcs, password : BOOLEAN] /\ home \in Login!Dcs
      /\ at \in {"menu", "export", "show", "poll", "move", "import", "phone", "code",
                 "password", "saved", "raised", "gave up"}
      /\ standing \in [Login!Dcs -> {"new", "half", "granted"}]
      /\ vaultKey \in Login!Dcs \union {0}
      /\ shown \in {"none", "shown", "accepted"} /\ code \in {"none", "valid", "dead"}
      /\ event \in BOOLEAN /\ missed \in BOOLEAN /\ unwritten \in BOOLEAN /\ retries \in 0 .. MaxPhones
      /\ exports \in 0 .. MaxExports /\ errors \in 0 .. MaxErrors
  BY DEF LoginInv, Login!TypeOK
<1>2. account.dc \in Login!Dcs /\ (Login!Error => errors' \in 0 .. MaxErrors)
      /\ Login!Result \in {"half", "granted"}
  BY LoginFacts
<1>3. at \in {"saved", "raised"} \/ (vaultKey = 0 /\ at \notin {"saved", "raised"})
  BY DEF LoginInv, SavedAtTheEnd
<1>4. MaxPhones \in Nat \ {0} /\ (at # "gave up" => retries < MaxPhones)
  BY DEF LoginInv, PhonesLeft, Login!LoginAssumption
<1>5. at \in {"import", "code", "password"} => home = account.dc
  BY DEF LoginInv, AsksAtHome
<1>6. CASE Login!Choose \/ Login!Scan \/ Login!NewsArrives \/ Login!Woken \/ Login!TimeOver
           \/ Login!CodeDies
  <2>1. UNCHANGED <<account, home, standing, vaultKey, missed, unwritten, retries, exports, errors>>
        /\ (at' = at \/ (vaultKey = 0 /\ at \notin {"saved", "raised"} /\ at' # "saved"))
        /\ (at' = at \/ at' \in {"export", "phone", "poll"}) /\ (at = "gave up" => at' = at)
        /\ shown' \in {"none", "shown", "accepted"} /\ code' \in {"none", "valid", "dead"}
        /\ event' \in BOOLEAN
    BY <1>1, <1>3, <1>6 DEF Login!Choose, Login!Scan, Login!NewsArrives, Login!Woken,
         Login!TimeOver, Login!CodeDies, Login!qr, Login!phone
  <2>2. Login!TypeOK'
    BY <1>1, <2>1 DEF Login!TypeOK
  <2>3. AsksAtHome' /\ PhonesLeft'
    BY <1>4, <1>5, <2>1 DEF AsksAtHome, PhonesLeft
  <2> QED
    BY <2>1, <2>2, <2>3, LoginGoesOn
<1>7. CASE Login!Export
  <2>1. exports' \in 0 .. MaxExports
    BY <1>1, <1>7 DEF Login!Export, Login!LoginAssumption
  <2>2. Login!TypeOK'
    BY <1>1, <1>7, <2>1 DEF Login!Export, Login!TypeOK, Login!phone
  <2>3. AsksAtHome' /\ PhonesLeft' /\ vaultKey = 0
    BY <1>3, <1>4, <1>7 DEF Login!Export, AsksAtHome, PhonesLeft, Login!phone
  <2> QED
    BY <1>7, <2>2, <2>3, LoginGoesOn DEF Login!Export
<1>8. CASE Login!ExportTooLate
  <2>1. Login!TypeOK'
    BY <1>1, <1>2, <1>8 DEF Login!ExportTooLate, Login!TypeOK, Login!qr, Login!phone
  <2>2. SavedAtTheEnd' /\ GrantAtHome' /\ AsksAtHome' /\ PhonesLeft' /\ Login!GrantIsSaved'
    BY <1>1, <1>3, <1>4, <1>8 DEF Login!ExportTooLate, LoginInv, Login!AtHome, SavedAtTheEnd,
         GrantAtHome, AsksAtHome, PhonesLeft,
         Login!GrantIsSaved, Login!phone
  <2> QED
    BY <2>1, <2>2 DEF LoginInv
<1>9. CASE Login!ExportFails \/ Login!MoveFails
  <2>1. /\ UNCHANGED <<account, home, standing, vaultKey, missed, unwritten>> /\ vaultKey = 0
        /\ UNCHANGED <<shown, event, exports, code, retries>>
        /\ at' \in {"phone", "raised"} /\ errors' \in 0 .. MaxErrors
        /\ at \notin {"saved", "raised", "gave up"}
    BY <1>2, <1>3, <1>9 DEF Login!ExportFails, Login!MoveFails, Login!Errs, Login!qr, Login!phone
  <2>2. Login!TypeOK'
    BY <1>1, <2>1 DEF Login!TypeOK
  <2>3. AsksAtHome' /\ PhonesLeft'
    BY <1>4, <2>1 DEF AsksAtHome, PhonesLeft
  <2> QED
    BY <2>1, <2>2, <2>3, LoginGoesOn
<1>10. CASE Login!Poll
  <2>1. at = "poll" /\ UNCHANGED <<account, home, retries, exports, shown, code, event>>
    BY <1>10 DEF Login!Poll, Login!qr, Login!phone
  <2>2. CASE Login!AtHome /\ (Login!Proved \/ Login!AnswerLost(Login!Result, {"show", "raised"}))
    BY <1>1, <1>2, <2>1, <2>2, ProvedKeeps
       DEF Login!AtHome, Login!Proved, Login!AnswerLost
  <2>3. CASE at' \in {"show", "move"} /\ UNCHANGED <<standing, vaultKey, missed, unwritten, errors>>
    <3>1. Login!TypeOK'
      BY <1>1, <2>1, <2>3 DEF Login!TypeOK
    <3>2. AsksAtHome' /\ PhonesLeft' /\ vaultKey = 0
      BY <1>3, <1>4, <2>1, <2>3 DEF AsksAtHome, PhonesLeft
    <3> QED
      BY <2>1, <2>3, <3>1, <3>2, LoginGoesOn
  <2>4. CASE Login!Errs({"show", "raised"})
    <3>1. Login!TypeOK'
      BY <1>1, <1>2, <2>1, <2>4 DEF Login!Errs, Login!TypeOK
    <3>2. AsksAtHome' /\ PhonesLeft' /\ vaultKey = 0
      BY <1>3, <1>4, <2>1, <2>4 DEF Login!Errs, AsksAtHome, PhonesLeft
    <3> QED
      BY <2>1, <2>4, <3>1, <3>2, LoginGoesOn DEF Login!Errs
  <2> QED
    BY <1>10, <2>2, <2>3, <2>4 DEF Login!Poll
<1>11. CASE Login!Move
  <2>1. Login!TypeOK'
    BY <1>1, <1>2, <1>11 DEF Login!Move, Login!TypeOK, Login!phone
  <2>2. AsksAtHome' /\ PhonesLeft' /\ vaultKey = 0
    BY <1>3, <1>4, <1>11 DEF Login!Move, AsksAtHome, PhonesLeft, Login!phone
  <2> QED
    BY <1>11, <2>1, <2>2, LoginGoesOn DEF Login!Move
<1>12. CASE Login!Import \/ Login!SignIn \/ Login!Password
  <2>1. /\ at \in {"import", "code", "password"}
        /\ UNCHANGED <<account, home, retries, exports, shown, event>>
        /\ code' \in {"none", "valid", "dead"}
    BY <1>1, <1>12 DEF Login!Import, Login!SignIn, Login!Password, Login!qr, Login!phone
  <2>2. \/ Login!Accepted \/ Login!AskPassword
        \/ \E result \in {"half", "granted"} :
             Login!AnswerLost(result, {"show", "raised", "code", "password"})
        \/ Login!Errs({"show", "raised", "code", "password"})
    BY <1>2, <1>12 DEF Login!Import, Login!SignIn, Login!Password, Login!Proved,
         Login!AnswerLost, Login!Errs
  <2> QED
    BY <1>1, <1>5, <2>1, <2>2, ProvedKeeps
<1>13. CASE Login!SendCode
  <2>1. Login!TypeOK'
    BY <1>1, <1>2, <1>13 DEF Login!SendCode, Login!TypeOK, Login!qr
  <2>2. AsksAtHome' /\ PhonesLeft' /\ vaultKey = 0
    BY <1>3, <1>4, <1>13 DEF Login!SendCode, AsksAtHome, PhonesLeft
  <2> QED
    BY <1>13, <2>1, <2>2, LoginGoesOn DEF Login!SendCode
<1>14. CASE Login!SendCodeFails
  <2>1. /\ at = "phone" /\ retries' \in 0 .. MaxPhones /\ at' \in {"phone", "gave up"}
        /\ (at' # "gave up" => retries' < MaxPhones)
        /\ home' \in Login!Dcs /\ errors' \in 0 .. MaxErrors
    <3>1. at = "phone" /\ retries < MaxPhones /\ home' \in Login!Dcs /\ errors' \in 0 .. MaxErrors
      BY <1>1, <1>2, <1>4, <1>14 DEF Login!SendCodeFails
    <3>2. CASE at' = "phone" /\ UNCHANGED retries
      BY <1>1, <3>1, <3>2
    <3>3. CASE retries' = retries + 1 /\ at' = IF retries' < MaxPhones THEN "phone" ELSE "gave up"
      <4>1. retries \in Nat /\ retries + 1 \in 0 .. MaxPhones
        BY <1>1, <1>4, <3>1
      <4>2. retries' \in 0 .. MaxPhones
        BY <3>3, <4>1
      <4>3. at' \in {"phone", "gave up"} /\ (at' # "gave up" => retries' < MaxPhones)
        BY <3>3
      <4> QED
        BY <3>1, <4>2, <4>3
    <3> QED
      BY <1>14, <3>1, <3>2, <3>3 DEF Login!SendCodeFails
  <2>2. Login!TypeOK'
    BY <1>1, <1>14, <2>1 DEF Login!SendCodeFails, Login!TypeOK, Login!qr
  <2>3. AsksAtHome' /\ PhonesLeft' /\ vaultKey = 0
    BY <1>3, <2>1 DEF AsksAtHome, PhonesLeft
  <2> QED
    BY <1>14, <2>2, <2>3, LoginGoesOn DEF Login!SendCodeFails
<1>15. CASE UNCHANGED Login!vars
  BY <1>15 DEF Login!vars, Login!qr, Login!phone, LoginInv, Login!TypeOK, SavedAtTheEnd,
       GrantAtHome, AsksAtHome, PhonesLeft, Login!GrantIsSaved
<1> QED
  BY <1>6, <1>7, <1>8, <1>9, <1>10, <1>11, <1>12, <1>13, <1>14, <1>15 DEF Login!Next

\* The session that is saved is authorised, at the data centre of the account,
\* which is the only one whose key ever is; a login that ends as saved has saved
\* that key, whichever requests fail and answers are lost before; and when the
\* vault cannot be written, the login ends with the exception.
THEOREM LoginIsSaved ==
  ASSUME Login!LoginAssumption PROVE Login!Spec => []LoginInv
<1>1. Login!Init => LoginInv
  BY LoginInit
<1>2. LoginInv /\ [Login!Next]_(Login!vars) => LoginInv'
  BY LoginNext
<1> QED
  BY <1>1, <1>2, PTL DEF Login!Spec
=============================================================================
