------------------------------ MODULE MCParts ------------------------------
(***************************************************************************)
(* Eight parts of the program that do not touch each other: the first     *)
(* state chooses one, and the behaviour is one of that part while the      *)
(* variables of the others keep their first values.                        *)
(***************************************************************************)
EXTENDS Integers, Sequences

CONSTANTS LayerOf, Floor, MaxVer, MaxFaults,
          Tasks, MaxKeys, MaxSenders, MaxUpsets,
          Part, MaxUnits, MaxConns, MaxParts,
          Keys, Ttls, MaxTime, MaxSaves,
          Items, Batches, Limits, MaxChanges,
          Ids, MaxMade, MaxTrouble,
          MaxExports, MaxPhones, MaxErrors

\* Version 2 of api.tl brings no new layer, version 3 does.
Layers == <<1, 1, 2>>

VARIABLES part,
  up, text, etag, layer, pc, bg, want, got, tag, loaded, active, faults,
  key, sender, keyOf, open, lost, lock, callPc, mine, auth, again, file, made,
  revoked, upsets, began, callFaults,
  downMode, length, size, downConns, downPc, refreshed, attempt, lanes, fetching,
  out, target,
  mode, total, chunks, conns, upPc, read, job, index, data, sent, stored,
  now, states, saved, running, behind, fails,
  kind, batch, limit, place, offset, left, buf, full, given, state, steady, added, removed,
  bot, phase, authKey, exchanged, granted, refused, retried, mem, dirty, timer, disk, held,
  older, known, trouble,
  account, at, home, standing, shown, event, code, retries, vaultKey, missed, unwritten,
  exports, errors

Schema == INSTANCE SchemaCache
Dc == INSTANCE DataCentres WITH pc <- callPc, faults <- callFaults, MaxFaults <- MaxUpsets
Down == INSTANCE Download WITH mode <- downMode, file <- length, conns <- downConns,
                               pc <- downPc, active <- fetching
Up == INSTANCE Upload WITH pc <- upPc
Fsm == INSTANCE Fsm WITH up <- running
Iter == INSTANCE Iterate WITH out <- given
Vault == INSTANCE Vault WITH key <- authKey, made <- exchanged, again <- retried, behind <- older
Login == INSTANCE Login

ASSUME PartsAssumption ==
  /\ Schema!SchemaAssumption /\ Dc!DataCentresAssumption
  /\ Down!DownloadAssumption /\ Up!UploadAssumption /\ Fsm!FsmAssumption
  /\ Iter!IterateAssumption /\ Vault!VaultAssumption /\ Login!LoginAssumption

schemaVars == <<up, text, etag, layer, pc, bg, want, got, tag, loaded, active, faults>>
dcVars == <<key, sender, keyOf, open, lost, lock, callPc, mine, auth, again, file, made,
            revoked, upsets, began, callFaults>>
downVars == <<downMode, length, size, downConns, downPc, refreshed, attempt, lanes,
              fetching, out, target>>
upVars == <<mode, total, chunks, conns, upPc, read, job, index, data, sent, stored>>
fsmVars == <<now, states, saved, running, behind, fails>>
iterVars == <<kind, batch, limit, place, offset, left, buf, full, given, state, steady,
              added, removed>>
vaultVars == <<bot, phase, authKey, exchanged, granted, refused, retried, mem, dirty, timer,
               disk, held, older, known, trouble>>
loginVars == <<account, at, home, standing, shown, event, code, retries, vaultKey, missed,
               unwritten, exports, errors>>
transfer == <<downVars, upVars, iterVars>>
session == <<vaultVars, loginVars>>

Parts == {"schema", "dc", "download", "upload", "fsm", "iterate", "vault", "login"}
vars == <<part, schemaVars, dcVars, fsmVars, transfer, session>>

AnyBatch == CHOOSE b \in Batches : TRUE

\* Only the part that is chosen has more than one first state to explore.
Init ==
  /\ part \in Parts
  /\ Schema!Init /\ Dc!Init /\ Fsm!Init
  /\ Down!Init /\ (part # "download" => downMode = "plain" /\ length = 0)
  /\ Up!Init /\ (part # "upload" => mode = "plain" /\ total = 1 /\ chunks = 0)
  /\ Iter!Init /\ (part # "iterate" => kind = "messages" /\ batch = AnyBatch /\ limit = 0 /\ steady = {})
  /\ Vault!Init /\ (part # "vault" => bot)
  /\ Login!Init /\ (part # "login" => account = [dc |-> 1, password |-> FALSE])

Chosen(p) == part = p /\ UNCHANGED part

Next ==
  \/ Chosen("schema") /\ Schema!Next /\ UNCHANGED <<dcVars, fsmVars, transfer, session>>
  \/ Chosen("dc") /\ Dc!Next /\ UNCHANGED <<schemaVars, fsmVars, transfer, session>>
  \/ Chosen("fsm") /\ Fsm!Next /\ UNCHANGED <<schemaVars, dcVars, transfer, session>>
  \/ /\ UNCHANGED <<schemaVars, dcVars, fsmVars, session>>
     /\ \/ Chosen("download") /\ Down!Next /\ UNCHANGED <<upVars, iterVars>>
        \/ Chosen("upload") /\ Up!Next /\ UNCHANGED <<downVars, iterVars>>
        \/ Chosen("iterate") /\ Iter!Next /\ UNCHANGED <<downVars, upVars>>
  \/ /\ UNCHANGED <<schemaVars, dcVars, fsmVars, transfer>>
     /\ \/ Chosen("vault") /\ Vault!Next /\ UNCHANGED loginVars
        \/ Chosen("login") /\ Login!Next /\ UNCHANGED vaultVars

Spec == Init /\ [][Next]_vars

\* The fairness of the parts, for the chosen one.
SchemaStep == Chosen("schema") /\ Schema!Step /\ UNCHANGED <<dcVars, fsmVars, transfer, session>>
CallStep(t) == Chosen("dc") /\ Dc!TaskStep(t) /\ UNCHANGED <<schemaVars, fsmVars, transfer, session>>

LiveSpec == Spec /\ WF_vars(SchemaStep) /\ \A t \in Tasks : WF_vars(CallStep(t))

-----------------------------------------------------------------------------
(* The properties are those of the parts. *)

\* The types of the variables of every part.
TypeOK ==
  /\ Schema!TypeOK /\ Dc!TypeOK /\ Down!TypeOK /\ Up!TypeOK /\ Fsm!TypeOK
  /\ Iter!TypeOK /\ Vault!TypeOK /\ Login!TypeOK

\* An etag never names a newer text than the file holds.
EtagsNotAhead == Schema!EtagsNotAhead

\* A call fails for an authorisation that was good when it began, and is
\* cancelled only for one that is refused.
FailuresHaveCause == Dc!FailuresHaveCause

\* A download leaves the old file or the whole new one, a part is uploaded with
\* its own chunk, and a list that is fetched in batches misses and repeats
\* nothing that stays in its place.
PiecesMakeWhole == Down!WholeFile /\ Up!PartsInPlace /\ Iter!NothingSkipped

\* A restart finds the conversation states that live, the access hashes that
\* were known and a session that is authorised.
SurvivesRestart == Fsm!SurvivesRestart /\ Vault!SessionSurvives /\ Login!GrantIsSaved

\* The cache becomes that of upstream, and every call ends.
Completes == (part = "schema" => Schema!CatchesUp) /\ Dc!CallsEnd
=============================================================================
