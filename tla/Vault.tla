------------------------------- MODULE Vault -------------------------------
(***************************************************************************)
(* The session on disk.  The vault holds the authorisation key and the     *)
(* access hashes of users and chats.  Three writers replace it whole: the  *)
(* flush of the entity cache, which reads it first and merges, the         *)
(* bootstrap, which writes back what it has read before it asked the       *)
(* server, and Session.save, which writes what the bootstrap left in the   *)
(* session.  The process may end at any moment; writing is atomic and may  *)
(* raise an error.                                                         *)
(*                                                                         *)
(* Usernames are kept the way access hashes are and are left out, as are   *)
(* the keys of other data centres.  A bot token is always that of the      *)
(* account in the vault.                                                   *)
(***************************************************************************)
EXTENDS Integers

CONSTANTS
  Ids,        \* users and chats
  MaxMade,    \* bound: authorisation keys
  MaxTrouble  \* bound: requests and writes that fail, crashes, keys refused

\* What the constants are; MCParts assumes it of their values.
VaultAssumption == {MaxMade, MaxTrouble} \subseteq Nat

VARIABLES
  bot,      \* is there a bot token, or a user who logs in
  phase,    \* "down", "probe", "login", "run", "broken" or "closing"
  key,      \* auth_key, 0 when there is none
  made,     \* keys that were exchanged
  granted,  \* keys that the server has authorised and not refused since
  refused,  \* keys that it has authorised once
  again,    \* has a login failed since the bootstrap gave up on the vault
  mem,      \* entities: not known, without an access hash, or with one
  dirty,    \* entity_cache_dirty
  timer,    \* _entity_cache_flushing_soon
  disk,     \* the vault: a key, 0 when there is no file, and the access hashes
  held,     \* what the bootstrap has read, and session.data
  behind,   \* has the vault been replaced with an older one, or not been written
  known,    \* the access hashes that the last close was to save
  trouble

memory == <<key, mem, dirty, timer, held>>
history == <<behind, known, trouble>>
server == <<made, granted, refused>>
vars == <<bot, phase, again, memory, server, disk, history>>

NoVault == [key |-> 0, full |-> {}]
Full == {i \in Ids : mem[i] = "full"}
Trouble == trouble < MaxTrouble /\ trouble' = trouble + 1

Init ==
  /\ bot \in BOOLEAN /\ phase = "down" /\ key = 0 /\ made = 0
  /\ granted = {} /\ refused = {} /\ again = FALSE
  /\ mem = [i \in Ids |-> "none"] /\ dirty = FALSE /\ timer = FALSE
  /\ disk = NoVault /\ held = NoVault
  /\ behind = FALSE /\ known = {} /\ trouble = 0

-----------------------------------------------------------------------------
(* The bootstrap. *)

\* The constructor and the bootstrap restore the vault, which may set the timer;
\* without a vault there is a login.  When the data centre of the vault cannot be
\* reached the session starts at another, with a key of its own.
Start ==
  /\ phase = "down"
  /\ mem' = [i \in Ids |-> IF i \in disk.full THEN "full" ELSE "none"]
  /\ dirty' = FALSE /\ timer' \in {FALSE, disk.key # 0} /\ held' = disk
  /\ phase' = IF disk.key = 0 THEN "login" ELSE "probe"
  /\ \/ key' = disk.key /\ UNCHANGED <<made, trouble>>
     \/ disk.key # 0 /\ made < MaxMade /\ Trouble /\ made' = made + 1 /\ key' = made'
  /\ again' = TRUE /\ behind' = FALSE /\ known' = {}
  /\ UNCHANGED <<bot, granted, refused, disk>>

Write(data) == disk' = data /\ behind' = (behind \/ ~(Full \subseteq data.full))

\* users.getUsers is answered: the vault gets the key in use and, for the
\* rest, what was read from it before.
Probed ==
  /\ bot /\ phase = "probe" /\ key \in granted
  /\ Write([held EXCEPT !.key = key]) /\ held' = disk'
  /\ phase' = "run"
  /\ UNCHANGED <<bot, again, key, mem, dirty, timer, server, known, trouble>>

\* The session of a user is taken as it is.
Restored ==
  /\ ~bot /\ phase = "probe" /\ phase' = "run"
  /\ UNCHANGED <<bot, again, memory, server, disk, history>>

\* The key of a bot is refused: log in, with another attempt if that fails.
\* It logs in with that key, or, when the answer names no user or another one,
\* with a new key.
Refused ==
  /\ bot /\ phase = "probe" /\ key \notin granted
  /\ phase' = "login" /\ again' = FALSE
  /\ \/ UNCHANGED <<key, made>>
     \/ made < MaxMade /\ made' = made + 1 /\ key' = made'
  /\ UNCHANGED <<bot, mem, dirty, timer, held, granted, refused, disk, history>>

\* Anything else goes wrong in the bootstrap, writing the vault included.
GiveUp ==
  /\ phase = "probe" /\ Trouble
  /\ phase' = "login" /\ key' = 0 /\ again' = TRUE
  /\ UNCHANGED <<bot, mem, dirty, timer, held, server, disk, behind, known>>

\* A request of the login, which makes a key when there is none.
Request(k) ==
  /\ phase = "login"
  /\ k = (IF key = 0 THEN made + 1 ELSE key) /\ k <= MaxMade
  /\ made' = IF key = 0 THEN k ELSE made
  /\ UNCHANGED <<bot, mem, dirty, timer, refused, known>>

\* A failure is made up for by one more attempt if the bootstrap has not given
\* up on the vault before.
SecondAttempt == bot /\ ~again /\ phase' = "login" /\ key' = 0 /\ again' = TRUE

LoggedIn(k) ==
  /\ Request(k) /\ granted' = granted \union {k}
  /\ \/ /\ Write([key |-> k, full |-> {}]) /\ held' = disk'
        /\ key' = k /\ phase' = "run" /\ UNCHANGED <<again, trouble>>
     \/ /\ Trouble /\ UNCHANGED <<disk, held, behind>>
        /\ \/ SecondAttempt
           \/ (~bot \/ again) /\ key' = k /\ phase' = "broken" /\ UNCHANGED again

\* Mutant: the session is saved although the login was not accepted.
SavedAnyway(k) ==
  /\ Request(k) /\ Trouble /\ UNCHANGED <<granted, again>>
  /\ Write([key |-> k, full |-> {}]) /\ held' = disk'
  /\ key' = k /\ phase' = "run"

\* A bot whose login fails is started all the same, and so is a user after some
\* attempts.
LoginFails(k) ==
  /\ Request(k) /\ Trouble /\ UNCHANGED <<granted, disk, held, behind>>
  /\ \/ SecondAttempt
     \/ /\ ~bot \/ again
        /\ key' \in {key, k} /\ UNCHANGED again
        /\ phase' \in IF bot THEN {"run"} ELSE {"login", "run"}

-----------------------------------------------------------------------------
(* The entity cache. *)

Up == phase # "down"

\* An answer or update tells of an entity; one without an access hash does
\* not take away the one that is known.
Ingest(i, what) ==
  /\ Up
  /\ mem' = [mem EXCEPT ![i] = IF @ = "full" THEN @ ELSE what]
  /\ dirty' = TRUE /\ timer' = TRUE
  /\ UNCHANGED <<bot, phase, again, key, held, server, disk, history>>

\* The flush reads the vault, adds what memory has and writes it, unless
\* there is no vault or nothing to write.
Merged == [disk EXCEPT !.full = @ \union Full]
CanFlush == disk.key # 0 /\ \E i \in Ids : mem[i] # "none" \/ i \in disk.full

\* What _entity_cache_flush does; it says nothing when it fails.
Flush(must) ==
  IF (must \/ dirty) /\ CanFlush
  THEN \/ disk' = Merged /\ dirty' = FALSE /\ behind' = FALSE /\ UNCHANGED trouble
       \/ Trouble /\ behind' = TRUE /\ UNCHANGED <<disk, dirty>>
  ELSE /\ behind' = (behind \/ (disk.key = 0 /\ Full # {}))
       /\ UNCHANGED <<disk, dirty, trouble>>

\* 30 seconds after the first change.
TimerFires ==
  /\ Up /\ timer /\ timer' = FALSE /\ Flush(FALSE)
  /\ UNCHANGED <<bot, phase, again, key, mem, held, server, known>>

\* Session.save, called by the program.
Save ==
  /\ Up /\ held.key # 0 /\ Trouble
  /\ Write(held)
  /\ UNCHANGED <<bot, phase, again, memory, server, known>>

\* close flushes first and then closes the transports, which may still receive.
Close ==
  /\ phase \in {"probe", "login", "run", "broken"} /\ phase' = "closing"
  /\ Flush(TRUE) /\ known' = Full
  /\ UNCHANGED <<bot, again, key, mem, timer, held, server>>

\* The process ends after close, or by a crash.
End ==
  /\ Up
  /\ \/ phase = "closing" /\ UNCHANGED <<known, trouble>>
     \/ known' = {} /\ Trouble
  /\ phase' = "down" /\ mem' = [i \in Ids |-> "none"]
  /\ dirty' = FALSE /\ timer' = FALSE /\ key' = 0 /\ held' = NoVault
  /\ UNCHANGED <<bot, again, server, disk, behind>>

\* The server refuses a key from now on.
Revoke ==
  /\ Trouble
  /\ \E k \in granted : granted' = granted \ {k} /\ refused' = refused \union {k}
  /\ UNCHANGED <<bot, phase, again, memory, made, disk, behind, known>>

Next ==
  \/ Start \/ Probed \/ Restored \/ Refused \/ GiveUp
  \/ \E k \in 1 .. MaxMade : LoggedIn(k) \/ LoginFails(k)
  \/ \E i \in Ids : Ingest(i, "bare") \/ Ingest(i, "full")
  \/ TimerFires \/ Save \/ Close \/ End \/ Revoke

Spec == Init /\ [][Next]_vars

-----------------------------------------------------------------------------
(* Properties *)

\* The types of the variables.
TypeOK ==
  /\ {bot, again, dirty, timer, behind} \subseteq BOOLEAN
  /\ phase \in {"down", "probe", "login", "run", "broken", "closing"}
  /\ {key, made} \subseteq 0 .. MaxMade /\ {granted, refused} \subseteq SUBSET (1 .. MaxMade)
  /\ mem \in [Ids -> {"none", "bare", "full"}]
  /\ {disk, held} \subseteq [key : 0 .. MaxMade, full : SUBSET Ids]
  /\ known \subseteq Ids /\ trouble \in 0 .. MaxTrouble

\* The key in the vault is one that the server has authorised; memory never
\* loses an access hash that the vault has; what the vault lacks of those in
\* memory is to be written when the timer fires, unless an older vault was
\* written over it or the flush has failed; and after a close in which neither
\* happened a restart finds every access hash that the process had then.
SessionSurvives ==
  /\ disk.key # 0 => disk.key \in granted \union refused
  /\ Up => disk.full \subseteq Full
  /\ Up /\ ~behind /\ ~(Full \subseteq disk.full) => dirty /\ timer
  /\ phase = "down" /\ ~behind => known \subseteq disk.full
=============================================================================
