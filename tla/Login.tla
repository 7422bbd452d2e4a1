------------------------------- MODULE Login -------------------------------
(***************************************************************************)
(* The interactive login: by QR code (_mt_qr_auth_flow), and by phone      *)
(* number, code and password (_mt_auth_flow), with the move to the data    *)
(* centre of the account, where the client makes a key of its own.         *)
(*                                                                         *)
(* A request may be refused or fail, and may fail although the server has  *)
(* carried it out.  What the user types wrongly changes nothing and is no  *)
(* action.  Writing the vault may fail: no caller of the login catches it.  *)
(***************************************************************************)
EXTENDS Integers

CONSTANTS
  MaxExports,  \* bound: QR codes that are shown
  MaxPhones,   \* max_phone_retries
  MaxErrors    \* bound: requests, or writes of the vault, that fail

\* What the constants are; MCParts assumes it of their values.
LoginAssumption == {MaxExports, MaxPhones, MaxErrors} \subseteq Nat \ {0}

Dcs == {1, 2}
First == 1

VARIABLES
  account,   \* the data centre of the account, and whether it has a password
  at,        \* "menu", the request or prompt the login is at, or how it ended
  home,      \* the data centre the client is at, which stands for its key
  standing,  \* of the key of each data centre: "new", "half" or "granted"
  shown,     \* the QR code: "none", "shown" or "accepted" by the user
  event,     \* qr_update_ev
  code,      \* the code that was sent by phone: "none", "valid" or "dead"
  retries,   \* phone_retries
  vaultKey,  \* whose key was saved, 0 for none
  missed,    \* was an acceptance in an answer that was lost or not looked at
  unwritten, \* has writing the vault failed
  exports, errors

qr == <<shown, event, exports>>
phone == <<code, retries>>
slips == <<missed, unwritten>>
vars == <<account, at, home, standing, qr, phone, vaultKey, slips, errors>>

Init ==
  /\ account \in [dc : Dcs, password : BOOLEAN]
  /\ at = "menu" /\ home = First /\ standing = [d \in Dcs |-> "new"]
  /\ shown = "none" /\ event = FALSE
  /\ code = "none" /\ retries = 0
  /\ vaultKey = 0 /\ missed = FALSE /\ unwritten = FALSE /\ exports = 0 /\ errors = 0

Goto(a, b) == at = a /\ at' = b
Error == errors < MaxErrors /\ errors' = errors + 1

\* The menu, or the question whether to use a QR code.
Choose ==
  /\ Goto("menu", "export") \/ Goto("menu", "phone")
  /\ UNCHANGED <<account, home, standing, qr, phone, vaultKey, slips, errors>>

-----------------------------------------------------------------------------
(* What the server makes of a request that proves who the user is. *)

AtHome == home = account.dc

\* _write_vault is over: the login ends with it.
Saved == vaultKey' = home /\ at' = "saved" /\ UNCHANGED <<slips, errors>>

\* Mutant: the failure is caught, and the login reported as a success.
WriteIgnored ==
  /\ Error /\ at' = "saved" /\ unwritten' = TRUE
  /\ vaultKey' \in {vaultKey, home} /\ UNCHANGED missed

\* It raises, before the file is replaced or, at its last chmod, after, and
\* the bootstrap with it.
WriteFails ==
  /\ Error /\ at' = "raised" /\ unwritten' = TRUE
  /\ vaultKey' \in {vaultKey, home} /\ UNCHANGED missed

\* The key is authorised, and the next thing is to save it.
Accepted ==
  /\ standing' = [standing EXCEPT ![home] = "granted"]
  /\ Saved \/ WriteFails

\* Mutant: a password that is needed is not asked for.
PasswordSkipped ==
  /\ standing' = [standing EXCEPT ![home] = "half"]
  /\ Saved

AskPassword ==
  /\ standing' = [standing EXCEPT ![home] = "half"]
  /\ at' = "password" /\ UNCHANGED <<vaultKey, slips, errors>>

Proved == IF account.password THEN AskPassword ELSE Accepted

\* The answer is lost, and the login goes on at one of the places.
AnswerLost(result, places) ==
  /\ Error /\ at' \in places /\ missed' = TRUE
  /\ standing' = [standing EXCEPT ![home] = result]
  /\ UNCHANGED <<vaultKey, unwritten>>

Result == IF account.password THEN "half" ELSE "granted"

Errs(places) == Error /\ at' \in places /\ UNCHANGED <<standing, vaultKey, slips>>

-----------------------------------------------------------------------------
(* The QR code. *)

\* A new code is shown, and what was heard of the last one is forgotten.
Export ==
  /\ Goto("export", "show")
  /\ shown # "accepted" /\ standing[home] = "new" /\ exports < MaxExports
  /\ shown' = "shown" /\ event' = FALSE /\ exports' = exports + 1
  /\ UNCHANGED <<account, home, standing, phone, vaultKey, slips, errors>>

\* The last code was accepted when its time was over, or the answer that told of
\* it was lost: this answer is not looked at, and the login goes on by phone.
ExportTooLate ==
  /\ Goto("export", "phone") /\ missed' = TRUE
  /\ shown = "accepted" \/ standing[home] # "new"
  /\ standing' = [standing EXCEPT ![home] = IF AtHome /\ @ = "new" THEN Result ELSE @]
  /\ UNCHANGED <<account, home, qr, phone, vaultKey, unwritten, errors>>

ExportFails ==
  /\ at = "export" /\ Errs({"phone"})
  /\ UNCHANGED <<account, home, qr, phone>>

\* The user takes the code that is on the screen.
Scan ==
  /\ at \in {"show", "poll", "export"} /\ shown = "shown"
  /\ shown' = "accepted"
  /\ UNCHANGED <<account, at, home, standing, event, exports, phone, vaultKey, slips, errors>>

\* The reader finds the constructor of updateLoginToken, or its four bytes by
\* chance, in a message.
NewsArrives ==
  /\ ~event /\ event' = TRUE
  /\ UNCHANGED <<account, at, home, standing, shown, exports, phone, vaultKey, slips, errors>>

Woken ==
  /\ Goto("show", "poll") /\ event /\ event' = FALSE
  /\ UNCHANGED <<account, home, standing, shown, exports, phone, vaultKey, slips, errors>>

\* The time of the code is over.
TimeOver ==
  /\ Goto("show", "export") /\ UNCHANGED <<account, home, standing, qr, phone, vaultKey, slips, errors>>

\* An error of the server is followed by more waiting, another error ends the
\* bootstrap.
Poll ==
  /\ at = "poll"
  /\ \/ shown # "accepted" /\ at' = "show" /\ UNCHANGED <<standing, vaultKey, slips, errors>>
     \/ shown = "accepted" /\ AtHome /\ (Proved \/ AnswerLost(Result, {"show", "raised"}))
     \/ shown = "accepted" /\ ~AtHome /\ at' = "move" /\ UNCHANGED <<standing, vaultKey, slips, errors>>
     \/ Errs({"show", "raised"})
  /\ UNCHANGED <<account, home, qr, phone>>

\* loginTokenMigrateTo: another connection, another key.
Move ==
  /\ Goto("move", "import") /\ home' = account.dc
  /\ shown' = "none"
  /\ UNCHANGED <<account, standing, event, exports, phone, vaultKey, slips, errors>>

MoveFails ==
  /\ at = "move" /\ Errs({"raised"}) /\ UNCHANGED <<account, home, qr, phone>>

Import ==
  /\ at = "import"
  /\ Proved \/ AnswerLost(Result, {"show", "raised"}) \/ Errs({"show", "raised"})
  /\ UNCHANGED <<account, home, qr, phone>>

-----------------------------------------------------------------------------
(* Phone number, code and password. *)

\* The request moves to the data centre of the number by itself.
SendCode ==
  /\ Goto("phone", "code") /\ home' = account.dc /\ code' = "valid"
  /\ UNCHANGED <<account, standing, qr, retries, vaultKey, slips, errors>>

\* An error is raised, and costs no retry, or is in the answer.
SendCodeFails ==
  /\ at = "phone" /\ Error
  /\ home' \in {home, account.dc}
  /\ \/ at' = "phone" /\ UNCHANGED retries
     \/ /\ retries' = retries + 1
        /\ at' = IF retries' < MaxPhones THEN "phone" ELSE "gave up"
  /\ UNCHANGED <<account, standing, qr, code, vaultKey, slips>>

\* Codes do not stay valid, and no path leads back to another one.
CodeDies ==
  /\ code = "valid" /\ code' = "dead"
  /\ UNCHANGED <<account, at, home, standing, qr, retries, vaultKey, slips, errors>>

SignIn ==
  /\ at = "code" /\ code = "valid" /\ code' = "dead"
  /\ Proved \/ AnswerLost(Result, {"code"})
  /\ UNCHANGED <<account, home, qr, retries>>

\* The right password.
Password ==
  /\ at = "password" /\ standing[home] = "half"
  /\ Accepted \/ AnswerLost("granted", {"password"})
  /\ UNCHANGED <<account, home, qr, phone>>

Next ==
  \/ Choose \/ Export \/ ExportTooLate \/ ExportFails \/ Scan \/ NewsArrives
  \/ Woken \/ TimeOver \/ Poll \/ Move \/ MoveFails \/ Import
  \/ SendCode \/ SendCodeFails \/ CodeDies \/ SignIn \/ Password

Spec == Init /\ [][Next]_vars

-----------------------------------------------------------------------------
(* Properties *)

\* The types of the variables.
TypeOK ==
  /\ account \in [dc : Dcs, password : BOOLEAN] /\ home \in Dcs
  /\ at \in {"menu", "export", "show", "poll", "move", "import", "phone", "code",
             "password", "saved", "raised", "gave up"}
  /\ standing \in [Dcs -> {"new", "half", "granted"}] /\ vaultKey \in Dcs \union {0}
  /\ shown \in {"none", "shown", "accepted"} /\ code \in {"none", "valid", "dead"}
  /\ {event, missed, unwritten} \subseteq BOOLEAN /\ retries \in 0 .. MaxPhones
  /\ exports \in 0 .. MaxExports /\ errors \in 0 .. MaxErrors

\* The session that is saved is authorised, with its password where there is
\* one, at the data centre of the account.  No key is left authorised and not
\* saved, unless the answer that said so was lost, or was that to an export
\* after the time of the code, or the vault could not be written; a login that
\* ends as saved leaves none at all, and one whose vault could not be written
\* does not end as saved.
GrantIsSaved ==
  /\ vaultKey # 0 => standing[vaultKey] = "granted" /\ vaultKey = account.dc
  /\ \A d \in Dcs : standing[d] = "granted" =>
       vaultKey = d \/ (missed /\ at # "saved") \/ unwritten
  /\ unwritten => at = "raised"
=============================================================================
